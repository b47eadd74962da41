----------------------------- MODULE ResourcePool -----------------------------
(***************************************************************************)
(* What ResourceWaiter.wait_for promises the steps that enter it: a step    *)
(* asks for an amount, is let in at a moment when what everybody has been   *)
(* given stays within the capacity, and gives the amount back when it       *)
(* leaves.  Who is let in first, and how a greenlet is woken, is not part   *)
(* of the promise.                                                          *)
(***************************************************************************)
EXTENDS Sums

CONSTANTS N, Capacity

Greenlets == 1..N
Dim == {"cpu", "memory", "disk", "net"}

VARIABLES
  place,  \* where each greenlet is: "out", "asking" or "in"
  need    \* the amount each greenlet asked for last

vars == <<place, need>>

Given(d) == Sum([g \in Greenlets |-> IF place[g] = "in" THEN need[g][d] ELSE 0], N)

WithinCapacity(given) == \A d \in Dim : given[d] <= Capacity[d]

Init ==
  /\ place = [g \in Greenlets |-> "out"]
  /\ need = [g \in Greenlets |-> Capacity]

(* Only g's need changes, to any amount: the caller chooses it. *)
OnlyNeedOf(g) == need' = [h \in Greenlets |-> IF h = g THEN need'[g] ELSE need[h]]

(* The amount asked for is within the capacity: larger ones are clamped. *)
Ask(g) ==
  /\ place[g] = "out"
  /\ place' = [place EXCEPT ![g] = "asking"]
  /\ OnlyNeedOf(g)
  /\ WithinCapacity(need'[g])

LetIn(g) ==
  /\ place[g] = "asking"
  /\ place' = [place EXCEPT ![g] = "in"]
  /\ WithinCapacity([d \in Dim |-> Given(d) + need[g][d]])
  /\ UNCHANGED need

AskAndLetIn(g) ==
  /\ place[g] = "out"
  /\ place' = [place EXCEPT ![g] = "in"]
  /\ OnlyNeedOf(g)
  /\ WithinCapacity([d \in Dim |-> Given(d) + need'[g][d]])

(* A step that is killed while it asks. *)
GiveUp(g) ==
  /\ place[g] = "asking"
  /\ place' = [place EXCEPT ![g] = "out"]
  /\ UNCHANGED need

GiveBack(g) ==
  /\ place[g] = "in"
  /\ place' = [place EXCEPT ![g] = "out"]
  /\ UNCHANGED need

Next ==
  \E g \in Greenlets :
    Ask(g) \/ LetIn(g) \/ AskAndLetIn(g) \/ GiveUp(g) \/ GiveBack(g)

Spec == Init /\ [][Next]_vars
===============================================================================
