----------------------------- MODULE ResourceWaiter -----------------------------
(***************************************************************************)
(* recipe_engine/internal/resource_semaphore.py: the ResourceWaiter that    *)
(* RecipeEngine.run_step enters around every subprocess, so that the steps  *)
(* running at one time never cost more cpu, memory, disk and network than   *)
(* the machine has.                                                         *)
(*                                                                          *)
(* Greenlets are scheduled cooperatively: a greenlet runs until it blocks.  *)
(* wait_for blocks in `wake_me.get()` and, while it leaves, in              *)
(* `chan.put(None)`; every action is the code between two such points.  The *)
(* loop that scans the waiters does not block; it is modelled one iteration *)
(* at a time, and Busy keeps every other greenlet from moving meanwhile.    *)
(***************************************************************************)
EXTENDS Sums, Sequences, FiniteSets

CONSTANTS
  N,          \* the greenlets that run steps are 1..N
  Capacity,   \* the _millicores_max, _memory_max, _disk_max and _net_max fields
  Costs,      \* the ResourceCosts a step may declare
  MaxSteps,   \* bound: how many steps a greenlet runs
  MaxCancels  \* bound: how many blocked greenlets are killed by Future.cancel

Greenlets == 1..N

(* The fields of ResourceCost, in the order attr.s compares them. *)
Fields == <<"cpu", "memory", "disk", "net">>
Dim    == {"cpu", "memory", "disk", "net"}
Cost   == [Dim -> Nat]

(* cpu and memory are clamped to the machine's maximum by wait_for; disk and  *)
(* net are percentages that ResourceCost refuses above the maximum of 100.    *)
ASSUME ParametersOK ==
  /\ N \in Nat /\ MaxSteps \in Nat /\ MaxCancels \in Nat
  /\ Capacity \in Cost
  /\ Costs \subseteq Cost
  /\ \A c \in Costs : c["disk"] <= Capacity["disk"] /\ c["net"] <= Capacity["net"]

VARIABLES
  avail,      \* _millicores_available, _memory_available, ...
  waiters,    \* _waiters: the entries; their list order is Before
  waiterUid,  \* _waiter_uid
  todo,       \* the entries the scan in progress has not looked at
  pc,         \* where each greenlet is in wait_for
  cost,       \* the local `resources` of each greenlet's wait_for
  wakeMe,     \* the uid of the Channel each greenlet blocks on
  toWake,     \* the local `to_wake` of each greenlet's wait_for
  steps,      \* how many steps each greenlet has started
  cancels     \* how many greenlets have been killed while blocked

vars == <<avail, waiters, waiterUid, todo, pc, cost, wakeMe, toWake, steps,
          cancels>>

(* "idle"     outside wait_for                                              *)
(* "waiting"  blocked in wake_me.get()                                      *)
(* "holding"  in the body of the with statement, resources taken            *)
(* "free"     in the body of the with statement of a step without a cost    *)
(* "scanning" in the finally block, looking for waiters that fit            *)
(* "waking"   in the finally block, blocked in chan.put()                   *)
PC    == {"idle", "waiting", "holding", "free", "scanning", "waking"}
Entry == [cost : Cost, uid : Nat, who : Greenlets]

-------------------------------------------------------------------------------
Minus(a, c) == [d \in Dim |-> a[d] - c[d]]
Plus(a, c)  == [d \in Dim |-> a[d] + c[d]]

(* An amount larger than the machine has is replaced by the maximum. *)
Clamp(c) ==
  [d \in Dim |-> IF d \in {"cpu", "memory"} /\ c[d] > Capacity[d]
                   THEN Capacity[d] ELSE c[d]]

Fits(c) == \A d \in Dim : c[d] <= avail[d]

(* `sort(reverse=True)` puts an entry before another when its (cost, uid) is  *)
(* larger: costs are compared field by field, then the uids.                  *)
SortKey(e) == [i \in 1..5 |-> IF i = 5 THEN e.uid ELSE e.cost[Fields[i]]]

BeforeSmallestFirst(e, f) ==
  \E i \in 1..5 : /\ SortKey(e)[i] < SortKey(f)[i]
                  /\ \A j \in 1..(i - 1) : SortKey(e)[j] = SortKey(f)[j]

Before(e, f) ==
  \E i \in 1..5 : /\ SortKey(e)[i] > SortKey(f)[i]
                  /\ \A j \in 1..(i - 1) : SortKey(e)[j] = SortKey(f)[j]

Busy == \E g \in Greenlets : pc[g] = "scanning"

-------------------------------------------------------------------------------
Init ==
  /\ avail = Capacity
  /\ waiters = {} /\ waiterUid = 0 /\ todo = {}
  /\ pc = [g \in Greenlets |-> "idle"]
  /\ cost = [g \in Greenlets |-> Capacity]
  /\ wakeMe = [g \in Greenlets |-> 0]
  /\ toWake = [g \in Greenlets |-> <<>>]
  /\ steps = [g \in Greenlets |-> 0]
  /\ cancels = 0

StartStep(g) ==
  /\ ~Busy
  /\ pc[g] = "idle"
  /\ steps[g] < MaxSteps
  /\ steps' = [steps EXCEPT ![g] = @ + 1]

(* A step without a command has no cost (None): it takes nothing. *)
EnterFree(g) ==
  /\ StartStep(g)
  /\ pc' = [pc EXCEPT ![g] = "free"]
  /\ UNCHANGED <<avail, waiters, waiterUid, todo, cost, wakeMe, toWake, cancels>>

ExitFree(g) ==
  /\ ~Busy
  /\ pc[g] = "free"
  /\ pc' = [pc EXCEPT ![g] = "idle"]
  /\ UNCHANGED <<avail, waiters, waiterUid, todo, cost, wakeMe, toWake, steps,
                 cancels>>

(* `if resources and (...)`: ResourceCost defines no __bool__, so every cost   *)
(* object is true, zero or not: a step without cost waits when others wait.    *)
MustWait(c) == waiters # {} \/ ~Fits(c)

(* Take the resources at once. *)
EnterNow(g, c) ==
  /\ StartStep(g)
  /\ ~MustWait(Clamp(c))
  /\ avail' = Minus(avail, Clamp(c))
  /\ cost' = [cost EXCEPT ![g] = Clamp(c)]
  /\ pc' = [pc EXCEPT ![g] = "holding"]
  /\ UNCHANGED <<waiters, waiterUid, todo, wakeMe, toWake, cancels>>

(* Join the waiters and block. *)
EnterWaiting(g, c) ==
  /\ StartStep(g)
  /\ MustWait(Clamp(c))
  /\ waiterUid' = waiterUid + 1
  /\ waiters' = waiters \cup {[cost |-> Clamp(c), uid |-> waiterUid', who |-> g]}
  /\ cost' = [cost EXCEPT ![g] = Clamp(c)]
  /\ wakeMe' = [wakeMe EXCEPT ![g] = waiterUid']
  /\ pc' = [pc EXCEPT ![g] = "waiting"]
  /\ UNCHANGED <<avail, todo, toWake, cancels>>

ExitHoldingNoScan(g) ==
  /\ ~Busy
  /\ pc[g] = "holding"
  /\ avail' = Plus(avail, cost[g])
  /\ pc' = [pc EXCEPT ![g] = "idle"]
  /\ UNCHANGED <<waiters, waiterUid, todo, cost, wakeMe, toWake, steps, cancels>>

(* The body ends, normally or not: the finally block starts. *)
ExitHolding(g) ==
  /\ ~Busy
  /\ pc[g] = "holding"
  /\ avail' = Plus(avail, cost[g])
  /\ todo' = waiters
  /\ pc' = [pc EXCEPT ![g] = "scanning"]
  /\ UNCHANGED <<waiters, waiterUid, cost, wakeMe, toWake, steps, cancels>>

IsFirst(e, es) == e \in es /\ \A f \in es \ {e} : Before(e, f)

ScanNoReserve(g) ==
  /\ pc[g] = "scanning"
  /\ \E e \in todo :
       /\ IsFirst(e, todo)
       /\ todo' = todo \ {e}
       /\ IF Fits(e.cost)
            THEN /\ toWake' = [toWake EXCEPT ![g] = Append(@, e)]
                 /\ waiters' = waiters \ {e}
            ELSE UNCHANGED <<toWake, waiters>>
  /\ UNCHANGED <<avail, waiterUid, pc, cost, wakeMe, steps, cancels>>

ScanForgets(g) ==
  /\ pc[g] = "scanning"
  /\ \E e \in todo :
       /\ IsFirst(e, todo)
       /\ todo' = todo \ {e}
       /\ waiters' = waiters \ {e}
       /\ IF Fits(e.cost)
            THEN /\ avail' = Minus(avail, e.cost)
                 /\ toWake' = [toWake EXCEPT ![g] = Append(@, e)]
            ELSE UNCHANGED <<avail, toWake>>
  /\ UNCHANGED <<waiterUid, pc, cost, wakeMe, steps, cancels>>

(* One iteration of the scan: reserve the resources of a waiter that fits and *)
(* set it apart to be woken.  `self._waiters = to_keep` comes after the loop, *)
(* but no other greenlet looks at _waiters before.                            *)
Scan(g) ==
  /\ pc[g] = "scanning"
  /\ \E e \in todo :
       /\ IsFirst(e, todo)
       /\ todo' = todo \ {e}
       /\ IF Fits(e.cost)
            THEN /\ avail' = Minus(avail, e.cost)
                 /\ toWake' = [toWake EXCEPT ![g] = Append(@, e)]
                 /\ waiters' = waiters \ {e}
            ELSE UNCHANGED <<avail, toWake, waiters>>
  /\ UNCHANGED <<waiterUid, pc, cost, wakeMe, steps, cancels>>

(* The scan is over: leave wait_for, or block in the first chan.put(). *)
EndScan(g) ==
  /\ pc[g] = "scanning"
  /\ todo = {}
  /\ pc' = [pc EXCEPT ![g] = IF toWake[g] = <<>> THEN "idle" ELSE "waking"]
  /\ UNCHANGED <<avail, waiters, waiterUid, todo, cost, wakeMe, toWake, steps,
                 cancels>>

Listens(e) == pc[e.who] = "waiting" /\ wakeMe[e.who] = e.uid

(* gevent's Channel is a rendezvous: put() returns once a getter has taken    *)
(* the item.  The woken greenlet enters its body; the waker goes on with the  *)
(* next channel, or leaves wait_for.                                          *)
WakeOnlyOne(g) ==
  /\ ~Busy
  /\ pc[g] = "waking"
  /\ Listens(Head(toWake[g]))
  /\ toWake' = [toWake EXCEPT ![g] = <<>>]
  /\ pc' = [pc EXCEPT ![Head(toWake[g]).who] = "holding", ![g] = "idle"]
  /\ UNCHANGED <<avail, waiters, waiterUid, todo, cost, wakeMe, steps, cancels>>

Wake(g) ==
  /\ ~Busy
  /\ pc[g] = "waking"
  /\ Listens(Head(toWake[g]))
  /\ toWake' = [toWake EXCEPT ![g] = Tail(@)]
  /\ pc' = [pc EXCEPT ![Head(toWake[g]).who] = "holding",
                      ![g] = IF Len(toWake[g]) = 1 THEN "idle" ELSE "waking"]
  /\ UNCHANGED <<avail, waiters, waiterUid, todo, cost, wakeMe, steps, cancels>>

CancelGivesBack(g) ==
  /\ ~Busy
  /\ cancels < MaxCancels
  /\ cancels' = cancels + 1
  /\ pc[g] \in {"waiting", "waking"}
  /\ pc' = [pc EXCEPT ![g] = "idle"]
  /\ avail' = IF pc[g] = "waiting" THEN Plus(avail, cost[g]) ELSE avail
  /\ toWake' = [toWake EXCEPT ![g] = <<>>]
  /\ UNCHANGED <<waiters, waiterUid, todo, cost, wakeMe, steps>>

(* Future.cancel raises GreenletExit in a greenlet blocked in the semaphore.  *)
(* Killed in wake_me.get(), it is before the `try`: its entry stays where it  *)
(* is.  Killed in chan.put(), it never reaches the other channels.  Killed in *)
(* the body, it does what ExitHolding says.  run_step catches GreenletExit,   *)
(* so the greenlet may go on to other steps.                                  *)
Cancel(g) ==
  /\ ~Busy
  /\ cancels < MaxCancels
  /\ cancels' = cancels + 1
  /\ pc[g] \in {"waiting", "waking"}
  /\ pc' = [pc EXCEPT ![g] = "idle"]
  /\ toWake' = [toWake EXCEPT ![g] = <<>>]
  /\ UNCHANGED <<avail, waiters, waiterUid, todo, cost, wakeMe, steps>>

(* Every step has been run. *)
Terminated ==
  /\ \A g \in Greenlets : pc[g] = "idle" /\ steps[g] = MaxSteps
  /\ UNCHANGED vars

Enter(g) ==
  \/ EnterFree(g)
  \/ \E c \in Costs : EnterNow(g, c) \/ EnterWaiting(g, c)

Leave(g) == ExitFree(g) \/ ExitHolding(g) \/ Scan(g) \/ EndScan(g) \/ Wake(g)

Next ==
  \/ \E g \in Greenlets : Enter(g) \/ Leave(g) \/ Cancel(g)
  \/ Terminated

Spec == Init /\ [][Next]_vars

(* Every subprocess ends (steps have timeouts and builds have deadlines), and *)
(* the hub runs every greenlet that can run.  Nothing makes a recipe start    *)
(* another step.                                                              *)
Fairness == \A g \in Greenlets : WF_vars(Leave(g))

LiveSpec == Spec /\ Fairness

-------------------------------------------------------------------------------
TypeOK ==
  /\ avail \in Cost
  /\ waiters \subseteq Entry /\ todo \subseteq waiters
  /\ waiterUid \in Nat
  /\ pc \in [Greenlets -> PC]
  /\ cost \in [Greenlets -> Cost]
  /\ wakeMe \in [Greenlets -> Nat]
  /\ toWake \in [Greenlets -> Seq(Entry)]
  /\ steps \in [Greenlets -> Nat]
  /\ cancels \in Nat

EntryOf(g) == [cost |-> cost[g], uid |-> wakeMe[g], who |-> g]

(* The resources of g's step are taken: by g itself, or on its behalf by the  *)
(* greenlet that is about to wake it.                                         *)
Charged(g) ==
  \/ pc[g] = "holding"
  \/ pc[g] = "waiting" /\ EntryOf(g) \notin waiters

UseOf(d) == [g \in Greenlets |-> IF Charged(g) THEN cost[g][d] ELSE 0]

InUse(d) == Sum(UseOf(d), N)

(* No resource is ever oversubscribed, whatever is cancelled: what the steps  *)
(* that run or are about to be woken cost, with what is available, is at most *)
(* the machine's capacity (wait_for's bookkeeping, lines 141-158).            *)
NeverOversubscribed ==
  \A d \in Dim : avail[d] >= 0 /\ InUse(d) + avail[d] <= Capacity[d]

(* As long as no blocked greenlet is killed nothing leaks: what is in use and *)
(* what is available add up to the capacity (_decr and _incr are paired).     *)
NothingLeaks ==
  cancels = 0 => \A d \in Dim : InUse(d) + avail[d] = Capacity[d]

(* A greedy release leaves no idle capacity behind: when steps wait, at least *)
(* one of them does not fit in what is available (the scan, lines 152-159).   *)
BlockedForAReason ==
  ~Busy /\ waiters # {} => \E e \in waiters : ~Fits(e.cost)

(* No wakeup is lost: a blocked greenlet is among the waiters, or the         *)
(* greenlet that reserved its resources still has to wake it.                 *)
NoLostWakeup ==
  cancels = 0 =>
    \A g \in Greenlets : pc[g] = "waiting" =>
      \/ EntryOf(g) \in waiters
      \/ \E w \in Greenlets : /\ pc[w] \in {"scanning", "waking"}
                              /\ \E i \in DOMAIN toWake[w] : toWake[w][i] = EntryOf(g)

(* Nobody waits for nothing: while steps wait, some greenlet holds resources, *)
(* or has been given them, and its release will look at the waiters again.    *)
SomebodyWillRelease ==
  cancels = 0 /\ ~Busy /\ waiters # {} => \E g \in Greenlets : Charged(g)

(* What makes the properties above inductive.                                 *)
(* A greenlet is blocked in chan.put() only with a channel to put to.         *)
WakersHaveWork == \A g \in Greenlets : pc[g] = "waking" => toWake[g] # <<>>

(* The entries whose resources have been reserved and that are to be woken.   *)
Woken == UNION {{toWake[w][i] : i \in DOMAIN toWake[w]} : w \in Greenlets}

(* Uids are not reused.                                                       *)
UidsAreOld == \A e \in waiters \cup Woken : e.uid <= waiterUid

(* An entry that a blocked greenlet listens to is the one it made.            *)
EntriesMatch == \A e \in waiters \cup Woken : Listens(e) => e.cost = cost[e.who]

(* A waiter that has been given resources is no longer in the list.           *)
WokenLeftTheList == waiters \cap Woken = {}

(* Unless blocked greenlets are killed, every entry has somebody behind it.   *)
EntriesAreLive == cancels = 0 => \A e \in waiters : Listens(e)

(* Every waiter fits in an idle machine.                                      *)
EntriesWithinCapacity == \A e \in waiters : \A d \in Dim : e.cost[d] <= Capacity[d]

(* The waiters that the scan has kept do not fit.                             *)
KeptDoNotFit == Busy => \A e \in waiters \ todo : ~Fits(e.cost)

Bookkeeping ==
  /\ WakersHaveWork /\ UidsAreOld /\ EntriesMatch /\ WokenLeftTheList
  /\ EntriesAreLive /\ EntriesWithinCapacity /\ KeptDoNotFit

(* The order of (cpu, memory, disk, net) tuples, whatever the list does.       *)
Larger(c, d) ==
  \E i \in 1..4 : /\ c[Fields[i]] > d[Fields[i]]
                  /\ \A j \in 1..(i - 1) : c[Fields[j]] = d[Fields[j]]

(* What step/api.py says of the order: "this will pick the largest (cpu,      *)
(* memory, disk, net) step which fits the currently available resources"      *)
(* (recipe_modules/step/api.py:79-80).  No waiter is taken while a larger one *)
(* would fit (`sort(reverse=True)`, line 136).  The docstring of the class    *)
(* says something else: see FirstToBlockFirst.                                *)
LargestFirst ==
  [][\A e \in waiters \ waiters', f \in waiters :
       Larger(f.cost, e.cost) => ~Fits(f.cost)]_vars

(* Every step that waits for resources runs, when no blocked step is killed.  *)
EveryStepRuns ==
  \A g \in Greenlets : (pc[g] = "waiting" /\ cancels = 0) ~>
                         (pc[g] = "holding" \/ cancels > 0)

(* The pool of resources that wait_for promises its callers: ResourcePool.    *)
Pool == INSTANCE ResourcePool WITH
  need <- cost,
  place <- [g \in Greenlets |-> IF Charged(g) THEN "in"
                                ELSE IF pc[g] = "waiting" THEN "asking" ELSE "out"]

PoolSpec == Pool!Spec

(* "Exiting the context frees up the resources"                               *)
(* (resource_semaphore.py:113-114): once no step holds resources or has been  *)
(* promised them, all of them are available.                                  *)
AllFreeWhenUnused ==
  ~Busy /\ (\A g \in Greenlets : ~Charged(g)) => avail = Capacity

(* What the class itself says of the order: "in roughly FIFO order (i.e. if   *)
(* two tasks could potentially fit, the first one to block will be chosen     *)
(* over the second to unblock first)" (resource_semaphore.py:39-41).  The     *)
(* scan takes a larger waiter before an earlier one, and of equal waiters the *)
(* latest (line 136).                                                         *)
FirstToBlockFirst ==
  [][\A e \in waiters \ waiters', f \in waiters :
       f.uid < e.uid => ~Fits(f.cost)]_vars
===============================================================================
