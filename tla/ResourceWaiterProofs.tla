-------------------------- MODULE ResourceWaiterProofs --------------------------
(***************************************************************************)
(* Proofs about ResourceWaiter, for every number of greenlets, every        *)
(* capacity and every set of costs.                                         *)
(***************************************************************************)
EXTENDS ResourceWaiter, SumsProofs, SequenceTheorems

(* The elements of a tail, and when it is empty.                              *)
LEMMA TailFacts ==
  ASSUME NEW S, NEW s \in Seq(S), s # <<>>
  PROVE  /\ Head(s) = s[1] /\ 1 \in DOMAIN s
         /\ Tail(s) \in Seq(S)
         /\ \A i \in DOMAIN Tail(s) : i + 1 \in DOMAIN s /\ Tail(s)[i] = s[i + 1]
         /\ Len(s) = 1 <=> Tail(s) = <<>>
<1>1. Len(s) \in Nat \ {0} /\ Len(<<>>) = 0
  BY EmptySeq
<1>2. DOMAIN s = 1..Len(s)
  BY LenProperties
<1>3. /\ Tail(s) \in Seq(S) /\ Len(Tail(s)) = Len(s) - 1
      /\ \A i \in 1..Len(Tail(s)) : Tail(s)[i] = s[i + 1]
  BY HeadTailProperties
<1>4. DOMAIN Tail(s) = 1..Len(Tail(s))
  BY <1>3, LenProperties
<1>5. Len(s) = 1 <=> Tail(s) = <<>>
  <2>1. Tail(s) = <<>> <=> Len(Tail(s)) = 0
    BY <1>3, EmptySeq
  <2>2. QED
    BY <1>1, <1>3, <2>1
<1>6. QED
  BY <1>1, <1>2, <1>3, <1>4, <1>5

(* The elements of a sequence with one appended.                              *)
LEMMA AppendFacts ==
  ASSUME NEW S, NEW s \in Seq(S), NEW e \in S
  PROVE  /\ Append(s, e) \in Seq(S)
         /\ \A i \in DOMAIN Append(s, e) :
              \/ i \in DOMAIN s /\ Append(s, e)[i] = s[i]
              \/ Append(s, e)[i] = e
OBVIOUS

(* A clamped cost fits into the capacity in every dimension.                  *)
LEMMA ClampType ==
  ASSUME NEW c \in Costs
  PROVE  Clamp(c) \in Cost /\ \A d \in Dim : Clamp(c)[d] <= Capacity[d]
<1>1. c \in Cost /\ c["disk"] <= Capacity["disk"] /\ c["net"] <= Capacity["net"]
  BY ParametersOK
<1>2. \A d \in Dim : c[d] \in Nat /\ Capacity[d] \in Nat
  BY <1>1, ParametersOK DEF Cost
<1>3. Clamp(c) \in Cost
  BY <1>2 DEF Clamp, Cost
<1>4. ASSUME NEW d \in Dim
      PROVE  Clamp(c)[d] <= Capacity[d]
  <2>1. CASE d \in {"cpu", "memory"}
    BY <1>2, <2>1 DEF Clamp
  <2>2. CASE d \in {"disk", "net"}
    BY <1>1, <1>2, <2>2 DEF Clamp
  <2>3. QED
    BY <2>1, <2>2 DEF Dim
<1>5. QED
  BY <1>3, <1>4

(* Taking a cost that fits leaves a cost.                                     *)
LEMMA MinusType ==
  ASSUME NEW a \in Cost, NEW c \in Cost, \A d \in Dim : c[d] <= a[d]
  PROVE  Minus(a, c) \in Cost
BY DEF Minus, Cost

(* Giving a cost back leaves a cost.                                          *)
LEMMA PlusType ==
  ASSUME NEW a \in Cost, NEW c \in Cost
  PROVE  Plus(a, c) \in Cost
BY DEF Plus, Cost

-------------------------------------------------------------------------------
(* What the type invariant needs besides itself: Wake takes the head of       *)
(* toWake[g], which must not be empty.                                        *)
Typed == TypeOK /\ WakersHaveWork

(* The types hold at first; nobody has to be woken.                           *)
LEMMA TypedInit == Init => Typed
BY ParametersOK DEF Init, Typed, TypeOK, WakersHaveWork, PC, Entry, Cost

(* wait_for: an entry is added, or the resources are taken.                   *)
LEMMA TypedEnter ==
  ASSUME Typed, NEW g \in Greenlets, Enter(g)
  PROVE  Typed'
<1> USE DEF Typed, TypeOK, WakersHaveWork
<1>1. CASE EnterFree(g)
  BY <1>1 DEF EnterFree, StartStep, PC
<1>2. ASSUME NEW c \in Costs, EnterNow(g, c)
      PROVE  Typed'
  <2>1. Clamp(c) \in Cost
    BY ClampType
  <2>2. \A d \in Dim : Clamp(c)[d] <= avail[d]
    BY <1>2 DEF EnterNow, MustWait, Fits
  <2>3. Minus(avail, Clamp(c)) \in Cost
    BY <2>1, <2>2, MinusType
  <2>4. QED
    BY <1>2, <2>1, <2>3 DEF EnterNow, StartStep, PC
<1>3. ASSUME NEW c \in Costs, EnterWaiting(g, c)
      PROVE  Typed'
  <2>1. Clamp(c) \in Cost
    BY ClampType
  <2>2. waiterUid' \in Nat
    BY <1>3 DEF EnterWaiting
  <2>3. [cost |-> Clamp(c), uid |-> waiterUid', who |-> g] \in Entry
    BY <2>1, <2>2 DEF Entry
  <2>4. QED
    BY <1>3, <2>1, <2>2, <2>3 DEF EnterWaiting, StartStep, PC
<1>4. QED
  BY <1>1, <1>2, <1>3 DEF Enter

(* Exit, scan and wake-up: toWake only loses its head, or gains an entry.     *)
LEMMA TypedLeave ==
  ASSUME Typed, NEW g \in Greenlets, Leave(g)
  PROVE  Typed'
<1> USE DEF Typed, TypeOK, WakersHaveWork
<1>1. CASE ExitFree(g)
  BY <1>1 DEF ExitFree, PC
<1>2. CASE ExitHolding(g)
  <2>1. Plus(avail, cost[g]) \in Cost
    BY PlusType
  <2>2. QED
    BY <1>2, <2>1 DEF ExitHolding, PC
<1>3. CASE Scan(g)
  <2>1. PICK e \in todo :
          /\ todo' = todo \ {e}
          /\ IF Fits(e.cost)
               THEN /\ avail' = Minus(avail, e.cost)
                    /\ toWake' = [toWake EXCEPT ![g] = Append(@, e)]
                    /\ waiters' = waiters \ {e}
               ELSE UNCHANGED <<avail, toWake, waiters>>
    BY <1>3 DEF Scan
  <2>2. e \in Entry /\ e.cost \in Cost
    BY <2>1 DEF Entry
  <2>3. UNCHANGED <<waiterUid, pc, cost, wakeMe, steps, cancels>> /\ pc[g] = "scanning"
    BY <1>3 DEF Scan
  <2>4. CASE Fits(e.cost)
    <3>1. Minus(avail, e.cost) \in Cost
      BY <2>2, <2>4, MinusType DEF Fits
    <3>2. Append(toWake[g], e) \in Seq(Entry)
      BY <2>2
    <3>3. toWake' \in [Greenlets -> Seq(Entry)]
      BY <2>1, <2>4, <3>2
    <3>4. WakersHaveWork'
      BY <2>1, <2>3, <2>4
    <3>5. QED
      BY <2>1, <2>3, <2>4, <3>1, <3>3, <3>4
  <2>5. CASE ~Fits(e.cost)
    BY <2>1, <2>3, <2>5
  <2>6. QED
    BY <2>4, <2>5
<1>4. CASE EndScan(g)
  BY <1>4 DEF EndScan, PC
<1>5. CASE Wake(g)
  <2>1. toWake[g] # <<>> /\ toWake[g] \in Seq(Entry)
    BY <1>5 DEF Wake
  <2>2. Tail(toWake[g]) \in Seq(Entry)
    BY <2>1
  <2>3. Len(toWake[g]) # 1 => Tail(toWake[g]) # <<>>
    BY <2>1, TailFacts
  <2>4. /\ toWake' \in [Greenlets -> Seq(Entry)]
        /\ pc' \in [Greenlets -> PC]
    BY <1>5, <2>2 DEF Wake, PC
  <2>5. ASSUME NEW h \in Greenlets, pc'[h] = "waking"
        PROVE  toWake'[h] # <<>>
    <3>1. CASE h = g
      BY <1>5, <2>3, <2>5, <3>1 DEF Wake
    <3>2. CASE h # g
      BY <1>5, <2>5, <3>2 DEF Wake
    <3>3. QED
      BY <3>1, <3>2
  <2>6. QED
    BY <1>5, <2>4, <2>5 DEF Wake
<1>6. QED
  BY <1>1, <1>2, <1>3, <1>4, <1>5 DEF Leave

(* A cancelled waiter only changes where it is.                               *)
LEMMA TypedCancel ==
  ASSUME Typed, NEW g \in Greenlets, Cancel(g)
  PROVE  Typed'
BY DEF Typed, TypeOK, WakersHaveWork, Cancel, PC

(* Every step keeps the types.                                                *)
LEMMA TypedNext == Typed /\ [Next]_vars => Typed'
<1> SUFFICES ASSUME Typed, [Next]_vars
             PROVE  Typed'
  OBVIOUS
<1>1. CASE Next
  BY <1>1, TypedEnter, TypedLeave, TypedCancel
     DEF Next, Terminated, vars, Typed, TypeOK, WakersHaveWork
<1>2. CASE UNCHANGED vars
  BY <1>2 DEF vars, Typed, TypeOK, WakersHaveWork
<1>3. QED
  BY <1>1, <1>2

(* The fields of ResourceWaiter keep their types: no amount available ever    *)
(* becomes negative (_decr, lines 84-89, is only reached when _fits holds).   *)
THEOREM TypeCorrect == Spec => []TypeOK
<1>1. Typed => TypeOK
  BY DEF Typed
<1>2. QED
  BY <1>1, TypedInit, TypedNext, PTL DEF Spec

-------------------------------------------------------------------------------
(* Bookkeeping is inductive: what an entry says stays true until the greenlet *)
(* behind it is woken.                                                        *)
Book == Typed /\ Bookkeeping

(* What has been woken and not yet told are entries.                          *)
LEMMA WokenType ==
  ASSUME Typed
  PROVE  Woken \subseteq Entry
<1> SUFFICES ASSUME NEW w \in Greenlets, NEW i \in DOMAIN toWake[w]
             PROVE  toWake[w][i] \in Entry
  BY DEF Woken
<1> QED
  BY DEF Typed, TypeOK

(* As long as toWake stays, so do the entries on their way.                   *)
LEMMA WokenUnchanged ==
  ASSUME toWake' = toWake
  PROVE  Woken' = Woken
BY DEF Woken

(* A scan puts no more on its way than the entry it found.                    *)
LEMMA WokenAppend ==
  ASSUME Typed, NEW g \in Greenlets, NEW e \in Entry,
         toWake' = [toWake EXCEPT ![g] = Append(@, e)]
  PROVE  Woken' \subseteq Woken \cup {e}
<1> SUFFICES ASSUME NEW w \in Greenlets, NEW i \in DOMAIN toWake'[w]
             PROVE  toWake'[w][i] \in Woken \cup {e}
  BY DEF Woken
<1>1. toWake \in [Greenlets -> Seq(Entry)]
  BY DEF Typed, TypeOK
<1>2. CASE w = g
  <2>1. toWake'[w] = Append(toWake[g], e) /\ toWake[g] \in Seq(Entry)
    BY <1>1, <1>2
  <2>2. \/ i \in DOMAIN toWake[g] /\ toWake'[w][i] = toWake[g][i]
        \/ toWake'[w][i] = e
    BY <2>1, AppendFacts
  <2>3. QED
    BY <2>2 DEF Woken
<1>3. CASE w # g
  <2>1. toWake'[w] = toWake[w]
    BY <1>1, <1>3
  <2>2. QED
    BY <2>1 DEF Woken
<1>4. QED
  BY <1>2, <1>3

(* Telling one waiter takes nothing but his entry off the list.               *)
LEMMA WokenTail ==
  ASSUME Typed, NEW g \in Greenlets, toWake[g] # <<>>,
         toWake' = [toWake EXCEPT ![g] = Tail(@)]
  PROVE  Woken' \subseteq Woken /\ Head(toWake[g]) \in Woken
<1>1. toWake \in [Greenlets -> Seq(Entry)]
  BY DEF Typed, TypeOK
<1>2. /\ Head(toWake[g]) = toWake[g][1] /\ 1 \in DOMAIN toWake[g]
      /\ \A i \in DOMAIN Tail(toWake[g]) :
           i + 1 \in DOMAIN toWake[g] /\ Tail(toWake[g])[i] = toWake[g][i + 1]
  BY <1>1, TailFacts
<1>3. ASSUME NEW w \in Greenlets, NEW i \in DOMAIN toWake'[w]
      PROVE  toWake'[w][i] \in Woken
  <2>1. CASE w = g
    <3>1. toWake'[w] = Tail(toWake[g])
      BY <1>1, <2>1
    <3>2. i + 1 \in DOMAIN toWake[g] /\ toWake'[w][i] = toWake[g][i + 1]
      BY <1>2, <3>1
    <3>3. QED
      BY <3>2 DEF Woken
  <2>2. CASE w # g
    <3>1. toWake'[w] = toWake[w]
      BY <1>1, <2>2
    <3>2. QED
      BY <3>1 DEF Woken
  <2>3. QED
    BY <2>1, <2>2
<1>4. Woken' \subseteq Woken
  BY <1>3 DEF Woken
<1>5. QED
  BY <1>2, <1>4 DEF Woken

(* A cancelled waker forgets the entries it should have told.                 *)
LEMMA WokenForgotten ==
  ASSUME Typed, NEW g \in Greenlets, toWake' = [toWake EXCEPT ![g] = <<>>]
  PROVE  Woken' \subseteq Woken
<1> SUFFICES ASSUME NEW w \in Greenlets, NEW i \in DOMAIN toWake'[w]
             PROVE  toWake'[w][i] \in Woken
  BY DEF Woken
<1>1. toWake \in [Greenlets -> Seq(Entry)] /\ DOMAIN <<>> = {}
  BY DEF Typed, TypeOK
<1>2. w # g /\ toWake'[w] = toWake[w]
  BY <1>1
<1>3. QED
  BY <1>2 DEF Woken

(* The books hold at first: there are no entries.                             *)
LEMMA BookInit == Init => Book
<1> SUFFICES ASSUME Init
             PROVE  Bookkeeping
  BY TypedInit DEF Book
<1>1. Woken = {}
  BY DEF Init, Woken
<1> QED
  BY <1>1 DEF Init, Bookkeeping, WakersHaveWork, UidsAreOld, EntriesMatch,
         WokenLeftTheList, EntriesAreLive, EntriesWithinCapacity, KeptDoNotFit, Busy

(* A step that makes no entry and gives no greenlet a new channel.            *)
LEMMA BookStep ==
  ASSUME Book, Typed',
         waiters' \subseteq waiters, waiterUid' = waiterUid,
         (waiters \cup Woken)' \subseteq waiters \cup Woken,
         \A e \in Entry : Listens(e)' => Listens(e) /\ cost'[e.who] = cost[e.who]
  PROVE  UidsAreOld' /\ EntriesMatch' /\ EntriesWithinCapacity'
<1>1. (waiters \cup Woken)' \subseteq Entry
  BY WokenType DEF Book, Typed, TypeOK
<1>2. UidsAreOld'
  BY DEF Book, Bookkeeping, UidsAreOld
<1>3. EntriesMatch'
  <2> SUFFICES ASSUME NEW e \in (waiters \cup Woken)', Listens(e)'
               PROVE  e.cost = cost'[e.who]
    BY DEF EntriesMatch
  <2>1. e \in waiters \cup Woken /\ e \in Entry
    BY <1>1
  <2>2. QED
    BY <2>1 DEF Book, Bookkeeping, EntriesMatch
<1>4. EntriesWithinCapacity'
  BY DEF Book, Bookkeeping, EntriesWithinCapacity
<1>5. QED
  BY <1>2, <1>3, <1>4

(* The same, for a step that leaves the list of waiters alone.                *)
LEMMA BookQuiet ==
  ASSUME Book, Typed', KeptDoNotFit',
         waiters' = waiters, waiterUid' = waiterUid, Woken' \subseteq Woken,
         \A e \in Entry : Listens(e)' => Listens(e) /\ cost'[e.who] = cost[e.who],
         cancels' = 0 => cancels = 0 /\ \A e \in waiters : Listens(e) => Listens(e)'
  PROVE  Book'
<1>1. UidsAreOld' /\ EntriesMatch' /\ EntriesWithinCapacity'
  BY BookStep
<1>2. WakersHaveWork'
  BY DEF Typed
<1>3. WokenLeftTheList'
  BY DEF Book, Bookkeeping, WokenLeftTheList
<1>4. EntriesAreLive'
  BY DEF Book, Bookkeeping, EntriesAreLive
<1>5. QED
  BY <1>1, <1>2, <1>3, <1>4 DEF Book, Bookkeeping

(* The entry of a greenlet that listens to it is the one it made.             *)
LEMMA OneEntryEach ==
  ASSUME Book, NEW e \in waiters \cup Woken, Listens(e)
  PROVE  e = EntryOf(e.who)
<1>1. e \in Entry
  BY WokenType DEF Book, Typed, TypeOK
<1>2. e.cost = cost[e.who] /\ e.uid = wakeMe[e.who]
  BY DEF Book, Bookkeeping, EntriesMatch, Listens
<1>3. QED
  BY <1>1, <1>2 DEF Entry, EntryOf

(* A step without cost leaves no trace in the books.                          *)
LEMMA BookEnterFree ==
  ASSUME Book, NEW g \in Greenlets, EnterFree(g)
  PROVE  Book'
<1>1. Typed'
  BY TypedEnter DEF Book, Enter
<1>2. pc \in [Greenlets -> PC] /\ waiters \subseteq Entry
  BY DEF Book, Typed, TypeOK
<1>3. /\ ~Busy /\ pc[g] = "idle" /\ pc' = [pc EXCEPT ![g] = "free"]
      /\ UNCHANGED <<waiters, waiterUid, cost, wakeMe, toWake, cancels>>
  BY DEF EnterFree, StartStep
<1>4. KeptDoNotFit'
  BY <1>2, <1>3 DEF KeptDoNotFit, Busy
<1>5. \A e \in Entry : Listens(e)' = Listens(e)
  BY <1>2, <1>3 DEF Listens, Entry
<1>6. QED
  BY <1>1, <1>2, <1>3, <1>4, <1>5, WokenUnchanged, BookQuiet

(* Nor does its end.                                                          *)
LEMMA BookExitFree ==
  ASSUME Book, NEW g \in Greenlets, ExitFree(g)
  PROVE  Book'
<1>1. Typed'
  BY TypedLeave DEF Book, Leave
<1>2. pc \in [Greenlets -> PC] /\ waiters \subseteq Entry
  BY DEF Book, Typed, TypeOK
<1>3. /\ ~Busy /\ pc[g] = "free" /\ pc' = [pc EXCEPT ![g] = "idle"]
      /\ UNCHANGED <<waiters, waiterUid, cost, wakeMe, toWake, cancels>>
  BY DEF ExitFree
<1>4. KeptDoNotFit'
  BY <1>2, <1>3 DEF KeptDoNotFit, Busy
<1>5. \A e \in Entry : Listens(e)' = Listens(e)
  BY <1>2, <1>3 DEF Listens, Entry
<1>6. QED
  BY <1>1, <1>2, <1>3, <1>4, <1>5, WokenUnchanged, BookQuiet

(* Who fits at once has no entry.                                             *)
LEMMA BookEnterNow ==
  ASSUME Book, NEW g \in Greenlets, NEW c \in Costs, EnterNow(g, c)
  PROVE  Book'
<1>1. Typed'
  BY TypedEnter DEF Book, Enter
<1>2. /\ pc \in [Greenlets -> PC] /\ cost \in [Greenlets -> Cost]
      /\ waiters \subseteq Entry
  BY DEF Book, Typed, TypeOK
<1>3. /\ ~Busy /\ pc[g] = "idle" /\ pc' = [pc EXCEPT ![g] = "holding"]
      /\ cost' = [cost EXCEPT ![g] = Clamp(c)]
      /\ UNCHANGED <<waiters, waiterUid, wakeMe, toWake, cancels>>
  BY DEF EnterNow, StartStep
<1>4. KeptDoNotFit'
  BY <1>2, <1>3 DEF KeptDoNotFit, Busy
<1>5. \A e \in Entry : Listens(e)' = Listens(e)
  BY <1>2, <1>3 DEF Listens, Entry
<1>6. \A e \in Entry : Listens(e) => cost'[e.who] = cost[e.who]
  BY <1>2, <1>3 DEF Listens, Entry
<1>7. QED
  BY <1>1, <1>2, <1>3, <1>4, <1>5, <1>6, WokenUnchanged, BookQuiet

(* Who does not fit gets a uid of its own, so no entry is there twice.        *)
LEMMA BookEnterWaiting ==
  ASSUME Book, NEW g \in Greenlets, NEW c \in Costs, EnterWaiting(g, c)
  PROVE  Book'
<1>0. PICK new : new = [cost |-> Clamp(c), uid |-> waiterUid + 1, who |-> g]
  OBVIOUS
<1>1. Typed'
  BY TypedEnter DEF Book, Enter
<1>2. /\ pc \in [Greenlets -> PC] /\ cost \in [Greenlets -> Cost]
      /\ wakeMe \in [Greenlets -> Nat] /\ waiterUid \in Nat
      /\ waiters \subseteq Entry /\ Woken \subseteq Entry
  BY WokenType DEF Book, Typed, TypeOK
<1>3. /\ ~Busy /\ pc[g] = "idle" /\ pc' = [pc EXCEPT ![g] = "waiting"]
      /\ cost' = [cost EXCEPT ![g] = Clamp(c)]
      /\ wakeMe' = [wakeMe EXCEPT ![g] = waiterUid + 1]
      /\ waiterUid' = waiterUid + 1
      /\ waiters' = waiters \cup {new}
      /\ UNCHANGED <<toWake, cancels>>
  BY <1>0 DEF EnterWaiting, StartStep
<1>4. Woken' = Woken
  BY <1>3, WokenUnchanged
<1>5. new.cost = Clamp(c) /\ new.uid = waiterUid + 1 /\ new.who = g
  BY <1>0
<1>6. \A e \in waiters \cup Woken : e.uid \in Nat /\ e.uid <= waiterUid /\ e.who \in Greenlets
  BY <1>2 DEF Entry, Book, Bookkeeping, UidsAreOld
<1>7. UidsAreOld'
  BY <1>2, <1>3, <1>4, <1>5, <1>6 DEF UidsAreOld
<1>8. new \notin Woken
  BY <1>2, <1>5, <1>6
<1>9. WokenLeftTheList'
  BY <1>3, <1>4, <1>8 DEF Book, Bookkeeping, WokenLeftTheList
<1>10. ASSUME NEW e \in waiters \cup Woken
       PROVE  /\ Listens(e)' => Listens(e) /\ cost'[e.who] = cost[e.who]
              /\ Listens(e) => Listens(e)'
  <2>1. CASE e.who = g
    BY <1>2, <1>3, <1>6, <2>1 DEF Listens
  <2>2. CASE e.who # g
    BY <1>2, <1>3, <1>6, <2>2 DEF Listens
  <2>3. QED
    BY <2>1, <2>2
<1>11. EntriesMatch'
  <2>1. \A e \in waiters \cup Woken : Listens(e)' => e.cost = cost'[e.who]
    BY <1>10 DEF Book, Bookkeeping, EntriesMatch
  <2>2. new.cost = cost'[new.who]
    BY <1>2, <1>3, <1>5
  <2>3. QED
    BY <1>3, <1>4, <2>1, <2>2 DEF EntriesMatch
<1>12. EntriesAreLive'
  <2>1. Listens(new)'
    BY <1>2, <1>3, <1>5 DEF Listens
  <2>2. cancels' = 0 => \A e \in waiters : Listens(e)'
    BY <1>3, <1>10 DEF Book, Bookkeeping, EntriesAreLive
  <2>3. QED
    BY <1>3, <2>1, <2>2 DEF EntriesAreLive
<1>13. EntriesWithinCapacity'
  BY <1>3, <1>5, ClampType DEF Book, Bookkeeping, EntriesWithinCapacity
<1>14. KeptDoNotFit'
  BY <1>2, <1>3 DEF KeptDoNotFit, Busy
<1>15. QED
  BY <1>1, <1>7, <1>9, <1>11, <1>12, <1>13, <1>14
     DEF Book, Bookkeeping, Typed

(* The resources come back, and the scan they call for has begun.             *)
LEMMA BookExitHolding ==
  ASSUME Book, NEW g \in Greenlets, ExitHolding(g)
  PROVE  Book'
<1>1. Typed'
  BY TypedLeave DEF Book, Leave
<1>2. pc \in [Greenlets -> PC] /\ waiters \subseteq Entry
  BY DEF Book, Typed, TypeOK
<1>3. /\ pc[g] = "holding" /\ pc' = [pc EXCEPT ![g] = "scanning"]
      /\ todo' = waiters
      /\ UNCHANGED <<waiters, waiterUid, cost, wakeMe, toWake, cancels>>
  BY DEF ExitHolding
<1>4. KeptDoNotFit'
  BY <1>3 DEF KeptDoNotFit
<1>5. \A e \in Entry : Listens(e)' = Listens(e)
  BY <1>2, <1>3 DEF Listens, Entry
<1>6. QED
  BY <1>1, <1>2, <1>3, <1>4, <1>5, WokenUnchanged, BookQuiet

(* A scan ends when no waiter fits: the invariant on waiters holds again.     *)
LEMMA BookEndScan ==
  ASSUME Book, NEW g \in Greenlets, EndScan(g)
  PROVE  Book'
<1>1. Typed'
  BY TypedLeave DEF Book, Leave
<1>2. pc \in [Greenlets -> PC] /\ waiters \subseteq Entry
  BY DEF Book, Typed, TypeOK
<1>3. /\ Busy /\ pc[g] = "scanning" /\ pc'[g] \in {"idle", "waking"}
      /\ \A h \in Greenlets \ {g} : pc'[h] = pc[h]
      /\ UNCHANGED <<avail, waiters, waiterUid, todo, cost, wakeMe, toWake, cancels>>
  BY <1>2 DEF EndScan, Busy
<1>4. KeptDoNotFit'
  BY <1>3 DEF KeptDoNotFit, Busy, Fits, Book, Bookkeeping
<1>5. \A e \in Entry : Listens(e)' = Listens(e)
  BY <1>3 DEF Listens, Entry
<1>6. QED
  BY <1>1, <1>2, <1>3, <1>4, <1>5, WokenUnchanged, BookQuiet

(* A cancelled waiter leaves its entry behind, and nobody listens to it.      *)
LEMMA BookCancel ==
  ASSUME Book, NEW g \in Greenlets, Cancel(g)
  PROVE  Book'
<1>1. Typed'
  BY TypedCancel DEF Book
<1>2. pc \in [Greenlets -> PC] /\ cancels \in Nat
  BY DEF Book, Typed, TypeOK
<1>3. /\ ~Busy /\ pc' = [pc EXCEPT ![g] = "idle"]
      /\ toWake' = [toWake EXCEPT ![g] = <<>>] /\ cancels' = cancels + 1
      /\ UNCHANGED <<waiters, waiterUid, cost, wakeMe>>
  BY DEF Cancel
<1>4. KeptDoNotFit'
  BY <1>2, <1>3 DEF KeptDoNotFit, Busy
<1>5. \A e \in Entry : Listens(e)' => Listens(e) /\ cost'[e.who] = cost[e.who]
  BY <1>2, <1>3 DEF Listens, Entry
<1>6. cancels' # 0
  BY <1>2, <1>3
<1>7. Woken' \subseteq Woken
  BY <1>3, WokenForgotten DEF Book
<1>8. QED
  BY <1>1, <1>3, <1>4, <1>5, <1>6, <1>7, BookQuiet

(* A waiter that is told has what its entry asked for.                        *)
LEMMA BookWake ==
  ASSUME Book, NEW g \in Greenlets, Wake(g)
  PROVE  Book'
<1> DEFINE woken == Head(toWake[g])
<1>1. Typed'
  BY TypedLeave DEF Book, Leave
<1>2. pc \in [Greenlets -> PC] /\ waiters \subseteq Entry /\ Woken \subseteq Entry
  BY WokenType DEF Book, Typed, TypeOK
<1>3. toWake[g] # <<>>
  BY DEF Wake, Book, Typed, WakersHaveWork
<1>4. /\ ~Busy /\ pc[g] = "waking" /\ Listens(woken)
      /\ toWake' = [toWake EXCEPT ![g] = Tail(@)]
      /\ pc' = [pc EXCEPT ![woken.who] = "holding",
                          ![g] = IF Len(toWake[g]) = 1 THEN "idle" ELSE "waking"]
      /\ UNCHANGED <<waiters, waiterUid, cost, wakeMe, cancels>>
  BY DEF Wake
<1>5. Woken' \subseteq Woken /\ woken \in Woken
  BY <1>3, <1>4, WokenTail DEF Book
<1> HIDE DEF woken
<1>6. woken.who \in Greenlets
  BY <1>2, <1>5 DEF Entry
<1>7. /\ pc'[g] \in {"idle", "waking", "holding"} /\ pc'[woken.who] \in {"idle", "waking", "holding"}
      /\ \A h \in Greenlets \ {g, woken.who} : pc'[h] = pc[h]
  BY <1>2, <1>4, <1>6
<1>8. KeptDoNotFit'
  BY <1>4, <1>7 DEF KeptDoNotFit, Busy
<1>9. \A e \in Entry : Listens(e)' => Listens(e) /\ cost'[e.who] = cost[e.who]
  BY <1>4, <1>7 DEF Listens, Entry
<1>10. ASSUME NEW e \in waiters, Listens(e)
       PROVE  Listens(e)'
  <2>1. e # woken
    BY <1>5 DEF Book, Bookkeeping, WokenLeftTheList
  <2>2. e = EntryOf(e.who) /\ woken = EntryOf(woken.who)
    BY <1>4, <1>5, <1>10, OneEntryEach
  <2>3. e.who # woken.who
    BY <2>1, <2>2
  <2>4. e.who # g /\ e.who \in Greenlets
    BY <1>2, <1>4, <1>10 DEF Listens, Entry
  <2>5. QED
    BY <1>4, <1>7, <1>10, <2>3, <2>4 DEF Listens
<1>11. QED
  BY <1>1, <1>4, <1>5, <1>8, <1>9, <1>10, BookQuiet

(* A scan moves one entry from the waiters to those on their way.             *)
LEMMA BookScan ==
  ASSUME Book, NEW g \in Greenlets, Scan(g)
  PROVE  Book'
<1>1. Typed'
  BY TypedLeave DEF Book, Leave
<1>2. /\ waiters \subseteq Entry /\ Woken \subseteq Entry /\ todo \subseteq waiters
      /\ avail \in Cost
  BY WokenType DEF Book, Typed, TypeOK
<1>3. PICK e \in todo :
        /\ todo' = todo \ {e}
        /\ IF Fits(e.cost)
             THEN /\ avail' = Minus(avail, e.cost)
                  /\ toWake' = [toWake EXCEPT ![g] = Append(@, e)]
                  /\ waiters' = waiters \ {e}
             ELSE UNCHANGED <<avail, toWake, waiters>>
  BY DEF Scan
<1>4. /\ UNCHANGED <<waiterUid, pc, cost, wakeMe, cancels>>
      /\ pc[g] = "scanning"
  BY DEF Scan
<1>5. \A f \in Entry : Listens(f)' = Listens(f)
  BY <1>4 DEF Listens
<1>6. Busy /\ Busy'
  BY <1>4 DEF Busy
<1>7. \A f \in waiters \ todo : ~Fits(f.cost)
  BY <1>6 DEF Book, Bookkeeping, KeptDoNotFit
<1>8. CASE Fits(e.cost)
  <2>1. /\ waiters' = waiters \ {e} /\ Woken' \subseteq Woken \cup {e}
        /\ e \in waiters /\ e \in Entry
    BY <1>2, <1>3, <1>8, WokenAppend DEF Book
  <2>2. UidsAreOld' /\ EntriesMatch' /\ EntriesWithinCapacity'
    BY <1>1, <1>4, <1>5, <2>1, BookStep
  <2>3. WokenLeftTheList'
    BY <2>1 DEF Book, Bookkeeping, WokenLeftTheList
  <2>4. EntriesAreLive'
    BY <1>2, <1>4, <1>5, <2>1 DEF Book, Bookkeeping, EntriesAreLive
  <2>5. KeptDoNotFit'
    <3>1. ASSUME NEW f \in waiters' \ todo'
          PROVE  ~Fits(f.cost)'
      <4>1. f \in waiters \ todo /\ f \in Entry
        BY <1>2, <1>3, <2>1, <3>1
      <4>2. PICK d \in Dim : ~(f.cost[d] <= avail[d])
        BY <1>7, <4>1 DEF Fits
      <4>3. /\ avail[d] \in Nat /\ f.cost[d] \in Nat /\ e.cost[d] \in Nat
        BY <1>2, <2>1, <4>1 DEF Entry, Cost
      <4>4. avail'[d] = avail[d] - e.cost[d]
        BY <1>3, <1>8 DEF Minus
      <4>5. QED
        BY <4>2, <4>3, <4>4 DEF Fits
    <3>2. QED
      BY <3>1 DEF KeptDoNotFit
  <2>6. QED
    BY <1>1, <2>2, <2>3, <2>4, <2>5 DEF Book, Bookkeeping, Typed
<1>9. CASE ~Fits(e.cost)
  <2>1. UNCHANGED <<avail, toWake, waiters>> /\ Woken' = Woken
    BY <1>3, <1>9, WokenUnchanged
  <2>2. KeptDoNotFit'
    BY <1>3, <1>7, <1>9, <2>1 DEF KeptDoNotFit, Fits
  <2>3. QED
    BY <1>1, <1>2, <1>4, <1>5, <2>1, <2>2, BookQuiet
<1>10. QED
  BY <1>8, <1>9

(* Every step keeps the books.                                                *)
LEMMA BookNext == Book /\ [Next]_vars => Book'
<1> SUFFICES ASSUME Book, [Next]_vars
             PROVE  Book'
  OBVIOUS
<1>1. ASSUME UNCHANGED vars
      PROVE  Book'
  BY <1>1, WokenUnchanged
     DEF vars, Book, Typed, TypeOK, Bookkeeping, WakersHaveWork, UidsAreOld,
         EntriesMatch, WokenLeftTheList, EntriesAreLive, EntriesWithinCapacity,
         KeptDoNotFit, Busy, Fits, Listens
<1>2. ASSUME NEW g \in Greenlets, Enter(g)
      PROVE  Book'
  BY <1>2, BookEnterFree, BookEnterNow, BookEnterWaiting DEF Enter
<1>3. ASSUME NEW g \in Greenlets, Leave(g)
      PROVE  Book'
  BY <1>3, BookExitFree, BookExitHolding, BookScan, BookEndScan, BookWake DEF Leave
<1>4. QED
  BY <1>1, <1>2, <1>3, BookCancel DEF Next, Terminated

(* The bookkeeping of the waiters is right however the greenlets interleave   *)
(* and whichever of them are killed while they block.                         *)
THEOREM BookkeepingHolds == Spec => []Bookkeeping
<1>1. Book => Bookkeeping
  BY DEF Book
<1>2. QED
  BY <1>1, BookInit, BookNext, PTL DEF Spec

-------------------------------------------------------------------------------
(* What is in use and what is available, added up, changes only when a        *)
(* blocked greenlet is killed, and then only downwards.                       *)
Balance(d) == InUse(d) + avail[d]

Balanced ==
  \A d \in Dim : /\ Balance(d) <= Capacity[d]
                 /\ cancels = 0 => Balance(d) = Capacity[d]

(* What the greenlets use is a natural number in every dimension.             *)
LEMMA UseType ==
  ASSUME Typed, NEW d \in Dim
  PROVE  UseOf(d) \in [1..N -> Nat] /\ InUse(d) \in Nat /\ avail[d] \in Nat
<1>1. \A g \in Greenlets : cost[g][d] \in Nat
  BY DEF Typed, TypeOK, Cost
<1>2. UseOf(d) \in [1..N -> Nat]
  BY <1>1 DEF UseOf, Greenlets
<1>3. avail[d] \in Nat
  BY DEF Typed, TypeOK, Cost
<1>4. QED
  BY <1>2, <1>3, SumBoundsTerm, ParametersOK DEF InUse

(* Only what g uses changes. *)
LEMMA UseUpdate ==
  ASSUME Typed, Typed', NEW d \in Dim, NEW g \in Greenlets,
         \A h \in Greenlets : h # g => (Charged(h)' <=> Charged(h)) /\ cost'[h] = cost[h]
  PROVE  InUse(d)' = InUse(d) - (IF Charged(g) THEN cost[g][d] ELSE 0)
                              + (IF Charged(g)' THEN cost'[g][d] ELSE 0)
<1>1. UseOf(d) \in [1..N -> Nat] /\ UseOf(d)' \in [1..N -> Nat]
  <2>1. UseOf(d) \in [1..N -> Nat]
    BY UseType
  <2>2. \A h \in Greenlets : cost'[h][d] \in Nat
    BY DEF Typed, TypeOK, Cost
  <2>3. UseOf(d)' \in [1..N -> Nat]
    BY <2>2 DEF UseOf, Greenlets
  <2>4. QED
    BY <2>1, <2>3
<1>2. \A h \in Greenlets : UseOf(d)[h] = IF Charged(h) THEN cost[h][d] ELSE 0
  BY DEF UseOf
<1>3. \A h \in Greenlets : UseOf(d)'[h] = IF Charged(h)' THEN cost'[h][d] ELSE 0
  BY DEF UseOf
<1>4. ASSUME NEW h \in Greenlets, h # g
      PROVE  UseOf(d)'[h] = UseOf(d)[h]
  <2>1. CASE Charged(h)
    BY <1>2, <1>3, <1>4, <2>1
  <2>2. CASE ~Charged(h)
    BY <1>2, <1>3, <1>4, <2>2
  <2>3. QED
    BY <2>1, <2>2
<1>5. /\ UseOf(d) \in [1..N -> Int] /\ UseOf(d)' \in [1..N -> Int]
      /\ N \in Nat /\ g \in 1..N
      /\ \A h \in 1..N : h # g => UseOf(d)'[h] = UseOf(d)[h]
  BY <1>1, <1>4, ParametersOK DEF Greenlets
<1>6. Sum(UseOf(d)', N) = Sum(UseOf(d), N) - UseOf(d)[g] + UseOf(d)'[g]
  BY <1>5, SumUpdate
<1>7. QED
  BY <1>2, <1>3, <1>6 DEF InUse

(* The use stays as it is as long as the same greenlets are charged.          *)
LEMMA UseSame ==
  ASSUME UNCHANGED cost, NEW d \in Dim,
         \A h \in Greenlets : Charged(h)' <=> Charged(h)
  PROVE  InUse(d)' = InUse(d)
<1>1. ASSUME NEW h \in Greenlets
      PROVE  (IF Charged(h) THEN cost[h][d] ELSE 0)
               = (IF Charged(h)' THEN cost'[h][d] ELSE 0)
  BY <1>1
<1>2. UseOf(d)' = UseOf(d)
  BY <1>1 DEF UseOf
<1>3. QED
  BY <1>2 DEF InUse

(* So does the balance, if nothing is taken or given back.                    *)
LEMMA BalanceSame ==
  ASSUME Balanced, UNCHANGED <<cost, avail, cancels>>,
         \A h \in Greenlets : Charged(h)' <=> Charged(h)
  PROVE  Balanced'
BY UseSame DEF Balanced, Balance

(* Who has to wait is not charged yet.                                        *)
LEMMA ChargedEnterWaiting ==
  ASSUME Typed, NEW g \in Greenlets, NEW c \in Costs, EnterWaiting(g, c)
  PROVE  /\ ~Charged(g) /\ ~Charged(g)'
         /\ \A h \in Greenlets \ {g} :
              (Charged(h)' <=> Charged(h)) /\ cost'[h] = cost[h] /\ pc'[h] = pc[h]
<1>1. /\ pc \in [Greenlets -> PC] /\ cost \in [Greenlets -> Cost]
      /\ wakeMe \in [Greenlets -> Nat]
  BY DEF Typed, TypeOK
<1>2. PICK new : new = [cost |-> Clamp(c), uid |-> waiterUid', who |-> g]
  OBVIOUS
<1>3. /\ pc[g] = "idle" /\ pc' = [pc EXCEPT ![g] = "waiting"]
      /\ cost' = [cost EXCEPT ![g] = Clamp(c)] /\ wakeMe' = [wakeMe EXCEPT ![g] = waiterUid']
      /\ waiters' = waiters \cup {new}
  BY <1>2 DEF EnterWaiting, StartStep
<1>4. ASSUME NEW h \in Greenlets, h # g
      PROVE  (Charged(h)' <=> Charged(h)) /\ cost'[h] = cost[h] /\ pc'[h] = pc[h]
  <2>1. pc'[h] = pc[h] /\ cost'[h] = cost[h] /\ wakeMe'[h] = wakeMe[h]
    BY <1>1, <1>3, <1>4
  <2>2. EntryOf(h)' = EntryOf(h) /\ EntryOf(h).who = h
    BY <2>1 DEF EntryOf
  <2>3. EntryOf(h)' \in waiters' <=> EntryOf(h) \in waiters
    BY <1>2, <1>3, <1>4, <2>2
  <2>4. QED
    BY <2>1, <2>3 DEF Charged
<1>5. EntryOf(g)' \in waiters'
  <2>1. cost'[g] = Clamp(c) /\ wakeMe'[g] = waiterUid'
    BY <1>1, <1>3
  <2>2. EntryOf(g)' = new
    BY <1>2, <2>1 DEF EntryOf
  <2>3. QED
    BY <1>3, <2>2
<1>6. QED
  BY <1>1, <1>3, <1>4, <1>5 DEF Charged

(* What is taken on entry is what the step is charged.                        *)
LEMMA BalanceEnter ==
  ASSUME Book, Balanced, NEW g \in Greenlets, Enter(g)
  PROVE  Balanced'
<1> USE DEF StartStep
<1>1. /\ pc \in [Greenlets -> PC] /\ cost \in [Greenlets -> Cost]
      /\ wakeMe \in [Greenlets -> Nat] /\ avail \in Cost /\ Typed
  BY DEF Book, Typed, TypeOK
<1>2. Typed'
  BY <1>1, TypedEnter
<1>3. CASE EnterFree(g)
  <2>1. \A h \in Greenlets : Charged(h)' <=> Charged(h)
    BY <1>1, <1>3 DEF EnterFree, Charged, EntryOf
  <2>2. QED
    BY <1>3, <2>1, BalanceSame DEF EnterFree
<1>4. ASSUME NEW c \in Costs, EnterNow(g, c)
      PROVE  Balanced'
  <2>1. ASSUME NEW h \in Greenlets, h # g
        PROVE  (Charged(h)' <=> Charged(h)) /\ cost'[h] = cost[h]
    BY <1>1, <1>4, <2>1 DEF EnterNow, Charged, EntryOf
  <2>2. ~Charged(g) /\ Charged(g)'
    BY <1>1, <1>4 DEF EnterNow, Charged
  <2>3. ASSUME NEW d \in Dim
        PROVE  Balance(d)' = Balance(d)
    <3>1. InUse(d)' = InUse(d) - 0 + cost'[g][d]
      BY <1>1, <1>2, <2>1, <2>2, UseUpdate
    <3>2. cost'[g] = Clamp(c) /\ avail'[d] = avail[d] - Clamp(c)[d]
      BY <1>1, <1>4 DEF EnterNow, Minus
    <3>3. Clamp(c)[d] \in Nat
      BY ClampType DEF Cost
    <3>4. QED
      BY <1>1, <3>1, <3>2, <3>3, UseType DEF Balance
  <2>4. QED
    BY <1>4, <2>3 DEF Balanced, EnterNow
<1>5. ASSUME NEW c \in Costs, EnterWaiting(g, c)
      PROVE  Balanced'
  <2>1. \A h \in Greenlets : h # g => (Charged(h)' <=> Charged(h)) /\ cost'[h] = cost[h]
    BY <1>1, <1>5, ChargedEnterWaiting
  <2>2. ~Charged(g) /\ ~Charged(g)'
    BY <1>1, <1>5, ChargedEnterWaiting
  <2>3. ASSUME NEW d \in Dim
        PROVE  Balance(d)' = Balance(d)
    <3>1. InUse(d)' = InUse(d) - 0 + 0
      BY <1>1, <1>2, <2>1, <2>2, UseUpdate
    <3>2. avail' = avail
      BY <1>5 DEF EnterWaiting
    <3>3. QED
      BY <1>1, <3>1, <3>2, UseType DEF Balance
  <2>4. QED
    BY <1>5, <2>3 DEF Balanced, EnterWaiting
<1>6. QED
  BY <1>3, <1>4, <1>5 DEF Enter

(* What comes back on exit is what the step was charged.                      *)
LEMMA BalanceExitHolding ==
  ASSUME Book, Balanced, NEW g \in Greenlets, ExitHolding(g)
  PROVE  Balanced'
<1>1. /\ pc \in [Greenlets -> PC] /\ cost \in [Greenlets -> Cost]
      /\ avail \in Cost /\ Typed
  BY DEF Book, Typed, TypeOK
<1>2. Typed'
  BY <1>1, TypedLeave DEF Leave
<1>3. /\ pc[g] = "holding" /\ pc' = [pc EXCEPT ![g] = "scanning"]
      /\ avail' = Plus(avail, cost[g])
      /\ UNCHANGED <<waiters, cost, wakeMe, cancels>>
  BY DEF ExitHolding
<1>4. ASSUME NEW h \in Greenlets, h # g
      PROVE  (Charged(h)' <=> Charged(h)) /\ cost'[h] = cost[h]
  BY <1>1, <1>3, <1>4 DEF Charged, EntryOf
<1>5. Charged(g) /\ ~Charged(g)'
  BY <1>1, <1>3 DEF Charged
<1>6. ASSUME NEW d \in Dim
      PROVE  Balance(d)' = Balance(d)
  <2>1. InUse(d)' = InUse(d) - cost[g][d] + 0
    BY <1>1, <1>2, <1>4, <1>5, UseUpdate
  <2>2. avail'[d] = avail[d] + cost[g][d]
    BY <1>3 DEF Plus
  <2>3. cost[g][d] \in Nat
    BY <1>1 DEF Cost
  <2>4. QED
    BY <1>1, <2>1, <2>2, <2>3, UseType DEF Balance
<1>7. QED
  BY <1>3, <1>6 DEF Balanced

(* The resources reserved for a waiter are charged to it, unless it has been  *)
(* killed and nobody listens to its entry any more.                           *)
LEMMA ChargedScan ==
  ASSUME Book, NEW g \in Greenlets, Scan(g)
  PROVE  \/ avail' = avail /\ \A h \in Greenlets : Charged(h)' <=> Charged(h)
         \/ \E e \in waiters :
              /\ avail' = Minus(avail, e.cost)
              /\ \A h \in Greenlets \ {e.who} : Charged(h)' <=> Charged(h)
              /\ \/ /\ Listens(e) /\ e.cost = cost[e.who]
                    /\ ~Charged(e.who) /\ Charged(e.who)'
                 \/ /\ cancels # 0
                    /\ Charged(e.who)' <=> Charged(e.who)
<1>1. waiters \subseteq Entry /\ todo \subseteq waiters
  BY DEF Book, Typed, TypeOK
<1>2. PICK e \in todo :
        IF Fits(e.cost)
          THEN avail' = Minus(avail, e.cost) /\ waiters' = waiters \ {e}
          ELSE UNCHANGED <<avail, waiters>>
  BY DEF Scan
<1>3. UNCHANGED <<pc, cost, wakeMe, cancels>>
  BY DEF Scan
<1>4. e \in waiters /\ e.who \in Greenlets
  BY <1>1 DEF Entry
<1>5. CASE ~Fits(e.cost)
  <2>1. UNCHANGED <<avail, waiters>>
    BY <1>2, <1>5
  <2>2. \A h \in Greenlets : Charged(h)' <=> Charged(h)
    BY <1>3, <2>1 DEF Charged, EntryOf
  <2>3. QED
    BY <2>1, <2>2
<1>6. CASE Fits(e.cost)
  <2>1. avail' = Minus(avail, e.cost) /\ waiters' = waiters \ {e}
    BY <1>2, <1>6
  <2>2. \A h \in Greenlets : EntryOf(h)' = EntryOf(h) /\ EntryOf(h).who = h
    BY <1>3 DEF EntryOf
  <2>3. \A h \in Greenlets \ {e.who} : Charged(h)' <=> Charged(h)
    BY <1>3, <2>1, <2>2 DEF Charged
  <2>4. CASE Listens(e)
    <3>1. e = EntryOf(e.who) /\ e.cost = cost[e.who] /\ pc[e.who] = "waiting"
      BY <1>4, <2>4, OneEntryEach DEF Listens, Book, Bookkeeping, EntriesMatch
    <3>2. ~Charged(e.who)
      BY <1>4, <3>1 DEF Charged
    <3>3. Charged(e.who)'
      BY <1>3, <1>4, <2>1, <2>2, <3>1 DEF Charged
    <3>4. QED
      BY <1>4, <2>1, <2>3, <2>4, <3>1, <3>2, <3>3
  <2>5. CASE ~Listens(e)
    <3>1. cancels # 0
      BY <1>4, <2>5 DEF Book, Bookkeeping, EntriesAreLive
    <3>2. pc[e.who] = "waiting" => EntryOf(e.who) # e
      BY <2>5 DEF EntryOf, Listens
    <3>3. Charged(e.who)' <=> Charged(e.who)
      BY <1>3, <1>4, <2>1, <2>2, <3>2 DEF Charged
    <3>4. QED
      BY <1>4, <2>1, <2>3, <3>1, <3>3
  <2>6. QED
    BY <2>4, <2>5
<1>7. QED
  BY <1>5, <1>6

(* A scan charges a waiter before it is told.                                 *)
LEMMA BalanceScan ==
  ASSUME Book, Balanced, NEW g \in Greenlets, Scan(g)
  PROVE  Balanced'
<1>1. waiters \subseteq Entry /\ avail \in Cost /\ Typed
  BY DEF Book, Typed, TypeOK
<1>2. Typed'
  BY <1>1, TypedLeave DEF Leave
<1>3. UNCHANGED <<cost, cancels>>
  BY DEF Scan
<1>4. CASE avail' = avail /\ \A h \in Greenlets : Charged(h)' <=> Charged(h)
  BY <1>3, <1>4, BalanceSame
<1>5. ASSUME NEW e \in waiters, avail' = Minus(avail, e.cost),
             \A h \in Greenlets \ {e.who} : Charged(h)' <=> Charged(h),
             e.cost = cost[e.who], ~Charged(e.who), Charged(e.who)'
      PROVE  Balanced'
  <2>1. ASSUME NEW d \in Dim
        PROVE  Balance(d)' = Balance(d)
    <3>1. e.who \in Greenlets /\ e.cost[d] \in Nat
      BY <1>1 DEF Entry, Cost
    <3>2. InUse(d)' = InUse(d) - 0 + cost'[e.who][d]
      BY <1>1, <1>2, <1>3, <1>5, <3>1, UseUpdate
    <3>3. cost'[e.who][d] = e.cost[d] /\ avail'[d] = avail[d] - e.cost[d]
      BY <1>3, <1>5 DEF Minus
    <3>4. QED
      BY <1>1, <3>1, <3>2, <3>3, UseType DEF Balance
  <2>2. QED
    BY <1>3, <2>1 DEF Balanced
<1>6. ASSUME NEW e \in waiters, avail' = Minus(avail, e.cost), cancels # 0,
             \A h \in Greenlets : Charged(h)' <=> Charged(h)
      PROVE  Balanced'
  <2>1. ASSUME NEW d \in Dim
        PROVE  Balance(d)' <= Capacity[d]
    <3>1. InUse(d)' = InUse(d)
      BY <1>3, <1>6, UseSame
    <3>2. avail'[d] = avail[d] - e.cost[d] /\ e.cost[d] \in Nat /\ Capacity[d] \in Nat
      BY <1>1, <1>6, ParametersOK DEF Minus, Entry, Cost
    <3>3. InUse(d) + avail[d] <= Capacity[d]
      BY DEF Balanced, Balance
    <3>4. QED
      BY <1>1, <3>1, <3>2, <3>3, UseType DEF Balance
  <2>2. QED
    BY <1>3, <1>6, <2>1 DEF Balanced
<1>7. QED
  BY <1>4, <1>5, <1>6, ChargedScan

(* The woken greenlet takes over what its waker had reserved for it.          *)
LEMMA ChargedWake ==
  ASSUME Book, NEW g \in Greenlets, Wake(g)
  PROVE  \A h \in Greenlets : /\ Charged(h)' <=> Charged(h)
                              /\ ~Charged(h) => (pc'[h] = "waiting" <=> pc[h] = "waiting")
<1> DEFINE woken == Head(toWake[g])
<1>1. pc \in [Greenlets -> PC] /\ Woken \subseteq Entry
  BY WokenType DEF Book, Typed, TypeOK
<1>2. toWake[g] # <<>>
  BY DEF Wake, Book, Typed, WakersHaveWork
<1>3. /\ pc[g] = "waking" /\ Listens(woken)
      /\ toWake' = [toWake EXCEPT ![g] = Tail(@)]
      /\ pc' = [pc EXCEPT ![woken.who] = "holding",
                          ![g] = IF Len(toWake[g]) = 1 THEN "idle" ELSE "waking"]
      /\ UNCHANGED <<avail, waiters, cost, wakeMe, cancels>>
  BY DEF Wake
<1>4. woken \in Woken
  BY <1>2, <1>3, WokenTail DEF Book
<1> HIDE DEF woken
<1>5. woken.who \in Greenlets /\ woken.who # g /\ pc[woken.who] = "waiting"
  BY <1>1, <1>3, <1>4 DEF Entry, Listens
<1>6. woken = EntryOf(woken.who) /\ woken \notin waiters
  BY <1>3, <1>4, OneEntryEach DEF Book, Bookkeeping, WokenLeftTheList
<1>7. ASSUME NEW h \in Greenlets
      PROVE  /\ Charged(h)' <=> Charged(h)
             /\ ~Charged(h) => (pc'[h] = "waiting" <=> pc[h] = "waiting")
  <2>1. CASE h = g
    <3>1. pc'[h] \in {"idle", "waking"} /\ pc[h] = "waking"
      BY <1>1, <1>3, <1>5, <2>1
    <3>2. QED
      BY <3>1 DEF Charged
  <2>2. CASE h = woken.who
    <3>1. pc'[h] = "holding" /\ pc[h] = "waiting" /\ EntryOf(h) \notin waiters
      BY <1>1, <1>3, <1>5, <1>6, <2>2
    <3>2. QED
      BY <3>1 DEF Charged
  <2>3. CASE h # g /\ h # woken.who
    <3>1. pc'[h] = pc[h]
      BY <1>1, <1>3, <1>5, <2>3
    <3>2. EntryOf(h)' = EntryOf(h)
      BY <1>3 DEF EntryOf
    <3>3. QED
      BY <1>3, <3>1, <3>2 DEF Charged
  <2>4. QED
    BY <2>1, <2>2, <2>3
<1>8. QED
  BY <1>7

(* Leaving: exit, scan or wake-up, each keeps the balance.                    *)
LEMMA BalanceLeave ==
  ASSUME Book, Balanced, NEW g \in Greenlets, Leave(g)
  PROVE  Balanced'
<1>1. pc \in [Greenlets -> PC]
  BY DEF Book, Typed, TypeOK
<1>2. CASE ExitFree(g)
  <2>1. \A h \in Greenlets : Charged(h)' <=> Charged(h)
    BY <1>1, <1>2 DEF ExitFree, Charged, EntryOf
  <2>2. QED
    BY <1>2, <2>1, BalanceSame DEF ExitFree
<1>3. CASE EndScan(g)
  <2>1. \A h \in Greenlets : Charged(h)' <=> Charged(h)
    BY <1>1, <1>3 DEF EndScan, Charged, EntryOf
  <2>2. QED
    BY <1>3, <2>1, BalanceSame DEF EndScan
<1>4. CASE Wake(g)
  BY <1>4, ChargedWake, BalanceSame DEF Wake
<1>5. QED
  BY <1>2, <1>3, <1>4, BalanceExitHolding, BalanceScan DEF Leave

(* The resources of a cancelled waiter are lost at most, never given twice.   *)
LEMMA BalanceCancel ==
  ASSUME Book, Balanced, NEW g \in Greenlets, Cancel(g)
  PROVE  Balanced'
<1>1. /\ pc \in [Greenlets -> PC] /\ cost \in [Greenlets -> Cost]
      /\ avail \in Cost /\ cancels \in Nat /\ Typed
  BY DEF Book, Typed, TypeOK
<1>2. Typed'
  BY <1>1, TypedCancel
<1>3. /\ pc' = [pc EXCEPT ![g] = "idle"] /\ cancels' = cancels + 1
      /\ UNCHANGED <<avail, waiters, cost, wakeMe>>
  BY DEF Cancel
<1>4. ASSUME NEW h \in Greenlets, h # g
      PROVE  (Charged(h)' <=> Charged(h)) /\ cost'[h] = cost[h]
  BY <1>1, <1>3, <1>4 DEF Charged, EntryOf
<1>5. ~Charged(g)'
  BY <1>1, <1>3 DEF Charged
<1>6. ASSUME NEW d \in Dim
      PROVE  Balance(d)' <= Capacity[d]
  <2>1. InUse(d)' = InUse(d) - (IF Charged(g) THEN cost[g][d] ELSE 0) + 0
    BY <1>1, <1>2, <1>4, <1>5, UseUpdate
  <2>2. cost[g][d] \in Nat /\ Capacity[d] \in Nat
    BY <1>1, ParametersOK DEF Cost
  <2>3. Balance(d) <= Capacity[d] /\ avail'[d] = avail[d]
    BY <1>3 DEF Balanced
  <2>4. InUse(d) \in Nat /\ avail[d] \in Nat
    BY <1>1, UseType
  <2>5. QED
    BY <2>1, <2>2, <2>3, <2>4 DEF Balance
<1>7. cancels' # 0
  BY <1>1, <1>3
<1>8. QED
  BY <1>6, <1>7 DEF Balanced

(* At first everything is available.                                          *)
LEMMA BalanceInit == Init => Balanced
<1>0. \A d \in Dim : Capacity[d] \in Nat
  BY ParametersOK DEF Cost
<1> SUFFICES ASSUME Init
             PROVE  \A d \in Dim : Balance(d) = Capacity[d]
  BY <1>0 DEF Balanced
<1> TAKE d \in Dim
<1>1. \A g \in Greenlets : UseOf(d)[g] = 0
  BY DEF Init, UseOf, Charged
<1>2. UseOf(d) \in [1..N -> Nat] /\ avail = Capacity /\ Capacity[d] \in Nat
  BY TypedInit, UseType, ParametersOK DEF Init, Cost
<1>3. InUse(d) = 0
  BY <1>1, <1>2, SumZero, ParametersOK DEF InUse, Greenlets
<1>4. QED
  BY <1>2, <1>3 DEF Balance

(* Every step keeps the balance.                                              *)
LEMMA BalanceNext == Book /\ Balanced /\ [Next]_vars => Balanced'
<1> SUFFICES ASSUME Book, Balanced, [Next]_vars
             PROVE  Balanced'
  OBVIOUS
<1>1. ASSUME UNCHANGED vars
      PROVE  Balanced'
  <2>1. \A h \in Greenlets : Charged(h)' <=> Charged(h)
    BY <1>1 DEF vars, Charged, EntryOf
  <2>2. QED
    BY <1>1, <2>1, BalanceSame DEF vars
<1>2. QED
  BY <1>1, BalanceEnter, BalanceLeave, BalanceCancel DEF Next, Terminated

IInv == Book /\ Balanced

(* The inductive invariant: types, books and balance together.                *)
LEMMA IInvHolds == Spec => []IInv
<1>1. Init => IInv
  BY BookInit, BalanceInit DEF IInv
<1>2. IInv /\ [Next]_vars => IInv'
  BY BookNext, BalanceNext DEF IInv
<1>3. QED
  BY <1>1, <1>2, PTL DEF Spec

(* No resource is ever oversubscribed, whatever is cancelled: what wait_for   *)
(* has let in, with what it believes is available, is within the capacity.    *)
THEOREM NoOversubscription == Spec => []NeverOversubscribed
<1>1. IInv => NeverOversubscribed
  BY UseType DEF IInv, Book, Balanced, Balance, NeverOversubscribed
<1>2. QED
  BY <1>1, IInvHolds, PTL

(* As long as no blocked greenlet is killed, nothing leaks.                   *)
THEOREM NoLeak == Spec => []NothingLeaks
<1>1. IInv => NothingLeaks
  BY DEF IInv, Balanced, Balance, NothingLeaks
<1>2. QED
  BY <1>1, IInvHolds, PTL

-------------------------------------------------------------------------------
(* A greedy release leaves no idle capacity behind: when steps wait and no    *)
(* scan is in progress, one of them does not fit.                             *)
THEOREM WaitersAreBlocked == Spec => []BlockedForAReason
<1>1. Init => BlockedForAReason
  BY DEF Init, BlockedForAReason
<1>2. ASSUME Book, BlockedForAReason, [Next]_vars
      PROVE  BlockedForAReason'
  <2>1. /\ pc \in [Greenlets -> PC] /\ waiters \subseteq Entry /\ avail \in Cost
        /\ todo \subseteq waiters
    BY <1>2 DEF Book, Typed, TypeOK
  <2>2. ASSUME UNCHANGED <<avail, waiters>>, Busy => Busy'
        PROVE  BlockedForAReason'
    BY <1>2, <2>2 DEF BlockedForAReason, Fits
  <2>3. CASE UNCHANGED vars
    BY <2>2, <2>3 DEF vars, Busy
  <2>4. ASSUME NEW g \in Greenlets, Enter(g)
        PROVE  BlockedForAReason'
    <3>1. CASE EnterFree(g)
      BY <2>2, <3>1 DEF EnterFree, StartStep
    <3>2. ASSUME NEW c \in Costs, EnterNow(g, c)
          PROVE  BlockedForAReason'
      BY <3>2 DEF EnterNow, MustWait, BlockedForAReason
    <3>3. ASSUME NEW c \in Costs, EnterWaiting(g, c)
          PROVE  BlockedForAReason'
      <4>1. PICK new : new = [cost |-> Clamp(c), uid |-> waiterUid', who |-> g]
        OBVIOUS
      <4>2. waiters' = waiters \cup {new} /\ avail' = avail /\ new.cost = Clamp(c)
        BY <3>3, <4>1 DEF EnterWaiting
      <4>3. CASE waiters # {}
        BY <1>2, <3>3, <4>2, <4>3 DEF BlockedForAReason, EnterWaiting, StartStep, Fits
      <4>4. CASE waiters = {}
        <5>1. ~Fits(new.cost)
          BY <3>3, <4>2, <4>4 DEF EnterWaiting, MustWait
        <5>2. QED
          BY <4>2, <5>1 DEF BlockedForAReason, Fits
      <4>5. QED
        BY <4>3, <4>4
    <3>4. QED
      BY <2>4, <3>1, <3>2, <3>3 DEF Enter
  <2>5. ASSUME NEW g \in Greenlets, Leave(g)
        PROVE  BlockedForAReason'
    <3>1. CASE ExitFree(g)
      BY <2>2, <3>1 DEF ExitFree
    <3>2. CASE ExitHolding(g)
      <4>1. Busy'
        BY <2>1, <3>2 DEF ExitHolding, Busy
      <4>2. QED
        BY <4>1 DEF BlockedForAReason
    <3>3. CASE Scan(g)
      <4>1. Busy'
        BY <3>3 DEF Scan, Busy
      <4>2. QED
        BY <4>1 DEF BlockedForAReason
    <3>4. CASE EndScan(g)
      <4>1. \A e \in waiters : ~Fits(e.cost)
        BY <1>2, <3>4 DEF EndScan, Busy, Book, Bookkeeping, KeptDoNotFit
      <4>2. UNCHANGED <<avail, waiters>>
        BY <3>4 DEF EndScan
      <4>3. QED
        BY <4>1, <4>2 DEF BlockedForAReason, Fits
    <3>5. CASE Wake(g)
      BY <2>2, <3>5 DEF Wake
    <3>6. QED
      BY <2>5, <3>1, <3>2, <3>3, <3>4, <3>5 DEF Leave
  <2>6. ASSUME NEW g \in Greenlets, Cancel(g)
        PROVE  BlockedForAReason'
    BY <2>2, <2>6 DEF Cancel
  <2>7. QED
    BY <1>2, <2>3, <2>4, <2>5, <2>6 DEF Next, Terminated
<1>3. IInv => Book
  BY DEF IInv
<1>4. QED
  BY <1>1, <1>2, <1>3, IInvHolds, PTL DEF Spec

(* Nobody waits for nothing: whatever a step waits for, another one holds     *)
(* resources, or has been given them, and will look at the waiters when it    *)
(* leaves.  This is the absence of deadlock in wait_for.                      *)
THEOREM SomebodyReleases == Spec => []SomebodyWillRelease
<1>1. ASSUME IInv, BlockedForAReason
      PROVE  SomebodyWillRelease
  <2>1. SUFFICES ASSUME cancels = 0, ~Busy, waiters # {},
                        \A g \in Greenlets : ~Charged(g)
                 PROVE  FALSE
    BY DEF SomebodyWillRelease
  <2>2. PICK e \in waiters : ~Fits(e.cost)
    BY <1>1, <2>1 DEF BlockedForAReason
  <2>3. PICK d \in Dim : ~(e.cost[d] <= avail[d])
    BY <2>2 DEF Fits
  <2>4. e.cost[d] <= Capacity[d]
    BY <1>1 DEF IInv, Book, Bookkeeping, EntriesWithinCapacity
  <2>5. InUse(d) + avail[d] = Capacity[d]
    BY <1>1, <2>1 DEF IInv, Balanced, Balance
  <2>6. UseOf(d) \in [1..N -> Nat] /\ avail[d] \in Nat
    BY <1>1, UseType DEF IInv, Book
  <2>7. \A g \in 1..N : UseOf(d)[g] = 0
    BY <2>1 DEF UseOf, Greenlets
  <2>8. InUse(d) = 0
    BY <2>6, <2>7, SumZero, ParametersOK DEF InUse
  <2>9. QED
    BY <2>3, <2>4, <2>5, <2>6, <2>8
<1>2. QED
  BY <1>1, IInvHolds, WaitersAreBlocked, PTL

-------------------------------------------------------------------------------
(* Nobody else has channels left to put to.                                   *)
OnlyWakersWake ==
  \A w \in Greenlets : toWake[w] # <<>> => pc[w] \in {"scanning", "waking"}

(* The entry of a blocked greenlet is in one of the two places.               *)
Found == cancels = 0 => \A g \in Greenlets : pc[g] = "waiting" => EntryOf(g) \in waiters \cup Woken

(* A scan loses none of those on their way.                                   *)
LEMMA WokenGrows ==
  ASSUME Typed, NEW g \in Greenlets, NEW e \in Entry,
         toWake' = [toWake EXCEPT ![g] = Append(@, e)]
  PROVE  Woken \cup {e} \subseteq Woken'
<1>1. toWake \in [Greenlets -> Seq(Entry)] /\ toWake[g] \in Seq(Entry)
  BY DEF Typed, TypeOK
<1>2. toWake'[g] = Append(toWake[g], e)
  BY <1>1
<1>3. /\ \A i \in DOMAIN toWake[g] : i \in DOMAIN toWake'[g] /\ toWake'[g][i] = toWake[g][i]
      /\ Len(toWake[g]) + 1 \in DOMAIN toWake'[g]
      /\ toWake'[g][Len(toWake[g]) + 1] = e
  BY <1>1, <1>2
<1>4. e \in Woken'
  BY <1>3 DEF Woken
<1>5. ASSUME NEW w \in Greenlets, NEW i \in DOMAIN toWake[w]
      PROVE  toWake[w][i] \in Woken'
  <2>1. CASE w = g
    BY <1>3, <2>1 DEF Woken
  <2>2. CASE w # g
    <3>1. toWake'[w] = toWake[w]
      BY <1>1, <2>2
    <3>2. QED
      BY <3>1 DEF Woken
  <2>3. QED
    BY <2>1, <2>2
<1>6. QED
  BY <1>4, <1>5 DEF Woken

(* Telling a waiter loses nobody but him.                                     *)
LEMMA WokenLosesHead ==
  ASSUME Typed, NEW g \in Greenlets, toWake[g] # <<>>,
         toWake' = [toWake EXCEPT ![g] = Tail(@)]
  PROVE  Woken \subseteq Woken' \cup {Head(toWake[g])}
<1>1. toWake \in [Greenlets -> Seq(Entry)] /\ toWake[g] \in Seq(Entry)
  BY DEF Typed, TypeOK
<1>2. toWake'[g] = Tail(toWake[g])
  BY <1>1
<1>3. \A i \in DOMAIN toWake[g] :
        \/ toWake[g][i] = Head(toWake[g])
        \/ i - 1 \in DOMAIN toWake'[g] /\ toWake'[g][i - 1] = toWake[g][i]
  BY <1>1, <1>2
<1> DEFINE In(w, i) == toWake'[w][i] \in Woken'
<1>0. \A w \in Greenlets : \A i \in DOMAIN toWake'[w] : In(w, i)
  BY DEF Woken
<1>4. ASSUME NEW w \in Greenlets, NEW i \in DOMAIN toWake[w]
      PROVE  toWake[w][i] \in Woken' \cup {Head(toWake[g])}
  <2>1. CASE w = g
    <3>1. CASE toWake[g][i] = Head(toWake[g])
      BY <2>1, <3>1
    <3>2. CASE i - 1 \in DOMAIN toWake'[g] /\ toWake'[g][i - 1] = toWake[g][i]
      <4>1. In(g, i - 1)
        BY <1>0, <3>2
      <4>2. QED
        BY <2>1, <3>2, <4>1
    <3>3. QED
      BY <1>3, <2>1, <3>1, <3>2
  <2>2. CASE w # g
    <3>1. toWake'[w] = toWake[w]
      BY <1>1, <2>2
    <3>2. In(w, i)
      BY <1>0, <3>1
    <3>3. QED
      BY <3>1, <3>2
  <2>3. QED
    BY <2>1, <2>2
<1>5. QED
  BY <1>4 DEF Woken

(* Every waiter has an entry among the waiters or on its way, in every step.  *)
LEMMA FoundNext ==
  ASSUME Book, OnlyWakersWake, Found, [Next]_vars
  PROVE  OnlyWakersWake' /\ Found'
<1>1. /\ pc \in [Greenlets -> PC] /\ cost \in [Greenlets -> Cost]
      /\ wakeMe \in [Greenlets -> Nat] /\ toWake \in [Greenlets -> Seq(Entry)]
      /\ waiters \subseteq Entry /\ Woken \subseteq Entry /\ todo \subseteq waiters
      /\ cancels \in Nat /\ Typed
  BY WokenType DEF Book, Typed, TypeOK
<1>2. ASSUME UNCHANGED <<waiters, cancels>>, Woken' = Woken,
             \A h \in Greenlets : pc'[h] = "waiting" =>
                                    pc[h] = "waiting" /\ EntryOf(h)' = EntryOf(h)
      PROVE  Found'
  BY <1>2 DEF Found
<1>3. ASSUME UNCHANGED vars
      PROVE  OnlyWakersWake' /\ Found'
  BY <1>2, <1>3, WokenUnchanged DEF vars, OnlyWakersWake, EntryOf
<1>4. ASSUME NEW g \in Greenlets, EnterFree(g)
      PROVE  OnlyWakersWake' /\ Found'
  <2>1. OnlyWakersWake'
    BY <1>1, <1>4 DEF EnterFree, StartStep, OnlyWakersWake
  <2>2. QED
    BY <1>1, <1>2, <1>4, <2>1, WokenUnchanged DEF EnterFree, EntryOf
<1>5. ASSUME NEW g \in Greenlets, NEW c \in Costs, EnterNow(g, c)
      PROVE  OnlyWakersWake' /\ Found'
  <2>1. OnlyWakersWake'
    BY <1>1, <1>5 DEF EnterNow, StartStep, OnlyWakersWake
  <2>2. \A h \in Greenlets : pc'[h] = "waiting" => pc[h] = "waiting" /\ EntryOf(h)' = EntryOf(h)
    BY <1>1, <1>5 DEF EnterNow, EntryOf
  <2>3. QED
    BY <1>2, <1>5, <2>1, <2>2, WokenUnchanged DEF EnterNow
<1>6. ASSUME NEW g \in Greenlets, NEW c \in Costs, EnterWaiting(g, c)
      PROVE  OnlyWakersWake' /\ Found'
  <2>1. OnlyWakersWake'
    BY <1>1, <1>6 DEF EnterWaiting, StartStep, OnlyWakersWake
  <2>2. Woken' = Woken /\ cancels' = cancels
    BY <1>6, WokenUnchanged DEF EnterWaiting
  <2>3. EntryOf(g)' \in waiters'
    <3>1. cost'[g] = Clamp(c) /\ wakeMe'[g] = waiterUid'
      BY <1>1, <1>6 DEF EnterWaiting
    <3>2. EntryOf(g)' = [cost |-> Clamp(c), uid |-> waiterUid', who |-> g]
      BY <3>1 DEF EntryOf
    <3>3. QED
      BY <1>6, <3>2 DEF EnterWaiting
  <2>4. ASSUME NEW h \in Greenlets, h # g
        PROVE  pc'[h] = pc[h] /\ EntryOf(h)' = EntryOf(h)
    BY <1>1, <1>6, <2>4 DEF EnterWaiting, EntryOf
  <2>5. waiters \subseteq waiters'
    BY <1>6 DEF EnterWaiting
  <2>6. Found'
    BY <2>2, <2>3, <2>4, <2>5 DEF Found
  <2>7. QED
    BY <2>1, <2>6
<1>7. ASSUME NEW g \in Greenlets, ExitFree(g) \/ ExitHolding(g) \/ EndScan(g)
      PROVE  OnlyWakersWake' /\ Found'
  <2>1. /\ pc'[g] \in {"idle", "scanning", "waking"}
        /\ toWake[g] # <<>> => pc'[g] \in {"scanning", "waking"}
        /\ \A h \in Greenlets \ {g} : pc'[h] = pc[h]
        /\ UNCHANGED <<waiters, cost, wakeMe, toWake, cancels>>
    BY <1>1, <1>7 DEF ExitFree, ExitHolding, EndScan, OnlyWakersWake
  <2>2. OnlyWakersWake'
    BY <2>1 DEF OnlyWakersWake
  <2>3. QED
    BY <1>2, <2>1, <2>2, WokenUnchanged DEF EntryOf
<1>8. ASSUME NEW g \in Greenlets, Scan(g)
      PROVE  OnlyWakersWake' /\ Found'
  <2>1. PICK e \in todo :
          IF Fits(e.cost)
            THEN /\ toWake' = [toWake EXCEPT ![g] = Append(@, e)]
                 /\ waiters' = waiters \ {e}
            ELSE UNCHANGED <<toWake, waiters>>
    BY <1>8 DEF Scan
  <2>2. UNCHANGED <<pc, cost, wakeMe, cancels>> /\ pc[g] = "scanning"
    BY <1>8 DEF Scan
  <2>3. \A h \in Greenlets : EntryOf(h)' = EntryOf(h)
    BY <2>2 DEF EntryOf
  <2>4. waiters \cup Woken \subseteq (waiters \cup Woken)'
    <3>1. CASE Fits(e.cost)
      BY <1>1, <2>1, <3>1, WokenGrows
    <3>2. CASE ~Fits(e.cost)
      BY <2>1, <3>2, WokenUnchanged
    <3>3. QED
      BY <3>1, <3>2
  <2>5. \A h \in Greenlets : h # g => toWake'[h] = toWake[h]
    BY <1>1, <2>1
  <2>6. OnlyWakersWake'
    BY <2>2, <2>5 DEF OnlyWakersWake
  <2>7. QED
    BY <2>2, <2>3, <2>4, <2>6 DEF Found
<1>9. ASSUME NEW g \in Greenlets, Wake(g)
      PROVE  OnlyWakersWake' /\ Found'
  <2>1. PICK woken : woken = Head(toWake[g])
    OBVIOUS
  <2>2. toWake[g] # <<>>
    BY <1>9 DEF Wake, Typed, WakersHaveWork, Book
  <2>3. /\ pc[g] = "waking" /\ Listens(woken)
        /\ toWake' = [toWake EXCEPT ![g] = Tail(@)]
        /\ pc' = [pc EXCEPT ![woken.who] = "holding",
                            ![g] = IF Len(toWake[g]) = 1 THEN "idle" ELSE "waking"]
        /\ UNCHANGED <<waiters, cost, wakeMe, cancels>>
    BY <1>9, <2>1 DEF Wake
  <2>4. woken \in Woken /\ woken.who \in Greenlets /\ woken.who # g
    <3>1. woken \in Woken
      BY <1>1, <2>1, <2>2, <2>3, WokenTail
    <3>2. QED
      BY <1>1, <2>3, <3>1 DEF Entry, Listens
  <2>5. woken = EntryOf(woken.who) /\ pc[woken.who] = "waiting"
    BY <2>3, <2>4, OneEntryEach DEF Listens
  <2>6. /\ pc'[woken.who] = "holding"
        /\ \A h \in Greenlets \ {g, woken.who} : pc'[h] = pc[h] /\ toWake'[h] = toWake[h]
        /\ toWake'[g] = Tail(toWake[g]) /\ toWake'[woken.who] = toWake[woken.who]
        /\ pc'[g] = IF Len(toWake[g]) = 1 THEN "idle" ELSE "waking"
    BY <1>1, <2>3, <2>4
  <2>7. OnlyWakersWake'
    <3>1. toWake[g] \in Seq(Entry) /\ (Len(toWake[g]) = 1 => Tail(toWake[g]) = <<>>)
      BY <1>1, <2>2, <1>9, TailFacts
    <3>2. toWake[woken.who] = <<>>
      BY <2>4, <2>5 DEF OnlyWakersWake
    <3>3. QED
      BY <2>4, <2>6, <3>1, <3>2 DEF OnlyWakersWake
  <2>8. Woken \subseteq Woken' \cup {woken}
    BY <1>1, <2>1, <2>2, <2>3, WokenLosesHead
  <2>9. ASSUME NEW h \in Greenlets, pc'[h] = "waiting", cancels' = 0
        PROVE  EntryOf(h)' \in (waiters \cup Woken)'
    <3>1. h # g /\ h # woken.who /\ pc[h] = "waiting"
      BY <2>6, <2>9
    <3>2. EntryOf(h)' = EntryOf(h) /\ EntryOf(h).who = h
      BY <2>3 DEF EntryOf
    <3>3. EntryOf(h) \in waiters \cup Woken /\ EntryOf(h) # woken
      BY <2>3, <2>9, <3>1, <3>2 DEF Found
    <3>4. QED
      BY <2>3, <2>8, <3>2, <3>3
  <2>10. QED
    BY <2>7, <2>9 DEF Found
<1>10. ASSUME NEW g \in Greenlets, Cancel(g)
       PROVE  OnlyWakersWake' /\ Found'
  <2>1. cancels' # 0
    BY <1>1, <1>10 DEF Cancel
  <2>2. toWake'[g] = <<>> /\ \A h \in Greenlets \ {g} : toWake'[h] = toWake[h] /\ pc'[h] = pc[h]
    BY <1>1, <1>10 DEF Cancel
  <2>3. QED
    BY <2>1, <2>2 DEF Found, OnlyWakersWake
<1>11. QED
  BY <1>3, <1>4, <1>5, <1>6, <1>7, <1>8, <1>9, <1>10 DEF Next, Enter, Leave, Terminated

(* No wakeup is lost while no blocked greenlet is killed: a greenlet blocked  *)
(* on its channel is in the list, or somebody still has to put to it.         *)
THEOREM WakeupsAreKept == Spec => []NoLostWakeup
<1>1. Init => OnlyWakersWake /\ Found
  BY DEF Init, OnlyWakersWake, Found
<1>2. OnlyWakersWake /\ Found => NoLostWakeup
  BY DEF OnlyWakersWake, Found, NoLostWakeup, Woken
<1>3. IInv => Book
  BY DEF IInv
<1>4. QED
  BY <1>1, <1>2, <1>3, FoundNext, IInvHolds, PTL DEF Spec

-------------------------------------------------------------------------------
(* The refinement: every step of wait_for is a step of the pool it promises,  *)
(* or changes nothing that the pool tells apart.                              *)
placeOf == [g \in Greenlets |-> IF Charged(g) THEN "in"
                                ELSE IF pc[g] = "waiting" THEN "asking" ELSE "out"]

(* What the pool has given is what the greenlets use.                         *)
LEMMA PoolGiven ==
  ASSUME NEW d \in Dim
  PROVE  Pool!Given(d) = InUse(d)
<1>1. [g \in Greenlets |-> IF placeOf[g] = "in" THEN cost[g][d] ELSE 0] = UseOf(d)
  BY DEF placeOf, UseOf
<1>2. \A f, n : Pool!Sum(f, n) = Sum(f, n)
  BY DEF Pool!Sum, Pool!PartialSums, Sum, PartialSums
<1>3. QED
  BY <1>1, <1>2 DEF Pool!Given, placeOf, InUse, Pool!Greenlets, Greenlets

(* The first state of the waiter is the first state of the pool.              *)
LEMMA PoolInit == Init => Pool!Init
BY DEF Init, Pool!Init, Pool!Greenlets, Greenlets, Charged

(* What is given to the steps of the pool is never above the capacity.        *)
LEMMA PoolWithin ==
  ASSUME IInv, NEW d \in Dim
  PROVE  Pool!Given(d) <= Capacity[d]
<1>1. /\ InUse(d) \in Nat /\ avail[d] \in Nat /\ Capacity[d] \in Nat
      /\ InUse(d) + avail[d] <= Capacity[d]
  BY UseType, ParametersOK DEF IInv, Book, Balanced, Balance, Cost
<1>2. QED
  BY <1>1, PoolGiven

(* A step that charges nobody and moves nobody is a stutter of the pool.      *)
LEMMA PoolSame ==
  ASSUME UNCHANGED cost,
         \A h \in Greenlets : /\ Charged(h)' <=> Charged(h)
                              /\ ~Charged(h) => (pc'[h] = "waiting" <=> pc[h] = "waiting")
  PROVE  [Pool!Next]_Pool!vars
<1>1. placeOf' = placeOf
  BY DEF placeOf
<1>2. QED
  BY <1>1 DEF Pool!vars, placeOf

(* Only g moves. *)
LEMMA PlaceMoves ==
  ASSUME NEW g \in Greenlets, NEW p, placeOf'[g] = p,
         \A h \in Greenlets \ {g} : placeOf'[h] = placeOf[h]
  PROVE  placeOf' = [placeOf EXCEPT ![g] = p]
<1>1. placeOf' = [h \in Greenlets |-> placeOf'[h]]
  BY DEF placeOf
<1>2. [placeOf EXCEPT ![g] = p] = [h \in Greenlets |-> IF h = g THEN p ELSE placeOf[h]]
  BY DEF placeOf
<1>3. QED
  BY <1>1, <1>2

(* wait_for is an entry into the pool, granted or queued.                     *)
LEMMA PoolEnter ==
  ASSUME IInv, IInv', NEW g \in Greenlets, Enter(g)
  PROVE  [Pool!Next]_Pool!vars
<1>1. /\ pc \in [Greenlets -> PC] /\ cost \in [Greenlets -> Cost]
      /\ wakeMe \in [Greenlets -> Nat] /\ avail \in Cost /\ Typed /\ Typed'
  BY DEF IInv, Book, Typed, TypeOK
<1>2. pc[g] = "idle" /\ ~Charged(g) /\ placeOf[g] = "out"
  BY DEF Enter, EnterFree, EnterNow, EnterWaiting, StartStep, Charged, placeOf
<1>3. CASE EnterFree(g)
  <2>1. UNCHANGED cost /\ \A h \in Greenlets : /\ Charged(h)' <=> Charged(h)
                                               /\ pc'[h] = "waiting" <=> pc[h] = "waiting"
    BY <1>1, <1>2, <1>3 DEF EnterFree, Charged, EntryOf
  <2>2. QED
    BY <2>1, PoolSame
<1>4. ASSUME NEW c \in Costs, EnterNow(g, c)
      PROVE  Pool!AskAndLetIn(g)
  <2>1. \A h \in Greenlets \ {g} : /\ Charged(h)' <=> Charged(h)
                                   /\ cost'[h] = cost[h] /\ pc'[h] = pc[h]
    BY <1>1, <1>4 DEF EnterNow, Charged, EntryOf
  <2>2. Charged(g)' /\ cost' = [cost EXCEPT ![g] = Clamp(c)]
    BY <1>1, <1>4 DEF EnterNow, Charged
  <2>3. placeOf'[g] = "in" /\ \A h \in Greenlets \ {g} : placeOf'[h] = placeOf[h]
    BY <2>1, <2>2 DEF placeOf
  <2>4. placeOf' = [placeOf EXCEPT ![g] = "in"]
    BY <2>3, PlaceMoves
  <2>5. Pool!OnlyNeedOf(g)
    BY <1>1, <2>2 DEF Pool!OnlyNeedOf, Pool!Greenlets, Greenlets
  <2>6. ASSUME NEW d \in Dim
        PROVE  Pool!Given(d) + cost'[g][d] <= Capacity[d]
    <3>1. InUse(d)' = InUse(d) - 0 + cost'[g][d]
      BY <1>1, <1>2, <2>1, <2>2, UseUpdate
    <3>2. InUse(d)' <= Capacity[d]
      <4>1. InUse(d)' + avail'[d] <= Capacity[d]
        BY DEF IInv, Balanced, Balance
      <4>2. avail'[d] \in Nat /\ Capacity[d] \in Nat /\ cost'[g][d] \in Nat
        BY <1>1, ParametersOK DEF Typed, TypeOK, Cost
      <4>3. InUse(d) \in Nat
        BY <1>1, UseType
      <4>4. QED
        BY <3>1, <4>1, <4>2, <4>3
    <3>3. cost'[g][d] \in Nat /\ InUse(d) \in Nat
      BY <1>1, UseType DEF Typed, TypeOK, Cost
    <3>4. QED
      BY <3>1, <3>2, <3>3, PoolGiven
  <2>7. \A d \in Pool!Dim :
          [e \in Pool!Dim |-> Pool!Given(e) + cost'[g][e]][d] <= Capacity[d]
    BY <2>6 DEF Pool!Dim, Dim
  <2>8. QED
    BY <1>2, <2>4, <2>5, <2>7 DEF Pool!AskAndLetIn, Pool!WithinCapacity, placeOf
<1>5. ASSUME NEW c \in Costs, EnterWaiting(g, c)
      PROVE  Pool!Ask(g)
  <2>1. /\ ~Charged(g)'
        /\ \A h \in Greenlets \ {g} : /\ Charged(h)' <=> Charged(h)
                                      /\ pc'[h] = pc[h]
    BY <1>1, <1>5, ChargedEnterWaiting
  <2>2. pc'[g] = "waiting" /\ cost' = [cost EXCEPT ![g] = Clamp(c)]
    BY <1>1, <1>5 DEF EnterWaiting
  <2>3. placeOf'[g] = "asking" /\ \A h \in Greenlets \ {g} : placeOf'[h] = placeOf[h]
    BY <2>1, <2>2 DEF placeOf
  <2>4. placeOf' = [placeOf EXCEPT ![g] = "asking"]
    BY <2>3, PlaceMoves
  <2>5. Pool!OnlyNeedOf(g)
    BY <1>1, <2>2 DEF Pool!OnlyNeedOf, Pool!Greenlets, Greenlets
  <2>6. \A d \in Pool!Dim : cost'[g][d] <= Capacity[d]
    BY <1>1, <2>2, ClampType DEF Pool!Dim, Dim
  <2>7. QED
    BY <1>2, <2>4, <2>5, <2>6 DEF Pool!Ask, Pool!WithinCapacity, placeOf
<1>6. Pool!Greenlets = Greenlets
  BY DEF Pool!Greenlets, Greenlets
<1>7. QED
  BY <1>3, <1>4, <1>5, <1>6 DEF Enter, Pool!Next

(* A scan that charges a waiter is a grant of the pool.                       *)
LEMMA PoolScan ==
  ASSUME IInv, IInv', NEW g \in Greenlets, Scan(g)
  PROVE  [Pool!Next]_Pool!vars
<1>1. /\ waiters \subseteq Entry /\ avail \in Cost /\ Typed /\ Typed' /\ Book
  BY DEF IInv, Book, Typed, TypeOK
<1>2. UNCHANGED <<cost, pc>>
  BY DEF Scan
<1>3. CASE \A h \in Greenlets : Charged(h)' <=> Charged(h)
  BY <1>2, <1>3, PoolSame
<1>4. ASSUME NEW e \in waiters, Listens(e), e.cost = cost[e.who],
             \A h \in Greenlets \ {e.who} : Charged(h)' <=> Charged(h),
             ~Charged(e.who), Charged(e.who)'
      PROVE  Pool!LetIn(e.who)
  <2>1. e.who \in Greenlets
    BY <1>1 DEF Entry
  <2>2. /\ placeOf[e.who] = "asking" /\ placeOf'[e.who] = "in"
        /\ \A h \in Greenlets \ {e.who} : placeOf'[h] = placeOf[h]
    BY <1>2, <1>4, <2>1 DEF placeOf, Listens
  <2>3. placeOf' = [placeOf EXCEPT ![e.who] = "in"]
    BY <2>1, <2>2, PlaceMoves
  <2>4. ASSUME NEW d \in Dim
        PROVE  Pool!Given(d) + cost[e.who][d] <= Capacity[d]
    <3>1. InUse(d)' = InUse(d) - 0 + cost'[e.who][d]
      BY <1>1, <1>2, <1>4, <2>1, UseUpdate
    <3>2. InUse(d)' + avail'[d] <= Capacity[d]
      BY DEF IInv, Balanced, Balance
    <3>3. avail'[d] \in Nat /\ Capacity[d] \in Nat
      BY <1>1, ParametersOK DEF Typed, TypeOK, Cost
    <3>4. cost[e.who][d] \in Nat /\ InUse(d) \in Nat
      BY <1>1, <2>1, UseType DEF Typed, TypeOK, Cost
    <3>5. QED
      BY <1>2, <3>1, <3>2, <3>3, <3>4, PoolGiven
  <2>5. \A d \in Pool!Dim :
          [f \in Pool!Dim |-> Pool!Given(f) + cost[e.who][f]][d] <= Capacity[d]
    BY <2>4 DEF Pool!Dim, Dim
  <2>6. QED
    BY <1>2, <2>2, <2>3, <2>5 DEF Pool!LetIn, Pool!WithinCapacity, placeOf
<1>5. ASSUME NEW e \in waiters, \A h \in Greenlets \ {e.who} : Charged(h)' <=> Charged(h)
      PROVE  \/ \A h \in Greenlets : Charged(h)' <=> Charged(h)
             \/ ~(Charged(e.who)' <=> Charged(e.who))
  BY <1>5
<1>6. \A e \in waiters : e.who \in Pool!Greenlets
  BY <1>1 DEF Entry, Pool!Greenlets, Greenlets
<1>7. QED
  BY <1>1, <1>3, <1>4, <1>5, <1>6, ChargedScan DEF Pool!Next

(* Leaving the waiter is leaving the pool, or one of the steps above.         *)
LEMMA PoolLeave ==
  ASSUME IInv, IInv', NEW g \in Greenlets, Leave(g)
  PROVE  [Pool!Next]_Pool!vars
<1>1. pc \in [Greenlets -> PC] /\ Book
  BY DEF IInv, Book, Typed, TypeOK
<1>2. CASE ExitFree(g) \/ EndScan(g)
  <2>1. UNCHANGED cost /\ \A h \in Greenlets : /\ Charged(h)' <=> Charged(h)
                                               /\ pc'[h] = "waiting" <=> pc[h] = "waiting"
    BY <1>1, <1>2 DEF ExitFree, EndScan, Charged, EntryOf
  <2>2. QED
    BY <2>1, PoolSame
<1>3. CASE Wake(g)
  BY <1>1, <1>3, ChargedWake, PoolSame DEF Wake
<1>4. CASE ExitHolding(g)
  <2>1. UNCHANGED cost /\ \A h \in Greenlets \ {g} : /\ Charged(h)' <=> Charged(h)
                                                     /\ pc'[h] = pc[h]
    BY <1>1, <1>4 DEF ExitHolding, Charged, EntryOf
  <2>2. Charged(g) /\ pc'[g] = "scanning" /\ ~Charged(g)'
    BY <1>1, <1>4 DEF ExitHolding, Charged
  <2>3. /\ placeOf[g] = "in" /\ placeOf'[g] = "out"
        /\ \A h \in Greenlets \ {g} : placeOf'[h] = placeOf[h]
    BY <2>1, <2>2 DEF placeOf
  <2>4. placeOf' = [placeOf EXCEPT ![g] = "out"]
    BY <2>3, PlaceMoves
  <2>5. Pool!GiveBack(g)
    BY <2>1, <2>3, <2>4 DEF Pool!GiveBack, placeOf
  <2>6. QED
    BY <2>5 DEF Pool!Next, Pool!Greenlets, Greenlets
<1>5. QED
  BY <1>2, <1>3, <1>4, PoolScan DEF Leave

(* A cancelled waiter gives up its place in the pool.                         *)
LEMMA PoolCancel ==
  ASSUME IInv, NEW g \in Greenlets, Cancel(g)
  PROVE  [Pool!Next]_Pool!vars
<1>1. pc \in [Greenlets -> PC]
  BY DEF IInv, Book, Typed, TypeOK
<1>2. UNCHANGED cost /\ \A h \in Greenlets \ {g} : /\ Charged(h)' <=> Charged(h)
                                                   /\ pc'[h] = pc[h]
  BY <1>1 DEF Cancel, Charged, EntryOf
<1>3. pc'[g] = "idle" /\ ~Charged(g)'
  BY <1>1 DEF Cancel, Charged
<1>4. placeOf'[g] = "out" /\ \A h \in Greenlets \ {g} : placeOf'[h] = placeOf[h]
  BY <1>2, <1>3 DEF placeOf
<1>5. placeOf' = [placeOf EXCEPT ![g] = "out"]
  BY <1>4, PlaceMoves
<1>6. CASE placeOf[g] = "in"
  <2>1. Pool!GiveBack(g)
    BY <1>2, <1>5, <1>6 DEF Pool!GiveBack, placeOf
  <2>2. QED
    BY <2>1 DEF Pool!Next, Pool!Greenlets, Greenlets
<1>7. CASE placeOf[g] = "asking"
  <2>1. Pool!GiveUp(g)
    BY <1>2, <1>5, <1>7 DEF Pool!GiveUp, placeOf
  <2>2. QED
    BY <2>1 DEF Pool!Next, Pool!Greenlets, Greenlets
<1>8. CASE placeOf[g] = "out"
  <2>1. placeOf' = placeOf
    <3>1. \A h \in Greenlets : placeOf'[h] = placeOf[h]
      BY <1>4, <1>8
    <3>2. QED
      BY <3>1 DEF placeOf
  <2>2. QED
    BY <1>2, <2>1 DEF Pool!vars, placeOf
<1>9. placeOf[g] \in {"in", "asking", "out"}
  BY DEF placeOf
<1>10. QED
  BY <1>6, <1>7, <1>8, <1>9

(* wait_for keeps its promise: it implements the abstract pool, in which a    *)
(* step is let in only when everything given stays within the capacity.       *)
THEOREM ImplementsPool == Spec => PoolSpec
<1>1. Init => Pool!Init
  BY PoolInit
<1>2. ASSUME IInv, IInv', [Next]_vars
      PROVE  [Pool!Next]_Pool!vars
  <2>1. CASE UNCHANGED vars
    <3>1. UNCHANGED cost /\ \A h \in Greenlets : /\ Charged(h)' <=> Charged(h)
                                                 /\ pc'[h] = "waiting" <=> pc[h] = "waiting"
      BY <2>1 DEF vars, Charged, EntryOf
    <3>2. QED
      BY <3>1, PoolSame
  <2>2. QED
    BY <1>2, <2>1, PoolEnter, PoolLeave, PoolCancel DEF Next, Terminated
<1>3. QED
  BY <1>1, <1>2, IInvHolds, PTL DEF Spec, PoolSpec, Pool!Spec

-------------------------------------------------------------------------------
(* An entry that the list has before another one is not smaller.              *)
LEMMA BeforeIsNotSmaller ==
  ASSUME NEW e \in Entry, NEW f \in Entry, Before(e, f)
  PROVE  ~Larger(f.cost, e.cost)
<1> SUFFICES ASSUME Larger(f.cost, e.cost)
             PROVE  FALSE
  OBVIOUS
<1>1. \A i \in 1..4 : Fields[i] \in Dim
  BY DEF Fields, Dim
<1>2. \A i \in 1..4 : /\ e.cost[Fields[i]] \in Nat /\ f.cost[Fields[i]] \in Nat
                      /\ SortKey(e)[i] = e.cost[Fields[i]] /\ SortKey(f)[i] = f.cost[Fields[i]]
  BY <1>1 DEF SortKey, Entry, Cost
<1>3. PICK i \in 1..5 : /\ SortKey(e)[i] > SortKey(f)[i]
                        /\ \A j \in 1..(i - 1) : SortKey(e)[j] = SortKey(f)[j]
  BY DEF Before
<1>4. PICK k \in 1..4 : /\ f.cost[Fields[k]] > e.cost[Fields[k]]
                        /\ \A j \in 1..(k - 1) : f.cost[Fields[j]] = e.cost[Fields[j]]
  BY DEF Larger
<1>5. CASE i < k
  <2>1. i \in 1..(k - 1) /\ i \in 1..4
    BY <1>5
  <2>2. QED
    BY <1>2, <1>3, <1>4, <2>1
<1>6. CASE k < i
  <2>1. k \in 1..(i - 1)
    BY <1>6
  <2>2. QED
    BY <1>2, <1>3, <1>4, <2>1
<1>7. CASE i = k
  BY <1>2, <1>3, <1>4, <1>7
<1>8. QED
  BY <1>5, <1>6, <1>7

(* A scan takes the entries in their order: what it has kept does not fit, and *)
(* what it has not looked at yet is not larger.                               *)
LEMMA ScanTakesLargest ==
  ASSUME Book, NEW g \in Greenlets, Scan(g),
         NEW e \in waiters \ waiters', NEW f \in waiters, Larger(f.cost, e.cost)
  PROVE  ~Fits(f.cost)
<1>1. waiters \subseteq Entry /\ todo \subseteq waiters
  BY DEF Book, Typed, TypeOK
<1>2. e \in todo /\ IsFirst(e, todo)
  BY DEF Scan
<1>3. CASE f \in todo
  <2>1. e # f
    <3>1. ~Larger(e.cost, e.cost)
      <4>1. \A i \in 1..4 : e.cost[Fields[i]] \in Nat
        BY <1>1 DEF Entry, Cost, Fields, Dim
      <4>2. QED
        BY <4>1 DEF Larger
    <3>2. QED
      BY <3>1
  <2>2. Before(e, f)
    BY <1>2, <1>3, <2>1 DEF IsFirst
  <2>3. QED
    BY <1>1, <2>2, BeforeIsNotSmaller
<1>4. CASE f \notin todo
  BY <1>4 DEF Scan, Busy, Book, Bookkeeping, KeptDoNotFit
<1>5. QED
  BY <1>3, <1>4

(* A scan gives what is available to the largest waiter that fits: no waiter  *)
(* is taken off the list while a larger one would fit.                        *)
THEOREM LargestIsFirst == Spec => LargestFirst
<1>1. ASSUME Book, [Next]_vars, NEW e \in waiters \ waiters', NEW f \in waiters,
             Larger(f.cost, e.cost)
      PROVE  ~Fits(f.cost)
  <2>1. CASE UNCHANGED vars \/ Terminated
    BY <1>1, <2>1 DEF vars, Terminated
  <2>2. ASSUME NEW g \in Greenlets, Enter(g) \/ Cancel(g)
        PROVE  waiters \subseteq waiters'
    BY <2>2 DEF Enter, EnterFree, EnterNow, EnterWaiting, Cancel
  <2>3. ASSUME NEW g \in Greenlets, Leave(g), ~Scan(g)
        PROVE  waiters \subseteq waiters'
    BY <2>3 DEF Leave, ExitFree, ExitHolding, EndScan, Wake
  <2>4. ASSUME NEW g \in Greenlets, Scan(g)
        PROVE  ~Fits(f.cost)
    BY <1>1, <2>4, ScanTakesLargest
  <2>5. QED
    BY <1>1, <2>1, <2>2, <2>3, <2>4 DEF Next
<1>2. Book /\ [Next]_vars =>
        [\A e \in waiters \ waiters', f \in waiters :
           Larger(f.cost, e.cost) => ~Fits(f.cost)]_vars
  BY <1>1
<1>3. IInv => Book
  BY DEF IInv
<1>4. QED
  BY <1>2, <1>3, IInvHolds, PTL DEF Spec, LargestFirst
-------------------------------------------------------------------------------
(* "Exiting the context frees up the resources"                               *)
(* (resource_semaphore.py:113-114) is true until a blocked greenlet is        *)
(* killed.                                                                    *)
THEOREM AllFreeUnlessKilled == Spec => [](cancels = 0 => AllFreeWhenUnused)
<1>1. ASSUME IInv, cancels = 0, ~Busy, \A g \in Greenlets : ~Charged(g)
      PROVE  avail = Capacity
  <2>1. ASSUME NEW d \in Dim
        PROVE  avail[d] = Capacity[d]
    <3>1. InUse(d) + avail[d] = Capacity[d]
      BY <1>1 DEF IInv, Balanced, Balance
    <3>2. UseOf(d) \in [1..N -> Nat] /\ avail[d] \in Nat
      BY <1>1, UseType DEF IInv, Book
    <3>3. \A g \in 1..N : UseOf(d)[g] = 0
      BY <1>1 DEF UseOf, Greenlets
    <3>4. InUse(d) = 0
      BY <3>2, <3>3, SumZero, ParametersOK DEF InUse
    <3>5. QED
      BY <3>1, <3>2, <3>4
  <2>2. avail \in [Dim -> Nat] /\ Capacity \in [Dim -> Nat]
    BY <1>1, ParametersOK DEF IInv, Book, Typed, TypeOK, Cost
  <2>3. QED
    BY <2>1, <2>2
<1>2. IInv => (cancels = 0 => AllFreeWhenUnused)
  BY <1>1 DEF AllFreeWhenUnused
<1>3. QED
  BY <1>2, IInvHolds, PTL

-------------------------------------------------------------------------------
(* No put() is in vain: who has been given resources is told once, and        *)
(* listens until he is, unless blocked greenlets are killed.                  *)
UidsDiffer == \A e, f \in waiters : e.uid = f.uid => e = f

WokenOnce ==
  \A w, v \in Greenlets : \A i \in DOMAIN toWake[w], j \in DOMAIN toWake[v] :
    toWake[w][i] = toWake[v][j] => w = v /\ i = j

WokenListen == cancels = 0 => \A e \in Woken : Listens(e)

Handshakes == UidsDiffer /\ WokenOnce /\ WokenListen /\ IsFiniteSet(waiters)

(* Most actions leave the entries alone, and who listens.                     *)
LEMMA HandshakesStay ==
  ASSUME Book, Handshakes, waiters' = waiters, toWake' = toWake,
         cancels' = 0 => cancels = 0,
         \A e \in Entry : Listens(e) => Listens(e)'
  PROVE  Handshakes'
<1>1. Woken' = Woken /\ Woken \subseteq Entry
  BY WokenUnchanged, WokenType DEF Book
<1>2. QED
  BY <1>1 DEF Handshakes, UidsDiffer, WokenOnce, WokenListen

(* A new entry has a uid that none has had before.                            *)
LEMMA EnterKeepsHandshakes ==
  ASSUME Book, Handshakes, NEW g \in Greenlets, Enter(g)
  PROVE  Handshakes'
<1>1. pc \in [Greenlets -> PC] /\ wakeMe \in [Greenlets -> Nat] /\ waiterUid \in Nat /\ waiters \subseteq Entry
  BY DEF Book, Typed, TypeOK
<1>2. CASE EnterFree(g) \/ \E c \in Costs : EnterNow(g, c)
  <2>1. /\ pc[g] = "idle" /\ \E p \in {"free", "holding"} : pc' = [pc EXCEPT ![g] = p]
        /\ UNCHANGED <<waiters, toWake, wakeMe, cancels>>
    BY <1>2 DEF EnterFree, EnterNow, StartStep
  <2>2. \A e \in Entry : Listens(e) => Listens(e)'
    BY <1>1, <2>1 DEF Listens, Entry
  <2>3. QED
    BY <2>1, <2>2, HandshakesStay
<1>3. CASE \E c \in Costs : EnterWaiting(g, c)
  <2>0. PICK c \in Costs : EnterWaiting(g, c)
    BY <1>3
  <2>1. PICK new : new.uid = waiterUid + 1 /\ waiters' = waiters \cup {new}
    <3>1. PICK new : new = [cost |-> Clamp(c), uid |-> waiterUid + 1, who |-> g]
      OBVIOUS
    <3>2. waiters' = waiters \cup {new} /\ new.uid = waiterUid + 1
      BY <2>0, <3>1 DEF EnterWaiting
    <3>3. QED
      BY <3>2
  <2>2. /\ pc[g] = "idle" /\ pc' = [pc EXCEPT ![g] = "waiting"]
        /\ wakeMe' = [wakeMe EXCEPT ![g] = waiterUid + 1]
        /\ toWake' = toWake /\ cancels' = cancels
    BY <2>0 DEF EnterWaiting, StartStep
  <2>3. \A e \in waiters : e.uid \in Nat /\ e.uid <= waiterUid
    BY <1>1 DEF Book, Bookkeeping, UidsAreOld, Entry
  <2>4. UidsDiffer'
    <3>1. \A e \in waiters : e.uid # new.uid
      BY <1>1, <2>1, <2>3
    <3>2. QED
      BY <2>1, <3>1 DEF Handshakes, UidsDiffer
  <2>5. IsFiniteSet(waiters')
    BY <2>1, FS_AddElement DEF Handshakes
  <2>6. Woken' = Woken /\ Woken \subseteq Entry
    BY <2>2, WokenUnchanged, WokenType DEF Book
  <2>7. \A e \in Entry : Listens(e) => Listens(e)'
    BY <1>1, <2>2 DEF Listens, Entry
  <2>8. WokenListen' /\ WokenOnce'
    BY <2>2, <2>6, <2>7 DEF Handshakes, WokenListen, WokenOnce
  <2>9. QED
    BY <2>4, <2>5, <2>8 DEF Handshakes
<1>4. QED
  BY <1>2, <1>3 DEF Enter

(* A scan sets apart an entry that was not set apart before.                  *)
LEMMA ScanKeepsHandshakes ==
  ASSUME Book, Handshakes, NEW g \in Greenlets, Scan(g)
  PROVE  Handshakes'
<1>1. /\ toWake \in [Greenlets -> Seq(Entry)] /\ waiters \subseteq Entry /\ todo \subseteq waiters
      /\ Woken \subseteq Entry /\ Typed
  BY WokenType DEF Book, Typed, TypeOK
<1>2. PICK e \in todo :
        IF Fits(e.cost)
          THEN toWake' = [toWake EXCEPT ![g] = Append(@, e)] /\ waiters' = waiters \ {e}
          ELSE UNCHANGED <<toWake, waiters>>
  BY DEF Scan
<1>3. pc' = pc /\ wakeMe' = wakeMe /\ cancels' = cancels
  BY DEF Scan
<1>4. \A f \in Entry : Listens(f) => Listens(f)'
  BY <1>3 DEF Listens
<1>5. CASE ~Fits(e.cost)
  BY <1>2, <1>3, <1>4, <1>5, HandshakesStay
<1>6. CASE Fits(e.cost)
  <2>1. /\ toWake' = [toWake EXCEPT ![g] = Append(@, e)] /\ waiters' = waiters \ {e}
        /\ e \in waiters /\ e \in Entry
    BY <1>1, <1>2, <1>6
  <2>2. UidsDiffer' /\ IsFiniteSet(waiters')
    <3>1. waiters' \in SUBSET waiters
      BY <2>1
    <3>2. QED
      BY <3>1, FS_Subset DEF Handshakes, UidsDiffer
  <2>3. WokenListen'
    <3>1. Woken' \subseteq Woken \cup {e}
      BY <1>1, <2>1, WokenAppend
    <3>2. cancels = 0 => Listens(e)
      BY <2>1 DEF Book, Bookkeeping, EntriesAreLive
    <3>3. QED
      BY <1>1, <1>3, <1>4, <2>1, <3>1, <3>2 DEF Handshakes, WokenListen
  <2>4. \A w \in Greenlets : \A i \in DOMAIN toWake[w] : toWake[w][i] # e
    <3>1. e \notin Woken
      BY <2>1 DEF Book, Bookkeeping, WokenLeftTheList
    <3>2. QED
      BY <3>1 DEF Woken
  <2>5. PICK n \in Nat : n = Len(toWake[g])
    BY <1>1
  <2>6. /\ DOMAIN toWake'[g] = 1..(n + 1) /\ DOMAIN toWake[g] = 1..n /\ toWake'[g][n + 1] = e
        /\ \A i \in 1..n : toWake'[g][i] = toWake[g][i]
    BY <1>1, <2>1, <2>5
  <2>7. \A w \in Greenlets \ {g} : toWake'[w] = toWake[w]
    BY <1>1, <2>1
  <2>8. ASSUME NEW w \in Greenlets, NEW i \in DOMAIN toWake'[w]
        PROVE  \/ w = g /\ i = n + 1 /\ toWake'[w][i] = e
               \/ /\ i \in DOMAIN toWake[w] /\ toWake'[w][i] = toWake[w][i]
                  /\ toWake'[w][i] # e
    <3>1. CASE w = g
      <4>1. i = n + 1 \/ i \in 1..n
        BY <2>6, <2>8, <3>1
      <4>2. QED
        BY <2>4, <2>6, <3>1, <4>1
    <3>2. CASE w # g
      BY <2>4, <2>7, <2>8, <3>2
    <3>3. QED
      BY <3>1, <3>2
  <2>9. WokenOnce'
    <3>1. ASSUME NEW w \in Greenlets, NEW v \in Greenlets, NEW i \in DOMAIN toWake'[w],
                 NEW j \in DOMAIN toWake'[v], toWake'[w][i] = toWake'[v][j]
          PROVE  w = v /\ i = j
      BY <2>8, <3>1 DEF Handshakes, WokenOnce
    <3>2. QED
      BY <3>1 DEF WokenOnce
  <2>10. QED
    BY <2>2, <2>3, <2>9 DEF Handshakes
<1>7. QED
  BY <1>5, <1>6

(* The others that listen go on listening when one is told.                   *)
LEMMA WakeKeepsHandshakes ==
  ASSUME Book, Handshakes, NEW g \in Greenlets, Wake(g)
  PROVE  Handshakes'
<1> DEFINE woken == Head(toWake[g])
<1>1. /\ toWake \in [Greenlets -> Seq(Entry)] /\ Woken \subseteq Entry /\ Typed
      /\ pc \in [Greenlets -> PC] /\ toWake[g] # <<>>
  BY WokenType DEF Book, Typed, TypeOK, WakersHaveWork, Wake
<1>2. /\ pc[g] = "waking" /\ Listens(woken)
      /\ toWake' = [toWake EXCEPT ![g] = Tail(@)]
      /\ pc' = [pc EXCEPT ![woken.who] = "holding",
                          ![g] = IF Len(toWake[g]) = 1 THEN "idle" ELSE "waking"]
      /\ UNCHANGED <<waiters, wakeMe, cancels>>
  BY DEF Wake
<1>3. toWake'[g] = Tail(toWake[g]) /\ \A w \in Greenlets \ {g} : toWake'[w] = toWake[w]
  BY <1>1, <1>2
<1>4. /\ Head(toWake[g]) = toWake[g][1] /\ 1 \in DOMAIN toWake[g]
      /\ \A i \in DOMAIN Tail(toWake[g]) :
           i + 1 \in DOMAIN toWake[g] /\ Tail(toWake[g])[i] = toWake[g][i + 1]
  BY <1>1, TailFacts
<1>5. ASSUME NEW w \in Greenlets, NEW i \in DOMAIN toWake'[w]
      PROVE  \E j \in DOMAIN toWake[w] : /\ toWake'[w][i] = toWake[w][j]
                                         /\ j = (IF w = g THEN i + 1 ELSE i)
                                         /\ ~(w = g /\ j = 1)
  <2>1. CASE w = g
    <3>1. i \in DOMAIN Tail(toWake[g]) /\ i + 1 # 1
      <4>1. Tail(toWake[g]) \in Seq(Entry) /\ i \in DOMAIN Tail(toWake[g])
        BY <1>1, <1>3, <1>5, <2>1, TailFacts
      <4>2. i \in Nat /\ i >= 1
        BY <4>1
      <4>3. QED
        BY <4>1, <4>2
    <3>2. QED
      BY <1>3, <1>4, <2>1, <3>1
  <2>2. CASE w # g
    BY <1>3, <1>5, <2>2
  <2>3. QED
    BY <2>1, <2>2
<1>6. \A w \in Greenlets : \A i \in DOMAIN toWake'[w] : i \in Int
  <2>1. toWake' \in [Greenlets -> Seq(Entry)]
    BY TypedLeave DEF Leave, Book, Typed, TypeOK
  <2>2. ASSUME NEW q \in Seq(Entry), NEW i \in DOMAIN q
        PROVE  i \in Int
    OBVIOUS
  <2>3. QED
    BY <2>1, <2>2
<1>7. WokenOnce'
  <2>1. ASSUME NEW w \in Greenlets, NEW v \in Greenlets, NEW i \in DOMAIN toWake'[w],
               NEW j \in DOMAIN toWake'[v], toWake'[w][i] = toWake'[v][j]
        PROVE  w = v /\ i = j
    <3>1. PICK k \in DOMAIN toWake[w] : toWake'[w][i] = toWake[w][k] /\ k = (IF w = g THEN i + 1 ELSE i)
      BY <1>5
    <3>2. PICK l \in DOMAIN toWake[v] : toWake'[v][j] = toWake[v][l] /\ l = (IF v = g THEN j + 1 ELSE j)
      BY <1>5
    <3>3. w = v /\ k = l
      <4>1. toWake[w][k] = toWake[v][l]
        BY <2>1, <3>1, <3>2
      <4>2. QED
        BY <4>1, Zenon DEF Handshakes, WokenOnce
    <3>4. i \in Int /\ j \in Int
      BY <1>6
    <3>5. QED
      BY <3>1, <3>2, <3>3, <3>4
  <2>2. QED
    BY <2>1 DEF WokenOnce
<1>8. woken \in Woken
  BY <1>1, <1>2, WokenTail
<1> HIDE DEF woken
<1>9. woken.who \in Greenlets
  BY <1>1, <1>8 DEF Entry
<1>10. ASSUME cancels = 0, NEW e \in Woken'
       PROVE  Listens(e)'
  <2>1. PICK w \in Greenlets : \E i \in DOMAIN toWake'[w] : e = toWake'[w][i]
    BY <1>10 DEF Woken
  <2>0. PICK i \in DOMAIN toWake'[w] : e = toWake'[w][i]
    BY <2>1
  <2>2. PICK j \in DOMAIN toWake[w] : e = toWake[w][j] /\ ~(w = g /\ j = 1)
    BY <1>5, <2>0
  <2>3. e # woken /\ e \in Woken
    BY <1>4, <2>2 DEF Handshakes, WokenOnce, woken, Woken
  <2>4. Listens(e)
    BY <1>10, <2>3 DEF Handshakes, WokenListen
  <2>5. e = EntryOf(e.who) /\ woken = EntryOf(woken.who)
    BY <1>2, <1>8, <2>3, <2>4, OneEntryEach
  <2>6. e.who # woken.who /\ e.who # g /\ e.who \in Greenlets
    BY <1>1, <1>2, <2>3, <2>4, <2>5 DEF Listens, Entry
  <2>7. QED
    BY <1>1, <1>2, <1>9, <2>4, <2>6 DEF Listens
<1>11. QED
  BY <1>2, <1>7, <1>10 DEF Handshakes, UidsDiffer, WokenListen

(* Every step of wait_for.                                                    *)
LEMMA HandshakesNext ==
  ASSUME Book, Handshakes, [Next]_vars
  PROVE  Handshakes'
<1>1. /\ pc \in [Greenlets -> PC] /\ toWake \in [Greenlets -> Seq(Entry)] /\ cancels \in Nat
      /\ Typed
  BY DEF Book, Typed, TypeOK
<1>2. CASE UNCHANGED vars
  BY <1>2, HandshakesStay DEF vars, Listens
<1>3. ASSUME NEW g \in Greenlets, Leave(g)
      PROVE  Handshakes'
  <2>1. CASE ExitFree(g) \/ ExitHolding(g) \/ EndScan(g)
    <3>1. /\ pc[g] # "waiting" /\ \E p \in PC : pc' = [pc EXCEPT ![g] = p]
          /\ UNCHANGED <<waiters, toWake, wakeMe, cancels>>
      BY <2>1 DEF ExitFree, ExitHolding, EndScan, PC
    <3>2. \A e \in Entry : Listens(e) => Listens(e)'
      BY <1>1, <3>1 DEF Listens, Entry
    <3>3. QED
      BY <3>1, <3>2, HandshakesStay
  <2>2. QED
    BY <1>3, <2>1, ScanKeepsHandshakes, WakeKeepsHandshakes DEF Leave
<1>4. ASSUME NEW g \in Greenlets, Cancel(g)
      PROVE  Handshakes'
  <2>1. waiters' = waiters /\ cancels' # 0 /\ toWake' = [toWake EXCEPT ![g] = <<>>]
    BY <1>1, <1>4 DEF Cancel
  <2>2. \A w \in Greenlets : toWake'[w] = IF w = g THEN <<>> ELSE toWake[w]
    BY <1>1, <2>1
  <2>3. DOMAIN (<<>>) = {}
    OBVIOUS
  <2>4. WokenOnce'
    <3>1. \A w \in Greenlets : \A i \in DOMAIN toWake'[w] : w # g /\ toWake'[w] = toWake[w]
      BY <2>2, <2>3
    <3>2. ASSUME NEW w \in Greenlets, NEW v \in Greenlets, NEW i \in DOMAIN toWake'[w],
                 NEW j \in DOMAIN toWake'[v], toWake'[w][i] = toWake'[v][j]
          PROVE  w = v /\ i = j
      <4>1. toWake'[w] = toWake[w] /\ toWake'[v] = toWake[v]
        BY <3>1
      <4>2. i \in DOMAIN toWake[w] /\ j \in DOMAIN toWake[v] /\ toWake[w][i] = toWake[v][j]
        BY <3>2, <4>1
      <4>3. QED
        BY <4>2, Zenon DEF Handshakes, WokenOnce
    <3>3. QED
      BY <3>2, Zenon DEF WokenOnce
  <2>5. QED
    BY <2>1, <2>4 DEF Handshakes, UidsDiffer, WokenListen
<1>5. QED
  BY <1>2, <1>3, <1>4, EnterKeepsHandshakes DEF Next, Terminated
-------------------------------------------------------------------------------
(* The sort puts one entry first: keys are bounded and uids differ.           *)
LEMMA LargestKey ==
  ASSUME NEW T, T # {}, NEW m \in Nat, NEW i, \A e \in T : SortKey(e)[i] \in 0..m
  PROVE  \E e \in T : \A f \in T : SortKey(f)[i] <= SortKey(e)[i]
<1> DEFINE K == {SortKey(e)[i] : e \in T}
<1>1. K \in SUBSET (0..m) /\ K # {}
  OBVIOUS
<1>2. PICK k \in K : \A j \in K : j <= k
  BY <1>1, GreatestNatural
<1>3. QED
  BY <1>2

LargestOf(T, i) == {e \in T : \A f \in T : SortKey(f)[i] <= SortKey(e)[i]}

LEMMA FirstExists ==
  ASSUME Book, UidsDiffer, todo # {}
  PROVE  \E e \in todo : IsFirst(e, todo)
<1> DEFINE T1 == LargestOf(todo, 1)
           T2 == LargestOf(T1, 2)
           T3 == LargestOf(T2, 3)
           T4 == LargestOf(T3, 4)
           T5 == LargestOf(T4, 5)
<1>1. /\ todo \subseteq waiters /\ waiters \subseteq Entry /\ waiterUid \in Nat
      /\ \A e \in waiters : e.uid <= waiterUid
      /\ \A e \in waiters : \A d \in Dim : e.cost[d] <= Capacity[d]
  BY DEF Book, Typed, TypeOK, Bookkeeping, UidsAreOld, EntriesWithinCapacity
<1>2. \A e \in Entry : /\ SortKey(e)[1] = e.cost["cpu"] /\ SortKey(e)[2] = e.cost["memory"]
                       /\ SortKey(e)[3] = e.cost["disk"] /\ SortKey(e)[4] = e.cost["net"]
                       /\ SortKey(e)[5] = e.uid
  BY DEF SortKey, Fields
<1>3. \A e \in Entry : e.uid \in Nat /\ \A d \in Dim : e.cost[d] \in Nat
  BY DEF Entry, Cost
<1>4. \A i \in 1..5 : \E m \in Nat : \A e \in todo : SortKey(e)[i] \in 0..m
  <2>1. \A d \in Dim : Capacity[d] \in Nat
    BY ParametersOK DEF Cost
  <2>2. /\ \A e \in todo : SortKey(e)[1] \in 0..Capacity["cpu"]
        /\ \A e \in todo : SortKey(e)[2] \in 0..Capacity["memory"]
        /\ \A e \in todo : SortKey(e)[3] \in 0..Capacity["disk"]
        /\ \A e \in todo : SortKey(e)[4] \in 0..Capacity["net"]
        /\ \A e \in todo : SortKey(e)[5] \in 0..waiterUid
    BY <1>1, <1>2, <1>3, <2>1 DEF Dim
  <2>3. \A i \in 1..5 : i \in {1, 2, 3, 4, 5}
    OBVIOUS
  <2>4. QED
    BY <1>1, <2>1, <2>2, <2>3 DEF Dim
<1>5. \A i \in 1..5 : \A T \in SUBSET todo : T # {} => LargestOf(T, i) # {} /\ LargestOf(T, i) \subseteq T
  <2>1. ASSUME NEW i \in 1..5, NEW T \in SUBSET todo, T # {}
        PROVE  LargestOf(T, i) # {} /\ LargestOf(T, i) \subseteq T
    <3>1. PICK m \in Nat : \A e \in T : SortKey(e)[i] \in 0..m
      BY <1>4
    <3>2. PICK e \in T : \A f \in T : SortKey(f)[i] <= SortKey(e)[i]
      BY <2>1, <3>1, LargestKey
    <3>3. QED
      BY <3>2 DEF LargestOf
  <2>2. QED
    BY <2>1
<1>6. /\ T1 \subseteq todo /\ T2 \subseteq T1 /\ T3 \subseteq T2 /\ T4 \subseteq T3 /\ T5 \subseteq T4
      /\ T5 # {}
  <2> HIDE DEF T1, T2, T3, T4, T5
  <2>1. 1 \in 1..5 /\ 2 \in 1..5 /\ 3 \in 1..5 /\ 4 \in 1..5 /\ 5 \in 1..5
    OBVIOUS
  <2>2. T1 # {} /\ T1 \subseteq todo
    BY <1>5, <2>1 DEF T1
  <2>3. T2 # {} /\ T2 \subseteq T1
    BY <1>5, <2>1, <2>2 DEF T2
  <2>4. T3 # {} /\ T3 \subseteq T2
    BY <1>5, <2>1, <2>2, <2>3 DEF T3
  <2>5. T4 # {} /\ T4 \subseteq T3
    BY <1>5, <2>1, <2>2, <2>3, <2>4 DEF T4
  <2>6. T5 # {} /\ T5 \subseteq T4
    BY <1>5, <2>1, <2>2, <2>3, <2>4, <2>5 DEF T5
  <2>7. QED
    BY <2>2, <2>3, <2>4, <2>5, <2>6
<1>7. PICK e : e \in T5
  BY <1>6
<1>8. ASSUME NEW f \in todo, f # e
      PROVE  Before(e, f)
  <2>1. /\ SortKey(f)[1] <= SortKey(e)[1]
        /\ f \in T1 => SortKey(f)[2] <= SortKey(e)[2]
        /\ f \in T2 => SortKey(f)[3] <= SortKey(e)[3]
        /\ f \in T3 => SortKey(f)[4] <= SortKey(e)[4]
        /\ f \in T4 => SortKey(f)[5] <= SortKey(e)[5]
    BY <1>6, <1>7 DEF LargestOf
  <2>2. /\ SortKey(f)[1] = SortKey(e)[1] => f \in T1
        /\ f \in T1 /\ SortKey(f)[2] = SortKey(e)[2] => f \in T2
        /\ f \in T2 /\ SortKey(f)[3] = SortKey(e)[3] => f \in T3
        /\ f \in T3 /\ SortKey(f)[4] = SortKey(e)[4] => f \in T4
    BY <1>6, <1>7 DEF LargestOf
  <2>3. SortKey(f)[5] # SortKey(e)[5]
    <3>1. e \in waiters /\ f \in waiters
      BY <1>1, <1>6, <1>7
    <3>2. e.uid # f.uid
      BY <1>8, <3>1 DEF UidsDiffer
    <3>3. QED
      BY <1>1, <1>2, <3>1, <3>2
  <2>4. \A i \in 1..5 : SortKey(e)[i] \in Int /\ SortKey(f)[i] \in Int
    <3>1. \A i \in 1..5 : \A h \in todo : SortKey(h)[i] \in Int
      BY <1>4
    <3>2. QED
      BY <1>6, <1>7, <3>1
  <2> HIDE DEF T1, T2, T3, T4, T5
  <2> DEFINE x == SortKey(e)
             y == SortKey(f)
  <2>5. \/ x[1] > y[1]
        \/ x[1] = y[1] /\ x[2] > y[2]
        \/ x[1] = y[1] /\ x[2] = y[2] /\ x[3] > y[3]
        \/ x[1] = y[1] /\ x[2] = y[2] /\ x[3] = y[3] /\ x[4] > y[4]
        \/ x[1] = y[1] /\ x[2] = y[2] /\ x[3] = y[3] /\ x[4] = y[4] /\ x[5] > y[5]
    <3> HIDE DEF x, y
    <3>1. /\ x[1] \in Int /\ x[2] \in Int /\ x[3] \in Int /\ x[4] \in Int /\ x[5] \in Int
          /\ y[1] \in Int /\ y[2] \in Int /\ y[3] \in Int /\ y[4] \in Int /\ y[5] \in Int
      BY <2>4 DEF x, y
    <3>2. QED
      BY <2>1, <2>2, <2>3, <3>1 DEF x, y
  <2> HIDE DEF x, y
  <2>6. \E i \in 1..5 : x[i] > y[i] /\ \A j \in 1..(i - 1) : x[j] = y[j]
    <3>1. /\ 1..(1 - 1) = {} /\ 1..(2 - 1) = {1} /\ 1..(3 - 1) = {1, 2} /\ 1..(4 - 1) = {1, 2, 3}
          /\ 1..(5 - 1) = {1, 2, 3, 4}
      OBVIOUS
    <3>2. 1 \in 1..5 /\ 2 \in 1..5 /\ 3 \in 1..5 /\ 4 \in 1..5 /\ 5 \in 1..5
      OBVIOUS
    <3>3. QED
      BY <2>5, <3>1, <3>2
  <2>7. QED
    BY <2>6 DEF Before, x, y
<1>9. e \in todo
  BY <1>6, <1>7
<1>10. QED
  BY <1>8, <1>9 DEF IsFirst

-------------------------------------------------------------------------------
(* What the greenlet can do next in Leave(g) is possible: the core of         *)
(* EveryStepRuns.                                                             *)
CanLeave(g) ==
  \/ ~Busy /\ pc[g] \in {"free", "holding"}
  \/ pc[g] = "scanning" /\ (todo = {} \/ \E e \in todo : IsFirst(e, todo))
  \/ ~Busy /\ pc[g] = "waking" /\ Listens(Head(toWake[g]))

SomebodyCanLeave ==
  cancels = 0 /\ (\E g \in Greenlets : pc[g] # "idle") => \E g \in Greenlets : CanLeave(g)

LEMMA HandshakesHold == Spec => [](IInv /\ Handshakes)
<1>1. Init => Handshakes
  <2>1. Init => /\ waiters = {} /\ \A g \in Greenlets : toWake[g] = <<>>
    BY DEF Init
  <2>2. DOMAIN (<<>>) = {} /\ IsFiniteSet({})
    BY FS_EmptySet
  <2>3. QED
    BY <2>1, <2>2 DEF Handshakes, UidsDiffer, WokenOnce, WokenListen, Woken
<1>2. IInv /\ Handshakes /\ [Next]_vars => Handshakes'
  BY HandshakesNext DEF IInv
<1>3. QED
  BY <1>1, <1>2, IInvHolds, PTL DEF Spec

(* Until a blocked greenlet is killed, no put() blocks: the greenlet it is    *)
(* for is in its get().  So somebody can always go on in wait_for, unless     *)
(* nobody is in it.                                                           *)
THEOREM SemaphoreGoesOn == Spec => []SomebodyCanLeave
<1>1. ASSUME IInv, Handshakes, NoLostWakeup, SomebodyWillRelease
      PROVE  SomebodyCanLeave
  <2> SUFFICES ASSUME cancels = 0, NEW g \in Greenlets, pc[g] # "idle"
               PROVE  \E h \in Greenlets : CanLeave(h)
    BY DEF SomebodyCanLeave
  <2>1. pc \in [Greenlets -> PC] /\ Book
    BY <1>1 DEF IInv, Book, Typed, TypeOK
  <2>2. CASE Busy
    <3>1. PICK h \in Greenlets : pc[h] = "scanning"
      BY <2>2 DEF Busy
    <3>2. todo = {} \/ \E e \in todo : IsFirst(e, todo)
      BY <1>1, <2>1, FirstExists DEF Handshakes
    <3>3. QED
      BY <3>1, <3>2 DEF CanLeave
  <2>3. CASE ~Busy /\ \E h \in Greenlets : pc[h] \in {"free", "holding"}
    BY <2>3 DEF CanLeave
  <2>4. CASE ~Busy /\ \E h \in Greenlets : pc[h] = "waking"
    <3>1. PICK h \in Greenlets : pc[h] = "waking"
      BY <2>4
    <3>2. toWake[h] # <<>> /\ toWake[h] \in Seq(Entry)
      BY <2>1, <3>1 DEF Book, Typed, TypeOK, WakersHaveWork
    <3>3. Head(toWake[h]) \in Woken
      <4>1. Head(toWake[h]) = toWake[h][1] /\ 1 \in DOMAIN toWake[h]
        BY <3>2, TailFacts
      <4>2. QED
        BY <4>1 DEF Woken
    <3>4. QED
      BY <1>1, <2>4, <3>1, <3>3 DEF CanLeave, Handshakes, WokenListen
  <2>5. CASE ~Busy /\ \A h \in Greenlets : pc[h] \in {"idle", "waiting"}
    <3>1. pc[g] = "waiting"
      BY <2>5
    <3>2. \A h \in Greenlets : pc[h] = "waiting" => EntryOf(h) \in waiters
      BY <1>1, <2>5 DEF NoLostWakeup
    <3>3. \A h \in Greenlets : ~Charged(h)
      BY <2>5, <3>2 DEF Charged
    <3>4. waiters # {}
      BY <3>1, <3>2
    <3>5. QED
      BY <1>1, <2>5, <3>3, <3>4 DEF SomebodyWillRelease
  <2>6. QED
    BY <2>1, <2>2, <2>3, <2>4, <2>5 DEF PC, Busy
<1>2. QED
  BY <1>1, HandshakesHold, WakeupsAreKept, SomebodyReleases, PTL

-------------------------------------------------------------------------------
(* How much is left to do: steps that have not started, and how far each      *)
(* greenlet is in wait_for.                                                   *)
Rank(p) ==
  CASE p = "idle" -> 0 [] p \in {"free", "waking"} -> 1 [] p = "scanning" -> 2
    [] p = "holding" -> 3 [] p = "waiting" -> 4

LeftOf(g) == 5 * (MaxSteps - steps[g]) + Rank(pc[g])
Left == Sum([g \in Greenlets |-> LeftOf(g)], N)

Counted == TypeOK /\ \A g \in Greenlets : steps[g] <= MaxSteps

(* The ranks of the places in wait_for.                                       *)
LEMMA Ranks ==
  /\ Rank("idle") = 0 /\ Rank("free") = 1 /\ Rank("waking") = 1 /\ Rank("scanning") = 2
  /\ Rank("holding") = 3 /\ Rank("waiting") = 4
  /\ \A p \in PC : Rank(p) \in Nat
  BY DEF Rank, PC

(* What is left is a number.                                                  *)
LEMMA LeftType ==
  ASSUME Counted
  PROVE  /\ [g \in Greenlets |-> LeftOf(g)] \in [1..N -> Nat] /\ Left \in Nat
         /\ \A g \in Greenlets : LeftOf(g) \in Nat
<1>1. ASSUME NEW g \in Greenlets
      PROVE  LeftOf(g) \in Nat
  <2>1. steps[g] \in Nat /\ steps[g] <= MaxSteps /\ pc[g] \in PC
    BY DEF Counted, TypeOK
  <2>2. Rank(pc[g]) \in Nat
    BY <2>1, Ranks
  <2>3. QED
    BY <2>1, <2>2, ParametersOK DEF LeftOf
<1>2. [g \in Greenlets |-> LeftOf(g)] \in [1..N -> Nat]
  BY <1>1 DEF Greenlets
<1>3. QED
  BY <1>1, <1>2, SumBoundsTerm, ParametersOK DEF Left

(* One greenlet goes on, the others stay.                                     *)
LEMMA LeftUpdate ==
  ASSUME Counted, Counted', NEW g \in Greenlets,
         \A h \in Greenlets : h # g => LeftOf(h)' = LeftOf(h)
  PROVE  Left' = Left - LeftOf(g) + LeftOf(g)'
<1> DEFINE f == [h \in Greenlets |-> LeftOf(h)]
           q == [h \in Greenlets |-> LeftOf(h)']
<1>1. f \in [1..N -> Nat]
  BY LeftType
<1>2. q \in [1..N -> Nat]
  <2>1. ASSUME NEW h \in Greenlets
        PROVE  LeftOf(h)' \in Nat
    <3>1. steps'[h] \in Nat /\ steps'[h] <= MaxSteps /\ pc'[h] \in PC
      BY DEF Counted, TypeOK
    <3>2. Rank(pc'[h]) \in Nat
      BY <3>1, Ranks
    <3>3. QED
      BY <3>1, <3>2, ParametersOK DEF LeftOf
  <2>2. QED
    BY <2>1 DEF Greenlets
<1>3. /\ f \in [1..N -> Int] /\ q \in [1..N -> Int] /\ N \in Nat /\ g \in 1..N
      /\ \A h \in 1..N : h # g => q[h] = f[h]
  BY <1>1, <1>2, ParametersOK DEF Greenlets
<1> HIDE DEF f, q
<1>4. Sum(q, N) = Sum(f, N) - f[g] + q[g]
  BY <1>3, SumUpdate
<1>5. Left' = Sum(q, N) /\ Left = Sum(f, N)
  BY DEF Left, f, q
<1>6. f[g] = LeftOf(g) /\ q[g] = LeftOf(g)'
  BY DEF f, q
<1>7. QED
  BY <1>4, <1>5, <1>6
-------------------------------------------------------------------------------
(* A greenlet starts only the steps it has.                                   *)
LEMMA CountedHolds == Spec => []Counted
<1>1. TypeOK /\ Init => Counted
  BY ParametersOK DEF Init, Counted
<1>2. ASSUME Counted, TypeOK', [Next]_vars
      PROVE  Counted'
  <2>1. ASSUME NEW g \in Greenlets
        PROVE  steps'[g] <= MaxSteps
    <3>1. steps \in [Greenlets -> Nat] /\ steps[g] <= MaxSteps
      BY <1>2 DEF Counted, TypeOK
    <3>2. CASE steps' = steps
      BY <3>1, <3>2
    <3>3. CASE \E h \in Greenlets : StartStep(h)
      <4>1. PICK h \in Greenlets : StartStep(h)
        BY <3>3
      <4>2. steps[h] < MaxSteps /\ steps' = [steps EXCEPT ![h] = steps[h] + 1] /\ steps[h] \in Nat
        BY <3>1, <4>1 DEF StartStep
      <4>3. CASE g = h
        BY <3>1, <4>2, <4>3, ParametersOK
      <4>4. CASE g # h
        BY <3>1, <4>2, <4>4
      <4>5. QED
        BY <4>3, <4>4
    <3>4. steps' = steps \/ \E h \in Greenlets : StartStep(h)
      BY <1>2 DEF Next, vars, Terminated, Enter, EnterFree, EnterNow, EnterWaiting, Leave,
                  ExitFree, ExitHolding, Scan, EndScan, Wake, Cancel
    <3>5. QED
      BY <3>2, <3>3, <3>4
  <2>2. QED
    BY <1>2, <2>1 DEF Counted
<1>3. QED
  BY <1>1, <1>2, TypeCorrect, PTL DEF Spec

(* What is left after a step is a number too.                                 *)
LEMMA LeftTypeNext ==
  ASSUME Counted'
  PROVE  /\ [g \in Greenlets |-> LeftOf(g)'] \in [1..N -> Nat] /\ Left' \in Nat
         /\ \A g \in Greenlets : LeftOf(g)' \in Nat
<1>1. ASSUME NEW g \in Greenlets
      PROVE  LeftOf(g)' \in Nat
  <2>1. steps'[g] \in Nat /\ steps'[g] <= MaxSteps /\ pc'[g] \in PC
    BY DEF Counted, TypeOK
  <2>2. Rank(pc'[g]) \in Nat
    BY <2>1, Ranks
  <2>3. QED
    BY <2>1, <2>2, ParametersOK DEF LeftOf
<1>2. [g \in Greenlets |-> LeftOf(g)'] \in [1..N -> Nat]
  BY <1>1 DEF Greenlets
<1>3. QED
  BY <1>1, <1>2, SumBoundsTerm, ParametersOK DEF Left

(* Two greenlets meet, the others stay.                                       *)
LEMMA LeftUpdateTwo ==
  ASSUME Counted, Counted', NEW g \in Greenlets, NEW w \in Greenlets, g # w,
         \A h \in Greenlets \ {g, w} : LeftOf(h)' = LeftOf(h)
  PROVE  Left' = Left - LeftOf(g) + LeftOf(g)' - LeftOf(w) + LeftOf(w)'
<1> DEFINE f == [h \in Greenlets |-> LeftOf(h)]
           q == [h \in Greenlets |-> LeftOf(h)']
           m == [h \in Greenlets |-> IF h = g THEN LeftOf(h)' ELSE LeftOf(h)]
<1>1. f \in [1..N -> Nat]
  BY LeftType
<1>2. q \in [1..N -> Nat]
  BY LeftTypeNext
<1>3. /\ f \in [1..N -> Int] /\ q \in [1..N -> Int] /\ N \in Nat /\ g \in 1..N /\ w \in 1..N
      /\ m \in [1..N -> Int]
      /\ \A h \in 1..N : h # g => m[h] = f[h]
      /\ \A h \in 1..N : h # w => q[h] = m[h]
      /\ m[g] = q[g] /\ m[w] = f[w]
  BY <1>1, <1>2, ParametersOK DEF Greenlets
<1> HIDE DEF f, q, m
<1>4. Sum(m, N) = Sum(f, N) - f[g] + m[g]
  BY <1>3, SumUpdate
<1>5. Sum(q, N) = Sum(m, N) - m[w] + q[w]
  BY <1>3, SumUpdate
<1>6. Left' = Sum(q, N) /\ Left = Sum(f, N)
  BY DEF Left, f, q
<1>7. f[g] = LeftOf(g) /\ q[g] = LeftOf(g)' /\ f[w] = LeftOf(w) /\ q[w] = LeftOf(w)'
  BY DEF f, q
<1>8. Sum(f, N) \in Int /\ f[g] \in Int /\ f[w] \in Int /\ q[g] \in Int /\ q[w] \in Int
  BY <1>3, SumType
<1> DEFINE a == Sum(f, N)
           b == Sum(m, N)
           c == Sum(q, N)
<1>9. a \in Int /\ b = a - f[g] + q[g] /\ c = b - f[w] + q[w]
  BY <1>3, <1>4, <1>5, <1>8
<1>10. c = a - f[g] + q[g] - f[w] + q[w]
  <2> HIDE DEF a, b, c
  <2>1. QED
    BY <1>8, <1>9
<1>11. QED
  BY <1>6, <1>7, <1>10

(* One greenlet goes on to a lower rank, or to its next step.                 *)
LEMMA LeftFalls ==
  ASSUME Counted, Counted', NEW g \in Greenlets, NEW p \in PC, pc' = [pc EXCEPT ![g] = p],
         \/ steps' = steps /\ Rank(p) < Rank(pc[g])
         \/ steps' = [steps EXCEPT ![g] = @ + 1] /\ Rank(p) < Rank(pc[g]) + 5
  PROVE  Left' \in Nat /\ Left' < Left
<1>1. pc \in [Greenlets -> PC] /\ steps \in [Greenlets -> Nat]
  BY DEF Counted, TypeOK
<1>2. ASSUME NEW h \in Greenlets, h # g
      PROVE  LeftOf(h)' = LeftOf(h)
  <2>1. pc'[h] = pc[h] /\ steps'[h] = steps[h]
    BY <1>1, <1>2
  <2>2. QED
    BY <2>1 DEF LeftOf
<1>3. Left' = Left - LeftOf(g) + LeftOf(g)'
  BY <1>2, LeftUpdate
<1>4. LeftOf(g)' < LeftOf(g)
  <2>1. pc'[g] = p /\ steps[g] \in Nat /\ (steps'[g] = steps[g] \/ steps'[g] = steps[g] + 1)
    BY <1>1
  <2>2. \/ steps'[g] = steps[g] /\ Rank(p) < Rank(pc[g])
        \/ steps'[g] = steps[g] + 1 /\ Rank(p) < Rank(pc[g]) + 5
    BY <1>1
  <2>3. LeftOf(g) = 5 * (MaxSteps - steps[g]) + Rank(pc[g])
    BY DEF LeftOf
  <2>4. LeftOf(g)' = 5 * (MaxSteps - steps'[g]) + Rank(p)
    BY <2>1 DEF LeftOf
  <2>5. Rank(p) \in Nat /\ Rank(pc[g]) \in Nat
    BY <1>1, Ranks
  <2>6. QED
    BY <2>1, <2>2, <2>3, <2>4, <2>5, ParametersOK
<1>5. Left \in Nat /\ LeftOf(g) \in Nat
  BY LeftType
<1>6. Left' \in Nat /\ LeftOf(g)' \in Nat
  BY LeftTypeNext
<1>7. QED
  BY <1>3, <1>4, <1>5, <1>6

(* Every step of the specification leaves less to do: the steps that a        *)
(* greenlet has not started and its place in wait_for go down, and the scan,  *)
(* which keeps both, has one waiter less to look at.  So wait_for cannot go   *)
(* on for ever without a greenlet leaving it.                                 *)
LessIsLeft ==
  /\ Left' \in Nat
  /\ Left' < Left \/ (Left' = Left /\ todo' \subseteq todo /\ todo' # todo)

LEMMA MeasureFalls ==
  ASSUME Counted, Counted', Book, Next, ~UNCHANGED vars
  PROVE  LessIsLeft
<1>1. pc \in [Greenlets -> PC] /\ toWake \in [Greenlets -> Seq(Entry)]
  BY DEF Counted, TypeOK
<1>2. PICK g \in Greenlets : Enter(g) \/ Leave(g) \/ Cancel(g)
  BY DEF Next, Terminated
<1>3. CASE Enter(g)
  <2>1. /\ pc[g] = "idle" /\ steps' = [steps EXCEPT ![g] = @ + 1]
        /\ \E p \in {"free", "holding", "waiting"} : pc' = [pc EXCEPT ![g] = p]
    BY <1>3 DEF Enter, EnterFree, EnterNow, EnterWaiting, StartStep
  <2>2. PICK p \in {"free", "holding", "waiting"} : pc' = [pc EXCEPT ![g] = p]
    BY <2>1
  <2>3. p \in PC /\ Rank(p) < Rank(pc[g]) + 5
    BY <2>1, Ranks DEF PC
  <2>4. QED
    BY <2>1, <2>2, <2>3, LeftFalls DEF LessIsLeft
<1>4. CASE ExitFree(g) \/ ExitHolding(g) \/ EndScan(g) \/ Cancel(g)
  <2>1. PICK p \in {"idle", "scanning", "waking"} :
          /\ pc' = [pc EXCEPT ![g] = p] /\ steps' = steps
          /\ \/ p = "idle" /\ pc[g] \in {"free", "scanning", "waiting", "waking"}
             \/ p = "scanning" /\ pc[g] = "holding"
             \/ p = "waking" /\ pc[g] = "scanning"
    BY <1>4 DEF ExitFree, ExitHolding, EndScan, Cancel
  <2>2. p \in PC /\ Rank(p) < Rank(pc[g])
    BY <2>1, Ranks DEF PC
  <2>3. QED
    BY <2>1, <2>2, LeftFalls DEF LessIsLeft
<1>5. CASE Scan(g)
  <2>1. pc' = pc /\ steps' = steps /\ \E e \in todo : todo' = todo \ {e}
    BY <1>5 DEF Scan
  <2>2. Left' = Left
    BY <2>1 DEF Left, LeftOf
  <2>3. QED
    BY <2>1, <2>2, LeftType DEF LessIsLeft
<1>6. CASE Wake(g)
  <2>1. toWake[g] # <<>> /\ toWake[g] \in Seq(Entry) /\ pc[g] = "waking"
    BY <1>1, <1>6 DEF Wake, Book, Bookkeeping, WakersHaveWork
  <2>2. PICK h \in Greenlets : h = Head(toWake[g]).who
    <3>1. Head(toWake[g]) \in Entry
      BY <2>1
    <3>2. QED
      BY <3>1 DEF Entry
  <2>3. pc[h] = "waiting" /\ h # g
    BY <1>6, <2>1, <2>2 DEF Wake, Listens
  <2>4. /\ steps' = steps
        /\ \E p \in {"idle", "waking"} : pc' = [pc EXCEPT ![h] = "holding", ![g] = p]
    <3>1. (IF Len(toWake[g]) = 1 THEN "idle" ELSE "waking") \in {"idle", "waking"}
      OBVIOUS
    <3>2. QED
      BY <1>6, <2>2, <3>1 DEF Wake
  <2>5. PICK p \in {"idle", "waking"} : pc' = [pc EXCEPT ![h] = "holding", ![g] = p]
    BY <2>4
  <2>6. pc'[h] = "holding" /\ pc'[g] = p /\ \A k \in Greenlets \ {g, h} : pc'[k] = pc[k]
    BY <1>1, <2>2, <2>3, <2>5
  <2>7. \A k \in Greenlets \ {h, g} : LeftOf(k)' = LeftOf(k)
    BY <2>4, <2>6 DEF LeftOf
  <2>8. Left' = Left - LeftOf(h) + LeftOf(h)' - LeftOf(g) + LeftOf(g)'
    BY <2>2, <2>3, <2>7, LeftUpdateTwo
  <2>9. LeftOf(h)' = LeftOf(h) - 1
    <3>1. LeftOf(h) = 5 * (MaxSteps - steps[h]) + 4
      BY <2>3, Ranks DEF LeftOf
    <3>2. LeftOf(h)' = 5 * (MaxSteps - steps[h]) + 3
      BY <2>4, <2>6, Ranks DEF LeftOf
    <3>3. steps[h] \in Nat /\ MaxSteps \in Nat
      BY <2>2, ParametersOK DEF Counted, TypeOK
    <3>4. QED
      BY <3>1, <3>2, <3>3
  <2>10. LeftOf(g)' <= LeftOf(g)
    <3>1. LeftOf(g) = 5 * (MaxSteps - steps[g]) + 1
      BY <2>1, Ranks DEF LeftOf
    <3>2. LeftOf(g)' = 5 * (MaxSteps - steps[g]) + Rank(p) /\ Rank(p) \in {0, 1}
      BY <2>4, <2>6, Ranks DEF LeftOf
    <3>3. steps[g] \in Nat /\ MaxSteps \in Nat
      BY <2>2, ParametersOK DEF Counted, TypeOK
    <3>4. QED
      BY <3>1, <3>2, <3>3
  <2>11. /\ Left \in Nat /\ Left' \in Nat /\ LeftOf(h) \in Nat /\ LeftOf(g) \in Nat
         /\ LeftOf(g)' \in Nat
    BY <2>2, LeftType, LeftTypeNext
  <2>12. Left' < Left
    BY <2>8, <2>9, <2>10, <2>11
  <2>13. QED
    BY <2>11, <2>12 DEF LessIsLeft
<1>7. QED
  BY <1>2, <1>3, <1>4, <1>5, <1>6 DEF Leave

(* The work runs out, for any number of greenlets and any costs: with         *)
(* SemaphoreGoesOn this is what EveryStepRuns rests on.                       *)
THEOREM StepsRunOut == Spec => [][LessIsLeft]_vars
<1>1. ASSUME Counted, Counted', Book, [Next]_vars
      PROVE  [LessIsLeft]_vars
  BY <1>1, MeasureFalls
<1>2. IInv => Book
  BY DEF IInv
<1>3. QED
  BY <1>1, <1>2, CountedHolds, IInvHolds, PTL DEF Spec
===============================================================================
