--------------------------- MODULE RecipeEngineProofs ---------------------------
(***************************************************************************)
(* Proofs about RecipeEngine, for every number of greenlets, of steps and   *)
(* of cancellations, and every set of names.                                *)
(*                                                                          *)
(* IInv says where each greenlet is relative to the steps it owns: its      *)
(* stack is in the order of opening, its open steps are on it or being      *)
(* closed.  Stacks, types and final steps follow from it.  Six further      *)
(* invariants are proved on top of it: Quiet (who closes a step waits for   *)
(* its greenlets), Waiting (only for those), Numbered (the number in a name *)
(* counts the steps that asked for it before), Nesting (steps are opened by *)
(* the greenlet of their nest or by one spawned in it), Whole (a nest that  *)
(* is closed has a status) and Explained (why a stream is lost).  WorkLeft  *)
(* is a measure that every step makes smaller.                              *)
(***************************************************************************)
EXTENDS RecipeEngine, SumsProofs, SequenceTheorems

(* What is left alone by a step's change of stream, or of status.             *)
SameButStream(a, b) ==
  /\ a.owner = b.owner /\ a.under = b.under /\ a.parent = b.parent
  /\ a.asked = b.asked /\ a.tokens = b.tokens /\ a.status = b.status

SameButStatus(a, b) ==
  /\ a.owner = b.owner /\ a.under = b.under /\ a.parent = b.parent
  /\ a.asked = b.asked /\ a.tokens = b.tokens /\ a.stream = b.stream

(* The steps ss when step s gets another stream, or another status.           *)
Streams == {"open", "closed", "lost"}

WithStream(ss, s, x) == [ss EXCEPT ![s].stream = x]
WithStatus(ss, s, x) == [ss EXCEPT ![s].status = x]

(* Another stream: a step like the one before in everything else.             *)
LEMMA SetStream ==
  ASSUME NEW ss \in Seq(Step), NEW s \in DOMAIN ss, NEW x \in Streams
  PROVE  LET tt == WithStream(ss, s, x)
         IN  /\ tt \in Seq(Step) /\ Len(tt) = Len(ss) /\ DOMAIN tt = DOMAIN ss
             /\ \A i \in DOMAIN ss : i # s => tt[i] = ss[i]
             /\ tt[s].stream = x /\ SameButStream(tt[s], ss[s])
<1> DEFINE tt == WithStream(ss, s, x)
<1>1. /\ ss[s] \in Step /\ Len(ss) \in Nat /\ DOMAIN ss = 1..Len(ss)
  OBVIOUS
<1>2. [ss[s] EXCEPT !.stream = x] \in Step
  BY <1>1 DEF Step, Streams
<1>3. tt = [ss EXCEPT ![s] = [ss[s] EXCEPT !.stream = x]]
  BY DEF WithStream
<1>4. SameButStream([ss[s] EXCEPT !.stream = x], ss[s]) /\ [ss[s] EXCEPT !.stream = x].stream = x
  BY <1>1 DEF Step, SameButStream
<1>5. tt[s] = [ss[s] EXCEPT !.stream = x]
  BY <1>1, <1>3
<1>6. QED
  BY <1>1, <1>2, <1>3, <1>4, <1>5

(* Another status, likewise.                                                  *)
LEMMA SetStatus ==
  ASSUME NEW ss \in Seq(Step), NEW s \in DOMAIN ss, NEW x \in Statuses \cup {"none"}
  PROVE  LET tt == WithStatus(ss, s, x)
         IN  /\ tt \in Seq(Step) /\ Len(tt) = Len(ss) /\ DOMAIN tt = DOMAIN ss
             /\ \A i \in DOMAIN ss : i # s => tt[i] = ss[i]
             /\ tt[s].status = x /\ SameButStatus(tt[s], ss[s])
<1> DEFINE tt == WithStatus(ss, s, x)
<1>1. /\ ss[s] \in Step /\ Len(ss) \in Nat /\ DOMAIN ss = 1..Len(ss)
  OBVIOUS
<1>2. [ss[s] EXCEPT !.status = x] \in Step
  BY <1>1 DEF Step
<1>3. tt = [ss EXCEPT ![s] = [ss[s] EXCEPT !.status = x]]
  BY DEF WithStatus
<1>4. SameButStatus([ss[s] EXCEPT !.status = x], ss[s]) /\ [ss[s] EXCEPT !.status = x].status = x
  BY <1>1 DEF Step, SameButStatus
<1>5. tt[s] = [ss[s] EXCEPT !.status = x]
  BY <1>1, <1>3
<1>6. QED
  BY <1>1, <1>2, <1>3, <1>4, <1>5

(* Front of a sequence. *)
LEMMA FrontOf ==
  ASSUME NEW S, NEW q \in Seq(S), Len(q) >= 1
  PROVE  /\ Front(q) \in Seq(S) /\ Len(Front(q)) = Len(q) - 1
         /\ \A i \in 1..(Len(q) - 1) : Front(q)[i] = q[i]
<1>1. /\ Front(q) = SubSeq(q, 1, Len(q) - 1) /\ Len(q) - 1 \in Int /\ 1 \in Int
      /\ Len(q) \in Nat /\ Len(q) >= 1
  BY DEF Front
<1>2. \A i \in 1..(Len(q) - 1) : q[i] \in S
  OBVIOUS
<1>3. /\ SubSeq(q, 1, Len(q) - 1) \in Seq(S)
      /\ Len(SubSeq(q, 1, Len(q) - 1)) = IF 1 <= Len(q) - 1 THEN (Len(q) - 1) - 1 + 1 ELSE 0
      /\ \A i \in 1 .. (Len(q) - 1) - 1 + 1 : SubSeq(q, 1, Len(q) - 1)[i] = q[1 + i - 1]
  BY <1>1, <1>2, SubSeqProperties
<1>4. \A n \in Nat : n >= 1 =>
         /\ (IF 1 <= n - 1 THEN (n - 1) - 1 + 1 ELSE 0) = n - 1
         /\ \A i \in 1..(n - 1) : i \in 1..(n - 1) - 1 + 1 /\ 1 + i - 1 = i
  OBVIOUS
<1>5. Len(SubSeq(q, 1, Len(q) - 1)) = Len(q) - 1
  BY <1>1, <1>3, <1>4, Zenon
<1>6. \A i \in 1..(Len(q) - 1) : SubSeq(q, 1, Len(q) - 1)[i] = q[i]
  BY <1>1, <1>3, <1>4, Zenon
<1>7. QED
  BY <1>1, <1>3, <1>5, <1>6, Zenon

(* Append to a sequence. *)
LEMMA AppendTo ==
  ASSUME NEW S, NEW q \in Seq(S), NEW x \in S, NEW r, r = Append(q, x)
  PROVE  /\ r \in Seq(S) /\ Len(r) = Len(q) + 1
         /\ \A i \in 1..Len(q) : r[i] = q[i]
         /\ r[Len(q) + 1] = x
         /\ DOMAIN q = 1..Len(q) /\ DOMAIN r = 1..(Len(q) + 1) /\ Len(q) \in Nat
  OBVIOUS
-------------------------------------------------------------------------------
(* What a stack `st` of greenlet g, with base b, is above the steps ss.        *)
StackOK(ss, st, b, g) ==
  /\ Len(st) >= 1 /\ st[1] = b
  /\ \A i \in 2..Len(st) :
       /\ st[i] \in DOMAIN ss /\ ss[st[i]].owner = g /\ ss[st[i]].stream = "open"
       /\ ss[st[i]].under = st[i - 1]
       /\ i < Len(st) => ss[st[i]].parent
  /\ \A i, j \in 1..Len(st) : i < j => st[i] < st[j]

(* What is known of greenlet g from where it is: st is its stack, b its base,  *)
(* p its pc and c the step it is closing, which was the tip of its stack.     *)
Place(ss, st, b, p, c, g) ==
  /\ b = 0 \/ (b \in DOMAIN ss /\ ss[b].parent)
  /\ p \notin {"unborn", "spawned", "dead"} => StackOK(ss, st, b, g)
  /\ p \in {"unborn", "spawned"} => Len(st) = 1
  /\ p \in {"inStep", "stopping"} => Len(st) > 1 /\ ~ss[Last(st)].parent
  /\ p = "closing" =>
       IF c = 0
         THEN g = 0 /\ Len(st) = 1
         ELSE /\ c \in DOMAIN ss /\ ss[c].owner = g /\ ss[c].stream = "open" /\ ss[c].parent
              /\ \A i \in 1..Len(st) : st[i] < c
  /\ \A s \in DOMAIN ss : ss[s].owner = g /\ ss[s].stream = "open" =>
       /\ p \notin {"unborn", "dead"}
       /\ (\E i \in 2..Len(st) : st[i] = s) \/ (p = "closing" /\ c = s)

Places == \A g \in Greenlets : Place(steps, stack[g], base[g], pc[g], closing[g], g)

(* A GreenletExit is only thrown at a greenlet that has started.              *)
ThrowsAtStarted ==
  \A i \in DOMAIN throws : pc[throws[i]] \notin {"unborn", "spawned"}

IdleClosing == \A g \in Greenlets : pc[g] # "closing" => closing[g] = 0

IInv == TypeOK /\ Places /\ IdleClosing /\ ThrowsAtStarted

(* A stack of one element is in order, whatever the steps are.                *)
LEMMA BareStack ==
  ASSUME NEW ss, NEW st, NEW b, NEW g, Len(st) = 1, st[1] = b
  PROVE  StackOK(ss, st, b, g)
<1>1. 2..1 = {} /\ 1..1 = {1} /\ ~(1 < 1) /\ 1 >= 1
  OBVIOUS
<1>2. QED
  BY <1>1, Zenon DEF StackOK

(* At first there are no steps, and the stacks hold the root.                 *)
LEMMA IInvInit == Init => IInv
<1> SUFFICES ASSUME Init
             PROVE  IInv
  OBVIOUS
<1> USE EngineParameters
<1>1. TypeOK
  BY DEF Init, TypeOK, Greenlets, Futures, PC
<1>2. steps = <<>> /\ DOMAIN steps = {} /\ throws = <<>> /\ DOMAIN throws = {}
  BY DEF Init
<1>3. \A g \in Greenlets : /\ stack[g] = <<0>> /\ base[g] = 0
                           /\ pc[g] \in {"running", "unborn"}
                           /\ Len(stack[g]) = 1 /\ stack[g][1] = 0
  <2>1. \A g \in Greenlets : /\ stack[g] = <<0>> /\ base[g] = 0
                             /\ pc[g] \in {"running", "unborn"}
    BY DEF Init
  <2>2. Len(<<0>>) = 1 /\ <<0>>[1] = 0
    OBVIOUS
  <2>3. QED
    BY <2>1, <2>2, Zenon
<1>4. \A g \in Greenlets : StackOK(steps, stack[g], base[g], g)
  BY <1>3, BareStack
<1>5. Places
  BY <1>2, <1>3, <1>4 DEF Places, Place
<1>6. IdleClosing
  BY DEF Init, IdleClosing
<1>7. QED
  BY <1>1, <1>2, <1>5, <1>6 DEF IInv, ThrowsAtStarted

(* A step of another greenlet leaves what is known of g as it is.             *)
LEMMA OthersKeepPlace ==
  ASSUME NEW ss \in Seq(Step), NEW tt \in Seq(Step), Len(ss) <= Len(tt),
         NEW g, NEW st, NEW b, NEW p, NEW c, Place(ss, st, b, p, c, g),
         \A s \in DOMAIN ss : tt[s].parent = ss[s].parent /\ tt[s].owner = ss[s].owner,
         \A s \in DOMAIN ss : ss[s].owner = g => tt[s] = ss[s],
         \A s \in DOMAIN tt \ DOMAIN ss : tt[s].owner # g
  PROVE  Place(tt, st, b, p, c, g)
<1>1. DOMAIN ss \subseteq DOMAIN tt
  OBVIOUS
<1>2. StackOK(ss, st, b, g) => StackOK(tt, st, b, g)
  BY <1>1 DEF StackOK
<1>3. p \in {"inStep", "stopping"} => ~tt[Last(st)].parent
  <2> SUFFICES ASSUME p \in {"inStep", "stopping"}
               PROVE  ~tt[Last(st)].parent
    OBVIOUS
  <2>1. StackOK(ss, st, b, g) /\ ~ss[Last(st)].parent /\ Len(st) > 1 /\ Last(st) = st[Len(st)]
    BY DEF Place, Last
  <2>2. Len(st) \in 2..Len(st) => Last(st) \in DOMAIN ss
    BY <2>1 DEF StackOK
  <2>3. QED
    BY <2>1, <2>2
<1>4. QED
  BY <1>1, <1>2, <1>3 DEF Place

-------------------------------------------------------------------------------
(* What the steps and the stack are once close_non_parent_step is done.       *)
TipClosed(g, ss, st) ==
  /\ ss \in Seq(Step) /\ Len(ss) = Len(steps)
  /\ st \in Seq(0..MaxSteps) /\ StackOK(ss, st, base[g], g)
  /\ \A s \in DOMAIN steps : SameButStream(ss[s], steps[s])
  /\ \A s \in DOMAIN steps : steps[s].owner # g \/ steps[s].stream # "open" \/ steps[s].parent
                               => ss[s] = steps[s]
  /\ \A i \in 2..Len(st) : ss[st[i]].parent
  /\ \A s \in DOMAIN steps : ss[s].owner = g /\ ss[s].stream = "open" =>
                               \E i \in 2..Len(st) : st[i] = s
  /\ st[Len(st)] = 0 \/ (st[Len(st)] \in DOMAIN steps /\ steps[st[Len(st)]].parent)

(* close_non_parent_step: a parent is at the tip, and all else is in place.   *)
LEMMA CloseTip ==
  ASSUME IInv, NEW g \in Greenlets, pc[g] = "running"
  PROVE  TipClosed(g, Closed(g), Popped(g)) /\ Tip(g) = Popped(g)[Len(Popped(g))]
<1> DEFINE st == stack[g]
           l  == Last(stack[g])
<1>1. /\ StackOK(steps, st, base[g], g)
      /\ steps \in Seq(Step) /\ st \in Seq(0..MaxSteps) /\ Len(st) \in Nat
      /\ base[g] = 0 \/ (base[g] \in DOMAIN steps /\ steps[base[g]].parent)
  <2>1. Place(steps, stack[g], base[g], "running", closing[g], g)
    BY DEF IInv, Places
  <2>2. steps \in Seq(Step) /\ st \in Seq(0..MaxSteps)
    BY DEF IInv, TypeOK
  <2>3. QED
    BY <2>1, <2>2 DEF Place
<1>2. l = st[Len(st)] /\ Len(st) >= 1 /\ st[1] = base[g]
  BY <1>1 DEF StackOK, Last
<1>3. \A s \in DOMAIN steps : steps[s].owner = g /\ steps[s].stream = "open" =>
         \E i \in 2..Len(st) : st[i] = s
  <2>1. Place(steps, stack[g], base[g], "running", closing[g], g)
    BY DEF IInv, Places
  <2>2. QED
    BY <2>1 DEF Place
<1>4. Tip(g) = Popped(g)[Len(Popped(g))]
  BY DEF Tip, Last
<1>5. CASE ~TipIsReal(g)
  <2>1. Popped(g) = st /\ Closed(g) = steps /\ IsParent(l)
    BY <1>5 DEF Popped, Closed, TipIsReal
  <2>2. \A i \in 2..Len(st) : steps[st[i]].parent
    BY <1>1, <1>2, <2>1 DEF StackOK, IsParent
  <2>3. st[Len(st)] = 0 \/ (st[Len(st)] \in DOMAIN steps /\ steps[st[Len(st)]].parent)
    BY <1>1, <1>2, <2>2 DEF StackOK
  <2>4. QED
    BY <1>1, <1>3, <1>4, <2>1, <2>2, <2>3 DEF TipClosed, SameButStream
<1>6. CASE TipIsReal(g)
  <2>1. PICK n \in Nat : n = Len(st)
    BY <1>1
  <2>2. n >= 1
    BY <1>2, <2>1
  <2>3. /\ Popped(g) = Front(st) /\ Closed(g) = WithStream(steps, l, "closed")
        /\ l # 0 /\ ~steps[l].parent
    BY <1>6 DEF Popped, Closed, TipIsReal, IsParent, WithStream
  <2>4. n >= 2 /\ l \in DOMAIN steps /\ steps[l].owner = g /\ steps[l].stream = "open"
    <3>1. n # 1
      BY <1>1, <1>2, <2>1, <2>3
    <3>2. n >= 2 /\ n \in 2..n
      BY <2>2, <3>1
    <3>3. QED
      BY <1>1, <1>2, <2>1, <3>2 DEF StackOK
  <2>5. /\ Popped(g) \in Seq(0..MaxSteps) /\ Len(Popped(g)) = n - 1
        /\ \A i \in 1..(n - 1) : Popped(g)[i] = st[i]
    BY <1>1, <1>2, <2>1, <2>3, FrontOf
  <2>6. /\ Closed(g) \in Seq(Step) /\ Len(Closed(g)) = Len(steps)
        /\ DOMAIN Closed(g) = DOMAIN steps
        /\ \A s \in DOMAIN steps : s # l => Closed(g)[s] = steps[s]
        /\ Closed(g)[l].stream = "closed" /\ SameButStream(Closed(g)[l], steps[l])
    <3>1. "closed" \in Streams
      BY DEF Streams
    <3>2. QED
      BY <1>1, <2>3, <2>4, <3>1, SetStream
  <2>7. \A s \in DOMAIN steps : SameButStream(Closed(g)[s], steps[s])
    BY <2>6 DEF SameButStream
  <2>8. \A i \in 2..(n - 1) : steps[st[i]].parent /\ st[i] \in DOMAIN steps /\ st[i] # l
    BY <1>1, <2>1, <2>3 DEF StackOK
  <2>9. StackOK(Closed(g), Popped(g), base[g], g)
    <3> DEFINE k == n - 1
    <3>1. \A i \in 2..k : Closed(g)[st[i]] = steps[st[i]]
      BY <2>6, <2>8
    <3>2. k \in Nat /\ k >= 1 /\ Len(Popped(g)) = k /\ \A i \in 1..k : Popped(g)[i] = st[i]
      <4>1. k \in Nat /\ k >= 1
        BY <2>4
      <4>2. QED
        BY <2>5, <4>1
    <3>3. \A i, j \in 1..k : i < j => st[i] < st[j]
      <4>1. \A i, j \in 1..n : i < j => st[i] < st[j]
        BY <1>1, <2>1, Zenon DEF StackOK
      <4>2. \A i \in 1..k : i \in 1..n
        BY <2>4
      <4>3. QED
        BY <4>1, <4>2, Zenon
    <3>4. \A i \in 2..k : /\ steps[st[i]].owner = g /\ steps[st[i]].stream = "open"
                           /\ steps[st[i]].under = st[i - 1]
      <4>1. \A i \in 2..k : i \in 2..n
        BY <2>1
      <4>2. \A i \in 2..n : /\ steps[st[i]].owner = g /\ steps[st[i]].stream = "open"
                             /\ steps[st[i]].under = st[i - 1]
        BY <1>1, <2>1, Zenon DEF StackOK
      <4>3. QED
        BY <4>1, <4>2, Zenon
    <3>5. \A i \in 2..k : i - 1 \in 1..k /\ i \in 1..k
      BY <3>2
    <3>6. \A i \in 2..k : Popped(g)[i - 1] = st[i - 1] /\ Popped(g)[i] = st[i]
      BY <3>2, <3>5, Zenon
    <3>7. \A i, j \in 1..k : i < j => Popped(g)[i] < Popped(g)[j]
      BY <3>2, <3>3, Zenon
    <3>8. Popped(g)[1] = base[g]
      BY <1>2, <3>2
    <3>9. \A i \in 2..k : st[i] \in DOMAIN Closed(g) /\ steps[st[i]].parent
      BY <2>6, <2>8, Zenon
    <3>10. Len(Popped(g)) >= 1
      BY <3>2
    <3>11. \A i \in 2..k :
             /\ Popped(g)[i] \in DOMAIN Closed(g) /\ Closed(g)[Popped(g)[i]].owner = g
             /\ Closed(g)[Popped(g)[i]].stream = "open" /\ Closed(g)[Popped(g)[i]].parent
             /\ Closed(g)[Popped(g)[i]].under = Popped(g)[i - 1]
      BY <3>1, <3>4, <3>6, <3>9
    <3> HIDE DEF k
    <3>12. QED
      BY <3>2, <3>7, <3>8, <3>10, <3>11, Zenon DEF StackOK
  <2>10. \A i \in 2..Len(Popped(g)) : Closed(g)[Popped(g)[i]].parent
    BY <2>1, <2>5, <2>7, <2>8 DEF SameButStream
  <2>11. ASSUME NEW s \in DOMAIN steps, Closed(g)[s].owner = g, Closed(g)[s].stream = "open"
        PROVE  \E i \in 2..Len(Popped(g)) : Popped(g)[i] = s
    <3>1. s # l /\ steps[s].owner = g /\ steps[s].stream = "open"
      BY <2>6, <2>11
    <3>2. PICK i \in 2..n : st[i] = s
      BY <1>3, <2>1, <3>1
    <3>3. i \in 2..(n - 1)
      BY <1>2, <2>1, <3>1, <3>2
    <3>4. QED
      BY <2>1, <2>5, <3>2, <3>3
  <2>12. LET t == Popped(g)[Len(Popped(g))]
         IN  t = 0 \/ (t \in DOMAIN steps /\ steps[t].parent)
    <3>1. CASE n = 2
      BY <1>1, <1>2, <2>1, <2>5, <3>1
    <3>2. CASE n > 2
      BY <2>1, <2>5, <2>8, <3>2
    <3>3. QED
      <4>1. n = 2 \/ n > 2
        BY <2>4
      <4>2. QED
        BY <2>1, <3>1, <3>2, <4>1, Zenon
  <2>13. \A s \in DOMAIN steps :
           steps[s].owner # g \/ steps[s].stream # "open" \/ steps[s].parent
             => Closed(g)[s] = steps[s]
    BY <2>3, <2>4, <2>6
  <2>14. QED
    BY <1>4, <2>5, <2>6, <2>7, <2>9, <2>10, <2>11, <2>12, <2>13 DEF TipClosed
<1>7. QED
  BY <1>5, <1>6

-------------------------------------------------------------------------------
(* How the place of the greenlet that acts changes: one lemma for each kind of *)
(* step.                                                                      *)
LEMMA PlaceWithTipClosed ==
  ASSUME IInv, NEW g \in Greenlets, NEW ss, NEW st, NEW c, TipClosed(g, ss, st)
  PROVE  Place(ss, st, base[g], "running", c, g)
<1>1. base[g] = 0 \/ (base[g] \in DOMAIN steps /\ steps[base[g]].parent)
  BY DEF IInv, Places, Place
<1>2. DOMAIN ss = DOMAIN steps
  BY DEF TipClosed, IInv, TypeOK
<1>3. base[g] = 0 \/ (base[g] \in DOMAIN ss /\ ss[base[g]].parent)
  BY <1>1, <1>2 DEF TipClosed, SameButStream
<1>4. QED
  BY <1>2, <1>3 DEF TipClosed, Place

(* A greenlet may come back to its code, or wait in Future.cancel.            *)
LEMMA PlaceMoves ==
  ASSUME NEW ss, NEW st, NEW b, NEW c, NEW d, NEW g,
         NEW p \in {"running", "inStep", "stopping", "joining"}, Place(ss, st, b, p, c, g)
  PROVE  /\ Place(ss, st, b, "running", d, g) /\ Place(ss, st, b, "joining", d, g)
         /\ p = "inStep" => Place(ss, st, b, "stopping", d, g)
  BY DEF Place

(* It may start, or be killed before it does: it owns no step yet.            *)
LEMMA PlaceStarts ==
  ASSUME NEW ss, NEW st, NEW b, NEW c, NEW g, NEW p \in {"unborn", "spawned"},
         Place(ss, st, b, p, c, g)
  PROVE  /\ \A s \in DOMAIN ss : ~(ss[s].owner = g /\ ss[s].stream = "open")
         /\ Place(ss, st, b, "dead", c, g) /\ Place(ss, <<b>>, b, "running", c, g)
<1>1. Len(st) = 1 /\ (b = 0 \/ (b \in DOMAIN ss /\ ss[b].parent))
  BY DEF Place
<1>2. 2..1 = {}
  OBVIOUS
<1>3. \A s \in DOMAIN ss : ~(ss[s].owner = g /\ ss[s].stream = "open")
  BY <1>1, <1>2, Zenon DEF Place
<1>4. Len(<<b>>) = 1 /\ <<b>>[1] = b
  OBVIOUS
<1>5. StackOK(ss, <<b>>, b, g)
  BY <1>4, BareStack
<1>6. QED
  BY <1>1, <1>3, <1>5 DEF Place

(* It may end when its stack is empty but for its base.                       *)
LEMMA PlaceEnds ==
  ASSUME NEW ss, NEW st, NEW b, NEW c, NEW g, Place(ss, st, b, "running", c, g), Len(st) = 1
  PROVE  /\ Place(ss, st, b, "dead", c, g)
         /\ g = 0 => Place(ss, st, b, "closing", 0, g)
<1>1. 2..1 = {}
  OBVIOUS
<1>2. \A s \in DOMAIN ss : ~(ss[s].owner = g /\ ss[s].stream = "open")
  BY <1>1, Zenon DEF Place
<1>3. QED
  BY <1>2 DEF Place

(* The greenlet opens a step.                                                 *)
LEMMA PlaceOpens ==
  ASSUME NEW ss \in Seq(Step), NEW st \in Seq(0..MaxSteps), NEW b, NEW c, NEW g,
         Place(ss, st, b, "running", c, g), \A i \in 2..Len(st) : ss[st[i]].parent,
         Len(ss) < MaxSteps, NEW p \in {"running", "inStep"},
         NEW x \in Step, x.owner = g, x.under = st[Len(st)], x.stream = "open",
         p = "inStep" => ~x.parent
  PROVE  Place(Append(ss, x), Append(st, Len(ss) + 1), b, p, c, g)
<1> SUFFICES ASSUME NEW tt, tt = Append(ss, x), NEW ut, ut = Append(st, Len(ss) + 1)
             PROVE  Place(tt, ut, b, p, c, g)
  OBVIOUS
<1> USE EngineParameters
<1>1. PICK n \in Nat : n = Len(st)
  OBVIOUS
<1>2. PICK m \in Nat : m = Len(ss)
  OBVIOUS
<1>3. n >= 1 /\ st[1] = b
  BY <1>1, Zenon DEF Place, StackOK
<1>4. /\ tt \in Seq(Step) /\ DOMAIN ss = 1..m /\ DOMAIN tt = 1..(m + 1)
      /\ \A s \in 1..m : tt[s] = ss[s]
      /\ tt[m + 1] = x
  BY <1>2, AppendTo
<1>5. /\ Len(ut) = n + 1 /\ ut[n + 1] = m + 1
      /\ \A i \in 1..n : ut[i] = st[i]
  <2>1. m + 1 \in 0..MaxSteps
    BY <1>2
  <2>2. QED
    BY <1>1, <1>2, <2>1, AppendTo
<1>6. \A i \in 2..n : st[i] \in 1..m
  BY <1>1, <1>4, Zenon DEF Place, StackOK
<1>7. \A i \in 1..n : st[i] <= m /\ st[i] \in Nat
  <2>1. b = 0 \/ b \in 1..m
    BY <1>4, Zenon DEF Place
  <2>2. \A i \in 1..n : i = 1 \/ i \in 2..n
    OBVIOUS
  <2>3. \A i \in 1..n : st[i] = 0 \/ st[i] \in 1..m
    BY <1>3, <1>6, <2>1, <2>2, Zenon
  <2>4. \A k : k = 0 \/ k \in 1..m => k <= m /\ k \in Nat
    OBVIOUS
  <2>5. QED
    BY <2>3, <2>4, Zenon
<1>8. \A i \in 2..(n + 1) : /\ ut[i] \in DOMAIN tt /\ tt[ut[i]].owner = g
                            /\ tt[ut[i]].stream = "open" /\ tt[ut[i]].under = ut[i - 1]
                            /\ i < n + 1 => tt[ut[i]].parent
  <2>1. ASSUME NEW i \in 2..n
        PROVE  /\ ut[i] \in 1..(m + 1) /\ tt[ut[i]].owner = g
               /\ tt[ut[i]].stream = "open" /\ tt[ut[i]].under = ut[i - 1]
               /\ tt[ut[i]].parent
    <3>1. i \in 1..n /\ i - 1 \in 1..n
      OBVIOUS
    <3>2. ut[i] = st[i] /\ ut[i - 1] = st[i - 1] /\ tt[st[i]] = ss[st[i]]
      BY <1>4, <1>5, <1>6, <3>1, Zenon
    <3>3. /\ ss[st[i]].owner = g /\ ss[st[i]].stream = "open"
          /\ ss[st[i]].under = st[i - 1] /\ ss[st[i]].parent
      BY <1>1, Zenon DEF Place, StackOK
    <3>4. st[i] \in 1..(m + 1)
      BY <1>6
    <3>5. QED
      BY <3>2, <3>3, <3>4
  <2>2. /\ ut[n + 1] \in 1..(m + 1) /\ tt[ut[n + 1]].owner = g
        /\ tt[ut[n + 1]].stream = "open" /\ tt[ut[n + 1]].under = ut[n]
    <3>1. n \in 1..n /\ m + 1 \in 1..(m + 1)
      BY <1>3
    <3>2. ut[n + 1] = m + 1 /\ ut[n] = st[Len(st)]
      BY <1>1, <1>5, <3>1
    <3>3. QED
      BY <1>4, <3>1, <3>2, Zenon
  <2>3. \A i \in 2..(n + 1) : i \in 2..n \/ (i = n + 1 /\ ~(i < n + 1))
    OBVIOUS
  <2>4. ASSUME NEW i \in 2..(n + 1)
        PROVE  /\ ut[i] \in 1..(m + 1) /\ tt[ut[i]].owner = g
               /\ tt[ut[i]].stream = "open" /\ tt[ut[i]].under = ut[i - 1]
               /\ i < n + 1 => tt[ut[i]].parent
    <3>1. CASE i \in 2..n
      BY <2>1, <3>1, Zenon
    <3>2. CASE i = n + 1 /\ ~(i < n + 1)
      <4>1. i = n + 1 /\ i - 1 = n
        BY <3>2
      <4>2. QED
        BY <2>2, <3>2, <4>1, Zenon
    <3>3. QED
      BY <2>3, <3>1, <3>2, Zenon
  <2>5. QED
    BY <1>4, <2>4, Zenon
<1>9. \A i, j \in 1..(n + 1) : i < j => ut[i] < ut[j]
  <2>1. \A i, j \in 1..n : i < j => st[i] < st[j]
    BY <1>1, Zenon DEF Place, StackOK
  <2>2. \A i, j \in 1..(n + 1) : i < j => i \in 1..n /\ (j \in 1..n \/ j = n + 1)
    OBVIOUS
  <2>3. \A i \in 1..n : st[i] < m + 1
    BY <1>7
  <2>4. QED
    BY <1>5, <2>1, <2>2, <2>3, ZenonT(30)
<1>10. StackOK(tt, ut, b, g)
  <2>1. n + 1 >= 1 /\ 1 \in 1..n /\ ut[1] = b
    BY <1>3, <1>5
  <2>2. QED
    BY <1>5, <1>8, <1>9, <2>1, Zenon DEF StackOK
<1>11. ASSUME NEW s \in DOMAIN tt, tt[s].owner = g, tt[s].stream = "open"
       PROVE  \E i \in 2..(n + 1) : ut[i] = s
  <2>1. CASE s \in 1..m
    <3>1. \E i \in 2..n : st[i] = s
      BY <1>1, <1>4, <1>11, <2>1 DEF Place
    <3>2. QED
      BY <1>5, <3>1
  <2>2. CASE s = m + 1
    BY <1>3, <1>5, <2>2
  <2>3. s = m + 1 \/ s \in 1..m
    <3>1. s \in 1..(m + 1)
      BY <1>4, Zenon
    <3>2. QED
      BY <3>1
  <2>4. QED
    BY <2>1, <2>2, <2>3, Zenon
<1>12. b = 0 \/ (b \in DOMAIN tt /\ tt[b].parent)
  BY <1>4 DEF Place
<1>13. p = "inStep" => Len(ut) > 1 /\ ~tt[Last(ut)].parent
  BY <1>3, <1>4, <1>5 DEF Last
<1>14. p \notin {"unborn", "spawned", "dead", "stopping"} /\ p # "closing"
  OBVIOUS
<1>15. \A s \in DOMAIN tt : tt[s].owner = g /\ tt[s].stream = "open" =>
          \E i \in 2..Len(ut) : ut[i] = s
  BY <1>5, <1>11, Zenon
<1>16. QED
  BY <1>10, <1>12, <1>13, <1>14, <1>15 DEF Place

(* The greenlet's step at the tip ends, with a status.                        *)
LEMMA PlaceEndsStep ==
  ASSUME NEW ss \in Seq(Step), NEW st, NEW b, NEW c, NEW g,
         NEW p \in {"inStep", "stopping"}, Place(ss, st, b, p, c, g),
         NEW tt \in Seq(Step), DOMAIN tt = DOMAIN ss,
         \A s \in DOMAIN ss : SameButStatus(tt[s], ss[s])
  PROVE  Place(tt, st, b, "running", c, g)
<1>1. Place(ss, st, b, "running", c, g)
  BY PlaceMoves
<1>2. \A s \in DOMAIN ss : /\ tt[s].parent = ss[s].parent /\ tt[s].owner = ss[s].owner
                          /\ tt[s].stream = ss[s].stream /\ tt[s].under = ss[s].under
  BY DEF SameButStatus
<1>3. StackOK(tt, st, b, g)
  <2>1. StackOK(ss, st, b, g)
    BY <1>1, Zenon DEF Place
  <2>2. QED
    BY <1>2, <2>1 DEF StackOK
<1>4. QED
  BY <1>1, <1>2, <1>3 DEF Place

(* The greenlet pops a nest off its stack: it waits in close() ...            *)
LEMMA PlacePops ==
  ASSUME NEW ss \in Seq(Step), NEW st \in Seq(0..MaxSteps), NEW b, NEW c, NEW g,
         Place(ss, st, b, "running", c, g), Len(st) > 1,
         NEW s, s = st[Len(st)], ss[s].parent,
         NEW tt \in Seq(Step), DOMAIN tt = DOMAIN ss,
         \A i \in DOMAIN ss : SameButStatus(tt[i], ss[i])
  PROVE  Place(tt, Front(st), b, "closing", s, g)
<1> USE EngineParameters
<1>1. PICK n \in Nat : n = Len(st)
  OBVIOUS
<1>2. n >= 2
  BY <1>1
<1>3. /\ n \in 2..n /\ n - 1 >= 1 /\ n - 1 < n
      /\ \A i \in 1..(n - 1) : i \in 1..n /\ n \in 1..n /\ i < n
      /\ \A i \in 2..(n - 1) : i \in 2..n /\ i - 1 \in 1..(n - 1) /\ i \in 1..(n - 1) /\ i < n
  BY <1>2
<1>4. /\ Len(Front(st)) = n - 1 /\ \A i \in 1..(n - 1) : Front(st)[i] = st[i]
  <2>1. st \in Seq(0..MaxSteps) /\ Len(st) >= 1
    BY <1>1, <1>2
  <2>2. /\ Len(Front(st)) = Len(st) - 1
        /\ \A i \in 1..(Len(st) - 1) : Front(st)[i] = st[i]
    BY ONLY <2>1, FrontOf, Zenon
  <2>3. QED
    BY ONLY <1>1, <2>2, Zenon
<1>5. /\ b = 0 \/ (b \in DOMAIN ss /\ ss[b].parent)
      /\ StackOK(ss, st, b, g)
      /\ \A i \in DOMAIN ss : ss[i].owner = g /\ ss[i].stream = "open" =>
           \E j \in 2..n : st[j] = i
  BY <1>1 DEF Place
<1>6. \A i \in DOMAIN ss : /\ tt[i].parent = ss[i].parent /\ tt[i].owner = ss[i].owner
                          /\ tt[i].stream = ss[i].stream /\ tt[i].under = ss[i].under
  BY DEF SameButStatus
<1>7. /\ st[1] = b
      /\ \A i \in 2..n : /\ st[i] \in DOMAIN ss /\ ss[st[i]].owner = g
                         /\ ss[st[i]].stream = "open" /\ ss[st[i]].under = st[i - 1]
                         /\ i < n => ss[st[i]].parent
      /\ \A i, j \in 1..n : i < j => st[i] < st[j]
  BY <1>1, <1>5, Zenon DEF StackOK
<1>8. /\ s \in DOMAIN ss /\ ss[s].owner = g /\ ss[s].stream = "open" /\ s # 0
  <2>1. s = st[n] /\ n \in 2..n
    BY <1>1, <1>3, Zenon
  <2>2. /\ st[n] \in DOMAIN ss /\ ss[st[n]].owner = g /\ ss[st[n]].stream = "open"
    BY ONLY <1>7, <2>1, Zenon
  <2>3. DOMAIN ss = 1..Len(ss) /\ Len(ss) \in Nat
    OBVIOUS
  <2>4. s # 0
    BY ONLY <2>1, <2>2, <2>3
  <2>5. QED
    BY ONLY <2>1, <2>2, <2>4, Zenon
<1>9. StackOK(tt, Front(st), b, g)
  <2>1. ASSUME NEW i \in 2..(n - 1)
        PROVE  /\ Front(st)[i] \in DOMAIN tt /\ tt[Front(st)[i]].owner = g
               /\ tt[Front(st)[i]].stream = "open" /\ tt[Front(st)[i]].under = Front(st)[i - 1]
               /\ tt[Front(st)[i]].parent
    <3>1. Front(st)[i] = st[i] /\ Front(st)[i - 1] = st[i - 1] /\ i \in 2..n /\ i < n
      BY <1>3, <1>4, Zenon
    <3>2. /\ st[i] \in DOMAIN ss /\ ss[st[i]].owner = g /\ ss[st[i]].stream = "open"
          /\ ss[st[i]].under = st[i - 1] /\ ss[st[i]].parent
      BY <1>7, <3>1, Zenon
    <3>3. QED
      BY <1>6, <3>1, <3>2
  <2>2. \A i, j \in 1..(n - 1) : i < j => Front(st)[i] < Front(st)[j]
    BY <1>3, <1>4, <1>7, Zenon
  <2>3. Front(st)[1] = b
    <3>1. 1 \in 1..(n - 1)
      BY <1>2
    <3>2. QED
      BY <1>4, <1>7, <3>1, Zenon
  <2>4. QED
    BY <1>3, <1>4, <2>1, <2>2, <2>3, Zenon DEF StackOK
<1>10. \A i \in 1..Len(Front(st)) : Front(st)[i] < s
  BY <1>1, <1>3, <1>4, <1>7, Zenon
<1>11. \A i \in DOMAIN tt : tt[i].owner = g /\ tt[i].stream = "open" =>
         (\E j \in 2..Len(Front(st)) : Front(st)[j] = i) \/ i = s
  <2> SUFFICES ASSUME NEW i \in DOMAIN ss, ss[i].owner = g, ss[i].stream = "open", i # s
               PROVE  \E j \in 2..(n - 1) : Front(st)[j] = i
    BY <1>4, <1>6
  <2>1. PICK j \in 2..n : st[j] = i
    BY <1>5
  <2>2. j # n
    BY <1>1, <2>1
  <2>3. j \in 2..(n - 1)
    BY <2>2
  <2>4. QED
    BY <1>3, <1>4, <2>1, <2>3, Zenon
<1>12. QED
  BY <1>5, <1>6, <1>8, <1>9, <1>10, <1>11 DEF Place

(* ... and is done with it, whether it waited or not, and however it ends.    *)
LEMMA PlaceDone ==
  ASSUME NEW ss \in Seq(Step), NEW st, NEW b, NEW c, NEW d, NEW g, c # 0,
         Place(ss, st, b, "closing", c, g),
         NEW tt \in Seq(Step), DOMAIN tt = DOMAIN ss, tt[c].stream # "open",
         SameButStream(tt[c], ss[c]), \A i \in DOMAIN ss : i # c => tt[i] = ss[i]
  PROVE  Place(tt, st, b, "running", d, g)
<1>1. /\ b = 0 \/ (b \in DOMAIN ss /\ ss[b].parent)
      /\ StackOK(ss, st, b, g)
      /\ \A i \in 1..Len(st) : st[i] < c
      /\ \A i \in DOMAIN ss : ss[i].owner = g /\ ss[i].stream = "open" =>
           (\E j \in 2..Len(st) : st[j] = i) \/ c = i
  BY DEF Place
<1>2. \A i \in DOMAIN ss : tt[i].parent = ss[i].parent /\ tt[i].owner = ss[i].owner
  BY DEF SameButStream
<1>3. c \in DOMAIN ss
  BY DEF Place
<1>4. \A i \in 2..Len(st) : st[i] # c /\ st[i] \in DOMAIN ss
  <2>1. \A i \in 2..Len(st) : i \in 1..Len(st)
    OBVIOUS
  <2>2. \A i \in 2..Len(st) : st[i] \in DOMAIN ss /\ st[i] < c
    BY <1>1, <2>1, Zenon DEF StackOK
  <2>3. QED
    BY <1>3, <2>2
<1>5. StackOK(tt, st, b, g)
  BY <1>1, <1>4 DEF StackOK
<1>6. QED
  BY <1>1, <1>2, <1>5, SMTT(30) DEF Place

-------------------------------------------------------------------------------
(* A status has a place in RawStatuses.                                       *)
LEMMA BadnessType ==
  ASSUME NEW a \in Statuses \cup {"none"}
  PROVE  Badness(a) \in 0..6
<1> SUFFICES \E i \in DOMAIN RawStatuses : RawStatuses[i] = a /\ i \in 0..6
  BY DEF Badness, RawStatuses
<1>1. DOMAIN RawStatuses = 1..6 /\ RawStatuses[1] = "none"
  BY DEF RawStatuses
<1>2. QED
  BY <1>1 DEF Statuses

(* The worst of some statuses is one of them, and none is worse.              *)
LEMMA WorstIsOne ==
  ASSUME NEW S \in SUBSET (Statuses \cup {"none"}), S # {}
  PROVE  WorstOf(S) \in S /\ \A b \in S : Badness(b) <= Badness(WorstOf(S))
<1>1. \A a \in S : Badness(a) \in 0..6
  BY BadnessType
<1> DEFINE T == {Badness(a) : a \in S}
<1>2. T \in SUBSET (0..6) /\ T # {}
  BY <1>1
<1>3. PICK k \in T : \A j \in T : j <= k
  BY <1>2, GreatestNatural
<1>4. PICK a \in S : \A b \in S : Badness(b) <= Badness(a)
  BY <1>3
<1>5. QED
  BY <1>4 DEF WorstOf

(* The steps as a sequence, in the form in which the provers use it.          *)
LEMMA StepsType ==
  ASSUME TypeOK
  PROVE  /\ steps \in Seq(Step) /\ Len(steps) \in Nat /\ Len(steps) <= MaxSteps
         /\ DOMAIN steps = 1..Len(steps)
         /\ \A s \in DOMAIN steps : steps[s] \in Step /\ s \in 1..MaxSteps
<1>1. steps \in Seq(Step) /\ Len(steps) <= MaxSteps
  BY DEF TypeOK
<1>2. Len(steps) \in Nat /\ DOMAIN steps = 1..Len(steps)
  BY <1>1
<1>3. \A s \in DOMAIN steps : steps[s] \in Step
  BY <1>1
<1>4. \A s \in 1..Len(steps) : s \in 1..MaxSteps
  BY <1>1, <1>2, EngineParameters
<1>5. QED
  BY <1>1, <1>2, <1>3, <1>4

(* Only futures are killed.                                                   *)
LEMMA ThrowsType ==
  ASSUME TypeOK
  PROVE  \A i \in DOMAIN throws : throws[i] \in Futures /\ throws[i] \in Greenlets /\ throws[i] # 0
<1>1. throws \in Seq(Futures)
  BY DEF TypeOK
<1>2. \A i \in DOMAIN throws : throws[i] \in Futures
  BY <1>1
<1>3. \A h \in Futures : h \in Greenlets /\ h # 0
  BY EngineParameters DEF Futures, Greenlets
<1>4. QED
  BY <1>2, <1>3

(* The status that the end of a nest gives to it is a status, or none.        *)
LEMMA StatusForType ==
  ASSUME TypeOK, NEW s, NEW a
  PROVE  StatusFor(s, a) \in Statuses \cup {"none"}
<1> USE EngineParameters
<1>1. \A c \in Children(s) : c \in DOMAIN steps /\ c \in 0..MaxSteps /\ steps[c].status \in Statuses \cup {"none"}
  BY StepsType DEF Children, Step
<1>2. CASE a = "last" /\ Children(s) # {}
  <2>1. PICK k \in Children(s) : \A j \in Children(s) : j <= k
    <3>1. Children(s) \in SUBSET (0..MaxSteps)
      BY <1>1
    <3>2. QED
      BY <1>2, <3>1, GreatestNatural
  <2>2. Max(Children(s)) \in Children(s)
    <3>1. \A j \in Children(s) : k >= j
      BY <1>1, <2>1
    <3>2. QED
      BY <3>1 DEF Max
  <2>3. QED
    BY <1>1, <1>2, <2>2 DEF StatusFor
<1>3. CASE ~(a = "last" /\ Children(s) # {})
  <2> DEFINE S == {"SUCCESS"} \cup {steps[c].status : c \in Children(s)}
  <2>1. "SUCCESS" \in Statuses
    <3>1. RawStatuses[2] = "SUCCESS"
      BY DEF RawStatuses
    <3>2. QED
      BY <3>1 DEF Statuses
  <2>2. S \in SUBSET (Statuses \cup {"none"}) /\ S # {}
    BY <1>1, <2>1
  <2>3. WorstOf(S) \in S
    BY <2>2, WorstIsOne
  <2>4. QED
    BY <1>3, <2>2, <2>3 DEF StatusFor
<1>4. QED
  BY <1>2, <1>3

(* The numbers up to n are finitely many: n.                                  *)
LEMMA Segment ==
  ASSUME NEW n \in Nat
  PROVE  IsFiniteSet(1..n) /\ Cardinality(1..n) = n
<1>1. IsFiniteSet(1..n) /\ Cardinality(1..n) = IF 1 > n THEN 0 ELSE n - 1 + 1
  BY FS_Interval
<1>2. (IF 1 > n THEN 0 ELSE n - 1 + 1) = n
  OBVIOUS
<1>3. QED
  BY <1>1, <1>2

(* The tokens of a new step are tokens.                                       *)
LEMMA NameTokensType ==
  ASSUME TypeOK, NEW s \in 0..MaxSteps, s = 0 \/ s \in DOMAIN steps, NEW name \in Names
  PROVE  /\ NameTokens(TokensOf(s), name) \in Seq(Token)
         /\ Recorded(TokensOf(s), name) \in 0..Len(steps)
<1> DEFINE R == {i \in DOMAIN steps : /\ Front(steps[i].tokens) = TokensOf(s)
                                      /\ steps[i].asked = name}
<1>1. steps \in Seq(Step) /\ Len(steps) \in Nat /\ Len(steps) <= MaxSteps
  BY StepsType
<1>2. IsFiniteSet(1..Len(steps)) /\ Cardinality(1..Len(steps)) = Len(steps)
  BY <1>1, Segment
<1>3. R \subseteq 1..Len(steps)
  BY <1>1
<1>4. Cardinality(R) \in Nat /\ Cardinality(R) <= Len(steps)
  BY <1>2, <1>3, FS_Subset, FS_CardinalityType
<1>5. Recorded(TokensOf(s), name) \in 0..Len(steps)
  BY <1>1, <1>4 DEF Recorded
<1>6. Dedup(name, Recorded(TokensOf(s), name)) \in Token
  <2>1. Recorded(TokensOf(s), name) \in 0..MaxSteps
    BY <1>1, <1>5, EngineParameters
  <2>2. QED
    BY <2>1 DEF Token
<1>7. TokensOf(s) \in Seq(Token)
  <2>1. s # 0 => steps[s] \in Step
    BY StepsType
  <2>2. s # 0 => steps[s].tokens \in Seq(Token)
    BY <2>1 DEF Step
  <2>3. QED
    BY <2>2 DEF TokensOf
<1>8. QED
  BY <1>5, <1>6, <1>7 DEF NameTokens

-------------------------------------------------------------------------------
(* What a step of greenlet g may do to the steps: to its own.                 *)
OwnSteps(g, ss, tt) ==
  /\ tt \in Seq(Step) /\ Len(ss) <= Len(tt) /\ Len(tt) <= MaxSteps
  /\ DOMAIN ss \subseteq DOMAIN tt
  /\ \A s \in DOMAIN ss : tt[s].parent = ss[s].parent /\ tt[s].owner = ss[s].owner
  /\ \A s \in DOMAIN ss : ss[s].owner # g => tt[s] = ss[s]
  /\ \A s \in DOMAIN tt \ DOMAIN ss : tt[s].owner = g
  /\ \A s \in DOMAIN tt : ~tt[s].parent => tt[s].status # "none"

(* What g does to its own steps leaves all others in their place.             *)
LEMMA OthersStay ==
  ASSUME IInv, NEW g \in Greenlets, OwnSteps(g, steps, steps'),
         NEW h \in Greenlets, h # g, stack'[h] = stack[h], base'[h] = base[h],
         pc'[h] = pc[h], closing'[h] = closing[h]
  PROVE  Place(steps, stack[h], base[h], pc[h], closing[h], h)'
<1>1. Place(steps, stack[h], base[h], pc[h], closing[h], h)
  BY DEF IInv, Places
<1>2. steps \in Seq(Step)
  BY StepsType DEF IInv
<1>3. /\ steps' \in Seq(Step) /\ Len(steps) <= Len(steps')
      /\ \A s \in DOMAIN steps : steps'[s].parent = steps[s].parent /\ steps'[s].owner = steps[s].owner
      /\ \A s \in DOMAIN steps : steps[s].owner = h => steps'[s] = steps[s]
      /\ \A s \in DOMAIN steps' \ DOMAIN steps : steps'[s].owner # h
  BY DEF OwnSteps
<1>4. Place(steps', stack[h], base[h], pc[h], closing[h], h)
  BY <1>1, <1>2, <1>3, OthersKeepPlace
<1>5. QED
  BY <1>4

(* Closing its tip is something g does to its own steps.                      *)
LEMMA OwnTip ==
  ASSUME IInv, NEW g \in Greenlets, NEW ss, NEW st, TipClosed(g, ss, st)
  PROVE  OwnSteps(g, steps, ss) /\ DOMAIN ss = DOMAIN steps
<1>1. DOMAIN ss = DOMAIN steps /\ Len(ss) <= Len(steps) /\ Len(steps) <= Len(ss) /\ Len(ss) <= MaxSteps
  BY StepsType DEF TipClosed, IInv
<1>2. \A s \in DOMAIN steps : ~steps[s].parent => steps[s].status # "none"
  BY DEF IInv, TypeOK
<1>3. \A s \in DOMAIN steps : /\ ss[s].parent = steps[s].parent /\ ss[s].owner = steps[s].owner
                             /\ ss[s].status = steps[s].status
  BY DEF TipClosed, SameButStream
<1>4. QED
  BY <1>1, <1>2, <1>3 DEF OwnSteps, TipClosed

(* So is doing nothing.                                                       *)
LEMMA NoSteps ==
  ASSUME IInv, NEW g \in Greenlets
  PROVE  OwnSteps(g, steps, steps)
  BY StepsType DEF IInv, TypeOK, OwnSteps

(* The new greenlet has a parent, or the root, for its base.                  *)
LEMMA SpawnKeepsIInv ==
  ASSUME IInv, NEW g \in Greenlets, Spawn(g)
  PROVE  IInv'
<1> USE EngineParameters
<1> DEFINE ss == Closed(g)
           st == Popped(g)
<1>1. PICK h \in Futures :
        /\ pc[g] = "running" /\ pc[h] = "unborn"
        /\ steps' = ss /\ stack' = [stack EXCEPT ![g] = st]
        /\ base' = [base EXCEPT ![h] = Tip(g)] /\ pc' = [pc EXCEPT ![h] = "spawned"]
        /\ late' \in SUBSET Futures
        /\ closing' = closing /\ waitFor' = waitFor /\ throws' = throws /\ cancels' = cancels
  <2>1. late \in SUBSET Futures
    BY DEF IInv, TypeOK
  <2>2. QED
    BY <2>1 DEF Spawn
<1> HIDE DEF ss, st
<1>2. TipClosed(g, ss, st) /\ Tip(g) = st[Len(st)]
  BY <1>1, CloseTip DEF ss, st
<1>3. OwnSteps(g, steps, ss) /\ DOMAIN ss = DOMAIN steps
  BY <1>2, OwnTip
<1>4. h \in Greenlets /\ h # g
  BY <1>1 DEF Futures, Greenlets
<1>5. /\ pc \in [Greenlets -> PC] /\ stack \in [Greenlets -> Seq(0..MaxSteps)]
      /\ base \in [Greenlets -> 0..MaxSteps] /\ st \in Seq(0..MaxSteps)
  BY <1>2 DEF IInv, TypeOK, TipClosed
<1>6. Tip(g) \in 0..MaxSteps /\ (Tip(g) = 0 \/ (Tip(g) \in DOMAIN steps /\ steps[Tip(g)].parent))
  <2>1. Tip(g) = 0 \/ (Tip(g) \in DOMAIN steps /\ steps[Tip(g)].parent)
    BY <1>2 DEF TipClosed
  <2>2. \A s \in DOMAIN steps : s \in 0..MaxSteps
    BY StepsType DEF IInv
  <2>3. QED
    BY <2>1, <2>2
<1>7. TypeOK'
  <2>1. steps' \in Seq(Step) /\ Len(steps') <= MaxSteps /\ \A s \in DOMAIN steps' : ~steps'[s].parent => steps'[s].status # "none"
    BY <1>1, <1>3 DEF OwnSteps
  <2>2. stack' \in [Greenlets -> Seq(0..MaxSteps)] /\ base' \in [Greenlets -> 0..MaxSteps] /\ pc' \in [Greenlets -> PC]
    BY <1>1, <1>5, <1>6 DEF PC
  <2>3. QED
    BY <1>1, <2>1, <2>2 DEF IInv, TypeOK
<1>8. ASSUME NEW f \in Greenlets
      PROVE  Place(steps, stack[f], base[f], pc[f], closing[f], f)'
  <2>1. CASE f = g
    <3>1. Place(ss, st, base[g], "running", closing[g], g)
      BY <1>2, PlaceWithTipClosed
    <3>2. steps' = ss /\ stack'[g] = st /\ base'[g] = base[g] /\ pc'[g] = "running" /\ closing'[g] = closing[g]
      BY <1>1, <1>4, <1>5
    <3>3. QED
      BY <2>1, <3>1, <3>2
  <2>2. CASE f = h
    <3>1. Place(steps, stack[h], base[h], "unborn", closing[h], h)
      BY <1>1, <1>4 DEF IInv, Places
    <3>2. Len(stack[h]) = 1 /\ \A s \in DOMAIN steps : ~(steps[s].owner = h /\ steps[s].stream = "open")
      BY <3>1, PlaceStarts DEF Place
    <3>3. \A s \in DOMAIN ss : ~(ss[s].owner = h /\ ss[s].stream = "open")
      BY <1>3, <1>4, <3>2 DEF OwnSteps
    <3>4. Tip(g) = 0 \/ (Tip(g) \in DOMAIN ss /\ ss[Tip(g)].parent)
      BY <1>3, <1>6 DEF OwnSteps
    <3>5. Place(ss, stack[h], Tip(g), "spawned", closing[h], h)
      BY <3>2, <3>3, <3>4 DEF Place
    <3>6. steps' = ss /\ stack'[h] = stack[h] /\ base'[h] = Tip(g) /\ pc'[h] = "spawned" /\ closing'[h] = closing[h]
      BY <1>1, <1>4, <1>5
    <3>7. QED
      BY <2>2, <3>5, <3>6
  <2>3. CASE f # g /\ f # h
    <3>1. stack'[f] = stack[f] /\ base'[f] = base[f] /\ pc'[f] = pc[f] /\ closing'[f] = closing[f]
      BY <1>1, <1>5, <2>3
    <3>2. QED
      BY <1>1, <1>3, <2>3, <3>1, OthersStay
  <2>4. QED
    BY <2>1, <2>2, <2>3
<1>9. ThrowsAtStarted'
  <2>1. \A i \in DOMAIN throws : throws[i] # h
    BY <1>1 DEF IInv, ThrowsAtStarted
  <2>2. \A i \in DOMAIN throws : throws[i] \in Greenlets
    BY ThrowsType DEF IInv
  <2>3. QED
    BY <1>1, <1>5, <2>1, <2>2 DEF IInv, ThrowsAtStarted
<1>10. IdleClosing'
  BY <1>1, <1>4, <1>5 DEF IInv, IdleClosing
<1>11. QED
  BY <1>7, <1>8, <1>9, <1>10 DEF IInv, Places

(* An action that moves greenlet g alone keeps the invariant if it leaves g in *)
(* its place.                                                                 *)
LEMMA OneGreenlet ==
  ASSUME IInv, NEW g \in Greenlets, OwnSteps(g, steps, steps'),
         stack' \in [Greenlets -> Seq(0..MaxSteps)], pc' \in [Greenlets -> PC],
         closing' \in [Greenlets -> 0..MaxSteps], base' = base,
         waitFor' \in [Greenlets -> SUBSET Greenlets],
         \A f \in Greenlets \ {g} : /\ stack'[f] = stack[f] /\ pc'[f] = pc[f]
                                     /\ closing'[f] = closing[f],
         pc'[g] \notin {"unborn", "spawned"}, pc'[g] # "closing" => closing'[g] = 0,
         Place(steps', stack'[g], base[g], pc'[g], closing'[g], g),
         throws' \in Seq(Futures),
         \A i \in DOMAIN throws' : pc[throws'[i]] \notin {"unborn", "spawned"},
         cancels' \in Nat, late' = late
  PROVE  IInv'
<1>1. TypeOK'
  <2>1. /\ steps' \in Seq(Step) /\ Len(steps') <= MaxSteps
        /\ \A s \in DOMAIN steps' : ~steps'[s].parent => steps'[s].status # "none"
    BY DEF OwnSteps
  <2>2. QED
    BY <2>1 DEF IInv, TypeOK
<1>2. ASSUME NEW f \in Greenlets
      PROVE  Place(steps, stack[f], base[f], pc[f], closing[f], f)'
  <2>1. CASE f = g
    BY <2>1
  <2>2. CASE f # g
    BY <2>2, OthersStay
  <2>3. QED
    BY <2>1, <2>2
<1>3. ThrowsAtStarted'
  <2>1. \A i \in DOMAIN throws' : throws'[i] \in Greenlets
    <3>1. \A i \in DOMAIN throws' : throws'[i] \in Futures
      OBVIOUS
    <3>2. \A h \in Futures : h \in Greenlets
      BY EngineParameters DEF Futures, Greenlets
    <3>3. QED
      BY <3>1, <3>2
  <2>2. QED
    BY <2>1 DEF ThrowsAtStarted
<1>4. IdleClosing'
  BY DEF IInv, IdleClosing
<1>5. QED
  BY <1>1, <1>2, <1>3, <1>4 DEF IInv, Places

(* Only in close() is there a step that is being closed.                      *)
LEMMA Idle ==
  ASSUME IInv, NEW g \in Greenlets, pc[g] # "closing"
  PROVE  closing[g] = 0
  BY DEF IInv, IdleClosing

(* The part of its hypotheses that most actions share.                        *)
LEMMA ThrowsStay ==
  ASSUME IInv, throws' = throws
  PROVE  /\ throws' \in Seq(Futures)
         /\ \A i \in DOMAIN throws' : pc[throws'[i]] \notin {"unborn", "spawned"}
  BY DEF IInv, TypeOK, ThrowsAtStarted

(* A greenlet starts on a stack of its own.                                   *)
LEMMA StartKeepsIInv ==
  ASSUME IInv, NEW g \in Greenlets, Start(g)
  PROVE  IInv'
<1>1. TypeOK /\ Place(steps, stack[g], base[g], "spawned", closing[g], g)
  BY DEF IInv, Places, Start
<1>2. Place(steps, <<base[g]>>, base[g], "running", closing[g], g)
  BY <1>1, PlaceStarts
<1>3. /\ stack' = [stack EXCEPT ![g] = <<base[g]>>] /\ pc' = [pc EXCEPT ![g] = "running"]
      /\ steps' = steps /\ base' = base /\ closing' = closing /\ waitFor' = waitFor
      /\ throws' = throws /\ cancels' = cancels /\ late' = late
  BY DEF Start
<1>4. <<base[g]>> \in Seq(0..MaxSteps)
  BY <1>1 DEF TypeOK
<1>5. OwnSteps(g, steps, steps')
  BY <1>3, NoSteps
<1>6. /\ stack' \in [Greenlets -> Seq(0..MaxSteps)] /\ pc' \in [Greenlets -> PC]
      /\ closing' \in [Greenlets -> 0..MaxSteps] /\ cancels' \in Nat
      /\ waitFor' \in [Greenlets -> SUBSET Greenlets]
      /\ stack'[g] = <<base[g]>> /\ pc'[g] = "running" /\ closing'[g] = closing[g]
      /\ \A f \in Greenlets \ {g} : /\ stack'[f] = stack[f] /\ pc'[f] = pc[f]
                                     /\ closing'[f] = closing[f]
  BY <1>1, <1>3, <1>4 DEF TypeOK, PC
<1>7. closing[g] = 0
  BY Idle DEF Start
<1>8. QED
  BY <1>2, <1>3, <1>5, <1>6, <1>7, ThrowsStay, OneGreenlet

(* The new step is the last, and thus above all that is on the stack.         *)
LEMMA OpenKeepsIInv ==
  ASSUME IInv, NEW g \in Greenlets, NEW name \in Names, NEW parent \in BOOLEAN,
         NEW status \in Statuses \cup {"none"}, Open(g, name, parent, status),
         ~parent => status # "none",
         NEW p \in {"running", "inStep"}, p = "inStep" => ~parent,
         pc' = [pc EXCEPT ![g] = p]
  PROVE  IInv'
<1> USE EngineParameters
<1> DEFINE ss == Closed(g)
           st == Popped(g)
           x  == [owner |-> g, under |-> Tip(g), parent |-> parent, asked |-> name,
                  tokens |-> NameTokens(TokensOf(Tip(g)), name),
                  stream |-> "open", status |-> status]
<1>1. /\ pc[g] = "running" /\ Len(steps) < MaxSteps
      /\ steps' = Append(ss, x) /\ stack' = [stack EXCEPT ![g] = Append(st, Len(steps) + 1)]
      /\ base' = base /\ closing' = closing /\ waitFor' = waitFor
      /\ throws' = throws /\ cancels' = cancels /\ late' = late
  BY DEF Open
<1>2. TypeOK
  BY DEF IInv
<1>3. TipClosed(g, ss, st) /\ Tip(g) = st[Len(st)]
  BY <1>1, CloseTip
<1>4. Tip(g) \in 0..MaxSteps /\ (Tip(g) = 0 \/ Tip(g) \in DOMAIN steps)
  <2>1. Tip(g) = 0 \/ Tip(g) \in DOMAIN steps
    BY <1>3 DEF TipClosed
  <2>2. \A s \in DOMAIN steps : s \in 0..MaxSteps
    BY <1>2, StepsType
  <2>3. QED
    BY <2>1, <2>2
<1>5. x \in Step
  <2>1. NameTokens(TokensOf(Tip(g)), name) \in Seq(Token)
    BY <1>2, <1>4, NameTokensType
  <2>2. QED
    BY <1>4, <2>1 DEF Step
<1>6. /\ x.owner = g /\ x.under = Tip(g) /\ x.stream = "open" /\ x.parent = parent
      /\ x.status = status
  OBVIOUS
<1> HIDE DEF ss, st, x
<1>7. /\ ss \in Seq(Step) /\ st \in Seq(0..MaxSteps) /\ Len(ss) = Len(steps)
      /\ \A i \in 2..Len(st) : ss[st[i]].parent
      /\ Place(ss, st, base[g], "running", closing[g], g)
  BY <1>3, PlaceWithTipClosed DEF TipClosed
<1>8. Place(steps', Append(st, Len(steps) + 1), base[g], p, closing[g], g)
  <2>1. /\ Len(ss) < MaxSteps /\ x.under = st[Len(st)] /\ (p = "inStep" => ~x.parent)
        /\ x.owner = g /\ x.stream = "open" /\ steps' = Append(ss, x)
        /\ Append(st, Len(steps) + 1) = Append(st, Len(ss) + 1)
    BY <1>1, <1>3, <1>6, <1>7
  <2>2. Place(Append(ss, x), Append(st, Len(ss) + 1), base[g], p, closing[g], g)
    BY <1>5, <1>7, <2>1, PlaceOpens, SMTT(30)
  <2>3. QED
    BY <2>1, <2>2
<1>9. OwnSteps(g, steps, steps')
  <2>1. PICK m \in Nat : m = Len(steps)
    BY <1>2, StepsType
  <2>2. OwnSteps(g, steps, ss) /\ DOMAIN ss = DOMAIN steps
    BY <1>3, OwnTip
  <2>3. /\ steps' \in Seq(Step) /\ Len(steps') = m + 1 /\ DOMAIN ss = 1..m
        /\ \A s \in 1..m : steps'[s] = ss[s]
        /\ steps'[m + 1] = x /\ DOMAIN steps' = 1..(m + 1)
    BY <1>1, <1>5, <1>7, <2>1, AppendTo
  <2>4. /\ \A s \in 1..(m + 1) : s \in 1..m \/ s = m + 1
        /\ \A s \in 1..m : s \in 1..(m + 1)
    OBVIOUS
  <2>5. m + 1 <= MaxSteps /\ m <= m + 1
    BY <1>1, <2>1
  <2>6. \A s \in DOMAIN steps' : ~steps'[s].parent => steps'[s].status # "none"
    BY <1>6, <2>2, <2>3, <2>4 DEF OwnSteps
  <2>7. QED
    BY <1>6, <2>1, <2>2, <2>3, <2>4, <2>5, <2>6 DEF OwnSteps
<1>10. Append(st, Len(steps) + 1) \in Seq(0..MaxSteps)
  <2>1. Len(steps) + 1 \in 0..MaxSteps
    BY <1>1, <1>2, StepsType
  <2>2. QED
    BY <1>7, <2>1
<1>11. /\ stack' \in [Greenlets -> Seq(0..MaxSteps)] /\ pc' \in [Greenlets -> PC]
       /\ closing' \in [Greenlets -> 0..MaxSteps] /\ cancels' \in Nat
       /\ waitFor' \in [Greenlets -> SUBSET Greenlets]
       /\ stack'[g] = Append(st, Len(steps) + 1) /\ pc'[g] = p /\ closing'[g] = closing[g]
       /\ \A f \in Greenlets \ {g} : /\ stack'[f] = stack[f] /\ pc'[f] = pc[f]
                                      /\ closing'[f] = closing[f]
  BY <1>1, <1>2, <1>10 DEF TypeOK, PC
<1>12. closing[g] = 0
  BY <1>1, Idle
<1>13. QED
  BY <1>1, <1>8, <1>9, <1>11, <1>12, ThrowsStay, OneGreenlet

(* A change of one of its own steps.                                          *)
LEMMA OwnChange ==
  ASSUME NEW g, NEW rr, NEW ss \in Seq(Step), OwnSteps(g, rr, ss),
         NEW tt \in Seq(Step), Len(tt) = Len(ss), NEW s \in DOMAIN ss, ss[s].owner = g,
         tt[s].parent = ss[s].parent, tt[s].owner = ss[s].owner,
         ~tt[s].parent => tt[s].status # "none",
         \A i \in DOMAIN ss : i # s => tt[i] = ss[i]
  PROVE  OwnSteps(g, rr, tt) /\ DOMAIN tt = DOMAIN ss
<1>1. DOMAIN tt = DOMAIN ss /\ Len(ss) \in Nat
  OBVIOUS
<1>2. /\ Len(rr) <= Len(tt) /\ Len(tt) <= MaxSteps
  BY DEF OwnSteps
<1>3. QED
  BY <1>1, <1>2 DEF OwnSteps

(* The statuses that the engine itself gives.                                 *)
LEMMA SomeStatuses ==
  "SUCCESS" \in Statuses /\ "EXCEPTION" \in Statuses /\ "CANCELED" \in Statuses /\ "none" \notin Statuses
<1>1. /\ RawStatuses[2] = "SUCCESS" /\ RawStatuses[3] = "WARNING" /\ RawStatuses[4] = "FAILURE"
      /\ RawStatuses[5] = "EXCEPTION" /\ RawStatuses[6] = "CANCELED"
  BY DEF RawStatuses
<1>2. Statuses = {"SUCCESS", "WARNING", "FAILURE", "EXCEPTION", "CANCELED"}
  <2>1. 2..6 = {2, 3, 4, 5, 6}
    OBVIOUS
  <2>2. QED
    BY <1>1, <2>1 DEF Statuses
<1>3. QED
  BY <1>2

(* The real step a greenlet runs is at the tip of its stack.                  *)
LEMMA TipOfRunStep ==
  ASSUME IInv, NEW g \in Greenlets, pc[g] \in {"inStep", "stopping"}
  PROVE  /\ Last(stack[g]) \in DOMAIN steps /\ steps[Last(stack[g])].owner = g
         /\ steps[Last(stack[g])].stream = "open" /\ ~steps[Last(stack[g])].parent
<1>1. Place(steps, stack[g], base[g], pc[g], closing[g], g)
  BY DEF IInv, Places
<1>2. StackOK(steps, stack[g], base[g], g) /\ Len(stack[g]) > 1 /\ ~steps[Last(stack[g])].parent
  BY <1>1 DEF Place
<1>3. stack[g] \in Seq(0..MaxSteps)
  BY DEF IInv, TypeOK
<1>4. PICK n \in Nat : n = Len(stack[g])
  BY <1>3
<1>5. n > 1
  BY <1>2, <1>4
<1>6. n \in 2..n
  BY <1>5
<1>7. Last(stack[g]) = stack[g][n]
  BY <1>4 DEF Last
<1>8. QED
  BY <1>2, <1>4, <1>6, <1>7, Zenon DEF StackOK

(* A real step of g gets its status.                                          *)
LEMMA StepEnds ==
  ASSUME IInv, NEW g \in Greenlets, pc[g] \in {"inStep", "stopping"},
         NEW status \in Statuses, NEW tt,
         tt = WithStatus(steps, Last(stack[g]), status)
  PROVE  OwnSteps(g, steps, tt) /\ \A d : Place(tt, stack[g], base[g], "running", d, g)
<1> DEFINE l == Last(stack[g])
<1>1. l \in DOMAIN steps /\ steps[l].owner = g /\ ~steps[l].parent
  BY TipOfRunStep
<1>2. steps \in Seq(Step) /\ status \in Statuses \cup {"none"} /\ status # "none"
  BY StepsType, SomeStatuses DEF IInv
<1>3. /\ tt \in Seq(Step) /\ Len(tt) = Len(steps) /\ DOMAIN tt = DOMAIN steps
      /\ \A i \in DOMAIN steps : i # l => tt[i] = steps[i]
      /\ tt[l].status = status /\ SameButStatus(tt[l], steps[l])
  BY <1>1, <1>2, SetStatus
<1> HIDE DEF l
<1>4. \A i \in DOMAIN steps : SameButStatus(tt[i], steps[i])
  BY <1>3 DEF SameButStatus
<1>5. OwnSteps(g, steps, tt)
  <2>1. OwnSteps(g, steps, steps)
    BY NoSteps
  <2>2. tt[l].parent = steps[l].parent /\ tt[l].owner = steps[l].owner /\ tt[l].status # "none"
    BY <1>2, <1>3 DEF SameButStatus
  <2>3. QED
    BY <1>1, <1>2, <1>3, <2>1, <2>2, OwnChange
<1>6. ASSUME NEW d
      PROVE  Place(tt, stack[g], base[g], "running", d, g)
  <2>1. Place(steps, stack[g], base[g], pc[g], closing[g], g)
    BY DEF IInv, Places
  <2>2. Place(tt, stack[g], base[g], "running", closing[g], g)
    BY <1>2, <1>3, <1>4, <2>1, PlaceEndsStep
  <2>3. QED
    BY <2>2, PlaceMoves
<1>7. QED
  BY <1>5, <1>6

(* A step that ends is at the tip until it is closed.                         *)
LEMMA EndStepKeepsIInv ==
  ASSUME IInv, NEW g \in Greenlets, NEW status, EndStep(g, status)
  PROVE  IInv'
<1>1. /\ pc[g] \in {"inStep", "stopping"} /\ status \in Statuses
      /\ steps' = WithStatus(steps, Last(stack[g]), status)
      /\ pc' = [pc EXCEPT ![g] = "running"]
      /\ stack' = stack /\ base' = base /\ closing' = closing /\ waitFor' = waitFor
      /\ throws' = throws /\ cancels' = cancels /\ late' = late
  BY EngineParameters, SomeStatuses DEF EndStep, WithStatus
<1>2. OwnSteps(g, steps, steps') /\ Place(steps', stack[g], base[g], "running", closing[g], g)
  BY <1>1, StepEnds
<1>3. /\ stack' \in [Greenlets -> Seq(0..MaxSteps)] /\ pc' \in [Greenlets -> PC]
      /\ closing' \in [Greenlets -> 0..MaxSteps] /\ cancels' \in Nat
      /\ waitFor' \in [Greenlets -> SUBSET Greenlets]
      /\ stack'[g] = stack[g] /\ pc'[g] = "running" /\ closing'[g] = closing[g]
      /\ \A f \in Greenlets \ {g} : /\ stack'[f] = stack[f] /\ pc'[f] = pc[f]
                                    /\ closing'[f] = closing[f]
  BY <1>1 DEF IInv, TypeOK, PC
<1>4. closing[g] = 0
  BY <1>1, Idle
<1>5. QED
  BY <1>1, <1>2, <1>3, <1>4, ThrowsStay, OneGreenlet

(* close() is over, or has been interrupted: the stream of the nest changes.  *)
LEMMA NestDone ==
  ASSUME NEW g, NEW rr, NEW ss \in Seq(Step), OwnSteps(g, rr, ss),
         NEW st, NEW b, NEW c, c # 0, Place(ss, st, b, "closing", c, g),
         NEW x \in Streams \ {"open"}, NEW tt, tt = WithStream(ss, c, x)
  PROVE  OwnSteps(g, rr, tt) /\ \A d : Place(tt, st, b, "running", d, g)
<1>1. c \in DOMAIN ss /\ ss[c].owner = g /\ ss[c].parent
  BY DEF Place
<1>2. /\ tt \in Seq(Step) /\ Len(tt) = Len(ss) /\ DOMAIN tt = DOMAIN ss
      /\ \A i \in DOMAIN ss : i # c => tt[i] = ss[i]
      /\ tt[c].stream = x /\ SameButStream(tt[c], ss[c])
  BY <1>1, SetStream
<1>3. OwnSteps(g, rr, tt)
  <2>1. /\ tt[c].parent = ss[c].parent /\ tt[c].owner = ss[c].owner
        /\ ~tt[c].parent => tt[c].status # "none"
    BY <1>1, <1>2 DEF SameButStream
  <2>2. /\ tt \in Seq(Step) /\ Len(tt) = Len(ss) /\ DOMAIN tt = DOMAIN ss
        /\ \A i \in DOMAIN ss : i # c => tt[i] = ss[i]
        /\ ss \in Seq(Step) /\ OwnSteps(g, rr, ss)
    BY <1>2
  <2>3. QED
    BY ONLY <1>1, <2>1, <2>2, OwnChange
<1>4. \A d : Place(tt, st, b, "running", d, g)
  <2>1. tt[c].stream # "open"
    BY <1>2
  <2>2. QED
    BY <1>2, <2>1, PlaceDone
<1>5. QED
  BY <1>3, <1>4

(* At the end of close() the stream is open no more.                          *)
LEMMA CloseStepIs ==
  ASSUME NEW ss, NEW c
  PROVE  \E x \in Streams \ {"open"} : CloseStep(ss, c) = WithStream(ss, c, x)
  BY DEF CloseStep, WithStream, Streams

(* A nest is popped before it is closed: then it is what g is closing.        *)
LEMMA LeaveNestKeepsIInv ==
  ASSUME IInv, NEW g \in Greenlets, NEW status \in Statuses \cup {"none"}, LeaveNest(g, status)
  PROVE  IInv'
<1> DEFINE rr == Closed(g)
           st == Popped(g)
           s  == Tip(g)
           ss == [rr EXCEPT ![s].status = status]
<1>1. /\ pc[g] = "running" /\ Len(st) > 1 /\ stack' = [stack EXCEPT ![g] = Front(st)]
      /\ base' = base /\ throws' = throws /\ cancels' = cancels /\ late' = late
      /\ \/ /\ steps' = CloseStep(ss, s)
            /\ pc' = pc /\ closing' = closing /\ waitFor' = waitFor
         \/ /\ steps' = ss
            /\ pc' = [pc EXCEPT ![g] = "closing"]
            /\ closing' = [closing EXCEPT ![g] = s]
            /\ waitFor' = [waitFor EXCEPT ![g] = SpawnedUnder(s)]
  BY Zenon DEF LeaveNest
<1>2. TipClosed(g, rr, st) /\ s = st[Len(st)]
  BY <1>1, CloseTip
<1>3. ss = WithStatus(rr, s, status)
  BY DEF WithStatus
<1> HIDE DEF rr, st, s, ss
<1>4. OwnSteps(g, steps, rr) /\ DOMAIN rr = DOMAIN steps
  BY <1>2, OwnTip
<1>5. /\ rr \in Seq(Step) /\ st \in Seq(0..MaxSteps)
      /\ Place(rr, st, base[g], "running", closing[g], g)
  BY <1>2, PlaceWithTipClosed DEF TipClosed
<1>6. s \in DOMAIN rr /\ rr[s].owner = g /\ rr[s].parent /\ s # 0
  <2>1. PICK n \in Nat : n = Len(st)
    BY <1>5
  <2>2. n > 1
    BY <1>1, <2>1
  <2>3. n \in 2..n
    BY <2>2
  <2>4. s = st[n] /\ s \in DOMAIN rr /\ rr[s].owner = g
    BY <1>2, <2>1, <2>3 DEF TipClosed, StackOK
  <2>5. rr[s].parent
    BY <1>2, <2>1, <2>3, <2>4 DEF TipClosed
  <2>6. s # 0
    BY <1>5, <2>4
  <2>7. QED
    BY <2>4, <2>5, <2>6
<1>7. /\ ss \in Seq(Step) /\ Len(ss) = Len(rr) /\ DOMAIN ss = DOMAIN rr
      /\ \A i \in DOMAIN rr : i # s => ss[i] = rr[i]
      /\ SameButStatus(ss[s], rr[s])
  <2>1. rr \in Seq(Step) /\ s \in DOMAIN rr
    BY <1>5, <1>6
  <2>2. QED
    BY <1>3, <2>1, SetStatus
<1>8. \A i \in DOMAIN rr : SameButStatus(ss[i], rr[i])
  BY <1>7 DEF SameButStatus
<1>9. OwnSteps(g, steps, ss)
  <2>1. ss[s].parent = rr[s].parent /\ ss[s].owner = rr[s].owner
    BY <1>7 DEF SameButStatus
  <2>2. QED
    BY <1>4, <1>5, <1>6, <1>7, <2>1, OwnChange
<1>10. Place(ss, Front(st), base[g], "closing", s, g)
  BY <1>1, <1>2, <1>5, <1>6, <1>7, <1>8, PlacePops
<1>11. /\ stack' \in [Greenlets -> Seq(0..MaxSteps)] /\ cancels' \in Nat
       /\ stack'[g] = Front(st)
       /\ \A f \in Greenlets \ {g} : stack'[f] = stack[f]
  <2>1. Front(st) \in Seq(0..MaxSteps)
    <3>1. Len(st) >= 1
      <4>1. PICK n \in Nat : n = Len(st)
        BY <1>5
      <4>2. n > 1
        BY <1>1, <4>1
      <4>3. QED
        BY <4>1, <4>2
    <3>2. QED
      BY <1>5, <3>1, FrontOf
  <2>2. QED
    BY <1>1, <2>1 DEF IInv, TypeOK
<1>12. CASE steps' = CloseStep(ss, s) /\ pc' = pc /\ closing' = closing /\ waitFor' = waitFor
  <2>1. PICK x \in Streams \ {"open"} : steps' = WithStream(ss, s, x)
    BY <1>12, CloseStepIs
  <2>2. OwnSteps(g, steps, steps') /\ Place(steps', Front(st), base[g], "running", closing[g], g)
    BY <1>6, <1>7, <1>9, <1>10, <2>1, NestDone
  <2>3. /\ pc' \in [Greenlets -> PC] /\ closing' \in [Greenlets -> 0..MaxSteps]
        /\ waitFor' \in [Greenlets -> SUBSET Greenlets]
        /\ pc'[g] = "running" /\ closing'[g] = closing[g]
        /\ \A f \in Greenlets \ {g} : pc'[f] = pc[f] /\ closing'[f] = closing[f]
    BY <1>1, <1>12 DEF IInv, TypeOK
  <2>4. closing[g] = 0
    BY <1>1, Idle
  <2>5. QED
    BY <1>1, <1>11, <2>2, <2>3, <2>4, ThrowsStay, OneGreenlet, ZenonT(30)
<1>13. CASE /\ steps' = ss
            /\ pc' = [pc EXCEPT ![g] = "closing"]
            /\ closing' = [closing EXCEPT ![g] = s]
            /\ waitFor' = [waitFor EXCEPT ![g] = SpawnedUnder(s)]
  <2>1. s \in 0..MaxSteps
    <3>1. \A i \in DOMAIN steps : i \in 0..MaxSteps
      BY StepsType DEF IInv
    <3>2. QED
      BY <1>4, <1>6, <3>1
  <2>2. SpawnedUnder(s) \in SUBSET Greenlets
    BY EngineParameters DEF SpawnedUnder, Futures, Greenlets
  <2>3. /\ pc' \in [Greenlets -> PC] /\ closing' \in [Greenlets -> 0..MaxSteps]
        /\ waitFor' \in [Greenlets -> SUBSET Greenlets]
        /\ pc'[g] = "closing" /\ closing'[g] = s
        /\ \A f \in Greenlets \ {g} : pc'[f] = pc[f] /\ closing'[f] = closing[f]
    BY <1>13, <2>1, <2>2 DEF IInv, TypeOK, PC
  <2>4. QED
    BY <1>1, <1>9, <1>10, <1>11, <1>13, <2>3, ThrowsStay, OneGreenlet
<1>14. QED
  BY <1>1, <1>12, <1>13

(* With nothing left on its stack a greenlet leaves no stream open.           *)
LEMMA EndOfCodeKeepsIInv ==
  ASSUME IInv, NEW g \in Greenlets, EndOfCode(g)
  PROVE  IInv'
<1> DEFINE rr == Closed(g)
           st == Popped(g)
<1>1. /\ pc[g] = "running" /\ Len(st) = 1
      /\ steps' = rr /\ stack' = [stack EXCEPT ![g] = st]
      /\ base' = base /\ closing' = closing
      /\ throws' = throws /\ cancels' = cancels /\ late' = late
      /\ \/ /\ g = 0 /\ pc' = [pc EXCEPT ![g] = "closing"]
            /\ waitFor' = [waitFor EXCEPT ![g] = SpawnedUnder(0)]
         \/ pc' = [pc EXCEPT ![g] = "dead"] /\ waitFor' = waitFor
  BY DEF EndOfCode
<1>2. TipClosed(g, rr, st)
  BY <1>1, CloseTip
<1> HIDE DEF rr, st
<1>3. OwnSteps(g, steps, steps')
  BY <1>1, <1>2, OwnTip
<1>4. st \in Seq(0..MaxSteps) /\ Place(steps', st, base[g], "running", closing[g], g)
  BY <1>1, <1>2, PlaceWithTipClosed DEF TipClosed
<1>5. /\ stack' \in [Greenlets -> Seq(0..MaxSteps)] /\ cancels' \in Nat
      /\ closing' \in [Greenlets -> 0..MaxSteps]
      /\ stack'[g] = st /\ closing'[g] = closing[g]
      /\ \A f \in Greenlets \ {g} : stack'[f] = stack[f] /\ closing'[f] = closing[f]
  BY <1>1, <1>4 DEF IInv, TypeOK
<1>6. closing[g] = 0
  BY <1>1, Idle
<1>7. CASE pc' = [pc EXCEPT ![g] = "dead"] /\ waitFor' = waitFor
  <2>1. Place(steps', st, base[g], "dead", closing[g], g)
    BY <1>1, <1>4, PlaceEnds
  <2>2. /\ pc' \in [Greenlets -> PC] /\ waitFor' \in [Greenlets -> SUBSET Greenlets]
        /\ pc'[g] = "dead" /\ \A f \in Greenlets \ {g} : pc'[f] = pc[f]
    BY <1>7 DEF IInv, TypeOK, PC
  <2>3. QED
    BY <1>1, <1>3, <1>5, <1>6, <2>1, <2>2, ThrowsStay, OneGreenlet, ZenonT(30)
<1>8. CASE /\ g = 0 /\ pc' = [pc EXCEPT ![g] = "closing"]
           /\ waitFor' = [waitFor EXCEPT ![g] = SpawnedUnder(0)]
  <2>2. Place(steps', st, base[g], "closing", closing[g], g)
    BY <1>1, <1>4, <1>8, <1>6, PlaceEnds
  <2>3. SpawnedUnder(0) \in SUBSET Greenlets
    BY EngineParameters DEF SpawnedUnder, Futures, Greenlets
  <2>4. /\ pc' \in [Greenlets -> PC] /\ waitFor' \in [Greenlets -> SUBSET Greenlets]
        /\ pc'[g] = "closing" /\ \A f \in Greenlets \ {g} : pc'[f] = pc[f]
    BY <1>8, <2>3 DEF IInv, TypeOK, PC
  <2>5. /\ throws' \in Seq(Futures)
        /\ \A i \in DOMAIN throws' : pc[throws'[i]] \notin {"unborn", "spawned"}
    BY <1>1, ThrowsStay
  <2>6. Place(steps', stack'[g], base[g], pc'[g], closing'[g], g)
    BY <1>5, <2>2, <2>4, Zenon
  <2>7. \A f \in Greenlets \ {g} : /\ stack'[f] = stack[f] /\ pc'[f] = pc[f]
                                   /\ closing'[f] = closing[f]
    BY <1>5, <2>4, Zenon
  <2>8. QED
    BY <1>1, <1>3, <1>5, <2>4, <2>5, <2>6, <2>7, OneGreenlet
<1>9. QED
  BY <1>1, <1>7, <1>8

(* The nest is closed, or run_steps returns.                                  *)
LEMMA FinishCloseKeepsIInv ==
  ASSUME IInv, NEW g \in Greenlets, FinishClose(g)
  PROVE  IInv'
<1> DEFINE c == closing[g]
<1>1. /\ pc[g] = "closing"
      /\ steps' = IF c = 0 THEN steps ELSE CloseStep(steps, c)
      /\ pc' = [pc EXCEPT ![g] = IF c = 0 THEN "dead" ELSE "running"]
      /\ closing' = [closing EXCEPT ![g] = 0] /\ waitFor' = [waitFor EXCEPT ![g] = {}]
      /\ stack' = stack /\ base' = base
      /\ throws' = throws /\ cancels' = cancels /\ late' = late
  BY DEF FinishClose
<1>2. Place(steps, stack[g], base[g], "closing", c, g) /\ steps \in Seq(Step)
  BY <1>1, StepsType DEF IInv, Places
<1>3. /\ stack' \in [Greenlets -> Seq(0..MaxSteps)] /\ cancels' \in Nat
      /\ closing' \in [Greenlets -> 0..MaxSteps]
      /\ pc' \in [Greenlets -> PC] /\ waitFor' \in [Greenlets -> SUBSET Greenlets]
      /\ stack'[g] = stack[g] /\ closing'[g] = 0 /\ pc'[g] \in {"dead", "running"}
      /\ pc'[g] = IF c = 0 THEN "dead" ELSE "running"
      /\ \A f \in Greenlets \ {g} : /\ stack'[f] = stack[f] /\ closing'[f] = closing[f]
                                    /\ pc'[f] = pc[f]
  BY <1>1, EngineParameters DEF IInv, TypeOK, PC
<1> HIDE DEF c
<1>4. OwnSteps(g, steps, steps') /\ Place(steps', stack[g], base[g], pc'[g], 0, g)
  <2>1. CASE c = 0
    <3>1. \A s \in DOMAIN steps : ~(steps[s].owner = g /\ steps[s].stream = "open")
      <4>1. Len(stack[g]) = 1 /\ 2..1 = {}
        BY <1>2, <2>1 DEF Place
      <4>2. \A s \in DOMAIN steps : s # 0
        BY <1>2
      <4>3. QED
        BY <1>2, <2>1, <4>1, <4>2, Zenon DEF Place
    <3>2. Place(steps, stack[g], base[g], "dead", 0, g)
      BY <1>2, <3>1 DEF Place
    <3>3. steps' = steps /\ pc'[g] = "dead"
      BY <1>1, <1>3, <2>1
    <3>4. QED
      BY <3>2, <3>3, NoSteps
  <2>2. CASE c # 0
    <3>1. steps' = CloseStep(steps, c) /\ pc'[g] = "running"
      BY <1>1, <1>3, <2>2
    <3>2. PICK x \in Streams \ {"open"} : steps' = WithStream(steps, c, x)
      BY <3>1, CloseStepIs
    <3>3. OwnSteps(g, steps, steps)
      BY NoSteps
    <3>4. QED
      BY <1>2, <2>2, <3>1, <3>2, <3>3, NestDone
  <2>3. QED
    BY <2>1, <2>2
<1>5. pc'[g] \notin {"unborn", "spawned"}
  BY <1>3
<1>6. QED
  BY <1>1, <1>3, <1>4, <1>5, ThrowsStay, OneGreenlet

(* A greenlet that has waited in Future.cancel goes on.                       *)
LEMMA JoinedKeepsIInv ==
  ASSUME IInv, NEW g \in Greenlets, Joined(g)
  PROVE  IInv'
<1>1. /\ pc[g] = "joining" /\ pc' = [pc EXCEPT ![g] = "running"]
      /\ waitFor' = [waitFor EXCEPT ![g] = {}]
      /\ steps' = steps /\ stack' = stack /\ base' = base /\ closing' = closing
      /\ throws' = throws /\ cancels' = cancels /\ late' = late
  BY DEF Joined
<1>2. closing[g] = 0 /\ Place(steps, stack[g], base[g], "joining", closing[g], g)
  BY <1>1, Idle DEF IInv, Places
<1>3. Place(steps', stack[g], base[g], "running", closing[g], g)
  BY <1>1, <1>2, PlaceMoves
<1>4. OwnSteps(g, steps, steps')
  BY <1>1, NoSteps
<1>5. /\ stack' \in [Greenlets -> Seq(0..MaxSteps)] /\ cancels' \in Nat
      /\ closing' \in [Greenlets -> 0..MaxSteps]
      /\ pc' \in [Greenlets -> PC] /\ waitFor' \in [Greenlets -> SUBSET Greenlets]
      /\ stack'[g] = stack[g] /\ closing'[g] = closing[g] /\ pc'[g] = "running"
      /\ \A f \in Greenlets \ {g} : /\ stack'[f] = stack[f] /\ closing'[f] = closing[f]
                                    /\ pc'[f] = pc[f]
  BY <1>1 DEF IInv, TypeOK, PC
<1>6. QED
  BY <1>1, <1>2, <1>3, <1>4, <1>5, ThrowsStay, OneGreenlet

(* Only a greenlet that has started is killed with a GreenletExit.            *)
LEMMA CancelKeepsIInv ==
  ASSUME IInv, NEW h \in Greenlets, NEW g \in Futures, Cancel(h, g)
  PROVE  IInv'
<1>1. /\ pc[h] = "running" /\ h # g /\ pc[g] \notin {"unborn", "dead"} /\ cancels' = cancels + 1
      /\ steps' = steps /\ stack' = stack /\ base' = base /\ closing' = closing /\ late' = late
      /\ \/ /\ pc[g] = "spawned" /\ pc' = [pc EXCEPT ![g] = "dead"]
            /\ waitFor' = waitFor /\ throws' = throws
         \/ /\ pc[g] # "spawned" /\ pc' = [pc EXCEPT ![h] = "joining"]
            /\ waitFor' = [waitFor EXCEPT ![h] = {g}] /\ throws' = Append(throws, g)
  BY DEF Cancel
<1>2. g \in Greenlets
  BY EngineParameters DEF Futures, Greenlets
<1>3. /\ stack' \in [Greenlets -> Seq(0..MaxSteps)] /\ cancels' \in Nat
      /\ closing' \in [Greenlets -> 0..MaxSteps]
      /\ \A f \in Greenlets : stack'[f] = stack[f] /\ closing'[f] = closing[f]
      /\ throws \in Seq(Futures)
  BY <1>1 DEF IInv, TypeOK
<1>4. \A f \in Greenlets : OwnSteps(f, steps, steps')
  BY <1>1, NoSteps
<1>5. CASE /\ pc[g] = "spawned" /\ pc' = [pc EXCEPT ![g] = "dead"]
           /\ waitFor' = waitFor /\ throws' = throws
  <2>1. closing[g] = 0 /\ Place(steps, stack[g], base[g], "spawned", closing[g], g)
    BY <1>2, <1>5, Idle DEF IInv, Places
  <2>2. Place(steps', stack[g], base[g], "dead", closing[g], g)
    BY <1>1, <2>1, PlaceStarts
  <2>3. /\ pc' \in [Greenlets -> PC] /\ waitFor' \in [Greenlets -> SUBSET Greenlets]
        /\ pc'[g] = "dead" /\ \A f \in Greenlets \ {g} : pc'[f] = pc[f]
    BY <1>2, <1>5 DEF IInv, TypeOK, PC
  <2>4. QED
    BY <1>1, <1>2, <1>3, <1>4, <1>5, <2>1, <2>2, <2>3, ThrowsStay, OneGreenlet
<1>6. CASE /\ pc[g] # "spawned" /\ pc' = [pc EXCEPT ![h] = "joining"]
           /\ waitFor' = [waitFor EXCEPT ![h] = {g}] /\ throws' = Append(throws, g)
  <2>1. closing[h] = 0 /\ Place(steps, stack[h], base[h], "running", closing[h], h)
    BY <1>1, Idle DEF IInv, Places
  <2>2. Place(steps', stack[h], base[h], "joining", closing[h], h)
    BY <1>1, <2>1, PlaceMoves
  <2>3. /\ pc' \in [Greenlets -> PC] /\ waitFor' \in [Greenlets -> SUBSET Greenlets]
        /\ pc'[h] = "joining" /\ \A f \in Greenlets \ {h} : pc'[f] = pc[f]
    BY <1>2, <1>6 DEF IInv, TypeOK, PC
  <2>4. /\ throws' \in Seq(Futures)
        /\ \A i \in DOMAIN throws' : throws'[i] = g \/ \E j \in DOMAIN throws : throws'[i] = throws[j]
    <3>1. PICK n \in Nat : n = Len(throws)
      BY <1>3
    <3>2. /\ throws' \in Seq(Futures) /\ \A i \in 1..n : throws'[i] = throws[i]
          /\ throws'[n + 1] = g /\ DOMAIN throws = 1..n /\ DOMAIN throws' = 1..(n + 1)
      BY <1>3, <1>6, <3>1, AppendTo
    <3>3. \A i \in 1..(n + 1) : i \in 1..n \/ i = n + 1
      OBVIOUS
    <3>4. QED
      BY <3>2, <3>3, Zenon
  <2>5. \A i \in DOMAIN throws' : pc[throws'[i]] \notin {"unborn", "spawned"}
    BY <1>1, <1>6, <2>4 DEF IInv, ThrowsAtStarted
  <2>6. /\ pc'[h] = "joining" /\ closing'[h] = closing[h] /\ stack'[h] = stack[h]
        /\ \A f \in Greenlets \ {h} : /\ stack'[f] = stack[f] /\ pc'[f] = pc[f]
                                      /\ closing'[f] = closing[f]
    BY <1>3, <2>3
  <2>7. base' = base /\ late' = late /\ OwnSteps(h, steps, steps')
    BY <1>1, <1>4
  <2>8. Place(steps', stack'[h], base[h], pc'[h], closing'[h], h)
    BY <2>2, <2>6
  <2>9. pc'[h] \notin {"unborn", "spawned"} /\ (pc'[h] # "closing" => closing'[h] = 0)
    BY <2>1, <2>6
  <2>10. QED
    BY <1>3, <2>3, <2>4, <2>5, <2>6, <2>7, <2>8, <2>9, OneGreenlet, Zenon
<1>7. QED
  BY <1>1, <1>5, <1>6

(* A GreenletExit leaves the stack alone, and loses what was being closed.    *)
LEMMA ThrowKeepsIInv ==
  ASSUME IInv, Throw
  PROVE  IInv'
<1> DEFINE g == Head(throws)
           c == closing[g]
<1>1. /\ throws # <<>> /\ throws' = Tail(throws)
      /\ closing' = [closing EXCEPT ![g] = 0] /\ waitFor' = [waitFor EXCEPT ![g] = {}]
      /\ stack' = stack /\ base' = base /\ cancels' = cancels /\ late' = late
      /\ \/ pc[g] = "inStep" /\ pc' = [pc EXCEPT ![g] = "stopping"] /\ steps' = steps
         \/ /\ pc[g] = "closing" /\ pc' = [pc EXCEPT ![g] = "running"]
            /\ steps' = WithStream(steps, c, "lost")
         \/ /\ pc[g] \notin {"dead", "stopping", "closing"}
            /\ pc' = [pc EXCEPT ![g] = "running"] /\ steps' = steps
         \/ /\ pc[g] = "stopping" /\ pc' = [pc EXCEPT ![g] = "running"]
            /\ steps' = WithStatus(steps, Last(stack[g]), "CANCELED")
         \/ pc[g] = "dead" /\ pc' = pc /\ steps' = steps
  BY DEF Throw, WithStream, WithStatus
<1> HIDE DEF g, c
<1>2. throws \in Seq(Futures)
  BY DEF IInv, TypeOK
<1>3. g \in Greenlets /\ g # 0 /\ pc[g] \notin {"unborn", "spawned"}
  <2>1. 1 \in DOMAIN throws /\ g = throws[1]
    BY <1>1, <1>2 DEF g
  <2>2. QED
    BY <2>1, ThrowsType DEF IInv, ThrowsAtStarted
<1>4. /\ throws' \in Seq(Futures)
      /\ \A i \in DOMAIN throws' : pc[throws'[i]] \notin {"unborn", "spawned"}
  <2>1. /\ Tail(throws) \in Seq(Futures) /\ Len(Tail(throws)) = Len(throws) - 1
        /\ \A i \in 1..Len(Tail(throws)) : Tail(throws)[i] = throws[i + 1]
    BY <1>1, <1>2, HeadTailProperties
  <2>2. PICK n \in Nat : n = Len(throws)
    BY <1>2
  <2>3. /\ DOMAIN throws = 1..n /\ DOMAIN throws' = 1..(n - 1)
        /\ \A i \in 1..(n - 1) : throws'[i] = throws[i + 1]
    BY <1>1, <1>2, <2>1, <2>2
  <2>4. \A i \in 1..(n - 1) : i + 1 \in 1..n
    OBVIOUS
  <2>5. QED
    BY <1>1, <2>1, <2>3, <2>4 DEF IInv, ThrowsAtStarted
<1>5. Place(steps, stack[g], base[g], pc[g], c, g) /\ steps \in Seq(Step)
  BY <1>3, StepsType DEF IInv, Places, c
<1>6. OwnSteps(g, steps, steps)
  BY <1>3, NoSteps
<1>7. /\ stack' \in [Greenlets -> Seq(0..MaxSteps)] /\ cancels' \in Nat
      /\ closing' \in [Greenlets -> 0..MaxSteps]
      /\ waitFor' \in [Greenlets -> SUBSET Greenlets]
      /\ stack'[g] = stack[g] /\ closing'[g] = 0 /\ pc \in [Greenlets -> PC]
      /\ \A f \in Greenlets \ {g} : stack'[f] = stack[f] /\ closing'[f] = closing[f]
  BY <1>1, <1>3, EngineParameters DEF IInv, TypeOK
<1>8. ASSUME OwnSteps(g, steps, steps'), NEW p \in PC \ {"unborn", "spawned"},
             Place(steps', stack[g], base[g], p, 0, g),
             pc' = [pc EXCEPT ![g] = p]
      PROVE  IInv'
  <2>1. /\ pc' \in [Greenlets -> PC] /\ pc'[g] = p
        /\ \A f \in Greenlets \ {g} : /\ stack'[f] = stack[f] /\ pc'[f] = pc[f]
                                      /\ closing'[f] = closing[f]
    BY <1>3, <1>7, <1>8
  <2>2. QED
    BY <1>1, <1>3, <1>4, <1>7, <1>8, <2>1, OneGreenlet
<1>9. CASE pc[g] = "inStep" /\ pc' = [pc EXCEPT ![g] = "stopping"] /\ steps' = steps
  <2>1. Place(steps', stack[g], base[g], "stopping", 0, g)
    BY <1>5, <1>9 DEF Place
  <2>2. "stopping" \in PC \ {"unborn", "spawned"}
    BY DEF PC
  <2>3. QED
    BY <1>6, <1>8, <1>9, <2>1, <2>2
<1>10. CASE /\ pc[g] = "closing" /\ pc' = [pc EXCEPT ![g] = "running"]
            /\ steps' = WithStream(steps, c, "lost")
  <2>1. c # 0
    BY <1>3, <1>5, <1>10 DEF Place
  <2>2. "lost" \in Streams \ {"open"}
    BY DEF Streams
  <2>3. OwnSteps(g, steps, steps') /\ Place(steps', stack[g], base[g], "running", 0, g)
    BY <1>5, <1>6, <1>10, <2>1, <2>2, NestDone
  <2>4. "running" \in PC \ {"unborn", "spawned"}
    BY DEF PC
  <2>5. QED
    BY <1>8, <1>10, <2>3, <2>4
<1>11. CASE /\ pc[g] \notin {"dead", "stopping", "closing"}
            /\ pc' = [pc EXCEPT ![g] = "running"] /\ steps' = steps
  <2>1. pc[g] \in {"running", "inStep", "joining"}
    BY <1>3, <1>7, <1>11 DEF PC
  <2>2. Place(steps', stack[g], base[g], "running", 0, g)
    BY <1>5, <1>11, <2>1 DEF Place
  <2>3. "running" \in PC \ {"unborn", "spawned"}
    BY DEF PC
  <2>4. QED
    BY <1>6, <1>8, <1>11, <2>2, <2>3
<1>12. CASE /\ pc[g] = "stopping" /\ pc' = [pc EXCEPT ![g] = "running"]
            /\ steps' = WithStatus(steps, Last(stack[g]), "CANCELED")
  <2>1. OwnSteps(g, steps, steps') /\ Place(steps', stack[g], base[g], "running", 0, g)
    BY <1>3, <1>12, SomeStatuses, StepEnds
  <2>2. "running" \in PC \ {"unborn", "spawned"}
    BY DEF PC
  <2>3. QED
    BY <1>8, <1>12, <2>1, <2>2
<1>13. CASE pc[g] = "dead" /\ pc' = pc /\ steps' = steps
  <2>1. Place(steps', stack[g], base[g], "dead", 0, g)
    BY <1>5, <1>13 DEF Place
  <2>2. pc' = [pc EXCEPT ![g] = "dead"] /\ "dead" \in PC \ {"unborn", "spawned"}
    BY <1>3, <1>7, <1>13 DEF PC
  <2>3. QED
    BY <1>6, <1>8, <1>13, <2>1, <2>2
<1>14. QED
  BY <1>1, <1>9, <1>10, <1>11, <1>12, <1>13

-------------------------------------------------------------------------------
(* Nothing happens.                                                           *)
LEMMA StutterKeepsIInv ==
  ASSUME IInv, UNCHANGED vars
  PROVE  IInv'
  BY DEF vars, IInv, TypeOK, Places, IdleClosing, ThrowsAtStarted

(* Every step keeps the invariant.                                            *)
LEMMA NextKeepsIInv == IInv /\ [Next]_vars => IInv'
<1> SUFFICES ASSUME IInv, [Next]_vars
             PROVE  IInv'
  OBVIOUS
<1>1. CASE UNCHANGED vars
  BY <1>1, StutterKeepsIInv
<1>2. CASE Throw
  BY <1>2, ThrowKeepsIInv
<1>3. ASSUME NEW g \in Greenlets, Calls(g)
      PROVE  IInv'
  <2>1. CASE Spawn(g)
    BY <2>1, SpawnKeepsIInv
  <2>2. ASSUME NEW name \in Names, RunStep(g, name)
        PROVE  IInv'
    <3>1. Open(g, name, FALSE, "EXCEPTION") /\ pc' = [pc EXCEPT ![g] = "inStep"]
      BY <2>2 DEF RunStep
    <3>2. "EXCEPTION" \in Statuses \cup {"none"} /\ "EXCEPTION" # "none"
      BY SomeStatuses
    <3>3. QED
      BY <3>1, <3>2, OpenKeepsIInv
  <2>3. ASSUME NEW name \in Names, Nest(g, name)
        PROVE  IInv'
    <3>1. Open(g, name, TRUE, "none") /\ pc' = pc /\ pc[g] = "running"
      BY <2>3 DEF Nest, Open
    <3>2. pc' = [pc EXCEPT ![g] = "running"]
      BY <3>1 DEF IInv, TypeOK
    <3>3. QED
      BY <3>1, <3>2, OpenKeepsIInv
  <2>4. ASSUME NEW h \in Futures, Cancel(g, h)
        PROVE  IInv'
    BY <2>4, CancelKeepsIInv
  <2>5. QED
    BY <1>3, <2>1, <2>2, <2>3, <2>4 DEF Calls
<1>4. ASSUME NEW g \in Greenlets, Returns(g)
      PROVE  IInv'
  <2>1. CASE Start(g) \/ FinishClose(g) \/ Joined(g) \/ EndOfCode(g)
    BY <2>1, StartKeepsIInv, FinishCloseKeepsIInv, JoinedKeepsIInv, EndOfCodeKeepsIInv
  <2>2. ASSUME NEW status \in Statuses, EndStep(g, status)
        PROVE  IInv'
    BY <2>2, EndStepKeepsIInv
  <2>3. CASE EndNest(g)
    <3>1. PICK a \in Algorithms : LeaveNest(g, StatusFor(Tip(g), a))
      BY <2>3 DEF EndNest
    <3>2. StatusFor(Tip(g), a) \in Statuses \cup {"none"}
      BY StatusForType DEF IInv
    <3>3. QED
      BY <3>1, <3>2, LeaveNestKeepsIInv
  <2>4. CASE RaiseOutOfNest(g)
    <3>1. PICK status \in Raised : LeaveNest(g, status)
      BY <2>4 DEF RaiseOutOfNest
    <3>2. status \in Statuses \cup {"none"}
      BY EngineParameters
    <3>3. QED
      BY <3>1, <3>2, LeaveNestKeepsIInv
  <2>5. QED
    BY <1>4, <2>1, <2>2, <2>3, <2>4 DEF Returns
<1>5. QED
  BY <1>1, <1>2, <1>3, <1>4 DEF Next

(* It holds in every behaviour.                                               *)
LEMMA InductiveInvariant == Spec => []IInv
<1>1. QED
  BY IInvInit, NextKeepsIInv, PTL DEF Spec

(* Every variable keeps its type, and a real step always has a status.        *)
THEOREM TypeCorrect == Spec => []TypeOK
<1>1. IInv => TypeOK
  BY DEF IInv
<1>2. QED
  BY <1>1, InductiveInvariant, PTL

(* Stacks nest: only a tip is a real step (the NOTE at engine.py:170-172), and *)
(* what is on a stack is open, in order and its greenlet's own.               *)
THEOREM StacksNest == Spec => []StacksAreNested
<1>1. IInv => StacksAreNested
  <2> SUFFICES ASSUME IInv, NEW g \in Greenlets, Alive(g), pc[g] # "spawned"
               PROVE  /\ stack[g] # <<>> /\ stack[g][1] = base[g] /\ IsParent(base[g])
                      /\ \A i \in 2..Len(stack[g]) :
                           /\ steps[stack[g][i]].owner = g /\ steps[stack[g][i]].stream = "open"
                           /\ steps[stack[g][i]].under = stack[g][i - 1]
                           /\ i < Len(stack[g]) => steps[stack[g][i]].parent
    BY DEF StacksAreNested
  <2>1. Place(steps, stack[g], base[g], pc[g], closing[g], g)
    BY DEF IInv, Places
  <2>2. StackOK(steps, stack[g], base[g], g)
    BY <2>1 DEF Place, Alive
  <2>3. stack[g] # <<>>
    <3>1. Len(<<>>) = 0 /\ ~(0 >= 1)
      OBVIOUS
    <3>2. QED
      BY <2>2, <3>1, Zenon DEF StackOK
  <2>4. IsParent(base[g])
    BY <2>1 DEF Place, IsParent
  <2>5. QED
    BY <2>2, <2>3, <2>4, Zenon DEF StackOK
<1>2. QED
  BY <1>1, InductiveInvariant, PTL

(* An open stream is on the stack of its living owner, who closes it, or is   *)
(* being closed by him.                                                       *)
LEMMA OpenIsOwned ==
  ASSUME IInv, NEW s \in DOMAIN steps, steps[s].stream = "open"
  PROVE  Owned(s)
<1> DEFINE g == steps[s].owner
<1>1. g \in Greenlets
  <2>1. steps[s] \in Step
    BY StepsType DEF IInv
  <2>2. QED
    BY <2>1 DEF Step
<1>2. Place(steps, stack[g], base[g], pc[g], closing[g], g)
  BY <1>1 DEF IInv, Places
<1>3. /\ pc[g] \notin {"unborn", "dead"}
      /\ (\E i \in 2..Len(stack[g]) : stack[g][i] = s) \/ (pc[g] = "closing" /\ closing[g] = s)
  BY <1>2, Zenon DEF Place
<1>4. QED
  BY <1>3, Zenon DEF Owned, Alive, Above

-------------------------------------------------------------------------------
(* The steps tt have what was final in the present ones.                      *)
Keeps(tt) == \A s \in DOMAIN steps : steps[s].stream # "open" => tt[s] = steps[s]

(* Every action changes at most one open step, after it closed the tip.       *)
LEMMA TipKeeps ==
  ASSUME IInv, NEW g \in Greenlets, pc[g] = "running"
  PROVE  Keeps(Closed(g))
  BY CloseTip DEF TipClosed, Keeps

(* Changing an open step is no change of a final one.                         *)
LEMMA StatusKeeps ==
  ASSUME NEW s \in DOMAIN steps, steps[s].stream = "open", NEW x
  PROVE  Keeps(WithStatus(steps, s, x)) /\ Keeps(WithStream(steps, s, x))
  BY DEF Keeps, WithStatus, WithStream

(* Nor is opening one.                                                        *)
LEMMA OpenKeeps ==
  ASSUME IInv, NEW g \in Greenlets, NEW name, NEW parent, NEW status,
         Open(g, name, parent, status)
  PROVE  Keeps(steps')
<1>1. PICK x : steps' = Append(Closed(g), x) /\ pc[g] = "running"
  BY DEF Open
<1>2. Keeps(Closed(g)) /\ Closed(g) \in Seq(Step) /\ Len(Closed(g)) = Len(steps)
  BY <1>1, TipKeeps, CloseTip DEF TipClosed
<1>3. DOMAIN steps = 1..Len(steps) /\ Len(steps) \in Nat
  BY StepsType DEF IInv
<1>4. \A s \in 1..Len(Closed(g)) : steps'[s] = Closed(g)[s]
  <2> DEFINE q == Closed(g)
  <2>1. q \in Seq(Step)
    BY <1>2
  <2> HIDE DEF q
  <2>2. \A s \in 1..Len(q) : Append(q, x)[s] = q[s]
    BY <2>1
  <2>3. QED
    BY <1>1, <2>2 DEF q
<1>5. QED
  BY <1>2, <1>3, <1>4, Zenon DEF Keeps

(* A nest that is left is open.                                               *)
LEMMA LeaveKeeps ==
  ASSUME IInv, NEW g \in Greenlets, NEW status, LeaveNest(g, status)
  PROVE  Keeps(steps')
<1> DEFINE rr == Closed(g)
           st == Popped(g)
           s  == Tip(g)
           ss == [rr EXCEPT ![s].status = status]
<1>1. /\ pc[g] = "running" /\ Len(st) > 1
      /\ steps' = CloseStep(ss, s) \/ steps' = ss
  BY Zenon DEF LeaveNest
<1>2. TipClosed(g, rr, st) /\ s = st[Len(st)] /\ Keeps(rr)
  BY <1>1, CloseTip, TipKeeps
<1>3. ss = WithStatus(rr, s, status)
  BY DEF WithStatus
<1> HIDE DEF rr, st, s, ss
<1>4. rr[s].stream = "open"
  <2>1. PICK n \in Nat : n = Len(st)
    BY <1>2 DEF TipClosed
  <2>2. n \in 2..n
    BY <1>1, <2>1
  <2>3. QED
    BY <1>2, <2>1, <2>2 DEF TipClosed, StackOK
<1>5. \A i \in DOMAIN steps : steps[i].stream # "open" => i # s /\ rr[i] = steps[i]
  BY <1>2, <1>4 DEF Keeps
<1>6. \A i : i # s => ss[i] = rr[i] \/ i \notin DOMAIN rr
  BY <1>3 DEF WithStatus
<1>7. DOMAIN steps = DOMAIN rr /\ DOMAIN ss = DOMAIN rr
  BY <1>2, <1>3, StepsType DEF TipClosed, WithStatus, IInv
<1>8. PICK x \in Streams : CloseStep(ss, s) = WithStream(ss, s, x)
  BY CloseStepIs
<1>9. \A i : i # s => WithStream(ss, s, x)[i] = ss[i] \/ i \notin DOMAIN ss
  BY DEF WithStream
<1>10. QED
  BY <1>1, <1>5, <1>6, <1>7, <1>8, <1>9, Zenon DEF Keeps

(* A step that is being closed is open.                                       *)
LEMMA ClosingIsOpen ==
  ASSUME IInv, NEW g \in Greenlets, pc[g] = "closing", closing[g] # 0
  PROVE  closing[g] \in DOMAIN steps /\ steps[closing[g]].stream = "open"
<1>1. Place(steps, stack[g], base[g], "closing", closing[g], g)
  BY DEF IInv, Places
<1>2. QED
  BY <1>1 DEF Place

(* What a GreenletExit changes is open: it belongs to the greenlet it kills.  *)
LEMMA ThrowKeeps ==
  ASSUME IInv, Throw
  PROVE  Keeps(steps')
<1> DEFINE g == Head(throws)
           c == closing[g]
<1>1. /\ throws # <<>>
      /\ \/ steps' = steps
         \/ pc[g] = "closing" /\ steps' = WithStream(steps, c, "lost")
         \/ pc[g] = "stopping" /\ steps' = WithStatus(steps, Last(stack[g]), "CANCELED")
  BY DEF Throw, WithStream, WithStatus
<1>2. g \in Greenlets /\ g # 0
  <2>1. throws \in Seq(Futures)
    BY DEF IInv, TypeOK
  <2>2. 1 \in DOMAIN throws /\ g = throws[1]
    BY <1>1, <2>1
  <2>3. QED
    BY <2>2, ThrowsType DEF IInv
<1> HIDE DEF g, c
<1>3. CASE pc[g] = "closing" /\ steps' = WithStream(steps, c, "lost")
  <2>1. c # 0
    <3>1. Place(steps, stack[g], base[g], "closing", c, g)
      BY <1>2, <1>3 DEF IInv, Places, c
    <3>2. QED
      BY <1>2, <3>1 DEF Place
  <2>2. QED
    BY <1>2, <1>3, <2>1, ClosingIsOpen, StatusKeeps DEF c
<1>4. CASE pc[g] = "stopping" /\ steps' = WithStatus(steps, Last(stack[g]), "CANCELED")
  BY <1>2, <1>4, TipOfRunStep, StatusKeeps
<1>5. CASE steps' = steps
  BY <1>5 DEF Keeps
<1>6. QED
  BY <1>1, <1>3, <1>4, <1>5

(* The nest is open until close() is over.                                    *)
LEMMA FinishKeeps ==
  ASSUME IInv, NEW g \in Greenlets, FinishClose(g)
  PROVE  Keeps(steps')
<1>1. CASE closing[g] = 0
  BY <1>1 DEF FinishClose, Keeps
<1>2. CASE closing[g] # 0
  <2>1. closing[g] \in DOMAIN steps /\ steps[closing[g]].stream = "open"
    BY <1>2, ClosingIsOpen DEF FinishClose
  <2>2. steps' = CloseStep(steps, closing[g])
    BY <1>2 DEF FinishClose
  <2>3. PICK x \in Streams : steps' = WithStream(steps, closing[g], x)
    BY <2>2, CloseStepIs
  <2>4. QED
    BY <2>1, <2>3, StatusKeeps
<1>3. QED
  BY <1>1, <1>2

(* No step changes what is final.                                             *)
LEMMA NextKeepsFinal == IInv /\ [Next]_vars => Keeps(steps')
<1> SUFFICES ASSUME IInv, [Next]_vars
             PROVE  Keeps(steps')
  OBVIOUS
<1>1. CASE UNCHANGED vars
  BY <1>1 DEF vars, Keeps
<1>2. CASE Throw
  BY <1>2, ThrowKeeps
<1>3. ASSUME NEW g \in Greenlets, Calls(g)
      PROVE  Keeps(steps')
  <2>1. CASE Spawn(g)
    <3>1. steps' = Closed(g) /\ pc[g] = "running"
      BY <2>1 DEF Spawn
    <3>2. QED
      BY <3>1, TipKeeps
  <2>2. ASSUME NEW name \in Names, RunStep(g, name) \/ Nest(g, name)
        PROVE  Keeps(steps')
    BY <2>2, OpenKeeps DEF RunStep, Nest
  <2>3. ASSUME NEW h \in Futures, Cancel(g, h)
        PROVE  Keeps(steps')
    BY <2>3 DEF Cancel, Keeps
  <2>4. QED
    BY <1>3, <2>1, <2>2, <2>3 DEF Calls
<1>4. ASSUME NEW g \in Greenlets, Returns(g)
      PROVE  Keeps(steps')
  <2>1. CASE Start(g) \/ Joined(g)
    BY <2>1 DEF Start, Joined, Keeps
  <2>2. CASE FinishClose(g)
    BY <2>2, FinishKeeps
  <2>3. CASE EndOfCode(g)
    <3>1. steps' = Closed(g) /\ pc[g] = "running"
      BY <2>3 DEF EndOfCode
    <3>2. QED
      BY <3>1, TipKeeps
  <2>4. ASSUME NEW status \in Statuses, EndStep(g, status)
        PROVE  Keeps(steps')
    <3>1. /\ pc[g] \in {"inStep", "stopping"}
          /\ steps' = WithStatus(steps, Last(stack[g]), status)
      BY <2>4 DEF EndStep, WithStatus
    <3>2. QED
      BY <3>1, TipOfRunStep, StatusKeeps
  <2>5. CASE EndNest(g) \/ RaiseOutOfNest(g)
    BY <2>5, LeaveKeeps DEF EndNest, RaiseOutOfNest
  <2>6. QED
    BY <1>4, <2>1, <2>2, <2>3, <2>4, <2>5 DEF Returns
<1>5. QED
  BY <1>1, <1>2, <1>3, <1>4 DEF Next

(* What has been finalized stays as it is, whatever other greenlets, or a     *)
(* GreenletExit that comes late, do.                                          *)
THEOREM FinalStays == Spec => FinalIsFinal
<1>1. IInv /\ [Next]_vars =>
        [\A s \in DOMAIN steps : steps[s].stream # "open" => steps'[s] = steps[s]]_vars
  BY NextKeepsFinal DEF Keeps
<1>2. QED
  BY <1>1, InductiveInvariant, PTL DEF Spec, FinalIsFinal

-------------------------------------------------------------------------------
(* Whoever closes a step waits for all its greenlets, late ones excepted.     *)
ClosersWait ==
  \A g \in Greenlets : pc[g] = "closing" =>
    \A h \in Futures : Alive(h) /\ h \notin late /\ base[h] = closing[g] => h \in waitFor[g]

Quiet == ClosedNestsAreQuiet /\ ClosersWait

(* An action that gives life to no greenlet, closes no nest and begins no     *)
(* close() is no danger.                                                      *)
LEMMA CalmKeepsQuiet ==
  ASSUME IInv, Quiet, base' = base, late' = late,
         \A h \in Futures : pc[h] \in {"unborn", "dead"} => pc'[h] \in {"unborn", "dead"},
         \A s \in DOMAIN steps : steps[s].parent /\ steps[s].stream # "closed" =>
                                   steps'[s].stream # "closed",
         pc'[0] = "dead" => pc[0] = "dead",
         \A g \in Greenlets : pc'[g] = "closing" =>
            pc[g] = "closing" /\ closing'[g] = closing[g] /\ waitFor'[g] = waitFor[g]
  PROVE  Quiet'
<1>1. \A h \in Futures : base[h] = 0 \/ (base[h] \in DOMAIN steps /\ steps[base[h]].parent)
  BY EngineParameters DEF IInv, Places, Place, Futures, Greenlets
<1>2. ClosedNestsAreQuiet'
  BY <1>1, Zenon DEF Quiet, ClosedNestsAreQuiet, Alive
<1>3. ClosersWait'
  BY Zenon DEF Quiet, ClosersWait, Alive
<1>4. QED
  BY <1>2, <1>3 DEF Quiet

(* Closing the tip of a stack leaves the nests alone.                         *)
LEMMA TipIsNoNest ==
  ASSUME IInv, NEW g \in Greenlets, pc[g] = "running"
  PROVE  \A s \in DOMAIN steps : steps[s].parent => Closed(g)[s] = steps[s]
  BY CloseTip DEF TipClosed

(* Opening a step is calm.                                                    *)
LEMMA OpenKeepsQuiet ==
  ASSUME IInv, Quiet, NEW g \in Greenlets, NEW name, NEW parent, NEW status,
         Open(g, name, parent, status), NEW p \in {"running", "inStep"},
         pc' = [pc EXCEPT ![g] = p]
  PROVE  Quiet'
<1>1. PICK x : /\ steps' = Append(Closed(g), x) /\ pc[g] = "running"
               /\ base' = base /\ late' = late /\ closing' = closing /\ waitFor' = waitFor
  BY DEF Open
<1> DEFINE q == Closed(g)
<1>2. q \in Seq(Step) /\ Len(q) = Len(steps) /\ \A s \in DOMAIN steps : steps[s].parent => q[s] = steps[s]
  BY <1>1, TipIsNoNest, CloseTip DEF TipClosed
<1>3. DOMAIN steps = 1..Len(steps) /\ Len(steps) \in Nat
  BY StepsType DEF IInv
<1>4. steps' = Append(q, x)
  BY <1>1
<1> HIDE DEF q
<1>5. \A s \in 1..Len(q) : steps'[s] = q[s]
  BY <1>2, <1>4
<1>6. \A s \in DOMAIN steps : steps[s].parent => steps'[s] = steps[s]
  BY <1>2, <1>3, <1>5, Zenon
<1>7. \A f \in Greenlets : pc'[f] = IF f = g THEN p ELSE pc[f]
  BY DEF IInv, TypeOK
<1>8. 0 \in Greenlets /\ Futures \subseteq Greenlets
  BY EngineParameters DEF Futures, Greenlets
<1>9. QED
  BY <1>1, <1>6, <1>7, <1>8, CalmKeepsQuiet

(* A greenlet spawned under a step that is over is late.                      *)
LEMMA SpawnKeepsQuiet ==
  ASSUME IInv, Quiet, NEW g \in Greenlets, Spawn(g)
  PROVE  Quiet'
<1>1. PICK h \in Futures :
        /\ pc[g] = "running" /\ pc[h] = "unborn" /\ steps' = Closed(g)
        /\ base' = [base EXCEPT ![h] = Tip(g)] /\ pc' = [pc EXCEPT ![h] = "spawned"]
        /\ late' = IF Over(Tip(g)) THEN late \cup {h} ELSE late
        /\ closing' = closing /\ waitFor' = waitFor
  BY DEF Spawn
<1>2. 0 \in Greenlets /\ Futures \subseteq Greenlets /\ 0 \notin Futures
  BY EngineParameters DEF Futures, Greenlets
<1>3. \A f \in Greenlets : /\ pc'[f] = IF f = h THEN "spawned" ELSE pc[f]
                           /\ base'[f] = IF f = h THEN Tip(g) ELSE base[f]
  BY <1>1 DEF IInv, TypeOK
<1>4. Tip(g) = 0 \/ (Tip(g) \in DOMAIN steps /\ steps[Tip(g)].parent)
  BY <1>1, CloseTip DEF TipClosed
<1>5. \A s \in DOMAIN steps : steps[s].parent => steps'[s] = steps[s]
  BY <1>1, TipIsNoNest
<1>6. \A f \in Futures : base[f] = 0 \/ (base[f] \in DOMAIN steps /\ steps[base[f]].parent)
  BY <1>2 DEF IInv, Places, Place
<1>7. Over(Tip(g)) => h \in late'
  BY <1>1
<1>8. late \subseteq late'
  BY <1>1
<1>9. ASSUME NEW f \in Futures, Alive(f)', f \notin late'
      PROVE  IF base'[f] = 0 THEN pc'[0] # "dead" ELSE steps'[base'[f]].stream # "closed"
  <2>1. CASE f = h
    <3>1. base'[f] = Tip(g) /\ ~Over(Tip(g)) /\ pc'[0] = pc[0]
      BY <1>2, <1>3, <1>7, <1>9, <2>1
    <3>2. Tip(g) = 0 => pc[0] # "dead"
      BY <3>1 DEF Over
    <3>3. Tip(g) # 0 => steps[Tip(g)].stream = "open" /\ steps'[Tip(g)] = steps[Tip(g)]
      BY <1>4, <1>5, <3>1 DEF Over
    <3>4. QED
      BY <3>1, <3>2, <3>3
  <2>2. CASE f # h
    <3>1. Alive(f) /\ f \notin late /\ base'[f] = base[f] /\ pc'[0] = pc[0]
      BY <1>2, <1>3, <1>8, <1>9, <2>2 DEF Alive
    <3>2. IF base[f] = 0 THEN pc[0] # "dead" ELSE steps[base[f]].stream # "closed"
      BY <3>1 DEF Quiet, ClosedNestsAreQuiet
    <3>3. QED
      BY <1>5, <1>6, <3>1, <3>2
  <2>3. QED
    BY <2>1, <2>2
<1>10. ASSUME NEW k \in Greenlets, pc'[k] = "closing", NEW f \in Futures, Alive(f)',
              f \notin late', base'[f] = closing'[k]
       PROVE  f \in waitFor'[k]
  <2>1. pc[k] = "closing" /\ closing'[k] = closing[k] /\ waitFor'[k] = waitFor[k]
    BY <1>1, <1>3, <1>10
  <2>2. f # h
    BY <1>2, <1>3, <1>7, <1>10, <2>1 DEF Over
  <2>3. Alive(f) /\ f \notin late /\ base[f] = closing[k]
    BY <1>2, <1>3, <1>8, <1>10, <2>1, <2>2 DEF Alive
  <2>4. QED
    BY <2>1, <2>3 DEF Quiet, ClosersWait
<1>11. QED
  BY <1>9, <1>10 DEF Quiet, ClosedNestsAreQuiet, ClosersWait

(* After gevent.wait has looked at an empty list, or has found them all dead. *)
LEMMA LeaveKeepsQuiet ==
  ASSUME IInv, Quiet, NEW g \in Greenlets, NEW status, LeaveNest(g, status)
  PROVE  Quiet'
<1> DEFINE rr == Closed(g)
           st == Popped(g)
           s  == Tip(g)
           ss == [rr EXCEPT ![s].status = status]
<1>1. /\ pc[g] = "running" /\ Len(st) > 1 /\ base' = base /\ late' = late
      /\ \/ /\ SpawnedUnder(s) = {} /\ steps' = CloseStep(ss, s)
            /\ pc' = pc /\ closing' = closing /\ waitFor' = waitFor
         \/ /\ steps' = ss
            /\ pc' = [pc EXCEPT ![g] = "closing"]
            /\ closing' = [closing EXCEPT ![g] = s]
            /\ waitFor' = [waitFor EXCEPT ![g] = SpawnedUnder(s)]
  BY Zenon DEF LeaveNest
<1>2. /\ TipClosed(g, rr, st) /\ s = st[Len(st)]
      /\ \A i \in DOMAIN steps : steps[i].parent => rr[i] = steps[i]
  BY <1>1, CloseTip, TipIsNoNest
<1>3. ss = WithStatus(rr, s, status)
  BY DEF WithStatus
<1> HIDE DEF rr, st, s, ss
<1>4. DOMAIN rr = DOMAIN steps
  BY <1>2, StepsType DEF TipClosed, IInv
<1>5. /\ \A i \in DOMAIN steps : ss[i].stream = rr[i].stream
      /\ DOMAIN ss = DOMAIN steps
  <2>1. \A i \in DOMAIN rr : rr[i] \in Step
    BY <1>2 DEF TipClosed
  <2>2. QED
    BY <1>3, <1>4, <2>1 DEF WithStatus, Step
<1>6. 0 \in Greenlets /\ Futures \subseteq Greenlets
  BY EngineParameters DEF Futures, Greenlets
<1>7. \A h \in Futures : base[h] = 0 \/ (base[h] \in DOMAIN steps /\ steps[base[h]].parent)
  BY <1>6 DEF IInv, Places, Place
<1>8. pc \in [Greenlets -> PC] /\ closing \in [Greenlets -> 0..MaxSteps]
      /\ waitFor \in [Greenlets -> SUBSET Greenlets]
  BY DEF IInv, TypeOK
<1>9. CASE /\ SpawnedUnder(s) = {} /\ steps' = CloseStep(ss, s)
           /\ pc' = pc /\ closing' = closing /\ waitFor' = waitFor
  <2>1. PICK x \in Streams : steps' = WithStream(ss, s, x)
    BY <1>9, CloseStepIs
  <2>2. \A i \in DOMAIN steps : i # s => steps'[i].stream = rr[i].stream
    BY <1>5, <2>1 DEF WithStream
  <2>3. ASSUME NEW h \in Futures, Alive(h), h \notin late
        PROVE  IF base[h] = 0 THEN pc[0] # "dead" ELSE steps'[base[h]].stream # "closed"
    <3>1. base[h] # s
      BY <1>9, <2>3 DEF SpawnedUnder, Alive
    <3>2. IF base[h] = 0 THEN pc[0] # "dead" ELSE steps[base[h]].stream # "closed"
      BY <2>3 DEF Quiet, ClosedNestsAreQuiet
    <3>3. QED
      BY <1>2, <1>7, <2>2, <3>1, <3>2
  <2>4. ClosedNestsAreQuiet'
    BY <1>1, <1>9, <2>3, Zenon DEF ClosedNestsAreQuiet, Alive
  <2>5. ClosersWait'
    BY <1>1, <1>9, Zenon DEF Quiet, ClosersWait, Alive
  <2>6. QED
    BY <2>4, <2>5 DEF Quiet
<1>10. CASE /\ steps' = ss
            /\ pc' = [pc EXCEPT ![g] = "closing"]
            /\ closing' = [closing EXCEPT ![g] = s]
            /\ waitFor' = [waitFor EXCEPT ![g] = SpawnedUnder(s)]
  <2>1. \A f \in Greenlets : /\ pc'[f] = IF f = g THEN "closing" ELSE pc[f]
                             /\ closing'[f] = IF f = g THEN s ELSE closing[f]
                             /\ waitFor'[f] = IF f = g THEN SpawnedUnder(s) ELSE waitFor[f]
    BY <1>8, <1>10
  <2>2. \A h \in Futures : Alive(h)' => Alive(h)
    BY <1>1, <1>6, <2>1 DEF Alive
  <2>3. ASSUME NEW h \in Futures, Alive(h)', h \notin late
        PROVE  IF base[h] = 0 THEN pc'[0] # "dead" ELSE steps'[base[h]].stream # "closed"
    <3>1. IF base[h] = 0 THEN pc[0] # "dead" ELSE steps[base[h]].stream # "closed"
      BY <2>2, <2>3 DEF Quiet, ClosedNestsAreQuiet
    <3>2. QED
      BY <1>2, <1>5, <1>6, <1>7, <1>10, <2>1, <3>1
  <2>4. ASSUME NEW k \in Greenlets, pc'[k] = "closing", NEW h \in Futures, Alive(h)',
               h \notin late, base[h] = closing'[k]
        PROVE  h \in waitFor'[k]
    <3>1. CASE k = g
      BY <1>1, <2>1, <2>2, <2>4, <3>1 DEF SpawnedUnder, Alive
    <3>2. CASE k # g
      BY <2>1, <2>2, <2>4, <3>2 DEF Quiet, ClosersWait
    <3>3. QED
      BY <3>1, <3>2
  <2>5. QED
    BY <1>1, <2>3, <2>4 DEF Quiet, ClosedNestsAreQuiet, ClosersWait
<1>11. QED
  BY <1>1, <1>9, <1>10

(* run_steps waits for all greenlets of the root there are.                   *)
LEMMA EndKeepsQuiet ==
  ASSUME IInv, Quiet, NEW g \in Greenlets, EndOfCode(g)
  PROVE  Quiet'
<1>1. /\ pc[g] = "running" /\ steps' = Closed(g)
      /\ base' = base /\ closing' = closing /\ late' = late
      /\ \/ /\ g = 0 /\ pc' = [pc EXCEPT ![0] = "closing"]
            /\ waitFor' = [waitFor EXCEPT ![0] = SpawnedUnder(0)]
         \/ /\ g = 0 => SpawnedUnder(0) = {}
            /\ pc' = [pc EXCEPT ![g] = "dead"] /\ waitFor' = waitFor
  BY DEF EndOfCode
<1>2. \A s \in DOMAIN steps : steps[s].parent => steps'[s] = steps[s]
  BY <1>1, TipIsNoNest
<1>3. 0 \in Greenlets /\ Futures \subseteq Greenlets /\ 0 \notin Futures
  BY EngineParameters DEF Futures, Greenlets
<1>4. \A h \in Futures : base[h] = 0 \/ (base[h] \in DOMAIN steps /\ steps[base[h]].parent)
  BY <1>3 DEF IInv, Places, Place
<1>5. pc \in [Greenlets -> PC] /\ waitFor \in [Greenlets -> SUBSET Greenlets]
  BY DEF IInv, TypeOK
<1>6. closing[g] = 0
  BY <1>1, Idle
<1>7. CASE /\ g = 0 /\ pc' = [pc EXCEPT ![0] = "closing"]
           /\ waitFor' = [waitFor EXCEPT ![0] = SpawnedUnder(0)]
  <2>1. \A f \in Greenlets : /\ pc'[f] = IF f = 0 THEN "closing" ELSE pc[f]
                             /\ waitFor'[f] = IF f = 0 THEN SpawnedUnder(0) ELSE waitFor[f]
    BY <1>3, <1>5, <1>7
  <2>2. ClosedNestsAreQuiet'
    BY <1>1, <1>2, <1>3, <1>4, <2>1 DEF Quiet, ClosedNestsAreQuiet, Alive
  <2>3. ASSUME NEW k \in Greenlets, pc'[k] = "closing", NEW h \in Futures, Alive(h)',
               h \notin late, base[h] = closing[k]
        PROVE  h \in waitFor'[k]
    <3>1. Alive(h)
      BY <1>3, <2>1, <2>3 DEF Alive
    <3>2. CASE k = 0
      <4>1. waitFor'[k] = SpawnedUnder(0)
        BY <2>1, <3>2
      <4>2. base[h] = 0
        BY <1>6, <1>7, <2>3, <3>2
      <4>3. pc[h] # "unborn"
        BY <3>1 DEF Alive
      <4>4. QED
        BY <4>1, <4>2, <4>3 DEF SpawnedUnder
    <3>3. CASE k # 0
      BY <2>1, <2>3, <3>1, <3>3 DEF Quiet, ClosersWait
    <3>4. QED
      BY <3>2, <3>3
  <2>4. QED
    BY <1>1, <2>2, <2>3 DEF Quiet, ClosersWait
<1>8. CASE /\ g = 0 => SpawnedUnder(0) = {}
           /\ pc' = [pc EXCEPT ![g] = "dead"] /\ waitFor' = waitFor
  <2>1. \A f \in Greenlets : pc'[f] = IF f = g THEN "dead" ELSE pc[f]
    BY <1>5, <1>8
  <2>2. ClosersWait'
    BY <1>1, <1>3, <1>8, <2>1 DEF Quiet, ClosersWait, Alive
  <2>3. ASSUME NEW h \in Futures, Alive(h)', h \notin late
        PROVE  IF base[h] = 0 THEN pc'[0] # "dead" ELSE steps'[base[h]].stream # "closed"
    <3>1. Alive(h)
      BY <1>3, <2>1, <2>3 DEF Alive
    <3>2. IF base[h] = 0 THEN pc[0] # "dead" ELSE steps[base[h]].stream # "closed"
      BY <2>3, <3>1 DEF Quiet, ClosedNestsAreQuiet
    <3>3. g = 0 => base[h] # 0
      BY <1>8, <3>1 DEF SpawnedUnder, Alive
    <3>4. QED
      BY <1>2, <1>3, <1>4, <2>1, <3>2, <3>3
  <2>4. QED
    BY <1>1, <2>2, <2>3 DEF Quiet, ClosedNestsAreQuiet
<1>9. QED
  BY <1>1, <1>7, <1>8

(* All that are waited for are dead.                                          *)
LEMMA FinishKeepsQuiet ==
  ASSUME IInv, Quiet, NEW g \in Greenlets, FinishClose(g)
  PROVE  Quiet'
<1> DEFINE c == closing[g]
<1>1. /\ pc[g] = "closing" /\ \A h \in waitFor[g] : pc[h] = "dead"
      /\ steps' = IF c = 0 THEN steps ELSE CloseStep(steps, c)
      /\ pc' = [pc EXCEPT ![g] = IF c = 0 THEN "dead" ELSE "running"]
      /\ closing' = [closing EXCEPT ![g] = 0] /\ waitFor' = [waitFor EXCEPT ![g] = {}]
      /\ base' = base /\ late' = late
  BY DEF FinishClose
<1>2. \A h \in Futures : Alive(h) /\ h \notin late => base[h] # c
  BY <1>1 DEF Quiet, ClosersWait, Alive
<1>3. c = 0 => g = 0
  BY <1>1 DEF IInv, Places, Place
<1>4. 0 \in Greenlets /\ Futures \subseteq Greenlets /\ 0 \notin Futures
  BY EngineParameters DEF Futures, Greenlets
<1>5. /\ pc \in [Greenlets -> PC] /\ waitFor \in [Greenlets -> SUBSET Greenlets]
      /\ closing \in [Greenlets -> 0..MaxSteps]
  BY DEF IInv, TypeOK
<1> HIDE DEF c
<1>6. \A s \in DOMAIN steps : s # c => steps'[s] = steps[s]
  <2>1. PICK x : CloseStep(steps, c) = WithStream(steps, c, x)
    BY CloseStepIs
  <2>2. QED
    BY <1>1, <2>1 DEF WithStream
<1>7. \A h \in Futures : base[h] = 0 \/ base[h] \in DOMAIN steps
  BY <1>4 DEF IInv, Places, Place
<1>8. \A f \in Greenlets : /\ pc'[f] = IF f # g THEN pc[f] ELSE IF c = 0 THEN "dead" ELSE "running"
                           /\ f # g => closing'[f] = closing[f] /\ waitFor'[f] = waitFor[f]
  BY <1>1, <1>5
<1>9. \A h \in Futures : Alive(h)' => Alive(h)
  BY <1>1, <1>4, <1>8 DEF Alive
<1>10. ASSUME NEW h \in Futures, Alive(h)', h \notin late
       PROVE  IF base[h] = 0 THEN pc'[0] # "dead" ELSE steps'[base[h]].stream # "closed"
  <2>1. base[h] # c
    BY <1>2, <1>9, <1>10
  <2>2. IF base[h] = 0 THEN pc[0] # "dead" ELSE steps[base[h]].stream # "closed"
    BY <1>9, <1>10 DEF Quiet, ClosedNestsAreQuiet
  <2>3. QED
    BY <1>3, <1>4, <1>6, <1>7, <1>8, <2>1, <2>2
<1>11. ClosersWait'
  BY <1>1, <1>8, <1>9 DEF Quiet, ClosersWait
<1>12. QED
  BY <1>1, <1>10, <1>11 DEF Quiet, ClosedNestsAreQuiet

(* Killing a greenlet begins nothing: what it was closing is lost, not closed. *)
LEMMA ThrowKeepsQuiet ==
  ASSUME IInv, Quiet, Throw
  PROVE  Quiet'
<1> DEFINE g == Head(throws)
           c == closing[g]
<1>1. /\ throws # <<>>
      /\ closing' = [closing EXCEPT ![g] = 0] /\ waitFor' = [waitFor EXCEPT ![g] = {}]
      /\ base' = base /\ late' = late
      /\ \/ /\ pc[g] = "dead" /\ pc' = pc /\ steps' = steps
         \/ /\ pc[g] # "dead"
            /\ pc' = [pc EXCEPT ![g] = "running"] \/ pc' = [pc EXCEPT ![g] = "stopping"]
            /\ \/ steps' = steps
               \/ steps' = WithStream(steps, c, "lost")
               \/ steps' = WithStatus(steps, Last(stack[g]), "CANCELED")
  BY DEF Throw, WithStream, WithStatus
<1>2. g \in Greenlets /\ g # 0 /\ pc[g] # "unborn"
  <2>1. throws \in Seq(Futures)
    BY DEF IInv, TypeOK
  <2>2. 1 \in DOMAIN throws /\ g = throws[1]
    BY <1>1, <2>1
  <2>3. QED
    BY <2>2, ThrowsType DEF IInv, ThrowsAtStarted
<1> HIDE DEF g, c
<1>3. 0 \in Greenlets /\ Futures \subseteq Greenlets
  BY EngineParameters DEF Futures, Greenlets
<1>4. \A s \in DOMAIN steps : steps[s].stream # "closed" => steps'[s].stream # "closed"
  <2>1. \A s \in DOMAIN steps : steps[s] \in Step
    BY StepsType DEF IInv
  <2>2. \A s \in DOMAIN steps : /\ WithStream(steps, c, "lost")[s].stream \in {steps[s].stream, "lost"}
                                /\ \A l : WithStatus(steps, l, "CANCELED")[s].stream = steps[s].stream
    BY <2>1 DEF WithStream, WithStatus, Step
  <2>3. QED
    BY <1>1, <2>2
<1>5. /\ pc \in [Greenlets -> PC] /\ waitFor \in [Greenlets -> SUBSET Greenlets]
      /\ closing \in [Greenlets -> 0..MaxSteps]
  BY DEF IInv, TypeOK
<1>6. /\ \A f \in Greenlets : f # g =>
            pc'[f] = pc[f] /\ closing'[f] = closing[f] /\ waitFor'[f] = waitFor[f]
      /\ pc'[g] # "closing" /\ (pc[g] = "dead" => pc'[g] = "dead")
  BY <1>1, <1>2, <1>5
<1>7. QED
  BY <1>1, <1>2, <1>3, <1>4, <1>6, CalmKeepsQuiet

(* Every step keeps the nests quiet.                                          *)
LEMMA NextKeepsQuiet == IInv /\ Quiet /\ [Next]_vars => Quiet'
<1> SUFFICES ASSUME IInv, Quiet, [Next]_vars
             PROVE  Quiet'
  OBVIOUS
<1>0. 0 \in Greenlets /\ Futures \subseteq Greenlets /\ pc \in [Greenlets -> PC] /\ 0 \notin Futures
  BY EngineParameters DEF Futures, Greenlets, IInv, TypeOK
<1>1. CASE UNCHANGED vars
  BY <1>1, CalmKeepsQuiet DEF vars
<1>2. CASE Throw
  BY <1>2, ThrowKeepsQuiet
<1>3. ASSUME NEW g \in Greenlets, Calls(g)
      PROVE  Quiet'
  <2>1. CASE Spawn(g)
    BY <2>1, SpawnKeepsQuiet
  <2>2. ASSUME NEW name \in Names, RunStep(g, name)
        PROVE  Quiet'
    BY <2>2, OpenKeepsQuiet DEF RunStep
  <2>3. ASSUME NEW name \in Names, Nest(g, name)
        PROVE  Quiet'
    <3>1. pc' = [pc EXCEPT ![g] = "running"]
      BY <1>0, <2>3 DEF Nest, Open
    <3>2. QED
      BY <2>3, <3>1, OpenKeepsQuiet DEF Nest
  <2>4. ASSUME NEW h \in Futures, Cancel(g, h)
        PROVE  Quiet'
    <3>1. /\ base' = base /\ late' = late /\ steps' = steps /\ closing' = closing
          /\ \/ pc' = [pc EXCEPT ![h] = "dead"] /\ waitFor' = waitFor
             \/ pc' = [pc EXCEPT ![g] = "joining"] /\ waitFor' = [waitFor EXCEPT ![g] = {h}]
          /\ pc[g] = "running"
      BY <2>4 DEF Cancel
    <3>2. waitFor \in [Greenlets -> SUBSET Greenlets]
      BY DEF IInv, TypeOK
    <3>3. QED
      BY <1>0, <3>1, <3>2, CalmKeepsQuiet
  <2>5. QED
    BY <1>3, <2>1, <2>2, <2>3, <2>4 DEF Calls
<1>4. ASSUME NEW g \in Greenlets, Returns(g)
      PROVE  Quiet'
  <2>1. CASE Start(g) \/ Joined(g)
    <3>1. /\ base' = base /\ late' = late /\ steps' = steps /\ closing' = closing
          /\ waitFor' = waitFor \/ waitFor' = [waitFor EXCEPT ![g] = {}]
          /\ pc' = [pc EXCEPT ![g] = "running"] /\ pc[g] \in {"spawned", "joining"}
      BY <2>1 DEF Start, Joined
    <3>2. waitFor \in [Greenlets -> SUBSET Greenlets]
      BY DEF IInv, TypeOK
    <3>3. QED
      BY <1>0, <3>1, <3>2, CalmKeepsQuiet
  <2>2. CASE FinishClose(g)
    BY <2>2, FinishKeepsQuiet
  <2>3. CASE EndOfCode(g)
    BY <2>3, EndKeepsQuiet
  <2>4. ASSUME NEW status \in Statuses, EndStep(g, status)
        PROVE  Quiet'
    <3>1. /\ pc[g] \in {"inStep", "stopping"} /\ pc' = [pc EXCEPT ![g] = "running"]
          /\ steps' = WithStatus(steps, Last(stack[g]), status)
          /\ base' = base /\ late' = late /\ closing' = closing /\ waitFor' = waitFor
      BY <2>4 DEF EndStep, WithStatus
    <3>2. \A s \in DOMAIN steps : steps[s] \in Step
      BY StepsType DEF IInv
    <3>3. \A s \in DOMAIN steps : steps'[s].stream = steps[s].stream
      BY <3>1, <3>2 DEF WithStatus, Step
    <3>4. QED
      BY <1>0, <3>1, <3>3, CalmKeepsQuiet
  <2>5. CASE EndNest(g) \/ RaiseOutOfNest(g)
    BY <2>5, LeaveKeepsQuiet DEF EndNest, RaiseOutOfNest
  <2>6. QED
    BY <1>4, <2>1, <2>2, <2>3, <2>4, <2>5 DEF Returns
<1>5. QED
  BY <1>1, <1>2, <1>3, <1>4 DEF Next

(* When a nest is closed, or run_steps returns, the greenlets spawned under it *)
(* are dead, but for those spawned after close() had looked at its list.      *)
THEOREM NestsAreQuiet == Spec => []ClosedNestsAreQuiet
<1>1. Init => Quiet
  BY EngineParameters DEF Init, Quiet, ClosedNestsAreQuiet, ClosersWait, Alive, Futures, Greenlets
<1>2. Quiet => ClosedNestsAreQuiet
  BY DEF Quiet
<1>3. QED
  BY <1>1, <1>2, InductiveInvariant, NextKeepsQuiet, PTL DEF Spec

-------------------------------------------------------------------------------
(* What somebody waits for in close() was spawned under the step he closes.   *)
WaitsForOwn ==
  \A g \in Greenlets : pc[g] = "closing" =>
    \A h \in waitFor[g] : h \in Futures /\ base[h] = closing[g] /\ pc[h] # "unborn"

NobodyIsKilled ==
  cancels = 0 => throws = <<>> /\ \A g \in Greenlets : pc[g] \notin {"joining", "stopping"}

Waiting == pc[0] \notin {"unborn", "spawned"} /\ WaitsForOwn /\ NobodyIsKilled

(* What every action has in common.                                           *)
LEMMA WaitingStays ==
  ASSUME IInv, Waiting,
         \A h \in Futures : pc[h] # "unborn" => pc'[h] # "unborn" /\ base'[h] = base[h],
         pc'[0] \notin {"unborn", "spawned"},
         \A g \in Greenlets : pc'[g] = "closing" =>
           \/ pc[g] = "closing" /\ closing'[g] = closing[g] /\ waitFor'[g] = waitFor[g]
           \/ waitFor'[g] = SpawnedUnder(closing'[g]),
         cancels' = 0 => cancels = 0 /\ throws' = throws,
         cancels' = 0 => \A g \in Greenlets : pc'[g] \in {"joining", "stopping"} => pc'[g] = pc[g]
  PROVE  Waiting'
<1>1. ASSUME NEW g \in Greenlets, pc'[g] = "closing", NEW h \in waitFor'[g]
      PROVE  h \in Futures /\ base'[h] = closing'[g] /\ pc'[h] # "unborn"
  <2>1. CASE pc[g] = "closing" /\ closing'[g] = closing[g] /\ waitFor'[g] = waitFor[g]
    BY <1>1, <2>1 DEF Waiting, WaitsForOwn
  <2>2. CASE waitFor'[g] = SpawnedUnder(closing'[g])
    BY <1>1, <2>2 DEF SpawnedUnder
  <2>3. QED
    BY <1>1, <2>1, <2>2
<1>2. NobodyIsKilled'
  BY DEF Waiting, NobodyIsKilled
<1>3. QED
  BY <1>1, <1>2 DEF Waiting, WaitsForOwn

(* Every step keeps what is known of those who wait.                          *)
LEMMA NextKeepsWaiting == IInv /\ Waiting /\ [Next]_vars => Waiting'
<1> SUFFICES ASSUME IInv, Waiting, [Next]_vars
             PROVE  Waiting'
  OBVIOUS
<1>0. /\ 0 \in Greenlets /\ Futures \subseteq Greenlets /\ 0 \notin Futures
      /\ pc \in [Greenlets -> PC] /\ waitFor \in [Greenlets -> SUBSET Greenlets]
      /\ closing \in [Greenlets -> 0..MaxSteps] /\ base \in [Greenlets -> 0..MaxSteps]
      /\ pc[0] \notin {"unborn", "spawned"}
  BY EngineParameters, SMTT(30) DEF Futures, Greenlets, IInv, TypeOK, Waiting
<1>1. CASE UNCHANGED vars
  BY <1>0, <1>1, WaitingStays DEF vars
<1>2. CASE Throw
  <2>1. cancels' = cancels /\ throws # <<>> /\ base' = base
    BY <1>2 DEF Throw
  <2>2. cancels' # 0
    BY <2>1 DEF Waiting, NobodyIsKilled
  <2> DEFINE g == Head(throws)
  <2>3. /\ closing' = [closing EXCEPT ![g] = 0] /\ waitFor' = [waitFor EXCEPT ![g] = {}]
        /\ \/ pc' = [pc EXCEPT ![g] = "running"]
           \/ pc' = [pc EXCEPT ![g] = "stopping"]
           \/ pc' = pc /\ pc[g] = "dead"
    BY <1>2 DEF Throw
  <2>4. g \in Greenlets
    <3>1. throws \in Seq(Futures)
      BY DEF IInv, TypeOK
    <3>2. 1 \in DOMAIN throws /\ g = throws[1]
      BY <2>1, <3>1
    <3>3. QED
      BY <3>2, ThrowsType DEF IInv
  <2> HIDE DEF g
  <2>5. QED
    BY <1>0, <2>1, <2>2, <2>3, <2>4, WaitingStays
<1>3. ASSUME NEW g \in Greenlets, Calls(g)
      PROVE  Waiting'
  <2>1. CASE Spawn(g)
    <3>1. PICK h \in Futures :
            /\ pc[h] = "unborn" /\ base' = [base EXCEPT ![h] = Tip(g)]
            /\ pc' = [pc EXCEPT ![h] = "spawned"]
            /\ closing' = closing /\ waitFor' = waitFor /\ throws' = throws /\ cancels' = cancels
      BY <2>1 DEF Spawn
    <3>2. QED
      BY <1>0, <3>1, WaitingStays
  <2>2. ASSUME NEW name \in Names, RunStep(g, name) \/ Nest(g, name)
        PROVE  Waiting'
    <3>1. /\ pc' = [pc EXCEPT ![g] = "inStep"] \/ pc' = pc
          /\ base' = base /\ closing' = closing /\ waitFor' = waitFor
          /\ throws' = throws /\ cancels' = cancels
      BY <2>2 DEF RunStep, Nest, Open
    <3>2. QED
      BY <1>0, <3>1, WaitingStays
  <2>3. ASSUME NEW h \in Futures, Cancel(g, h)
        PROVE  Waiting'
    <3>1. /\ base' = base /\ closing' = closing /\ cancels' = cancels + 1 /\ pc[g] = "running"
          /\ \/ pc' = [pc EXCEPT ![h] = "dead"] /\ waitFor' = waitFor
             \/ pc' = [pc EXCEPT ![g] = "joining"] /\ waitFor' = [waitFor EXCEPT ![g] = {h}]
      BY <2>3 DEF Cancel
    <3>2. cancels' # 0
      BY <3>1 DEF IInv, TypeOK
    <3>3. QED
      BY <1>0, <3>1, <3>2, WaitingStays
  <2>4. QED
    BY <1>3, <2>1, <2>2, <2>3 DEF Calls
<1>4. ASSUME NEW g \in Greenlets, Returns(g)
      PROVE  Waiting'
  <2>1. CASE Start(g) \/ Joined(g)
    <3>1. /\ base' = base /\ closing' = closing /\ throws' = throws /\ cancels' = cancels
          /\ pc' = [pc EXCEPT ![g] = "running"]
          /\ waitFor' = waitFor \/ waitFor' = [waitFor EXCEPT ![g] = {}]
      BY <2>1 DEF Start, Joined
    <3>2. QED
      BY <1>0, <3>1, WaitingStays
  <2>2. CASE FinishClose(g)
    <3>1. /\ base' = base /\ closing' = [closing EXCEPT ![g] = 0] /\ throws' = throws
          /\ cancels' = cancels /\ waitFor' = [waitFor EXCEPT ![g] = {}]
          /\ pc' = [pc EXCEPT ![g] = IF closing[g] = 0 THEN "dead" ELSE "running"]
      BY <2>2 DEF FinishClose
    <3>2. QED
      BY <1>0, <3>1, WaitingStays
  <2>3. CASE EndOfCode(g)
    <3>1. /\ base' = base /\ closing' = closing /\ throws' = throws /\ cancels' = cancels
          /\ pc[g] = "running"
          /\ \/ /\ g = 0 /\ pc' = [pc EXCEPT ![0] = "closing"]
                /\ waitFor' = [waitFor EXCEPT ![0] = SpawnedUnder(0)]
             \/ pc' = [pc EXCEPT ![g] = "dead"] /\ waitFor' = waitFor
      BY <2>3 DEF EndOfCode
    <3>2. closing[g] = 0
      BY <3>1, Idle
    <3>3. QED
      BY <1>0, <3>1, <3>2, WaitingStays
  <2>4. ASSUME NEW status \in Statuses, EndStep(g, status)
        PROVE  Waiting'
    <3>1. /\ base' = base /\ closing' = closing /\ throws' = throws /\ cancels' = cancels
          /\ pc' = [pc EXCEPT ![g] = "running"] /\ waitFor' = waitFor
      BY <2>4 DEF EndStep
    <3>2. QED
      BY <1>0, <3>1, WaitingStays
  <2>5. ASSUME NEW status, LeaveNest(g, status)
        PROVE  Waiting'
    <3>1. /\ base' = base /\ throws' = throws /\ cancels' = cancels
          /\ \/ pc' = pc /\ closing' = closing /\ waitFor' = waitFor
             \/ /\ pc' = [pc EXCEPT ![g] = "closing"]
                /\ closing' = [closing EXCEPT ![g] = Tip(g)]
                /\ waitFor' = [waitFor EXCEPT ![g] = SpawnedUnder(Tip(g))]
      BY <2>5, Zenon DEF LeaveNest
    <3>2. QED
      BY <1>0, <3>1, WaitingStays
  <2>6. QED
    BY <1>4, <2>1, <2>2, <2>3, <2>4, <2>5 DEF Returns, EndNest, RaiseOutOfNest
<1>5. QED
  BY <1>1, <1>2, <1>3, <1>4 DEF Next

(* Without Future.cancel nobody can be stuck: of those who wait in close(),   *)
(* the one who closes the step opened last waits for nobody who waits, since  *)
(* a greenlet only closes steps opened after its base.                        *)
THEOREM EngineGoesOn == Spec => []SomebodyCanGoOn
<1>1. Init => Waiting
  BY EngineParameters DEF Init, Waiting, WaitsForOwn, NobodyIsKilled, Greenlets, Futures
<1>2. IInv /\ Waiting => SomebodyCanGoOn
  <2> SUFFICES ASSUME IInv, Waiting, cancels = 0, pc[0] # "dead",
                      \A g \in Greenlets : pc[g] \notin {"spawned", "running", "inStep"}
               PROVE  \E g \in Greenlets : pc[g] = "closing" /\ \A h \in waitFor[g] : pc[h] = "dead"
    BY DEF SomebodyCanGoOn
  <2>1. /\ 0 \in Greenlets /\ Futures \subseteq Greenlets /\ 0 \notin Futures
        /\ pc \in [Greenlets -> PC] /\ closing \in [Greenlets -> 0..MaxSteps] /\ MaxSteps \in Nat
    BY EngineParameters DEF Futures, Greenlets, IInv, TypeOK
  <2>2. \A g \in Greenlets : pc[g] \in {"unborn", "dead", "closing"}
    BY <2>1 DEF PC, Waiting, NobodyIsKilled
  <2> DEFINE T == {closing[g] : g \in {f \in Greenlets : pc[f] = "closing"}}
  <2>3. T \in SUBSET (0..MaxSteps)
    BY <2>1
  <2>4. T # {}
    BY <2>1, <2>2 DEF Waiting
  <2>5. PICK k \in T : \A j \in T : j <= k
    BY <2>1, <2>3, <2>4, GreatestNatural
  <2>6. PICK g \in Greenlets : pc[g] = "closing" /\ closing[g] = k
    BY <2>5
  <2>7. ASSUME NEW h \in waitFor[g]
        PROVE  pc[h] = "dead"
    <3>1. h \in Futures /\ h \in Greenlets /\ base[h] = k /\ pc[h] # "unborn"
      BY <2>1, <2>6, <2>7 DEF Waiting, WaitsForOwn
    <3>2. SUFFICES ASSUME pc[h] = "closing"
                   PROVE  FALSE
      BY <2>2, <3>1
    <3>3. Place(steps, stack[h], base[h], "closing", closing[h], h) /\ stack[h] \in Seq(0..MaxSteps)
      BY <3>1, <3>2 DEF IInv, Places, TypeOK
    <3>4. StackOK(steps, stack[h], base[h], h)
      BY <3>3 DEF Place
    <3>5. closing[h] # 0 /\ \A i \in 1..Len(stack[h]) : stack[h][i] < closing[h]
      BY <2>1, <3>1, <3>3 DEF Place
    <3>6. 1 \in 1..Len(stack[h]) /\ stack[h][1] = k
      BY <3>1, <3>3, <3>4 DEF StackOK
    <3>7. k < closing[h] /\ closing[h] <= k
      BY <2>5, <3>1, <3>2, <3>5, <3>6
    <3>8. k \in Int /\ closing[h] \in Int
      BY <2>1, <2>3, <2>5, <3>1
    <3>9. QED
      BY <3>7, <3>8
  <2>8. QED
    BY <2>6, <2>7
<1>3. QED
  BY <1>1, <1>2, InductiveInvariant, NextKeepsWaiting, PTL DEF Spec

-------------------------------------------------------------------------------
(* The names are sequences over some set, which holds all numbers.            *)
LEMMA NamesAreSeqs ==
  \E S : Nat \subseteq S /\ Names \subseteq Seq(S)
<1> DEFINE S == Nat \cup UNION {{name[i] : i \in 1..Len(name)} : name \in Names}
<1>1. ASSUME NEW name \in Names
      PROVE  name \in Seq(S)
  <2>1. Len(name) \in Nat /\ name = [i \in 1..Len(name) |-> name[i]]
    BY NamesAreSequences
  <2>2. \A i \in 1..Len(name) : name[i] \in S
    OBVIOUS
  <2> HIDE DEF S
  <2>3. name \in [1..Len(name) -> S]
    BY <2>1, <2>2, Zenon
  <2>4. QED
    BY <2>1, <2>3
<1>2. QED
  BY <1>1

(* Two deduplicated names are the same only if the names and the numbers are, *)
(* or if one is chosen to look like what the engine makes of the other.       *)
LEMMA DedupIsInjective ==
  ASSUME NEW a \in Names, NEW b \in Names, NEW m \in Nat, NEW n \in Nat,
         Dedup(a, m) = Dedup(b, n)
  PROVE  \/ a = b /\ m = n
         \/ n # 0 /\ a = Append(b, n + 1)
         \/ m # 0 /\ b = Append(a, m + 1)
<1>1. PICK S : Nat \subseteq S /\ Names \subseteq Seq(S)
  BY NamesAreSeqs
<1>2. a \in Seq(S) /\ b \in Seq(S) /\ m + 1 \in S /\ n + 1 \in S
  BY <1>1
<1>3. CASE m = 0 \/ n = 0
  BY <1>3 DEF Dedup
<1>4. CASE m # 0 /\ n # 0
  <2>1. Append(a, m + 1) = Append(b, n + 1)
    BY <1>4 DEF Dedup
  <2>2. a = b /\ m + 1 = n + 1
    BY <1>2, <2>1, AppendInjective
  <2>3. QED
    BY <2>2
<1>5. QED
  BY <1>3, <1>4

(* Front undoes Append.                                                       *)
LEMMA FrontOfAppend ==
  ASSUME NEW S, NEW q \in Seq(S), NEW x \in S
  PROVE  Front(Append(q, x)) = q
<1> DEFINE r == Append(q, x)
           f == Front(r)
<1>1. PICK n \in Nat : n = Len(q)
  OBVIOUS
<1>2. r \in Seq(S) /\ Len(r) = n + 1 /\ \A i \in 1..n : r[i] = q[i]
  BY <1>1, AppendProperties
<1> HIDE DEF r
<1>3. n + 1 >= 1 /\ (n + 1) - 1 = n
  OBVIOUS
<1>4. f \in Seq(S) /\ Len(f) = n /\ \A i \in 1..n : f[i] = r[i]
  BY <1>2, <1>3, FrontOf
<1> HIDE DEF f
<1>5. f = q
  BY <1>1, <1>2, <1>4, SeqEqual
<1>6. QED
  BY <1>5 DEF f, r

(* The steps before i that asked for its name in its namespace: their number  *)
(* is what step i was given, and steps never change their names.              *)
Namesakes(ss, i) ==
  {j \in 1..(i - 1) : Front(ss[j].tokens) = Front(ss[i].tokens) /\ ss[j].asked = ss[i].asked}

Numbered(ss) ==
  \A i \in DOMAIN ss : /\ Front(ss[i].tokens) \in Seq(Token)
                       /\ ss[i].tokens = Append(Front(ss[i].tokens),
                                     Dedup(ss[i].asked, Cardinality(Namesakes(ss, i))))

SameNames(tt) ==
  /\ DOMAIN tt = DOMAIN steps
  /\ \A s \in DOMAIN steps : tt[s].tokens = steps[s].tokens /\ tt[s].asked = steps[s].asked

(* The numbers stay if the names do.                                          *)
LEMMA NamesStay ==
  ASSUME TypeOK, Numbered(steps), NEW tt, SameNames(tt)
  PROVE  Numbered(tt)
<1>1. DOMAIN steps = 1..Len(steps) /\ Len(steps) \in Nat
  BY StepsType
<1>2. ASSUME NEW i \in DOMAIN steps
      PROVE  Namesakes(tt, i) = Namesakes(steps, i)
  <2>1. \A j \in 1..(i - 1) : j \in DOMAIN steps
    BY <1>1
  <2>2. QED
    BY <2>1 DEF Namesakes, SameNames
<1>3. QED
  BY <1>2, Zenon DEF Numbered, SameNames

(* Closing the tip renames nothing.                                           *)
LEMMA TipKeepsNames ==
  ASSUME IInv, NEW g \in Greenlets, pc[g] = "running"
  PROVE  SameNames(Closed(g))
<1>1. TipClosed(g, Closed(g), Popped(g)) /\ steps \in Seq(Step)
  BY CloseTip, StepsType DEF IInv
<1>2. QED
  BY <1>1 DEF TipClosed, SameNames, SameButStream

(* Nor does another stream or another status.                                 *)
LEMMA FieldsKeepNames ==
  ASSUME NEW ss \in Seq(Step), SameNames(ss), NEW s, NEW x
  PROVE  SameNames(WithStream(ss, s, x)) /\ SameNames(WithStatus(ss, s, x))
<1>1. \A i \in DOMAIN ss : ss[i] \in Step
  OBVIOUS
<1>2. QED
  BY <1>1 DEF SameNames, WithStream, WithStatus, Step

(* The new step is numbered by the steps that asked for its name before.      *)
LEMMA OpenKeepsNames ==
  ASSUME IInv, Numbered(steps), NEW g \in Greenlets, NEW name \in Names, NEW parent, NEW status,
         Open(g, name, parent, status)
  PROVE  Numbered(steps')
<1> DEFINE q  == Closed(g)
           ns == TokensOf(Tip(g))
           x  == [owner |-> g, under |-> Tip(g), parent |-> parent, asked |-> name,
                  tokens |-> NameTokens(ns, name), stream |-> "open", status |-> status]
           R  == {i \in DOMAIN steps : Front(steps[i].tokens) = ns /\ steps[i].asked = name}
<1>1. steps' = Append(q, x) /\ pc[g] = "running"
  BY DEF Open
<1>2. TypeOK /\ steps \in Seq(Step)
  BY StepsType DEF IInv
<1>3. q \in Seq(Step) /\ Len(q) = Len(steps) /\ Numbered(q) /\ SameNames(q)
  BY <1>1, <1>2, CloseTip, TipKeepsNames, NamesStay DEF TipClosed
<1>4. Tip(g) = 0 \/ Tip(g) \in DOMAIN steps
  BY <1>1, CloseTip DEF TipClosed
<1>5. ns \in Seq(Token) /\ NameTokens(ns, name) = Append(ns, Dedup(name, Cardinality(R)))
  <2>1. ASSUME Tip(g) # 0
        PROVE  steps[Tip(g)].tokens \in Seq(Token)
    <3>1. steps[Tip(g)] \in Step
      BY <1>2, <1>4, <2>1
    <3>2. QED
      BY <3>1 DEF Step
  <2>2. ns \in Seq(Token)
    BY <2>1 DEF TokensOf
  <2>3. QED
    BY <2>2 DEF NameTokens, Recorded
<1>6. Dedup(name, Cardinality(R)) \in Token
  <2>1. Tip(g) \in 0..MaxSteps
    <3>1. \A s \in DOMAIN steps : s \in 0..MaxSteps
      BY <1>2, StepsType
    <3>2. QED
      BY <1>4, <3>1, EngineParameters
  <2>2. Recorded(ns, name) \in 0..Len(steps)
    BY <1>2, <1>4, <2>1, NameTokensType
  <2>3. Cardinality(R) \in 0..MaxSteps
    BY <1>2, <2>2, StepsType, EngineParameters DEF Recorded
  <2>4. QED
    BY <2>3 DEF Token
<1>7. Front(NameTokens(ns, name)) = ns
  BY <1>5, <1>6, FrontOfAppend
<1>8. x.tokens = NameTokens(ns, name) /\ x.asked = name
  OBVIOUS
<1> HIDE DEF q, ns, x, R
<1>9. PICK m \in Nat : m = Len(steps) /\ DOMAIN steps = 1..m
  BY <1>2
<1>10. DOMAIN steps' = 1..(m + 1) /\ steps'[m + 1] = x /\ \A i \in 1..m : steps'[i] = q[i]
  <2>1. Len(q) = m
    BY <1>3, <1>9
  <2>2. QED
    BY <1>1, <1>3, <2>1
<1>11. ASSUME NEW i \in 1..m
       PROVE  Namesakes(steps', i) = Namesakes(q, i)
  <2>1. \A j \in 1..(i - 1) : j \in 1..m
    OBVIOUS
  <2>2. QED
    BY <1>10, <2>1 DEF Namesakes
<1>12. Namesakes(steps', m + 1) = R
  <2>1. 1..((m + 1) - 1) = 1..m
    OBVIOUS
  <2>2. \A j \in 1..m : steps'[j].tokens = steps[j].tokens /\ steps'[j].asked = steps[j].asked
    BY <1>3, <1>9, <1>10 DEF SameNames
  <2>3. QED
    BY <1>7, <1>8, <1>9, <1>10, <2>1, <2>2 DEF Namesakes, R
<1>13. ASSUME NEW i \in 1..(m + 1)
       PROVE  /\ Front(steps'[i].tokens) \in Seq(Token)
              /\ steps'[i].tokens = Append(Front(steps'[i].tokens),
                                Dedup(steps'[i].asked, Cardinality(Namesakes(steps', i))))
  <2>1. CASE i = m + 1
    BY <1>5, <1>7, <1>8, <1>10, <1>12, <2>1, Zenon
  <2>2. CASE i \in 1..m
    <3>1. i \in DOMAIN q /\ steps'[i] = q[i]
      BY <1>3, <1>9, <1>10, <2>2 DEF SameNames
    <3>2. QED
      BY <1>3, <1>11, <2>2, <3>1 DEF Numbered
  <2>3. i = m + 1 \/ i \in 1..m
    OBVIOUS
  <2>4. QED
    BY <2>1, <2>2, <2>3
<1>14. QED
  BY <1>10, <1>13 DEF Numbered

(* No other action opens a step.                                              *)
LEMMA NextKeepsNumbers == IInv /\ Numbered(steps) /\ [Next]_vars => Numbered(steps')
<1> SUFFICES ASSUME IInv, Numbered(steps), [Next]_vars
             PROVE  Numbered(steps')
  OBVIOUS
<1>1. SameNames(steps') => Numbered(steps')
  BY NamesStay DEF IInv
<1>2. steps \in Seq(Step) /\ SameNames(steps)
  BY StepsType DEF IInv, SameNames
<1>3. \A s, x : SameNames(WithStream(steps, s, x)) /\ SameNames(WithStatus(steps, s, x))
  BY <1>2, FieldsKeepNames
<1>4. CASE UNCHANGED vars
  BY <1>1, <1>2, <1>4 DEF vars
<1>5. CASE Throw
  <2>1. \/ steps' = steps
        \/ \E s : steps' = WithStream(steps, s, "lost")
        \/ \E s : steps' = WithStatus(steps, s, "CANCELED")
    BY <1>5 DEF Throw, WithStream, WithStatus
  <2>2. QED
    BY <1>1, <1>2, <1>3, <2>1
<1>6. ASSUME NEW g \in Greenlets, Calls(g)
      PROVE  Numbered(steps')
  <2>1. CASE Spawn(g)
    <3>1. steps' = Closed(g) /\ pc[g] = "running"
      BY <2>1 DEF Spawn
    <3>2. QED
      BY <1>1, <3>1, TipKeepsNames
  <2>2. ASSUME NEW name \in Names, RunStep(g, name) \/ Nest(g, name)
        PROVE  Numbered(steps')
    BY <2>2, OpenKeepsNames DEF RunStep, Nest
  <2>3. ASSUME NEW h \in Futures, Cancel(g, h)
        PROVE  Numbered(steps')
    BY <2>3 DEF Cancel
  <2>4. QED
    BY <1>6, <2>1, <2>2, <2>3 DEF Calls
<1>7. ASSUME NEW g \in Greenlets, Returns(g)
      PROVE  Numbered(steps')
  <2>1. CASE Start(g) \/ Joined(g)
    BY <2>1 DEF Start, Joined
  <2>2. CASE FinishClose(g)
    <3>1. PICK x : CloseStep(steps, closing[g]) = WithStream(steps, closing[g], x)
      BY CloseStepIs
    <3>2. steps' = steps \/ steps' = WithStream(steps, closing[g], x)
      BY <2>2, <3>1 DEF FinishClose
    <3>3. QED
      BY <1>1, <1>2, <1>3, <3>2
  <2>3. CASE EndOfCode(g)
    <3>1. steps' = Closed(g) /\ pc[g] = "running"
      BY <2>3 DEF EndOfCode
    <3>2. QED
      BY <1>1, <3>1, TipKeepsNames
  <2>4. ASSUME NEW status \in Statuses, EndStep(g, status)
        PROVE  Numbered(steps')
    <3>1. steps' = WithStatus(steps, Last(stack[g]), status)
      BY <2>4 DEF EndStep, WithStatus
    <3>2. QED
      BY <1>1, <1>3, <3>1
  <2>5. ASSUME NEW status \in Statuses \cup {"none"}, LeaveNest(g, status)
        PROVE  Numbered(steps')
    <3> DEFINE s  == Tip(g)
               rr == Closed(g)
               ss == WithStatus(rr, s, status)
    <3>1. pc[g] = "running" /\ Len(Popped(g)) > 1 /\ (steps' = CloseStep(ss, s) \/ steps' = ss)
      BY <2>5, Zenon DEF LeaveNest, WithStatus
    <3>2. SameNames(rr) /\ TipClosed(g, rr, Popped(g)) /\ s = Popped(g)[Len(Popped(g))]
      BY <3>1, TipKeepsNames, CloseTip
    <3> HIDE DEF s, rr
    <3>3. rr \in Seq(Step)
      BY <3>2 DEF TipClosed
    <3>4. SameNames(ss)
      BY <3>2, <3>3, FieldsKeepNames
    <3>5. s \in DOMAIN rr
      <4>1. PICK n \in Nat : n = Len(Popped(g))
        BY <3>2 DEF TipClosed
      <4>2. n \in 2..n
        BY <3>1, <4>1
      <4>3. QED
        BY <3>2, <4>1, <4>2 DEF TipClosed, StackOK, SameNames
    <3>6. ss \in Seq(Step)
      BY <3>3, <3>5, SetStatus
    <3> HIDE DEF ss
    <3>7. PICK x \in Streams : CloseStep(ss, s) = WithStream(ss, s, x)
      BY CloseStepIs
    <3>8. SameNames(WithStream(ss, s, x))
      BY <3>4, <3>6, FieldsKeepNames
    <3>9. QED
      BY <1>1, <3>1, <3>4, <3>7, <3>8
  <2>6. \A a : StatusFor(Tip(g), a) \in Statuses \cup {"none"}
    BY StatusForType DEF IInv
  <2>7. Raised \subseteq Statuses
    BY EngineParameters
  <2>8. QED
    BY <1>7, <2>1, <2>2, <2>3, <2>4, <2>5, <2>6, <2>7 DEF Returns, EndNest, RaiseOutOfNest
<1>8. QED
  BY <1>4, <1>5, <1>6, <1>7 DEF Next

(* How many steps asked for the name of step i before it.                     *)
LEMMA NamesakesAreCounted ==
  ASSUME TypeOK, NEW i \in DOMAIN steps
  PROVE  /\ IsFiniteSet(Namesakes(steps, i))
         /\ Cardinality(Namesakes(steps, i)) \in Nat
         /\ Cardinality(Namesakes(steps, i)) < MaxSteps
<1> DEFINE a == Namesakes(steps, i)
<1>1. i \in 1..Len(steps) /\ Len(steps) \in Nat /\ Len(steps) <= MaxSteps /\ MaxSteps \in Nat
  BY StepsType, EngineParameters DEF TypeOK
<1>2. 1 \in Int /\ i - 1 \in Int /\ ~(1 > i - 1 + 1) /\ i - 1 - 1 + 1 = i - 1
  BY <1>1
<1>3. IsFiniteSet(1..(i - 1)) /\ Cardinality(1..(i - 1)) <= i - 1
  <2>1. /\ IsFiniteSet(1..(i - 1))
        /\ Cardinality(1..(i - 1)) = IF 1 > i - 1 THEN 0 ELSE (i - 1) - 1 + 1
    BY <1>2, FS_Interval
  <2>2. QED
    BY <1>1, <2>1
<1>4. a \in SUBSET (1..(i - 1))
  BY DEF Namesakes
<1>5. IsFiniteSet(a) /\ Cardinality(a) <= Cardinality(1..(i - 1))
  BY <1>3, <1>4, FS_Subset
<1>6. Cardinality(a) \in Nat /\ Cardinality(1..(i - 1)) \in Nat
  BY <1>3, <1>5, FS_CardinalityType
<1>7. QED
  BY <1>1, <1>3, <1>5, <1>6

(* Steps whose tokens are the same: a recipe chose the name of one of them.   *)
LEMMA ClashIsChosen ==
  ASSUME TypeOK, Numbered(steps), NEW i \in DOMAIN steps, NEW j \in DOMAIN steps,
         steps[i].tokens = steps[j].tokens, i < j
  PROVE  \E n \in 2..MaxSteps : \/ steps[i].asked = Append(steps[j].asked, n)
                                \/ steps[j].asked = Append(steps[i].asked, n)
<1> DEFINE a == Namesakes(steps, i)
           b == Namesakes(steps, j)
           m == Cardinality(a)
           n == Cardinality(b)
<1>1. /\ DOMAIN steps = 1..Len(steps) /\ Len(steps) \in Nat /\ MaxSteps \in Nat
      /\ steps[i] \in Step /\ steps[j] \in Step
  BY StepsType, EngineParameters
<1>2. /\ IsFiniteSet(a) /\ m \in Nat /\ m < MaxSteps
      /\ IsFiniteSet(b) /\ n \in Nat /\ n < MaxSteps
  BY NamesakesAreCounted
<1>3. /\ Front(steps[i].tokens) = Front(steps[j].tokens)
      /\ steps[i].asked \in Names /\ steps[j].asked \in Names
  BY <1>1 DEF Step
<1>4. Dedup(steps[i].asked, m) = Dedup(steps[j].asked, n)
  <2> DEFINE f == Front(steps[i].tokens)
             u == Dedup(steps[i].asked, m)
             v == Dedup(steps[j].asked, n)
  <2>1. f \in Seq(Token) /\ Append(f, u) = Append(f, v)
    BY <1>3 DEF Numbered
  <2> HIDE DEF f, u, v
  <2>2. f \in Seq({u, v} \cup Token)
    BY <2>1
  <2>3. u = v
    BY <2>1, <2>2, AppendInjective
  <2>4. QED
    BY <2>3 DEF u, v
<1>5. ~ (steps[i].asked = steps[j].asked /\ m = n)
  <2> SUFFICES ASSUME steps[i].asked = steps[j].asked, m = n
               PROVE  FALSE
    OBVIOUS
  <2>1. a \in SUBSET b /\ i \in b /\ i \notin a
    BY <1>1, <1>3 DEF Namesakes
  <2>2. a = b
    BY <1>2, <2>1, FS_Subset
  <2>3. QED
    BY <2>1, <2>2
<1>6. \/ n # 0 /\ steps[i].asked = Append(steps[j].asked, n + 1)
      \/ m # 0 /\ steps[j].asked = Append(steps[i].asked, m + 1)
  <2> DEFINE x == steps[i].asked
             y == steps[j].asked
  <2>1. x \in Names /\ y \in Names /\ m \in Nat /\ n \in Nat /\ Dedup(x, m) = Dedup(y, n)
    BY <1>2, <1>3, <1>4
  <2> HIDE DEF m, n, x, y
  <2>2. \/ x = y /\ m = n
        \/ n # 0 /\ x = Append(y, n + 1)
        \/ m # 0 /\ y = Append(x, m + 1)
    BY ONLY <2>1, DedupIsInjective
  <2>3. QED
    BY <1>5, <2>2 DEF x, y
<1>7. /\ n # 0 => n + 1 \in 2..MaxSteps
      /\ m # 0 => m + 1 \in 2..MaxSteps
  BY <1>1, <1>2
<1>8. QED
  BY <1>6, <1>7

LEMMA NumberedHolds == Spec => [](TypeOK /\ Numbered(steps))
<1>1. Init => Numbered(steps)
  BY DEF Init, Numbered
<1>2. IInv /\ Numbered(steps) /\ [Next]_vars => Numbered(steps)'
  BY NextKeepsNumbers
<1>3. IInv => TypeOK
  BY DEF IInv
<1>4. QED
  BY <1>1, <1>2, <1>3, InductiveInvariant, PTL DEF Spec

(* The number that _record_step_name gives to a step makes its name unique in *)
(* its namespace, unless a recipe itself chose the name the engine makes.     *)
THEOREM ClashingNamesAreChosen == Spec => []OnlyChosenNamesClash
<1>1. TypeOK /\ Numbered(steps) => OnlyChosenNamesClash
  <2> SUFFICES ASSUME TypeOK, Numbered(steps), NEW i \in DOMAIN steps, NEW j \in DOMAIN steps,
                      i # j, steps[i].tokens = steps[j].tokens
               PROVE  \E n \in 2..MaxSteps : \/ steps[i].asked = Append(steps[j].asked, n)
                                             \/ steps[j].asked = Append(steps[i].asked, n)
    BY DEF OnlyChosenNamesClash
  <2>1. i < j \/ j < i
    <3>1. i \in 1..Len(steps) /\ j \in 1..Len(steps) /\ Len(steps) \in Nat
      BY StepsType
    <3>2. QED
      BY <3>1
  <2>2. CASE i < j
    BY <2>2, ClashIsChosen
  <2>3. CASE j < i
    BY <2>3, ClashIsChosen
  <2>4. QED
    BY <2>1, <2>2, <2>3
<1>2. QED
  BY <1>1, NumberedHolds, PTL

(* No name that recipes give looks like the engine's own "a (2)" of another.  *)
PlainNames == \A a, b \in Names, n \in 2..MaxSteps : a # Append(b, n)

(* So where recipes choose no such names, the tokens of a step are its own.   *)
THEOREM NamesDoNotClash == PlainNames => (Spec => []NamesAreUnique)
<1> SUFFICES ASSUME PlainNames
             PROVE  Spec => []NamesAreUnique
  OBVIOUS
<1>1. TypeOK /\ OnlyChosenNamesClash => NamesAreUnique
  <2> SUFFICES ASSUME TypeOK, OnlyChosenNamesClash,
                      NEW i \in DOMAIN steps, NEW j \in DOMAIN steps,
                      steps[i].tokens = steps[j].tokens, i # j
               PROVE  FALSE
    BY DEF NamesAreUnique
  <2>1. steps[i].asked \in Names /\ steps[j].asked \in Names
    <3>1. steps[i] \in Step /\ steps[j] \in Step
      BY StepsType
    <3>2. QED
      BY <3>1 DEF Step
  <2>2. PICK n \in 2..MaxSteps : \/ steps[i].asked = Append(steps[j].asked, n)
                                 \/ steps[j].asked = Append(steps[i].asked, n)
    BY DEF OnlyChosenNamesClash
  <2>3. QED
    BY <2>1, <2>2 DEF PlainNames
<1>2. QED
  BY <1>1, TypeCorrect, ClashingNamesAreChosen, PTL
-------------------------------------------------------------------------------
(* The status of a nest, where no greenlet was spawned in it.  The steps of   *)
(* such a nest are those of the greenlet that opened it, so they are over     *)
(* before it is left, and their statuses are final.                           *)
OnlyWorst == Raised = {} /\ Algorithms \subseteq {"worst"}

Kids(ss, s) == {c \in DOMAIN ss : ss[c].under = s}

SettledAt(ss, s) ==
  /\ \A c \in Kids(ss, s) : ss[c].stream # "open"
  /\ OnlyWorst => ss[s].status = WorstOf({"SUCCESS"} \cup {ss[c].status : c \in Kids(ss, s)})

Settled ==
  \A s \in DOMAIN steps :
    steps[s].parent /\ steps[s].stream = "closed" /\ SpawnedUnder(s) = {} => SettledAt(steps, s)

(* A step is opened under a step of its greenlet or under the greenlet's base. *)
Family ==
  \A c \in DOMAIN steps : \A s : steps[c].under = s /\ s # 0 =>
    /\ s \in DOMAIN steps /\ s < c
    /\ steps[s].owner = steps[c].owner \/ steps[c].owner \in SpawnedUnder(s)

ClosersHaveGreenlets ==
  \A g \in Greenlets : pc[g] = "closing" /\ closing[g] # 0 => SpawnedUnder(closing[g]) # {}

Nesting == base[0] = 0 /\ Family /\ ClosersHaveGreenlets /\ Settled

SameKin(tt) ==
  /\ DOMAIN tt = DOMAIN steps
  /\ \A s \in DOMAIN steps : /\ tt[s].owner = steps[s].owner /\ tt[s].under = steps[s].under
                             /\ tt[s].parent = steps[s].parent

(* Closing the tip changes nobody's family.                                   *)
LEMMA TipKeepsKin ==
  ASSUME IInv, NEW g \in Greenlets, pc[g] = "running"
  PROVE  SameKin(Closed(g))
<1>1. TipClosed(g, Closed(g), Popped(g)) /\ steps \in Seq(Step)
  BY CloseTip, StepsType DEF IInv
<1>2. QED
  BY <1>1 DEF TipClosed, SameKin, SameButStream

(* Nor does another stream or another status.                                 *)
LEMMA FieldsKeepKin ==
  ASSUME NEW ss \in Seq(Step), SameKin(ss), NEW s, NEW x
  PROVE  SameKin(WithStream(ss, s, x)) /\ SameKin(WithStatus(ss, s, x))
<1>1. \A i \in DOMAIN ss : ss[i] \in Step
  OBVIOUS
<1>2. QED
  BY <1>1 DEF SameKin, WithStream, WithStatus, Step

(* The greenlets of a step stay its greenlets.                                *)
Grown ==
  /\ base'[0] = base[0]
  /\ \A h \in Futures : pc[h] # "unborn" => pc'[h] # "unborn" /\ base'[h] = base[h]
  /\ \A g \in Greenlets : pc'[g] = "closing" /\ closing'[g] # 0 =>
       \/ pc[g] = "closing" /\ closing'[g] = closing[g]
       \/ SpawnedUnder(closing'[g]) # {}

LEMMA SpawnedStay ==
  ASSUME Grown
  PROVE  \A s : SpawnedUnder(s) \subseteq SpawnedUnder(s)'
  BY DEF Grown, SpawnedUnder

(* Every step of the engine keeps them.                                       *)
LEMMA NextGrows == IInv /\ [Next]_vars => Grown
<1> SUFFICES ASSUME IInv, [Next]_vars
             PROVE  Grown
  OBVIOUS
<1>0. /\ 0 \in Greenlets /\ Futures \subseteq Greenlets /\ 0 \notin Futures
      /\ pc \in [Greenlets -> PC] /\ closing \in [Greenlets -> 0..MaxSteps]
      /\ base \in [Greenlets -> 0..MaxSteps]
  BY EngineParameters DEF Futures, Greenlets, IInv, TypeOK
<1>1. CASE UNCHANGED vars
  BY <1>0, <1>1 DEF vars, Grown
<1>2. CASE Throw
  <2> DEFINE g == Head(throws)
  <2>1. /\ closing' = [closing EXCEPT ![g] = 0] /\ base' = base
        /\ \/ pc' = [pc EXCEPT ![g] = "running"]
           \/ pc' = [pc EXCEPT ![g] = "stopping"]
           \/ pc' = pc
    BY <1>2 DEF Throw
  <2> HIDE DEF g
  <2>2. QED
    BY <1>0, <2>1 DEF Grown
<1>3. ASSUME NEW g \in Greenlets, Calls(g)
      PROVE  Grown
  <2>1. CASE Spawn(g)
    <3>1. PICK h \in Futures :
            /\ pc[h] = "unborn" /\ base' = [base EXCEPT ![h] = Tip(g)]
            /\ pc' = [pc EXCEPT ![h] = "spawned"] /\ closing' = closing
      BY <2>1 DEF Spawn
    <3>2. QED
      BY <1>0, <3>1 DEF Grown
  <2>2. ASSUME NEW name \in Names, RunStep(g, name) \/ Nest(g, name)
        PROVE  Grown
    <3>1. /\ pc' = [pc EXCEPT ![g] = "inStep"] \/ pc' = pc
          /\ base' = base /\ closing' = closing
      BY <2>2 DEF RunStep, Nest, Open
    <3>2. QED
      BY <1>0, <3>1 DEF Grown
  <2>3. ASSUME NEW h \in Futures, Cancel(g, h)
        PROVE  Grown
    <3>1. /\ base' = base /\ closing' = closing
          /\ pc' = [pc EXCEPT ![h] = "dead"] \/ pc' = [pc EXCEPT ![g] = "joining"]
      BY <2>3 DEF Cancel
    <3>2. QED
      BY <1>0, <3>1 DEF Grown
  <2>4. QED
    BY <1>3, <2>1, <2>2, <2>3 DEF Calls
<1>4. ASSUME NEW g \in Greenlets, Returns(g)
      PROVE  Grown
  <2>1. CASE Start(g) \/ Joined(g)
    <3>1. base' = base /\ closing' = closing /\ pc' = [pc EXCEPT ![g] = "running"]
      BY <2>1 DEF Start, Joined
    <3>2. QED
      BY <1>0, <3>1 DEF Grown
  <2>2. CASE FinishClose(g)
    <3>1. /\ base' = base /\ closing' = [closing EXCEPT ![g] = 0]
          /\ pc' = [pc EXCEPT ![g] = IF closing[g] = 0 THEN "dead" ELSE "running"]
      BY <2>2 DEF FinishClose
    <3>2. QED
      BY <1>0, <3>1 DEF Grown
  <2>3. CASE EndOfCode(g)
    <3>1. /\ base' = base /\ closing' = closing /\ pc[g] = "running"
          /\ \/ g = 0 /\ pc' = [pc EXCEPT ![0] = "closing"]
             \/ pc' = [pc EXCEPT ![g] = "dead"]
      BY <2>3 DEF EndOfCode
    <3>2. closing[g] = 0
      BY <3>1, Idle
    <3>3. QED
      BY <1>0, <3>1, <3>2 DEF Grown
  <2>4. ASSUME NEW status \in Statuses, EndStep(g, status)
        PROVE  Grown
    <3>1. base' = base /\ closing' = closing /\ pc' = [pc EXCEPT ![g] = "running"]
      BY <2>4 DEF EndStep
    <3>2. QED
      BY <1>0, <3>1 DEF Grown
  <2>5. ASSUME NEW status, LeaveNest(g, status)
        PROVE  Grown
    <3>1. /\ base' = base
          /\ \/ pc' = pc /\ closing' = closing
             \/ /\ pc' = [pc EXCEPT ![g] = "closing"]
                /\ closing' = [closing EXCEPT ![g] = Tip(g)]
                /\ SpawnedUnder(Tip(g)) # {}
      BY <2>5, Zenon DEF LeaveNest
    <3>2. QED
      BY <1>0, <3>1 DEF Grown
  <2>6. QED
    BY <1>4, <2>1, <2>2, <2>3, <2>4, <2>5 DEF Returns, EndNest, RaiseOutOfNest
<1>5. QED
  BY <1>1, <1>2, <1>3, <1>4 DEF Next
-------------------------------------------------------------------------------
(* Whose step the tip of a stack is.                                          *)
LEMMA TipIsKin ==
  ASSUME IInv, base[0] = 0, NEW g \in Greenlets, pc[g] = "running"
  PROVE  \/ Tip(g) = 0
         \/ /\ Tip(g) \in DOMAIN steps
            /\ \/ steps[Tip(g)].owner = g /\ steps[Tip(g)].stream = "open"
               \/ g \in SpawnedUnder(Tip(g))
<1> DEFINE st == Popped(g)
           s  == Tip(g)
<1>1. TipClosed(g, Closed(g), st) /\ s = st[Len(st)]
  BY CloseTip
<1>2. \A i \in DOMAIN steps : steps[i].parent => Closed(g)[i] = steps[i]
  BY TipIsNoNest
<1> HIDE DEF st, s
<1>3. s = 0 \/ (s \in DOMAIN steps /\ steps[s].parent)
  BY <1>1 DEF TipClosed
<1>4. PICK n \in Nat : n = Len(st)
  BY <1>1 DEF TipClosed
<1>5. n >= 1
  BY <1>1, <1>4 DEF TipClosed, StackOK
<1>6. CASE n = 1
  <2>1. s = base[g]
    BY <1>1, <1>4, <1>6 DEF TipClosed, StackOK
  <2>2. g = 0 \/ g \in Futures
    BY EngineParameters DEF Greenlets, Futures
  <2>3. s # 0 => g \in SpawnedUnder(s)
    BY <2>1, <2>2 DEF SpawnedUnder
  <2>4. QED
    BY <1>3, <2>3 DEF s
<1>7. CASE n # 1
  <2>1. n \in 2..n
    BY <1>5, <1>7
  <2>2. Closed(g)[s].owner = g /\ Closed(g)[s].stream = "open"
    BY <1>1, <1>4, <2>1 DEF TipClosed, StackOK
  <2>3. QED
    BY <1>2, <1>3, <2>2 DEF s
<1>8. QED
  BY <1>6, <1>7

(* The family stays if no step is opened.                                     *)
LEMMA FamilyStays ==
  ASSUME Family, Grown, SameKin(steps')
  PROVE  Family'
<1>1. \A s : SpawnedUnder(s) \subseteq SpawnedUnder(s)'
  BY SpawnedStay
<1>2. QED
  BY <1>1, Zenon DEF Family, SameKin

(* A nest that was settled stays so, if no step is opened under it.           *)
LEMMA SettledStays ==
  ASSUME Keeps(steps'), NEW s \in DOMAIN steps, steps[s].stream = "closed",
         Kids(steps', s) = Kids(steps, s), SettledAt(steps, s)
  PROVE  SettledAt(steps', s)
<1>1. steps'[s] = steps[s]
  BY DEF Keeps
<1>2. \A c \in Kids(steps, s) : steps'[c] = steps[c]
  BY DEF Keeps, SettledAt, Kids
<1>3. {steps'[c].status : c \in Kids(steps', s)} = {steps[c].status : c \in Kids(steps, s)}
  BY <1>2
<1>4. QED
  BY <1>1, <1>2, <1>3 DEF SettledAt

(* Most actions open no step, and close no nest but one that has greenlets.   *)
LEMMA NestingStays ==
  ASSUME IInv, Nesting, Grown, SameKin(steps'), Keeps(steps'),
         \A s \in DOMAIN steps : steps[s].parent /\ steps'[s].stream = "closed" =>
            steps[s].stream = "closed" \/ SpawnedUnder(s) # {}
  PROVE  Nesting'
<1>1. \A s : SpawnedUnder(s) \subseteq SpawnedUnder(s)'
  BY SpawnedStay
<1>2. ClosersHaveGreenlets'
  BY <1>1 DEF Nesting, ClosersHaveGreenlets, Grown
<1>3. ASSUME NEW s \in DOMAIN steps', steps'[s].parent, steps'[s].stream = "closed", SpawnedUnder(s)' = {}
      PROVE  SettledAt(steps', s)
  <2>1. SpawnedUnder(s) = {} /\ s \in DOMAIN steps /\ steps[s].parent
    BY <1>1, <1>3 DEF SameKin
  <2>2. steps[s].stream = "closed" /\ SettledAt(steps, s)
    BY <1>3, <2>1 DEF Nesting, Settled
  <2>3. Kids(steps', s) = Kids(steps, s)
    BY DEF Kids, SameKin
  <2>4. QED
    BY <2>1, <2>2, <2>3, SettledStays
<1>4. Settled'
  BY <1>3 DEF Settled, SettledAt, Kids
<1>5. QED
  BY <1>2, <1>4, FamilyStays DEF Nesting, Grown

(* A step is opened under no nest that is settled.                            *)
LEMMA OpenKeepsNesting ==
  ASSUME IInv, Nesting, Grown, NEW g \in Greenlets, NEW name, NEW parent, NEW status,
         Open(g, name, parent, status)
  PROVE  Nesting'
<1> DEFINE q == Closed(g)
<1>1. PICK t, x : /\ steps' = Append(q, x) /\ pc[g] = "running" /\ t = Tip(g)
                  /\ x.owner = g /\ x.under = t /\ x.stream = "open"
  <2> DEFINE y == [owner |-> g, under |-> Tip(g), parent |-> parent, asked |-> name,
                   tokens |-> NameTokens(TokensOf(Tip(g)), name),
                   stream |-> "open", status |-> status]
  <2>1. steps' = Append(q, y) /\ pc[g] = "running"
    BY DEF Open
  <2>2. y.owner = g /\ y.under = Tip(g) /\ y.stream = "open"
    OBVIOUS
  <2> HIDE DEF y, q
  <2>3. QED
    BY <2>1, <2>2
<1>2. q \in Seq(Step) /\ Len(q) = Len(steps) /\ SameKin(q) /\ Keeps(steps')
  BY <1>1, CloseTip, TipKeepsKin, OpenKeeps DEF TipClosed
<1>3. \/ t = 0
      \/ /\ t \in DOMAIN steps
         /\ (steps[t].owner = g /\ steps[t].stream = "open") \/ g \in SpawnedUnder(t)
  BY <1>1, TipIsKin DEF Nesting
<1>4. \A s : SpawnedUnder(s) \subseteq SpawnedUnder(s)'
  BY SpawnedStay
<1> HIDE DEF q
<1>5. PICK m \in Nat : m = Len(steps) /\ DOMAIN steps = 1..m
  BY StepsType DEF IInv
<1>6. DOMAIN steps' = 1..(m + 1) /\ steps'[m + 1] = x /\ \A i \in 1..m : steps'[i] = q[i]
  BY <1>1, <1>2, <1>5
<1>7. \A i \in 1..m : /\ steps'[i].owner = steps[i].owner /\ steps'[i].under = steps[i].under
                      /\ steps'[i].parent = steps[i].parent
  BY <1>2, <1>5, <1>6 DEF SameKin
<1>8. \A i \in 1..(m + 1) : i = m + 1 \/ i \in 1..m
  OBVIOUS
<1>9. \A i \in 1..m : i \in 1..(m + 1) /\ i < m + 1
  OBVIOUS
<1>10. ASSUME NEW c \in DOMAIN steps', NEW s, steps'[c].under = s, s # 0
       PROVE  /\ s \in DOMAIN steps' /\ s < c
              /\ steps'[s].owner = steps'[c].owner \/ steps'[c].owner \in SpawnedUnder(s)'
  <2>1. CASE c = m + 1
    <3>1. s = t /\ steps'[c].owner = g
      BY <1>1, <1>6, <1>10, <2>1, Zenon
    <3>2. s \in 1..m /\ steps'[s].owner = steps[s].owner /\ s \in 1..(m + 1) /\ s < m + 1
      BY <1>3, <1>5, <1>7, <1>9, <1>10, <3>1
    <3>3. steps[s].owner = g \/ g \in SpawnedUnder(s)'
      BY <1>3, <1>4, <1>10, <3>1
    <3>4. QED
      BY <1>6, <2>1, <3>1, <3>2, <3>3
  <2>2. CASE c \in 1..m
    <3>1. steps[c].under = s /\ steps'[c].owner = steps[c].owner
      BY <1>7, <1>10, <2>2
    <3>2. /\ s \in DOMAIN steps /\ s < c
          /\ steps[s].owner = steps[c].owner \/ steps[c].owner \in SpawnedUnder(s)
      BY <1>5, <1>10, <2>2, <3>1 DEF Nesting, Family
    <3>3. QED
      BY <1>4, <1>5, <1>6, <1>7, <1>9, <3>1, <3>2
  <2>3. QED
    BY <1>6, <1>8, <2>1, <2>2
<1>11. ASSUME NEW s \in DOMAIN steps', steps'[s].parent, steps'[s].stream = "closed", SpawnedUnder(s)' = {}
       PROVE  SettledAt(steps', s)
  <2>1. s \in DOMAIN steps /\ s \in 1..m /\ steps[s].parent /\ SpawnedUnder(s) = {}
    BY <1>1, <1>4, <1>5, <1>6, <1>7, <1>8, <1>11
  <2>2. steps[s].stream = "closed"
    <3>1. Closed(g)[s] = steps[s]
      BY <1>1, <2>1, TipIsNoNest
    <3>2. QED
      BY <1>6, <1>11, <2>1, <3>1 DEF q
  <2>3. SettledAt(steps, s)
    BY <2>1, <2>2 DEF Nesting, Settled
  <2>4. s # t
    BY <1>3, <2>1, <2>2
  <2>5. Kids(steps', s) = Kids(steps, s)
    BY <1>1, <1>5, <1>6, <1>7, <1>8, <1>9, <2>4 DEF Kids
  <2>6. QED
    BY <1>2, <2>1, <2>2, <2>3, <2>5, SettledStays
<1>12. ClosersHaveGreenlets'
  BY <1>4 DEF Nesting, ClosersHaveGreenlets, Grown
<1>13. Settled' /\ Family'
  <2>1. Settled'
    BY <1>11, Zenon DEF Settled, SettledAt, Kids
  <2>2. Family'
    BY <1>10, Zenon DEF Family
  <2>3. QED
    BY <2>1, <2>2
<1>14. QED
  BY <1>12, <1>13 DEF Nesting, Grown
-------------------------------------------------------------------------------
(* The steps of a nest without greenlets are above it in no stack, so they    *)
(* are over when it is left.                                                  *)
LEMMA TipKidsOver ==
  ASSUME IInv, Nesting, NEW g \in Greenlets, pc[g] = "running", Len(Popped(g)) > 1,
         NEW t, t = Tip(g), SpawnedUnder(t) = {}, NEW c \in Kids(steps, t)
  PROVE  /\ c # t /\ Closed(g)[c].stream # "open"
         /\ Closed(g)[c].status = steps[c].status
<1> DEFINE rr == Closed(g)
           st == Popped(g)
<1>1. TipClosed(g, rr, st) /\ t = st[Len(st)] /\ SameKin(rr) /\ rr \in Seq(Step)
  BY CloseTip, TipKeepsKin DEF TipClosed
<1>2. PICK n \in Nat : n = Len(st) /\ n \in 2..n
  <2>1. PICK n \in Nat : n = Len(st)
    BY <1>1 DEF TipClosed
  <2>2. QED
    BY <2>1
<1> HIDE DEF rr, st
<1>3. t \in DOMAIN steps /\ rr[t].owner = g /\ t # 0
  <2>1. t \in DOMAIN steps /\ rr[t].owner = g
    BY <1>1, <1>2 DEF TipClosed, StackOK, SameKin
  <2>2. QED
    BY <2>1, StepsType DEF IInv
<1>4. c \in DOMAIN steps /\ steps[c].under = t
  BY DEF Kids
<1>5. t < c /\ steps[c].owner = g /\ rr[c].owner = g
  <2>1. t < c /\ (steps[t].owner = steps[c].owner \/ steps[c].owner \in SpawnedUnder(t))
    BY <1>3, <1>4 DEF Nesting, Family
  <2>2. QED
    BY <1>1, <1>3, <1>4, <2>1 DEF SameKin
<1>6. t \in Nat /\ c \in Nat
  BY <1>3, <1>4, StepsType DEF IInv
<1>7. rr[c].stream # "open"
  <2>1. SUFFICES ASSUME rr[c].stream = "open"
                 PROVE  FALSE
    OBVIOUS
  <2>2. PICK i \in 2..n : st[i] = c
    BY <1>1, <1>2, <1>4, <1>5, <2>1 DEF TipClosed
  <2>3. \A j \in 2..n : j = n \/ st[j] < t
    BY <1>1, <1>2 DEF TipClosed, StackOK
  <2>4. QED
    BY <1>1, <1>2, <1>5, <1>6, <2>2, <2>3
<1>8. rr[c].status = steps[c].status
  BY <1>1, <1>4 DEF TipClosed, SameButStream
<1>9. QED
  BY <1>5, <1>6, <1>7, <1>8 DEF rr

(* So a nest without greenlets is settled when it is left.                    *)
LEMMA LeaveKeepsNesting ==
  ASSUME IInv, Nesting, Grown, NEW g \in Greenlets, NEW status \in Statuses \cup {"none"},
         OnlyWorst => status = StatusFor(Tip(g), "worst"), LeaveNest(g, status)
  PROVE  Nesting'
<1> DEFINE rr == Closed(g)
           st == Popped(g)
<1>1. PICK t : t = Tip(g)
  OBVIOUS
<1> DEFINE ss == WithStatus(rr, t, status)
<1>2. /\ pc[g] = "running" /\ Len(st) > 1
      /\ \/ SpawnedUnder(t) = {} /\ steps' = CloseStep(ss, t)
         \/ SpawnedUnder(t) # {} /\ steps' = ss
  BY <1>1, Zenon DEF LeaveNest, WithStatus
<1>3. TipClosed(g, rr, st) /\ t = st[Len(st)] /\ SameKin(rr) /\ rr \in Seq(Step)
  BY <1>1, <1>2, CloseTip, TipKeepsKin DEF TipClosed
<1>4. Keeps(steps') /\ \A i \in DOMAIN steps : steps[i].parent => rr[i] = steps[i]
  BY <1>2, LeaveKeeps, TipIsNoNest
<1> HIDE DEF rr, st, ss
<1>5. PICK n \in Nat : n = Len(st) /\ n \in 2..n
  <2>1. PICK n \in Nat : n = Len(st)
    BY <1>3 DEF TipClosed
  <2>2. QED
    BY <1>2, <2>1
<1>6. t \in DOMAIN steps
  BY <1>3, <1>5 DEF TipClosed, StackOK, SameKin
<1>7. ss \in Seq(Step) /\ SameKin(ss) /\ \A i \in DOMAIN steps : i # t => ss[i] = rr[i]
  <2>1. t \in DOMAIN rr
    BY <1>3, <1>6 DEF SameKin
  <2>2. QED
    BY <1>3, <2>1, SetStatus, FieldsKeepKin DEF ss, SameKin
<1>8. CASE SpawnedUnder(t) # {} /\ steps' = ss
  <2>1. \A s \in DOMAIN steps : ss[s].stream = rr[s].stream
    <3>1. t \in DOMAIN rr
      BY <1>3, <1>6 DEF SameKin
    <3>2. ss[t].stream = rr[t].stream
      BY <1>3, <3>1, SetStatus DEF ss, SameButStatus
    <3>3. QED
      BY <1>7, <3>2
  <2>2. QED
    BY <1>4, <1>7, <1>8, <2>1, NestingStays
<1>9. CASE SpawnedUnder(t) = {} /\ steps' = CloseStep(ss, t)
  <2>1. PICK x \in Streams : steps' = WithStream(ss, t, x)
    BY <1>9, CloseStepIs
  <2>2. SameKin(steps')
    BY <1>7, <2>1, FieldsKeepKin
  <2>3. /\ \A i \in DOMAIN steps : i # t => steps'[i] = rr[i]
        /\ steps'[t].status = status
    <3>1. t \in DOMAIN ss /\ t \in DOMAIN rr
      BY <1>3, <1>6, <1>7 DEF SameKin
    <3>2. /\ \A i \in DOMAIN ss : i # t => steps'[i] = ss[i]
          /\ steps'[t].status = ss[t].status
      BY <1>7, <2>1, <3>1, SetStream DEF SameButStream
    <3>3. ss[t].status = status
      BY <1>3, <3>1, SetStatus DEF ss
    <3>4. QED
      BY <1>7, <3>2, <3>3 DEF SameKin
  <2>4. \A s : SpawnedUnder(s) \subseteq SpawnedUnder(s)'
    BY SpawnedStay
  <2>5. \A s : Kids(steps', s) = Kids(steps, s)
    BY <2>2 DEF Kids, SameKin
  <2>6. SettledAt(steps', t)
    <3>1. ASSUME NEW c \in Kids(steps, t)
          PROVE  /\ c # t /\ steps'[c].stream # "open" /\ steps'[c].status = steps[c].status
      <4>1. /\ c # t /\ rr[c].stream # "open" /\ rr[c].status = steps[c].status
            /\ c \in DOMAIN steps
        BY <1>1, <1>2, <1>9, TipKidsOver DEF rr, st, Kids
      <4>2. QED
        BY <2>3, <4>1
    <3>2. /\ Kids(steps, t) = Children(t)
          /\ {steps'[c].status : c \in Kids(steps', t)} = {steps[c].status : c \in Children(t)}
      <4>1. Kids(steps, t) = Children(t) /\ Kids(steps', t) = Kids(steps, t)
        BY <2>5 DEF Kids, Children
      <4>2. {steps'[c].status : c \in Kids(steps, t)} = {steps[c].status : c \in Kids(steps, t)}
        BY <3>1
      <4>3. QED
        BY <4>1, <4>2
    <3>3. StatusFor(t, "worst") = WorstOf({"SUCCESS"} \cup {steps[c].status : c \in Children(t)})
      BY DEF StatusFor
    <3>4. QED
      BY <1>1, <2>3, <2>5, <3>1, <3>2, <3>3 DEF SettledAt
  <2>7. ASSUME NEW s \in DOMAIN steps', steps'[s].parent, steps'[s].stream = "closed", SpawnedUnder(s)' = {},
               s # t
        PROVE  SettledAt(steps', s)
    <3>1. SpawnedUnder(s) = {} /\ s \in DOMAIN steps /\ steps[s].parent
      BY <2>2, <2>4, <2>7 DEF SameKin
    <3>2. steps[s].stream = "closed"
      BY <1>4, <2>3, <2>7, <3>1
    <3>3. SettledAt(steps, s)
      BY <3>1, <3>2 DEF Nesting, Settled
    <3>4. QED
      BY <1>4, <2>5, <3>1, <3>2, <3>3, SettledStays
  <2>8. Settled'
    BY <2>6, <2>7, Zenon DEF Settled, SettledAt, Kids
  <2>9. ClosersHaveGreenlets'
    BY <2>4 DEF Nesting, ClosersHaveGreenlets, Grown
  <2>10. QED
    BY <2>2, <2>8, <2>9, FamilyStays DEF Nesting, Grown
<1>10. QED
  BY <1>2, <1>8, <1>9

(* All that any step of the engine does to nests.                             *)
LEMMA NextKeepsNesting == IInv /\ Nesting /\ [Next]_vars => Nesting'
<1> SUFFICES ASSUME IInv, Nesting, [Next]_vars
             PROVE  Nesting'
  OBVIOUS
<1>0. Grown /\ Keeps(steps')
  BY NextGrows, NextKeepsFinal
<1> DEFINE ClosesNone ==
             /\ SameKin(steps')
             /\ \A s \in DOMAIN steps : steps[s].parent /\ steps'[s].stream = "closed" =>
                  steps[s].stream = "closed" \/ SpawnedUnder(s) # {}
<1>1. ClosesNone => Nesting'
  BY <1>0, NestingStays
<1>2. steps \in Seq(Step) /\ SameKin(steps)
  BY StepsType DEF IInv, SameKin
<1>3. \A s, x : SameKin(WithStream(steps, s, x)) /\ SameKin(WithStatus(steps, s, x))
  BY <1>2, FieldsKeepKin
<1>4. \A s, x, i : i \in DOMAIN steps => /\ WithStatus(steps, s, x)[i].stream = steps[i].stream
                                         /\ i # s => WithStream(steps, s, x)[i] = steps[i]
                                         /\ WithStream(steps, i, x)[i].stream = x
  <2>1. \A i \in DOMAIN steps : steps[i] \in Step
    BY <1>2
  <2>2. QED
    BY <2>1 DEF WithStatus, WithStream, Step
<1>5. CASE steps' = steps
  BY <1>1, <1>2, <1>5
<1>6. CASE Throw
  <2>1. \/ steps' = steps
        \/ \E s : steps' = WithStream(steps, s, "lost")
        \/ \E s : steps' = WithStatus(steps, s, "CANCELED")
    BY <1>6 DEF Throw, WithStream, WithStatus
  <2>2. CASE \E s : steps' = WithStream(steps, s, "lost")
    <3>1. PICK s : steps' = WithStream(steps, s, "lost")
      BY <2>2
    <3>2. \A i \in DOMAIN steps : steps'[i].stream = "closed" => steps[i].stream = "closed"
      BY <1>4, <3>1
    <3>3. QED
      BY <1>1, <1>3, <3>1, <3>2
  <2>3. CASE \E s : steps' = WithStatus(steps, s, "CANCELED")
    BY <1>1, <1>3, <1>4, <2>3
  <2>4. QED
    BY <1>5, <2>1, <2>2, <2>3
<1>7. ASSUME NEW g \in Greenlets, pc[g] = "running", steps' = Closed(g)
      PROVE  Nesting'
  <2>1. SameKin(steps') /\ \A s \in DOMAIN steps : steps[s].parent => steps'[s] = steps[s]
    BY <1>7, TipKeepsKin, TipIsNoNest
  <2>2. QED
    BY <1>1, <2>1
<1>8. ASSUME NEW g \in Greenlets, Calls(g)
      PROVE  Nesting'
  <2>1. CASE Spawn(g)
    BY <1>7, <2>1 DEF Spawn
  <2>2. ASSUME NEW name \in Names, RunStep(g, name) \/ Nest(g, name)
        PROVE  Nesting'
    BY <1>0, <2>2, OpenKeepsNesting DEF RunStep, Nest
  <2>3. ASSUME NEW h \in Futures, Cancel(g, h)
        PROVE  Nesting'
    BY <1>5, <2>3 DEF Cancel
  <2>4. QED
    BY <1>8, <2>1, <2>2, <2>3 DEF Calls
<1>9. ASSUME NEW g \in Greenlets, Returns(g)
      PROVE  Nesting'
  <2>1. CASE Start(g) \/ Joined(g)
    BY <1>5, <2>1 DEF Start, Joined
  <2>2. CASE FinishClose(g)
    <3>1. PICK x : CloseStep(steps, closing[g]) = WithStream(steps, closing[g], x)
      BY CloseStepIs
    <3>2. pc[g] = "closing" /\ steps' = IF closing[g] = 0 THEN steps ELSE CloseStep(steps, closing[g])
      BY <2>2 DEF FinishClose
    <3>3. CASE closing[g] # 0
      <4>1. steps' = WithStream(steps, closing[g], x) /\ SpawnedUnder(closing[g]) # {}
        BY <3>1, <3>2, <3>3 DEF Nesting, ClosersHaveGreenlets
      <4>2. \A i \in DOMAIN steps : i # closing[g] => steps'[i] = steps[i]
        BY <1>4, <4>1
      <4>3. QED
        BY <1>1, <1>3, <4>1, <4>2
    <3>4. QED
      BY <1>5, <3>2, <3>3
  <2>3. CASE EndOfCode(g)
    BY <1>7, <2>3 DEF EndOfCode
  <2>4. ASSUME NEW status \in Statuses, EndStep(g, status)
        PROVE  Nesting'
    <3>1. steps' = WithStatus(steps, Last(stack[g]), status)
      BY <2>4 DEF EndStep, WithStatus
    <3>2. QED
      BY <1>1, <1>3, <1>4, <3>1
  <2>5. CASE EndNest(g)
    <3>1. PICK a \in Algorithms : LeaveNest(g, StatusFor(Tip(g), a))
      BY <2>5 DEF EndNest
    <3>2. OnlyWorst => a = "worst"
      BY DEF OnlyWorst
    <3>3. StatusFor(Tip(g), a) \in Statuses \cup {"none"}
      BY StatusForType DEF IInv
    <3>4. QED
      BY <1>0, <3>1, <3>2, <3>3, LeaveKeepsNesting
  <2>6. CASE RaiseOutOfNest(g)
    <3>1. PICK status \in Raised : LeaveNest(g, status)
      BY <2>6 DEF RaiseOutOfNest
    <3>2. ~OnlyWorst /\ status \in Statuses
      BY EngineParameters DEF OnlyWorst
    <3>3. QED
      BY <1>0, <3>1, <3>2, LeaveKeepsNesting
  <2>7. QED
    BY <1>9, <2>1, <2>2, <2>3, <2>4, <2>5, <2>6 DEF Returns
<1>10. QED
  BY <1>5, <1>6, <1>8, <1>9 DEF Next, vars

LEMMA NestingInvariant == Spec => [](IInv /\ Nesting)
<1>1. Init => Nesting
  <2>1. Init => steps = <<>> /\ DOMAIN steps = {} /\ base[0] = 0 /\ \A g \in Greenlets : pc[g] # "closing"
    BY EngineParameters DEF Init, Greenlets
  <2>2. QED
    BY <2>1 DEF Nesting, Family, ClosersHaveGreenlets, Settled
<1>2. QED
  BY <1>1, InductiveInvariant, NextKeepsNesting, PTL DEF Spec

(* "It will assume the status of the worst child step"                        *)
(* (recipe_modules/step/api.py:221-222) is true of a nest that is left        *)
(* without an exception and in which no greenlet was spawned.                 *)
WorstWithoutGreenlets ==
  \A s \in DOMAIN steps : steps[s].parent /\ steps[s].stream = "closed" /\ SpawnedUnder(s) = {} =>
    /\ \A c \in Children(s) : steps[c].stream # "open"
    /\ steps[s].status = WorstOf({"SUCCESS"} \cup {steps[c].status : c \in Children(s)})

THEOREM WorstOfChildren == OnlyWorst => (Spec => []WorstWithoutGreenlets)
<1> SUFFICES ASSUME OnlyWorst
             PROVE  Spec => []WorstWithoutGreenlets
  OBVIOUS
<1>1. Nesting => WorstWithoutGreenlets
  BY DEF Nesting, Settled, SettledAt, Kids, WorstWithoutGreenlets, Children
<1>2. QED
  BY <1>1, NestingInvariant, PTL

(* So it is true of every nest of a recipe that spawns no greenlet.           *)
THEOREM NestsOfOneGreenlet ==
  OnlyWorst /\ MaxSpawns = 0 => (Spec => []NestIsWorstOfChildren)
<1> SUFFICES ASSUME OnlyWorst, MaxSpawns = 0
             PROVE  Spec => []NestIsWorstOfChildren
  OBVIOUS
<1>1. \A s : SpawnedUnder(s) = {}
  <2>1. Futures = {}
    BY DEF Futures
  <2>2. QED
    BY <2>1 DEF SpawnedUnder
<1>2. WorstWithoutGreenlets => NestIsWorstOfChildren
  BY <1>1 DEF WorstWithoutGreenlets, NestIsWorstOfChildren
<1>3. QED
  BY <1>2, WorstOfChildren, PTL
-------------------------------------------------------------------------------
(* When the engine does not crash: nothing is cancelled, and either every     *)
(* nest takes the status of its worst child or there are no greenlets.  With  *)
(* "last" the last child may be the nest of another greenlet, still open and  *)
(* without a status.                                                          *)
CrashFree == MaxSpawns = 0 \/ (MaxCancels = 0 /\ Algorithms \subseteq {"worst"})

Fine(x) == x.stream # "lost" /\ (x.stream = "closed" => x.status # "none")

Whole ==
  /\ cancels = 0 /\ throws = <<>>
  /\ \A s \in DOMAIN steps : Fine(steps[s])
  /\ \A g \in Greenlets : pc[g] = "closing" /\ closing[g] # 0 => steps[closing[g]].status # "none"

(* The worst of SUCCESS and other statuses is a status, never none.           *)
LEMMA WorstIsAStatus ==
  ASSUME NEW S \in SUBSET (Statuses \cup {"none"}), "SUCCESS" \in S
  PROVE  WorstOf(S) \in Statuses
<1>1. Badness("none") = 1 /\ Badness("SUCCESS") = 2
  <2>1. DOMAIN RawStatuses = 1..6 /\ RawStatuses[1] = "none" /\ RawStatuses[2] = "SUCCESS"
    BY DEF RawStatuses
  <2>2. \A i \in 1..6 : /\ RawStatuses[i] = "none" => i = 1
                        /\ RawStatuses[i] = "SUCCESS" => i = 2
    <3>1. /\ RawStatuses[3] = "WARNING" /\ RawStatuses[4] = "FAILURE"
          /\ RawStatuses[5] = "EXCEPTION" /\ RawStatuses[6] = "CANCELED"
      BY DEF RawStatuses
    <3>2. \A i \in 1..6 : i \in {1, 2, 3, 4, 5, 6}
      OBVIOUS
    <3>3. QED
      BY <2>1, <3>1, <3>2
  <2>3. 1 \in 1..6 /\ 2 \in 1..6
    OBVIOUS
  <2>4. QED
    BY <2>1, <2>2, <2>3 DEF Badness
<1>2. WorstOf(S) \in S /\ \A b \in S : Badness(b) <= Badness(WorstOf(S))
  BY WorstIsOne
<1>3. WorstOf(S) # "none"
  BY <1>1, <1>2
<1>4. QED
  BY <1>2, <1>3

(* What every action has in common.                                           *)
LEMMA WholeStays ==
  ASSUME IInv, Whole, cancels' = cancels, throws' = throws,
         \A s \in DOMAIN steps : steps'[s].status = "none" => steps[s].status = "none",
         \A s \in DOMAIN steps' : Fine(steps'[s]),
         \A g \in Greenlets : pc'[g] = "closing" /\ closing'[g] # 0 =>
           \/ pc[g] = "closing" /\ closing'[g] = closing[g]
           \/ steps'[closing'[g]].status # "none"
  PROVE  Whole'
<1>1. ASSUME NEW g \in Greenlets, pc'[g] = "closing", closing'[g] # 0
      PROVE  steps'[closing'[g]].status # "none"
  <2>1. CASE pc[g] = "closing" /\ closing'[g] = closing[g]
    BY <1>1, <2>1, ClosingIsOpen DEF Whole
  <2>2. QED
    BY <1>1, <2>1
<1>2. QED
  BY <1>1 DEF Whole, Fine

(* Closing the tip is no danger: a real step always has a status.             *)
LEMMA TipIsFine ==
  ASSUME IInv, Whole, NEW g \in Greenlets, pc[g] = "running"
  PROVE  \A s \in DOMAIN steps : Fine(Closed(g)[s]) /\ Closed(g)[s].status = steps[s].status
<1>1. TipClosed(g, Closed(g), Popped(g))
  BY CloseTip
<1>2. ASSUME NEW s \in DOMAIN steps
      PROVE  Fine(Closed(g)[s])
  <2>1. CASE steps[s].parent
    <3>1. Closed(g)[s] = steps[s]
      BY <2>1, TipIsNoNest
    <3>2. QED
      BY <3>1 DEF Whole
  <2>2. CASE ~steps[s].parent
    <3>1. Closed(g)[s].status # "none"
      BY <1>1, <2>2, ZenonT(30) DEF TipClosed, SameButStream, IInv, TypeOK
    <3>2. Closed(g) = steps \/ Closed(g) = WithStream(steps, Last(stack[g]), "closed")
      BY DEF Closed, WithStream
    <3>3. Closed(g)[s].stream # "lost"
      <4>1. steps[s] \in Step /\ steps[s].stream # "lost"
        BY StepsType DEF IInv, Whole, Fine
      <4>2. CASE Closed(g) = WithStream(steps, Last(stack[g]), "closed") /\ Last(stack[g]) = s
        <5>1. Closed(g)[s].stream = "closed"
          BY <4>1, <4>2 DEF WithStream, Step
        <5>2. QED
          BY <5>1
      <4>3. CASE Closed(g) = WithStream(steps, Last(stack[g]), "closed") /\ Last(stack[g]) # s
        BY <4>1, <4>3 DEF WithStream
      <4>4. QED
        BY <3>2, <4>1, <4>2, <4>3
    <3>4. QED
      BY <3>1, <3>3 DEF Fine
  <2>3. QED
    BY <2>1, <2>2
<1>3. QED
  BY <1>1, <1>2 DEF TipClosed, SameButStream

(* A nest is left with a status.                                              *)
LEMMA EndNestHasStatus ==
  ASSUME CrashFree, IInv, Nesting, Whole, NEW g \in Greenlets, NEW a \in Algorithms,
         LeaveNest(g, StatusFor(Tip(g), a))
  PROVE  StatusFor(Tip(g), a) \in Statuses
<1>1. PICK t : t = Tip(g)
  OBVIOUS
<1>2. pc[g] = "running" /\ Len(Popped(g)) > 1
  BY Zenon DEF LeaveNest
<1>3. \A c \in Children(t) : /\ c \in DOMAIN steps /\ c \in 0..MaxSteps
                             /\ steps[c].status \in Statuses \cup {"none"}
  BY StepsType, EngineParameters DEF Children, Step, IInv
<1>4. CASE a = "last" /\ Children(t) # {}
  <2>1. SpawnedUnder(t) = {}
    <3>1. MaxSpawns = 0
      BY <1>4 DEF CrashFree
    <3>2. QED
      BY <3>1 DEF SpawnedUnder, Futures
  <2>2. \A c \in Children(t) : c \in Kids(steps, t)
    BY DEF Children, Kids
  <2>3. ASSUME NEW c \in Children(t)
        PROVE  steps[c].status # "none"
    <3>1. Closed(g)[c].stream # "open" /\ Closed(g)[c].status = steps[c].status
      BY <1>1, <1>2, <2>1, <2>2, TipKidsOver
    <3>2. Fine(Closed(g)[c])
      BY <1>2, <1>3, TipIsFine
    <3>3. TipClosed(g, Closed(g), Popped(g))
      BY <1>2, CloseTip
    <3>4. Closed(g)[c].stream \in {"open", "closed", "lost"}
      <4>1. Closed(g) \in Seq(Step) /\ Len(Closed(g)) = Len(steps) /\ steps \in Seq(Step)
        BY <3>3, StepsType DEF TipClosed, IInv
      <4> DEFINE q == Closed(g)
      <4> HIDE DEF q
      <4>2. q \in Seq(Step) /\ c \in DOMAIN q => q[c] \in Step
        OBVIOUS
      <4>3. Closed(g)[c] \in Step
        BY <1>3, <4>1, <4>2 DEF q
      <4>4. QED
        BY <4>3 DEF Step
    <3>5. QED
      BY <3>1, <3>2, <3>4 DEF Fine
  <2>4. Max(Children(t)) \in Children(t)
    <3>1. Children(t) \in SUBSET (0..MaxSteps)
      BY <1>3
    <3>2. PICK k \in Children(t) : \A j \in Children(t) : j <= k
      BY <1>4, <3>1, GreatestNatural, EngineParameters
    <3>3. \A j \in Children(t) : k >= j
      BY <1>3, <3>2
    <3>4. QED
      BY <3>3 DEF Max
  <2>5. QED
    BY <1>1, <1>3, <1>4, <2>3, <2>4 DEF StatusFor
<1>5. CASE ~(a = "last" /\ Children(t) # {})
  <2> DEFINE S == {"SUCCESS"} \cup {steps[c].status : c \in Children(t)}
  <2>1. S \in SUBSET (Statuses \cup {"none"}) /\ "SUCCESS" \in S
    BY <1>3, SomeStatuses
  <2>2. WorstOf(S) \in Statuses
    BY <2>1, WorstIsAStatus
  <2>3. QED
    BY <1>1, <1>5, <2>2 DEF StatusFor
<1>6. QED
  BY <1>4, <1>5

(* So its stream is closed.                                                   *)
LEMMA LeaveKeepsWhole ==
  ASSUME IInv, Whole, NEW g \in Greenlets, NEW status \in Statuses, LeaveNest(g, status)
  PROVE  Whole'
<1> DEFINE rr == Closed(g)
<1>1. PICK t : t = Tip(g)
  OBVIOUS
<1> DEFINE ss == WithStatus(rr, t, status)
<1>2. /\ pc[g] = "running" /\ cancels' = cancels /\ throws' = throws
      /\ \/ steps' = CloseStep(ss, t) /\ pc' = pc /\ closing' = closing
         \/ /\ steps' = ss /\ pc' = [pc EXCEPT ![g] = "closing"]
            /\ closing' = [closing EXCEPT ![g] = t]
  BY <1>1, Zenon DEF LeaveNest, WithStatus
<1>3. /\ rr \in Seq(Step) /\ SameKin(rr)
      /\ \A s \in DOMAIN steps : Fine(rr[s]) /\ rr[s].status = steps[s].status
  BY <1>2, CloseTip, TipKeepsKin, TipIsFine DEF TipClosed
<1>4. DOMAIN rr = DOMAIN steps /\ \A s \in DOMAIN rr : rr[s] \in Step
  BY <1>3 DEF SameKin
<1> HIDE DEF rr
<1>5. /\ DOMAIN ss = DOMAIN steps
      /\ \A s \in DOMAIN steps : /\ ss[s].status = IF s = t THEN status ELSE rr[s].status
                                 /\ ss[s].stream = rr[s].stream
  BY <1>4 DEF WithStatus, Step
<1>6. status # "none" /\ status \in Statuses \cup {"none"}
  BY SomeStatuses
<1>7. \A s \in DOMAIN steps : /\ ss[s].status = "none" => steps[s].status = "none"
                              /\ Fine(ss[s])
  BY <1>3, <1>5, <1>6 DEF Fine
<1>8. t \in DOMAIN steps => ss[t].status # "none"
  BY <1>5, <1>6
<1>9. pc \in [Greenlets -> PC] /\ closing \in [Greenlets -> 0..MaxSteps]
  BY DEF IInv, TypeOK
<1>10. \A s \in DOMAIN steps : s \in DOMAIN ss /\ ss[s].stream \in {"open", "closed", "lost"}
  BY <1>4, <1>5 DEF Step
<1>11. t \in DOMAIN steps
  <2>1. t = Popped(g)[Len(Popped(g))] /\ TipClosed(g, Closed(g), Popped(g)) /\ Len(Popped(g)) > 1
    BY <1>1, <1>2, CloseTip, Zenon DEF LeaveNest
  <2>2. PICK n \in Nat : n = Len(Popped(g))
    BY <2>1 DEF TipClosed
  <2>3. n \in 2..n
    BY <2>1, <2>2
  <2>4. QED
    BY <1>4, <2>1, <2>2, <2>3 DEF TipClosed, StackOK, rr
<1>12. CASE steps' = CloseStep(ss, t) /\ pc' = pc /\ closing' = closing
  <2>1. steps' = WithStream(ss, t, "closed")
    BY <1>8, <1>11, <1>12 DEF CloseStep, WithStream
  <2>2. ss \in Seq(Step)
    BY <1>3, <1>4, <1>6, <1>11, SetStatus
  <2> HIDE DEF ss
  <2>3. \A s \in DOMAIN ss : ss[s] \in Step
    BY <2>2
  <2>4. /\ DOMAIN steps' = DOMAIN steps
        /\ \A s \in DOMAIN steps : /\ steps'[s].status = ss[s].status
                                   /\ steps'[s].stream = IF s = t THEN "closed" ELSE ss[s].stream
    BY <1>5, <2>1, <2>3 DEF WithStream, Step
  <2>5. \A s \in DOMAIN steps' : Fine(steps'[s])
    BY <1>7, <1>8, <2>4 DEF Fine
  <2>6. QED
    BY <1>2, <1>7, <1>12, <2>4, <2>5, WholeStays
<1>13. CASE /\ steps' = ss /\ pc' = [pc EXCEPT ![g] = "closing"]
            /\ closing' = [closing EXCEPT ![g] = t]
  <2>1. \A f \in Greenlets : f # g => pc'[f] = pc[f] /\ closing'[f] = closing[f]
    BY <1>9, <1>13
  <2>2. closing'[g] = t
    BY <1>9, <1>13
  <2> HIDE DEF ss
  <2>3. \A s \in DOMAIN steps' : Fine(steps'[s])
    BY <1>5, <1>7, <1>13
  <2>4. QED
    BY <1>2, <1>7, <1>8, <1>11, <1>13, <2>1, <2>2, <2>3, WholeStays
<1>14. QED
  BY <1>2, <1>12, <1>13
-------------------------------------------------------------------------------
(* A step that is opened is neither closed nor lost.                          *)
LEMMA OpenKeepsWhole ==
  ASSUME IInv, Whole, NEW g \in Greenlets, NEW name, NEW parent, NEW status,
         Open(g, name, parent, status), pc' = [pc EXCEPT ![g] = "inStep"] \/ pc' = pc
  PROVE  Whole'
<1> DEFINE q == Closed(g)
<1>1. PICK x : /\ steps' = Append(q, x) /\ pc[g] = "running" /\ x.stream = "open"
               /\ closing' = closing /\ cancels' = cancels /\ throws' = throws
  <2> DEFINE y == [owner |-> g, under |-> Tip(g), parent |-> parent, asked |-> name,
                   tokens |-> NameTokens(TokensOf(Tip(g)), name),
                   stream |-> "open", status |-> status]
  <2>1. /\ steps' = Append(q, y) /\ pc[g] = "running"
        /\ closing' = closing /\ cancels' = cancels /\ throws' = throws
    BY DEF Open
  <2>2. y.stream = "open"
    OBVIOUS
  <2> HIDE DEF y, q
  <2>3. QED
    BY <2>1, <2>2
<1>2. /\ q \in Seq(Step) /\ Len(q) = Len(steps)
      /\ \A s \in DOMAIN steps : Fine(q[s]) /\ q[s].status = steps[s].status
  BY <1>1, CloseTip, TipIsFine DEF TipClosed
<1> HIDE DEF q
<1>3. PICK m \in Nat : m = Len(steps) /\ DOMAIN steps = 1..m
  BY StepsType DEF IInv
<1>4. DOMAIN steps' = 1..(m + 1) /\ steps'[m + 1] = x /\ \A i \in 1..m : steps'[i] = q[i]
  BY <1>1, <1>2, <1>3
<1>5. \A i \in 1..(m + 1) : i = m + 1 \/ i \in 1..m
  OBVIOUS
<1>6. Fine(x)
  BY <1>1 DEF Fine
<1>7. \A s \in DOMAIN steps' : Fine(steps'[s])
  BY <1>2, <1>3, <1>4, <1>5, <1>6
<1>8. \A s \in DOMAIN steps : steps'[s].status = "none" => steps[s].status = "none"
  BY <1>2, <1>3, <1>4
<1>9. \A f \in Greenlets : pc'[f] = "closing" => pc[f] = "closing"
  BY DEF IInv, TypeOK
<1>10. QED
  BY <1>1, <1>7, <1>8, <1>9, WholeStays

(* Nothing is cancelled, so nothing is thrown.                                *)
LEMMA NextKeepsWhole ==
  ASSUME CrashFree, IInv, Nesting, Whole, [Next]_vars
  PROVE  Whole'
<1>0. pc \in [Greenlets -> PC] /\ closing \in [Greenlets -> 0..MaxSteps]
  BY DEF IInv, TypeOK
<1> DEFINE NoCloser == \A g \in Greenlets : pc'[g] = "closing" /\ closing'[g] # 0 =>
                         pc[g] = "closing" /\ closing'[g] = closing[g]
<1>1. ASSUME steps' = steps, cancels' = cancels, throws' = throws, NoCloser
      PROVE  Whole'
  BY <1>1, WholeStays DEF Whole
<1>2. ~Throw
  BY DEF Throw, Whole
<1>3. ASSUME NEW g \in Greenlets, pc[g] = "running", steps' = Closed(g), cancels' = cancels,
             throws' = throws, NoCloser
      PROVE  Whole'
  <2>1. \A s \in DOMAIN steps : Fine(steps'[s]) /\ steps'[s].status = steps[s].status
    BY <1>3, TipIsFine
  <2>2. DOMAIN steps' = DOMAIN steps
    BY <1>3, TipKeepsKin DEF SameKin
  <2>3. QED
    BY <1>3, <2>1, <2>2, WholeStays
<1>4. ASSUME NEW g \in Greenlets, Calls(g)
      PROVE  Whole'
  <2>1. CASE Spawn(g)
    <3>1. PICK h \in Futures :
            /\ pc[g] = "running" /\ steps' = Closed(g) /\ pc' = [pc EXCEPT ![h] = "spawned"]
            /\ closing' = closing /\ cancels' = cancels /\ throws' = throws
      BY <2>1 DEF Spawn
    <3>2. NoCloser
      BY <1>0, <3>1
    <3>3. QED
      BY <1>3, <3>1, <3>2
  <2>2. ASSUME NEW name \in Names, RunStep(g, name) \/ Nest(g, name)
        PROVE  Whole'
    BY <2>2, OpenKeepsWhole DEF RunStep, Nest
  <2>3. ASSUME NEW h \in Futures
        PROVE  ~Cancel(g, h)
    <3>1. CASE MaxSpawns = 0
      BY <3>1 DEF Futures
    <3>2. CASE MaxCancels = 0
      BY <3>2 DEF Cancel, Whole
    <3>3. QED
      BY <3>1, <3>2 DEF CrashFree
  <2>4. QED
    BY <1>4, <2>1, <2>2, <2>3 DEF Calls
<1>5. ASSUME NEW g \in Greenlets, Returns(g)
      PROVE  Whole'
  <2>1. CASE Start(g) \/ Joined(g)
    <3>1. /\ pc' = [pc EXCEPT ![g] = "running"] /\ closing' = closing
          /\ steps' = steps /\ cancels' = cancels /\ throws' = throws
      BY <2>1 DEF Start, Joined
    <3>2. NoCloser
      BY <1>0, <3>1
    <3>3. QED
      BY <1>1, <3>1, <3>2
  <2>2. CASE FinishClose(g)
    <3>1. PICK s : s = closing[g]
      OBVIOUS
    <3>2. /\ pc[g] = "closing" /\ steps' = IF s = 0 THEN steps ELSE CloseStep(steps, s)
          /\ pc' = [pc EXCEPT ![g] = IF s = 0 THEN "dead" ELSE "running"]
          /\ closing' = [closing EXCEPT ![g] = 0]
          /\ cancels' = cancels /\ throws' = throws
      BY <2>2, <3>1 DEF FinishClose
    <3>3. NoCloser
      BY <1>0, <3>2
    <3>4. CASE s # 0
      <4>1. s \in DOMAIN steps /\ steps[s].status # "none"
        BY <3>1, <3>2, <3>4, ClosingIsOpen DEF Whole
      <4>2. steps' = WithStream(steps, s, "closed")
        BY <3>2, <3>4, <4>1 DEF CloseStep, WithStream
      <4>3. \A i \in DOMAIN steps : steps[i] \in Step
        BY StepsType DEF IInv
      <4>4. /\ DOMAIN steps' = DOMAIN steps
            /\ \A i \in DOMAIN steps : /\ steps'[i].status = steps[i].status
                                       /\ steps'[i].stream = IF i = s THEN "closed" ELSE steps[i].stream
        BY <4>2, <4>3 DEF WithStream, Step
      <4>5. \A i \in DOMAIN steps' : Fine(steps'[i])
        BY <4>1, <4>4 DEF Whole, Fine
      <4>6. QED
        BY <3>2, <3>3, <4>4, <4>5, WholeStays
    <3>5. QED
      BY <1>1, <3>2, <3>3, <3>4
  <2>3. CASE EndOfCode(g)
    <3>1. /\ pc[g] = "running" /\ steps' = Closed(g) /\ closing' = closing
          /\ \/ pc' = [pc EXCEPT ![0] = "closing"] /\ g = 0
             \/ pc' = [pc EXCEPT ![g] = "dead"]
          /\ cancels' = cancels /\ throws' = throws
      BY <2>3 DEF EndOfCode
    <3>2. closing[g] = 0
      BY <3>1, Idle
    <3>3. NoCloser
      BY <1>0, <3>1, <3>2
    <3>4. QED
      BY <1>3, <3>1, <3>3
  <2>4. ASSUME NEW status \in Statuses, EndStep(g, status)
        PROVE  Whole'
    <3>1. PICK s : s = Last(stack[g])
      OBVIOUS
    <3>2. /\ pc[g] \in {"inStep", "stopping"} /\ steps' = WithStatus(steps, s, status)
          /\ pc' = [pc EXCEPT ![g] = "running"] /\ closing' = closing
          /\ cancels' = cancels /\ throws' = throws
      BY <2>4, <3>1 DEF EndStep, WithStatus
    <3>3. \A i \in DOMAIN steps : steps[i] \in Step
      BY StepsType DEF IInv
    <3>4. /\ DOMAIN steps' = DOMAIN steps
          /\ \A i \in DOMAIN steps : /\ steps'[i].status = IF i = s THEN status ELSE steps[i].status
                                     /\ steps'[i].stream = steps[i].stream
      BY <3>2, <3>3 DEF WithStatus, Step
    <3>5. status # "none"
      BY SomeStatuses
    <3>6. \A i \in DOMAIN steps' : Fine(steps'[i])
      BY <3>4, <3>5 DEF Whole, Fine
    <3>7. NoCloser
      BY <1>0, <3>2
    <3>8. QED
      BY <3>2, <3>4, <3>5, <3>6, <3>7, WholeStays
  <2>5. CASE EndNest(g)
    <3>1. PICK a \in Algorithms : LeaveNest(g, StatusFor(Tip(g), a))
      BY <2>5 DEF EndNest
    <3>2. QED
      BY <3>1, EndNestHasStatus, LeaveKeepsWhole
  <2>6. CASE RaiseOutOfNest(g)
    <3>1. PICK status \in Raised : LeaveNest(g, status)
      BY <2>6 DEF RaiseOutOfNest
    <3>2. QED
      BY <3>1, EngineParameters, LeaveKeepsWhole
  <2>7. QED
    BY <1>5, <2>1, <2>2, <2>3, <2>4, <2>5, <2>6 DEF Returns
<1>6. CASE UNCHANGED vars
  BY <1>1, <1>6 DEF vars
<1>7. QED
  BY <1>2, <1>4, <1>5, <1>6 DEF Next

(* The engine raises CrashEngine only "when the user-provided functions raise *)
(* an exception" (exceptions.py:64-65), of which the model has none, if       *)
(* nothing is cancelled and no nest takes the status of its last child, or if *)
(* there is but one greenlet: then every stream is closed, and every closed   *)
(* step has a status.                                                         *)
THEOREM NoCrash == CrashFree => (Spec => []EngineDoesNotCrash)
<1> SUFFICES ASSUME CrashFree
             PROVE  Spec => []EngineDoesNotCrash
  OBVIOUS
<1>1. Init => Whole
  <2>1. Init => /\ steps = <<>> /\ DOMAIN steps = {} /\ cancels = 0 /\ throws = <<>>
                /\ \A g \in Greenlets : pc[g] # "closing"
    BY EngineParameters DEF Init, Greenlets
  <2>2. QED
    BY <2>1 DEF Whole
<1>2. Whole => EngineDoesNotCrash
  BY DEF Whole, Fine, EngineDoesNotCrash
<1>3. IInv /\ Nesting /\ Whole /\ [Next]_vars => Whole'
  BY NextKeepsWhole
<1>4. QED
  BY <1>1, <1>2, <1>3, NestingInvariant, PTL DEF Spec
-------------------------------------------------------------------------------
(* The leaks.  A stream is lost by a nest that is left without a status, or   *)
(* by a GreenletExit in close(): then others were spawned under the nest, and *)
(* stay so, and it was a future that was killed.                              *)
LeakOf(s) == steps[s].parent /\ (steps[s].status = "none" \/ KilledInClose(s))

Explained ==
  /\ throws # <<>> => cancels > 0
  /\ \A s \in DOMAIN steps : steps[s].stream = "lost" => LeakOf(s)

(* Among the steps tt, those that are lost were lost before, or have no status. *)
NoKill(tt) ==
  \A s \in DOMAIN tt : tt[s].stream = "lost" =>
    (s \in DOMAIN steps /\ steps[s].stream = "lost") \/ (tt[s].parent /\ tt[s].status = "none")

(* Closing the tip loses no stream.                                           *)
LEMMA TipLosesNothing ==
  ASSUME IInv, NEW g \in Greenlets, pc[g] = "running"
  PROVE  /\ \A s \in DOMAIN Closed(g) : Closed(g)[s].stream = "lost" =>
              s \in DOMAIN steps /\ steps[s].stream = "lost"
         /\ NoKill(Closed(g))
<1>1. \A s \in DOMAIN steps : steps[s] \in Step
  BY StepsType DEF IInv
<1>2. Closed(g) = steps \/ Closed(g) = WithStream(steps, Last(stack[g]), "closed")
  BY DEF Closed, WithStream
<1>3. \A s \in DOMAIN Closed(g) : Closed(g)[s].stream = "lost" =>
        s \in DOMAIN steps /\ steps[s].stream = "lost"
  BY <1>1, <1>2 DEF WithStream, Step
<1>4. QED
  BY <1>3 DEF NoKill

(* Nor does another status; another stream, if it is lost with no status.     *)
LEMMA FieldsLose ==
  ASSUME NEW ss, \A i \in DOMAIN ss : ss[i] \in Step,
         \A i \in DOMAIN ss : ss[i].stream = "lost" =>
           i \in DOMAIN steps /\ steps[i].stream = "lost",
         NEW s \in DOMAIN ss, NEW x, NEW y, y = "lost" => ss[s].parent /\ ss[s].status = "none"
  PROVE  /\ \A i \in DOMAIN WithStatus(ss, s, x) : WithStatus(ss, s, x)[i].stream = "lost" =>
              i \in DOMAIN steps /\ steps[i].stream = "lost"
         /\ NoKill(WithStatus(ss, s, x)) /\ NoKill(WithStream(ss, s, y))
<1>1. \A i \in DOMAIN ss : /\ WithStatus(ss, s, x)[i].stream = ss[i].stream
                           /\ WithStream(ss, s, y)[i].stream = IF i = s THEN y ELSE ss[i].stream
                           /\ WithStream(ss, s, y)[i].parent = ss[i].parent
                           /\ WithStream(ss, s, y)[i].status = ss[i].status
  BY DEF WithStatus, WithStream, Step
<1>2. DOMAIN WithStatus(ss, s, x) = DOMAIN ss /\ DOMAIN WithStream(ss, s, y) = DOMAIN ss
  BY DEF WithStatus, WithStream
<1>3. QED
  BY <1>1, <1>2, Zenon DEF NoKill

(* Closing a nest loses its stream if it has no status, only.                 *)
LEMMA CloseLoses ==
  ASSUME NEW ss, \A i \in DOMAIN ss : ss[i] \in Step,
         \A i \in DOMAIN ss : ss[i].stream = "lost" =>
           i \in DOMAIN steps /\ steps[i].stream = "lost",
         NEW s \in DOMAIN ss, ss[s].parent
  PROVE  NoKill(CloseStep(ss, s))
<1>1. CASE ss[s].status = "none"
  <2>1. CloseStep(ss, s) = WithStream(ss, s, "lost")
    BY <1>1 DEF CloseStep, WithStream
  <2>2. QED
    BY <1>1, <2>1, FieldsLose
<1>2. CASE ss[s].status # "none"
  <2>1. CloseStep(ss, s) = WithStream(ss, s, "closed")
    BY <1>2 DEF CloseStep, WithStream
  <2>2. "closed" # "lost"
    OBVIOUS
  <2>3. QED
    BY <2>1, <2>2, FieldsLose
<1>3. QED
  BY <1>1, <1>2

(* Leaving a nest.                                                            *)
LEMMA LeaveLoses ==
  ASSUME IInv, NEW g \in Greenlets, NEW status \in Statuses \cup {"none"}, LeaveNest(g, status)
  PROVE  NoKill(steps')
<1> DEFINE rr == Closed(g)
<1>1. PICK s : s = Tip(g)
  OBVIOUS
<1> DEFINE ss == WithStatus(rr, s, status)
<1>2. /\ pc[g] = "running" /\ Len(Popped(g)) > 1
      /\ steps' = CloseStep(ss, s) \/ steps' = ss
  BY <1>1, Zenon DEF LeaveNest, WithStatus
<1>3. TipClosed(g, rr, Popped(g)) /\ s = Popped(g)[Len(Popped(g))] /\ steps \in Seq(Step)
  BY <1>1, <1>2, CloseTip, StepsType DEF IInv
<1>4. \A i \in DOMAIN rr : rr[i].stream = "lost" => i \in DOMAIN steps /\ steps[i].stream = "lost"
  BY <1>2, TipLosesNothing
<1> HIDE DEF rr
<1>5. rr \in Seq(Step) /\ \A i \in DOMAIN rr : rr[i] \in Step
  BY <1>3 DEF TipClosed
<1>6. s \in DOMAIN rr /\ rr[s].parent
  <2>1. PICK n \in Nat : n = Len(Popped(g))
    BY <1>3 DEF TipClosed
  <2>2. n \in 2..n
    BY <1>2, <2>1
  <2>3. QED
    BY <1>3, <2>1, <2>2 DEF TipClosed, StackOK
<1>7. ss \in Seq(Step) /\ s \in DOMAIN ss /\ ss[s].parent
  BY <1>5, <1>6, SetStatus DEF SameButStatus
<1>8. "closed" # "lost"
  OBVIOUS
<1>9. /\ \A i \in DOMAIN ss : ss[i].stream = "lost" => i \in DOMAIN steps /\ steps[i].stream = "lost"
      /\ NoKill(ss)
  BY <1>4, <1>5, <1>6, <1>8, FieldsLose
<1> HIDE DEF ss
<1>10. \A i \in DOMAIN ss : ss[i] \in Step
  BY <1>7
<1>11. NoKill(CloseStep(ss, s))
  BY <1>7, <1>9, <1>10, CloseLoses
<1>12. QED
  BY <1>2, <1>9, <1>11

(* The end of close().                                                        *)
LEMMA FinishLoses ==
  ASSUME IInv, NEW g \in Greenlets, FinishClose(g)
  PROVE  NoKill(steps')
<1>1. CASE closing[g] = 0
  BY <1>1 DEF FinishClose, NoKill
<1>2. CASE closing[g] # 0
  <2>1. pc[g] = "closing" /\ steps' = CloseStep(steps, closing[g])
    BY <1>2 DEF FinishClose
  <2>2. closing[g] \in DOMAIN steps /\ steps[closing[g]].parent
    <3>1. Place(steps, stack[g], base[g], "closing", closing[g], g)
      BY <2>1 DEF IInv, Places
    <3>2. QED
      BY <1>2, <3>1 DEF Place
  <2>3. \A i \in DOMAIN steps : steps[i] \in Step
    BY StepsType DEF IInv
  <2>4. QED
    BY <2>1, <2>2, <2>3, CloseLoses
<1>3. QED
  BY <1>1, <1>2

(* A step that is opened is open.                                             *)
LEMMA OpenLoses ==
  ASSUME IInv, NEW g \in Greenlets, NEW name, NEW parent, NEW status,
         Open(g, name, parent, status)
  PROVE  NoKill(steps')
<1> DEFINE q == Closed(g)
<1>1. PICK x : steps' = Append(q, x) /\ pc[g] = "running" /\ x.stream = "open"
  BY DEF Open
<1>2. q \in Seq(Step) /\ NoKill(q)
  BY <1>1, CloseTip, TipLosesNothing DEF TipClosed
<1> HIDE DEF q
<1>3. PICK n \in Nat : n = Len(q)
  BY <1>2
<1>4. /\ DOMAIN steps' = 1..(n + 1) /\ steps'[n + 1] = x
      /\ DOMAIN q = 1..n /\ \A i \in 1..n : steps'[i] = q[i]
  BY <1>1, <1>2, <1>3
<1>5. \A i \in 1..(n + 1) : i \in 1..n \/ i = n + 1
  OBVIOUS
<1>6. QED
  BY <1>1, <1>2, <1>4, <1>5 DEF NoKill

(* What a GreenletExit loses is a nest whose future was killed in close().    *)
LEMMA ThrowLoses ==
  ASSUME IInv, Nesting, Throw
  PROVE  \/ NoKill(steps')
         \/ \E s \in DOMAIN steps :
              /\ steps' = WithStream(steps, s, "lost") /\ steps[s].parent
              /\ steps[s].owner # 0 /\ SpawnedUnder(s) # {}
<1> DEFINE g == Head(throws)
           c == closing[g]
<1>1. /\ throws # <<>>
      /\ \/ steps' = steps
         \/ pc[g] = "closing" /\ steps' = WithStream(steps, c, "lost")
         \/ pc[g] = "stopping" /\ steps' = WithStatus(steps, Last(stack[g]), "CANCELED")
  BY DEF Throw, WithStream, WithStatus
<1>2. g \in Greenlets /\ g # 0
  <2>1. throws \in Seq(Futures)
    BY DEF IInv, TypeOK
  <2>2. 1 \in DOMAIN throws /\ g = throws[1]
    BY <1>1, <2>1
  <2>3. QED
    BY <2>2, ThrowsType DEF IInv
<1> HIDE DEF g
<1>3. CASE pc[g] = "closing" /\ steps' = WithStream(steps, c, "lost")
  <2>1. Place(steps, stack[g], base[g], "closing", c, g)
    BY <1>2, <1>3 DEF IInv, Places
  <2>2. c # 0 /\ c \in DOMAIN steps /\ steps[c].owner = g /\ steps[c].parent
    BY <1>2, <2>1 DEF Place
  <2>3. SpawnedUnder(c) # {}
    BY <1>2, <1>3, <2>2 DEF Nesting, ClosersHaveGreenlets
  <2>4. QED
    BY <1>2, <1>3, <2>2, <2>3
<1>4. CASE pc[g] = "stopping" /\ steps' = WithStatus(steps, Last(stack[g]), "CANCELED")
  <2>1. Last(stack[g]) \in DOMAIN steps /\ \A i \in DOMAIN steps : steps[i] \in Step
    BY <1>2, <1>4, TipOfRunStep, StepsType DEF IInv
  <2>2. "closed" # "lost"
    OBVIOUS
  <2>3. QED
    BY <1>4, <2>1, <2>2, FieldsLose
<1>5. CASE steps' = steps
  BY <1>5 DEF NoKill
<1>6. QED
  BY <1>1, <1>3, <1>4, <1>5

(* No other step of the engine loses a stream that has a status.              *)
LEMMA OthersLose ==
  ASSUME IInv, [Next]_vars, ~Throw
  PROVE  NoKill(steps')
<1>1. CASE UNCHANGED vars
  BY <1>1 DEF vars, NoKill
<1>2. ASSUME NEW g \in Greenlets, Calls(g)
      PROVE  NoKill(steps')
  <2>1. CASE Spawn(g)
    <3>1. steps' = Closed(g) /\ pc[g] = "running"
      BY <2>1 DEF Spawn
    <3>2. QED
      BY <3>1, TipLosesNothing
  <2>2. ASSUME NEW name \in Names, RunStep(g, name) \/ Nest(g, name)
        PROVE  NoKill(steps')
    BY <2>2, OpenLoses DEF RunStep, Nest
  <2>3. ASSUME NEW h \in Futures, Cancel(g, h)
        PROVE  NoKill(steps')
    BY <2>3 DEF Cancel, NoKill
  <2>4. QED
    BY <1>2, <2>1, <2>2, <2>3 DEF Calls
<1>3. ASSUME NEW g \in Greenlets, Returns(g)
      PROVE  NoKill(steps')
  <2>1. CASE Start(g) \/ Joined(g)
    BY <2>1 DEF Start, Joined, NoKill
  <2>2. CASE FinishClose(g)
    BY <2>2, FinishLoses
  <2>3. CASE EndOfCode(g)
    <3>1. steps' = Closed(g) /\ pc[g] = "running"
      BY <2>3 DEF EndOfCode
    <3>2. QED
      BY <3>1, TipLosesNothing
  <2>4. ASSUME NEW status \in Statuses, EndStep(g, status)
        PROVE  NoKill(steps')
    <3>1. /\ pc[g] \in {"inStep", "stopping"}
          /\ steps' = WithStatus(steps, Last(stack[g]), status)
      BY <2>4 DEF EndStep, WithStatus
    <3>2. Last(stack[g]) \in DOMAIN steps /\ \A i \in DOMAIN steps : steps[i] \in Step
      BY <3>1, TipOfRunStep, StepsType DEF IInv
    <3>3. "closed" # "lost"
      OBVIOUS
    <3>4. QED
      BY <3>1, <3>2, <3>3, FieldsLose
  <2>5. CASE EndNest(g) \/ RaiseOutOfNest(g)
    <3>1. \A a : StatusFor(Tip(g), a) \in Statuses \cup {"none"}
      BY StatusForType DEF IInv
    <3>2. Raised \subseteq Statuses
      BY EngineParameters
    <3>3. QED
      BY <2>5, <3>1, <3>2, LeaveLoses DEF EndNest, RaiseOutOfNest
  <2>6. QED
    BY <1>3, <2>1, <2>2, <2>3, <2>4, <2>5 DEF Returns
<1>4. QED
  BY <1>1, <1>2, <1>3 DEF Next

(* Cancellations are counted, and GreenletExits come of them.                 *)
LEMMA CancelsAreCounted ==
  ASSUME IInv, throws # <<>> => cancels > 0, [Next]_vars
  PROVE  /\ cancels > 0 => cancels' > 0
         /\ throws' # <<>> => cancels' > 0
<1>1. cancels \in Nat /\ throws \in Seq(Futures)
  BY DEF IInv, TypeOK
<1>2. CASE cancels' = cancels /\ throws' = throws
  BY <1>2
<1>3. CASE cancels' = cancels + 1
  BY <1>1, <1>3
<1>4. CASE Throw
  <2>1. throws # <<>> /\ cancels' = cancels
    BY <1>4, Zenon DEF Throw
  <2>2. QED
    BY <2>1
<1>5. UNCHANGED vars => cancels' = cancels /\ throws' = throws
  BY DEF vars
<1>6. ASSUME NEW g \in Greenlets, Calls(g)
      PROVE  (cancels' = cancels /\ throws' = throws) \/ cancels' = cancels + 1
  BY <1>6, Zenon DEF Calls, Spawn, RunStep, Nest, Open, Cancel
<1>7. ASSUME NEW g \in Greenlets, Returns(g)
      PROVE  cancels' = cancels /\ throws' = throws
  BY <1>7, Zenon DEF Returns, Start, FinishClose, Joined, EndStep, EndNest, RaiseOutOfNest,
                     LeaveNest, EndOfCode
<1>8. QED
  BY <1>2, <1>3, <1>4, <1>5, <1>6, <1>7, Zenon DEF Next

(* So a lost stream stays explained.                                          *)
LEMMA NextKeepsExplained == IInv /\ Nesting /\ Explained /\ [Next]_vars => Explained'
<1> SUFFICES ASSUME IInv, Nesting, Explained, [Next]_vars
             PROVE  Explained'
  OBVIOUS
<1>1. Keeps(steps') /\ Grown
  BY NextKeepsFinal, NextGrows
<1>2. \A s : SpawnedUnder(s) \subseteq SpawnedUnder(s)'
  BY <1>1, SpawnedStay
<1>3. /\ cancels > 0 => cancels' > 0
      /\ throws' # <<>> => cancels' > 0
  BY CancelsAreCounted DEF Explained
<1>4. ASSUME NEW s \in DOMAIN steps, steps[s].stream = "lost"
      PROVE  LeakOf(s)'
  <2>1. LeakOf(s) /\ steps'[s] = steps[s]
    BY <1>1, <1>4 DEF Explained, Keeps
  <2>2. KilledInClose(s) => KilledInClose(s)'
    BY <1>2, <1>3, <2>1 DEF KilledInClose
  <2>3. QED
    BY <2>1, <2>2 DEF LeakOf
<1>5. CASE NoKill(steps')
  BY <1>3, <1>4, <1>5 DEF Explained, NoKill, LeakOf
<1>6. CASE Throw /\ ~NoKill(steps')
  <2>1. PICK s \in DOMAIN steps :
          /\ steps' = WithStream(steps, s, "lost") /\ steps[s].parent
          /\ steps[s].owner # 0 /\ SpawnedUnder(s) # {}
    BY <1>6, ThrowLoses
  <2>2. \A i \in DOMAIN steps : steps[i] \in Step
    BY StepsType DEF IInv
  <2>3. /\ DOMAIN steps' = DOMAIN steps
        /\ \A i \in DOMAIN steps : i # s => steps'[i] = steps[i]
        /\ steps'[s].parent = steps[s].parent /\ steps'[s].owner = steps[s].owner
    BY <2>1, <2>2 DEF WithStream, Step
  <2>4. cancels' > 0
    <3>1. throws # <<>>
      BY <1>6 DEF Throw
    <3>2. QED
      BY <1>3, <3>1 DEF Explained
  <2>5. LeakOf(s)'
    BY <1>2, <2>1, <2>3, <2>4 DEF LeakOf, KilledInClose
  <2>6. QED
    BY <1>3, <1>4, <2>3, <2>5 DEF Explained
<1>7. QED
  BY <1>5, <1>6, OthersLose

(* Whatever is killed and whenever, the stream of a real step is closed by    *)
(* its owner, and that of a nest too unless it was left without a status or   *)
(* its owner was killed while he waited for its greenlets (engine.py:370).    *)
THEOREM LeaksAreKnown == Spec => []OnlyKnownLeaks
<1>1. Init => Explained
  <2>1. Init => steps = <<>> /\ DOMAIN steps = {} /\ throws = <<>>
    BY DEF Init
  <2>2. QED
    BY <2>1 DEF Explained
<1>2. IInv /\ Explained => OnlyKnownLeaks
  <2> SUFFICES ASSUME IInv, Explained, NEW s \in DOMAIN steps, steps[s].stream # "closed"
               PROVE  \/ Owned(s)
                      \/ /\ steps[s].stream = "lost" /\ steps[s].parent
                         /\ steps[s].status = "none" \/ KilledInClose(s)
    BY DEF OnlyKnownLeaks
  <2>1. steps[s].stream \in {"open", "closed", "lost"}
    BY StepsType DEF IInv, Step
  <2>2. CASE steps[s].stream = "open"
    BY <2>2, OpenIsOwned
  <2>3. CASE steps[s].stream = "lost"
    BY <2>3 DEF Explained, LeakOf
  <2>4. QED
    BY <2>1, <2>2, <2>3
<1>3. QED
  BY <1>1, <1>2, NextKeepsExplained, NestingInvariant, PTL DEF Spec

(* "When we pop from this stack, we close the corresponding step stream"      *)
(* (engine.py:167-168) is true where the engine does not crash.               *)
THEOREM NothingLeaks == CrashFree => (Spec => []PoppedStreamsAreClosed)
<1> SUFFICES ASSUME CrashFree
             PROVE  Spec => []PoppedStreamsAreClosed
  OBVIOUS
<1>1. OnlyKnownLeaks /\ EngineDoesNotCrash => PoppedStreamsAreClosed
  BY DEF OnlyKnownLeaks, EngineDoesNotCrash, PoppedStreamsAreClosed
<1>2. QED
  BY <1>1, LeaksAreKnown, NoCrash, PTL
-------------------------------------------------------------------------------
(* How much is left to do: the steps, cancellations and exceptions to come,    *)
(* the nests each greenlet has to leave, and how far it is in what it does.    *)
PlaceLeft(p, s) ==
  CASE p = "unborn" -> 4 [] p = "dead" -> 0 [] p = "running" -> 2
    [] p = "closing" /\ s = 0 -> 1
    [] OTHER -> 3

CodeLeft(g) == PlaceLeft(pc[g], closing[g]) + 3 * Len(stack[g])

AllCodeLeft == Sum([i \in 1..(MaxSpawns + 1) |-> CodeLeft(i - 1)], MaxSpawns + 1)

WorkLeft ==
  10 * (MaxSteps - Len(steps)) + 5 * (MaxCancels - cancels) + 3 * Len(throws) + AllCodeLeft

(* Every step of the specification leaves less to do.                          *)
WorkRunsOut == [][WorkLeft' \in Nat /\ WorkLeft' < WorkLeft]_vars

Bounded == TypeOK /\ cancels <= MaxCancels

(* The bound of the cancellations is kept.                                     *)
LEMMA BoundedHolds == Spec => []Bounded
<1>1. TypeOK /\ Init => Bounded
  BY EngineParameters DEF Init, Bounded
<1>2. Bounded /\ TypeOK' /\ [Next]_vars => Bounded'
  <2> SUFFICES ASSUME Bounded, TypeOK', [Next]_vars
               PROVE  cancels' <= MaxCancels
    BY DEF Bounded
  <2>1. cancels \in Nat /\ cancels <= MaxCancels
    BY DEF Bounded, TypeOK
  <2>2. \/ cancels' = cancels
        \/ cancels < MaxCancels /\ cancels' = cancels + 1
    <3> DEFINE Kept == cancels' = cancels \/ (cancels < MaxCancels /\ cancels' = cancels + 1)
    <3>1. ASSUME NEW g \in Greenlets, Calls(g)
          PROVE  Kept
      <4>1. CASE Spawn(g)
        BY <4>1 DEF Spawn
      <4>2. CASE \E name \in Names : RunStep(g, name) \/ Nest(g, name)
        BY <4>2 DEF RunStep, Nest, Open
      <4>3. CASE \E h \in Futures : Cancel(g, h)
        BY <4>3 DEF Cancel
      <4>4. QED
        BY <3>1, <4>1, <4>2, <4>3 DEF Calls
    <3>2. ASSUME NEW g \in Greenlets, Returns(g)
          PROVE  Kept
      <4>1. CASE Start(g)
        BY <4>1 DEF Start
      <4>2. CASE FinishClose(g)
        BY <4>2 DEF FinishClose
      <4>3. CASE Joined(g)
        BY <4>3 DEF Joined
      <4>4. CASE \E status \in Statuses : EndStep(g, status)
        BY <4>4 DEF EndStep
      <4>5. CASE EndNest(g)
        BY <4>5 DEF EndNest, LeaveNest
      <4>6. CASE RaiseOutOfNest(g)
        BY <4>6 DEF RaiseOutOfNest, LeaveNest
      <4>7. CASE EndOfCode(g)
        BY <4>7 DEF EndOfCode
      <4>8. QED
        BY <3>2, <4>1, <4>2, <4>3, <4>4, <4>5, <4>6, <4>7 DEF Returns
    <3>3. Throw => Kept
      BY DEF Throw
    <3>4. vars' = vars => Kept
      BY DEF vars
    <3>5. QED
      BY <3>1, <3>2, <3>3, <3>4 DEF Next
  <2>3. QED
    BY <2>1, <2>2, EngineParameters
<1>3. QED
  BY <1>1, <1>2, TypeCorrect, PTL DEF Spec

(* The places of a greenlet.                                                   *)
LEMMA PlacesLeft ==
  ASSUME NEW p \in PC, NEW s
  PROVE  /\ PlaceLeft(p, s) \in 0..4
         /\ p = "unborn" => PlaceLeft(p, s) = 4
         /\ p = "dead" => PlaceLeft(p, s) = 0
         /\ p = "running" => PlaceLeft(p, s) = 2
         /\ p = "closing" => PlaceLeft(p, s) = IF s = 0 THEN 1 ELSE 3
         /\ p \in {"spawned", "inStep", "stopping", "joining"} => PlaceLeft(p, s) = 3
BY DEF PC, PlaceLeft

(* What is left is a number, before and after a step.                          *)
LEMMA CodeLeftType ==
  ASSUME TypeOK
  PROVE  /\ [i \in 1..(MaxSpawns + 1) |-> CodeLeft(i - 1)] \in [1..(MaxSpawns + 1) -> Nat]
         /\ AllCodeLeft \in Nat
         /\ \A g \in Greenlets : CodeLeft(g) \in Nat
<1>1. ASSUME NEW g \in Greenlets
      PROVE  CodeLeft(g) \in Nat
  <2>1. pc[g] \in PC /\ stack[g] \in Seq(0..MaxSteps)
    BY DEF TypeOK
  <2>2. Len(stack[g]) \in Nat /\ PlaceLeft(pc[g], closing[g]) \in Nat
    BY <2>1, PlacesLeft
  <2>3. QED
    BY <2>2 DEF CodeLeft
<1>2. \A i \in 1..(MaxSpawns + 1) : i - 1 \in Greenlets
  BY EngineParameters DEF Greenlets
<1>3. [i \in 1..(MaxSpawns + 1) |-> CodeLeft(i - 1)] \in [1..(MaxSpawns + 1) -> Nat]
  BY <1>1, <1>2
<1>4. MaxSpawns + 1 \in Nat
  BY EngineParameters
<1>5. QED
  BY <1>1, <1>3, <1>4, SumBoundsTerm DEF AllCodeLeft

(* The same after a step.                                                      *)
LEMMA CodeLeftTypeNext ==
  ASSUME TypeOK'
  PROVE  /\ [i \in 1..(MaxSpawns + 1) |-> CodeLeft(i - 1)'] \in [1..(MaxSpawns + 1) -> Nat]
         /\ AllCodeLeft' \in Nat
         /\ \A g \in Greenlets : CodeLeft(g)' \in Nat
<1>1. ASSUME NEW g \in Greenlets
      PROVE  CodeLeft(g)' \in Nat
  <2>1. pc'[g] \in PC /\ stack'[g] \in Seq(0..MaxSteps)
    BY DEF TypeOK
  <2>2. Len(stack'[g]) \in Nat /\ PlaceLeft(pc'[g], closing'[g]) \in Nat
    BY <2>1, PlacesLeft
  <2>3. QED
    BY <2>2 DEF CodeLeft
<1>2. \A i \in 1..(MaxSpawns + 1) : i - 1 \in Greenlets
  BY EngineParameters DEF Greenlets
<1>3. [i \in 1..(MaxSpawns + 1) |-> CodeLeft(i - 1)'] \in [1..(MaxSpawns + 1) -> Nat]
  BY <1>1, <1>2
<1>4. MaxSpawns + 1 \in Nat
  BY EngineParameters
<1>5. AllCodeLeft' = Sum([i \in 1..(MaxSpawns + 1) |-> CodeLeft(i - 1)'], MaxSpawns + 1)
  BY DEF AllCodeLeft
<1>6. QED
  BY <1>1, <1>3, <1>4, <1>5, SumBoundsTerm

(* At most two greenlets go on in a step.                                      *)
LEMMA CodeLeftUpdate ==
  ASSUME TypeOK, TypeOK', NEW g \in Greenlets, NEW h \in Greenlets, g # h,
         \A k \in Greenlets \ {g, h} : CodeLeft(k)' = CodeLeft(k)
  PROVE  AllCodeLeft' =
           AllCodeLeft - CodeLeft(g) + CodeLeft(g)' - CodeLeft(h) + CodeLeft(h)'
<1> DEFINE n == MaxSpawns + 1
           f == [i \in 1..n |-> CodeLeft(i - 1)]
           q == [i \in 1..n |-> CodeLeft(i - 1)']
           m == [i \in 1..n |-> IF i = g + 1 THEN CodeLeft(i - 1)' ELSE CodeLeft(i - 1)]
<1>1. f \in [1..n -> Nat] /\ q \in [1..n -> Nat]
  BY CodeLeftType, CodeLeftTypeNext
<1>2. n \in Nat /\ g + 1 \in 1..n /\ h + 1 \in 1..n /\ g + 1 # h + 1 /\ g + 1 - 1 = g /\ h + 1 - 1 = h
  BY EngineParameters DEF Greenlets
<1>3. \A i \in 1..n : i # g + 1 /\ i # h + 1 => q[i] = f[i]
  <2>1. ASSUME NEW i \in 1..n, i # g + 1, i # h + 1
        PROVE  CodeLeft(i - 1)' = CodeLeft(i - 1)
    <3>1. i - 1 \in Greenlets \ {g, h}
      BY <2>1, EngineParameters DEF Greenlets
    <3>2. QED
      BY <3>1
  <2>2. QED
    BY <2>1
<1>4. /\ f \in [1..n -> Int] /\ q \in [1..n -> Int] /\ m \in [1..n -> Int]
      /\ \A i \in 1..n : i # g + 1 => m[i] = f[i]
      /\ \A i \in 1..n : i # h + 1 => q[i] = m[i]
      /\ m[g + 1] = q[g + 1] /\ m[h + 1] = f[h + 1]
  BY <1>1, <1>2, <1>3
<1>5. /\ f[g + 1] = CodeLeft(g) /\ q[g + 1] = CodeLeft(g)'
      /\ f[h + 1] = CodeLeft(h) /\ q[h + 1] = CodeLeft(h)'
  <2>1. \A k \in Greenlets : k + 1 \in 1..n /\ (k + 1) - 1 = k
    BY EngineParameters DEF Greenlets
  <2>2. \A k \in Greenlets : CodeLeft((k + 1) - 1) = CodeLeft(k)
    BY <2>1, Zenon
  <2>3. \A k \in Greenlets : CodeLeft((k + 1) - 1)' = CodeLeft(k)'
    BY <2>1 DEF CodeLeft
  <2>4. \A k \in Greenlets : f[k + 1] = CodeLeft((k + 1) - 1) /\ q[k + 1] = CodeLeft((k + 1) - 1)'
    BY <2>1
  <2> HIDE DEF f, q
  <2>5. QED
    BY <2>2, <2>3, <2>4
<1>6. AllCodeLeft' = Sum(q, n) /\ AllCodeLeft = Sum(f, n)
  BY DEF AllCodeLeft
<1> HIDE DEF f, q, m, n
<1>7. Sum(m, n) = Sum(f, n) - f[g + 1] + m[g + 1] /\ Sum(f, n) \in Int
  BY <1>2, <1>4, SumUpdate, SumType
<1>8. Sum(q, n) = Sum(m, n) - m[h + 1] + q[h + 1]
  BY <1>2, <1>4, SumUpdate
<1>9. f[g + 1] \in Int /\ q[g + 1] \in Int /\ f[h + 1] \in Int /\ q[h + 1] \in Int
  BY <1>2, <1>4
<1> DEFINE a == Sum(f, n)
           b == Sum(m, n)
           c == Sum(q, n)
<1>10. a \in Int /\ b = a - f[g + 1] + q[g + 1] /\ c = b - f[h + 1] + q[h + 1]
  BY <1>4, <1>7, <1>8
<1>11. c = a - f[g + 1] + q[g + 1] - f[h + 1] + q[h + 1]
  <2> HIDE DEF a, b, c
  <2>1. QED
    BY <1>9, <1>10
<1>12. QED
  BY <1>5, <1>6, <1>11

(* One greenlet goes on. *)
LEMMA CodeLeftOne ==
  ASSUME TypeOK, TypeOK', NEW g \in Greenlets,
         \A k \in Greenlets \ {g} : CodeLeft(k)' = CodeLeft(k)
  PROVE  AllCodeLeft' = AllCodeLeft - CodeLeft(g) + CodeLeft(g)'
<1> DEFINE n == MaxSpawns + 1
           f == [i \in 1..n |-> CodeLeft(i - 1)]
           q == [i \in 1..n |-> CodeLeft(i - 1)']
<1>1. f \in [1..n -> Nat] /\ q \in [1..n -> Nat]
  BY CodeLeftType, CodeLeftTypeNext
<1>2. n \in Nat /\ g + 1 \in 1..n
  BY EngineParameters DEF Greenlets
<1>3. \A i \in 1..n : i # g + 1 => q[i] = f[i]
  <2>1. ASSUME NEW i \in 1..n, i # g + 1
        PROVE  CodeLeft(i - 1)' = CodeLeft(i - 1)
    <3>1. i - 1 \in Greenlets \ {g}
      BY <2>1, EngineParameters DEF Greenlets
    <3>2. QED
      BY <3>1
  <2>2. QED
    BY <2>1
<1>4. f \in [1..n -> Int] /\ q \in [1..n -> Int]
  BY <1>1
<1>5. f[g + 1] = CodeLeft(g) /\ q[g + 1] = CodeLeft(g)'
  <2>1. (g + 1) - 1 = g
    BY EngineParameters DEF Greenlets
  <2>2. CodeLeft((g + 1) - 1) = CodeLeft(g)
    BY <2>1, Zenon
  <2>3. CodeLeft((g + 1) - 1)' = CodeLeft(g)'
    BY <2>1 DEF CodeLeft
  <2>4. f[g + 1] = CodeLeft((g + 1) - 1) /\ q[g + 1] = CodeLeft((g + 1) - 1)'
    BY <1>2
  <2> HIDE DEF f, q
  <2>5. QED
    BY <2>2, <2>3, <2>4
<1>6. AllCodeLeft' = Sum(q, n) /\ AllCodeLeft = Sum(f, n)
  BY DEF AllCodeLeft
<1> HIDE DEF f, q, n
<1>7. Sum(q, n) = Sum(f, n) - f[g + 1] + q[g + 1]
  BY <1>2, <1>3, <1>4, SumUpdate
<1>8. QED
  BY <1>5, <1>6, <1>7

(* The same, as it is used: what a step adds to what the greenlets have left   *)
(* is less than what it takes from the rest.                                   *)
Falls == WorkLeft' \in Nat /\ WorkLeft' < WorkLeft

Others(S) ==
  \A k \in Greenlets \ S : pc'[k] = pc[k] /\ closing'[k] = closing[k] /\ stack'[k] = stack[k]

LEMMA WorkNumbers ==
  ASSUME TypeOK, Bounded, TypeOK', Bounded'
  PROVE  /\ Len(steps) \in Nat /\ Len(steps) <= MaxSteps /\ MaxSteps \in Nat
         /\ Len(steps') \in Nat /\ Len(steps') <= MaxSteps
         /\ cancels \in Nat /\ cancels <= MaxCancels /\ MaxCancels \in Nat
         /\ cancels' \in Nat /\ cancels' <= MaxCancels
         /\ Len(throws) \in Nat /\ Len(throws') \in Nat
BY EngineParameters DEF TypeOK, Bounded

LEMMA OneFalls ==
  ASSUME TypeOK, Bounded, TypeOK', Bounded', NEW g \in Greenlets, Others({g}),
         CodeLeft(g)' + 3 * Len(throws') + 10 * Len(steps) + 5 * cancels
           < CodeLeft(g) + 3 * Len(throws) + 10 * Len(steps') + 5 * cancels'
  PROVE  Falls
<1>1. AllCodeLeft' = AllCodeLeft - CodeLeft(g) + CodeLeft(g)'
  <2>1. \A k \in Greenlets \ {g} : CodeLeft(k)' = CodeLeft(k)
    BY DEF Others, CodeLeft
  <2>2. QED
    BY <2>1, CodeLeftOne
<1>2. AllCodeLeft \in Nat /\ AllCodeLeft' \in Nat /\ CodeLeft(g) \in Nat /\ CodeLeft(g)' \in Nat
  BY CodeLeftType, CodeLeftTypeNext
<1> DEFINE S == Len(steps)
           T == Len(steps')
           c == cancels
           d == cancels'
           u == Len(throws)
           v == Len(throws')
           a == AllCodeLeft
           b == AllCodeLeft'
           x == CodeLeft(g)
           y == CodeLeft(g)'
<1>3. /\ S \in Nat /\ T \in Nat /\ S <= MaxSteps /\ T <= MaxSteps /\ MaxSteps \in Nat
      /\ c \in Nat /\ d \in Nat /\ c <= MaxCancels /\ d <= MaxCancels /\ MaxCancels \in Nat
      /\ u \in Nat /\ v \in Nat /\ a \in Nat /\ b \in Nat /\ x \in Nat /\ y \in Nat
      /\ b = a - x + y /\ y + 3 * v + 10 * S + 5 * c < x + 3 * u + 10 * T + 5 * d
  BY <1>1, <1>2, WorkNumbers
<1>4. /\ WorkLeft = 10 * (MaxSteps - S) + 5 * (MaxCancels - c) + 3 * u + a
      /\ WorkLeft' = 10 * (MaxSteps - T) + 5 * (MaxCancels - d) + 3 * v + b
  BY DEF WorkLeft
<1> HIDE DEF S, T, c, d, u, v, a, b, x, y
<1>5. /\ 10 * (MaxSteps - T) + 5 * (MaxCancels - d) + 3 * v + b \in Nat
      /\ 10 * (MaxSteps - T) + 5 * (MaxCancels - d) + 3 * v + b
           < 10 * (MaxSteps - S) + 5 * (MaxCancels - c) + 3 * u + a
  BY <1>3
<1>6. QED
  BY <1>4, <1>5 DEF Falls

LEMMA TwoFall ==
  ASSUME TypeOK, Bounded, TypeOK', Bounded', NEW g \in Greenlets, NEW h \in Greenlets, g # h,
         Others({g, h}), CodeLeft(g)' + CodeLeft(h)' < CodeLeft(g) + CodeLeft(h),
         Len(steps') = Len(steps), throws' = throws, cancels' = cancels
  PROVE  Falls
<1>1. AllCodeLeft' = AllCodeLeft - CodeLeft(g) + CodeLeft(g)' - CodeLeft(h) + CodeLeft(h)'
  <2>1. \A k \in Greenlets \ {g, h} : CodeLeft(k)' = CodeLeft(k)
    BY DEF Others, CodeLeft
  <2>2. QED
    BY <2>1, CodeLeftUpdate
<1>2. /\ AllCodeLeft \in Nat /\ AllCodeLeft' \in Nat /\ CodeLeft(g) \in Nat /\ CodeLeft(g)' \in Nat
      /\ CodeLeft(h) \in Nat /\ CodeLeft(h)' \in Nat
  BY CodeLeftType, CodeLeftTypeNext
<1> DEFINE r == 10 * (MaxSteps - Len(steps)) + 5 * (MaxCancels - cancels) + 3 * Len(throws)
           a == AllCodeLeft
           b == AllCodeLeft'
           x == CodeLeft(g)
           y == CodeLeft(g)'
           z == CodeLeft(h)
           w == CodeLeft(h)'
<1>3. r \in Nat
  BY WorkNumbers, SMTT(30)
<1>4. WorkLeft = r + a /\ WorkLeft' = r + b
  BY DEF WorkLeft
<1>5. /\ a \in Nat /\ b \in Nat /\ x \in Nat /\ y \in Nat /\ z \in Nat /\ w \in Nat
      /\ b = a - x + y - z + w /\ y + w < x + z
  BY <1>1, <1>2
<1> HIDE DEF r, a, b, x, y, z, w
<1>6. r + b \in Nat /\ r + b < r + a
  BY <1>3, <1>5
<1>7. QED
  BY <1>4, <1>6 DEF Falls

(* A greenlet at its code: it leaves the step at its tip, which may be a real  *)
(* one.                                                                        *)
LEMMA TipLeft ==
  ASSUME IInv, NEW g \in Greenlets, pc[g] = "running"
  PROVE  /\ Len(Popped(g)) \in Nat /\ Len(Popped(g)) <= Len(stack[g]) /\ Len(stack[g]) \in Nat
         /\ Popped(g) \in Seq(0..MaxSteps)
         /\ Len(Closed(g)) = Len(steps) /\ Closed(g) \in Seq(Step)
<1>1. stack[g] \in Seq(0..MaxSteps) /\ StackOK(steps, stack[g], base[g], g)
  <2>1. Place(steps, stack[g], base[g], "running", closing[g], g)
    BY DEF IInv, Places
  <2>2. QED
    BY <2>1 DEF IInv, TypeOK, Place
<1>2. Len(stack[g]) >= 1 /\ Len(stack[g]) \in Nat
  BY <1>1 DEF StackOK
<1>3. TipClosed(g, Closed(g), Popped(g))
  BY CloseTip
<1>4. Popped(g) = stack[g] \/ Popped(g) = Front(stack[g])
  BY DEF Popped
<1>5. Front(stack[g]) \in Seq(0..MaxSteps) /\ Len(Front(stack[g])) = Len(stack[g]) - 1
  BY <1>1, <1>2, FrontOf
<1>6. QED
  BY <1>1, <1>2, <1>3, <1>4, <1>5 DEF TipClosed

(* What a greenlet has left, before and after a step.                          *)
LEMMA LeftIs ==
  ASSUME TypeOK, TypeOK', NEW g \in Greenlets
  PROVE  /\ pc[g] \in PC /\ pc'[g] \in PC
         /\ Len(stack[g]) \in Nat /\ Len(stack'[g]) \in Nat
         /\ stack[g] \in Seq(0..MaxSteps) /\ stack'[g] \in Seq(0..MaxSteps)
         /\ CodeLeft(g) = PlaceLeft(pc[g], closing[g]) + 3 * Len(stack[g])
         /\ CodeLeft(g)' = PlaceLeft(pc'[g], closing'[g]) + 3 * Len(stack'[g])
         /\ PlaceLeft(pc[g], closing[g]) \in 0..4 /\ PlaceLeft(pc'[g], closing'[g]) \in 0..4
BY PlacesLeft DEF TypeOK, CodeLeft

(* A greenlet goes on, leaves a nest, or opens a step.                         *)
LEMMA PlaceFalls ==
  ASSUME TypeOK, Bounded, TypeOK', Bounded', NEW g \in Greenlets, Others({g}),
         throws' = throws, cancels' = cancels,
         \/ /\ Len(steps') = Len(steps) /\ Len(stack'[g]) <= Len(stack[g])
            /\ PlaceLeft(pc'[g], closing'[g]) < PlaceLeft(pc[g], closing[g])
         \/ /\ Len(steps') = Len(steps) /\ Len(stack'[g]) < Len(stack[g])
            /\ PlaceLeft(pc'[g], closing'[g]) <= PlaceLeft(pc[g], closing[g]) + 1
         \/ /\ Len(steps') = Len(steps) + 1 /\ Len(stack'[g]) <= Len(stack[g]) + 1
            /\ PlaceLeft(pc'[g], closing'[g]) <= PlaceLeft(pc[g], closing[g]) + 1
  PROVE  Falls
<1> DEFINE S == Len(steps)
           T == Len(steps')
           c == cancels
           u == Len(throws)
           x == CodeLeft(g)
           y == CodeLeft(g)'
           k == Len(stack[g])
           m == Len(stack'[g])
           p == PlaceLeft(pc[g], closing[g])
           q == PlaceLeft(pc'[g], closing'[g])
<1>1. /\ S \in Nat /\ T \in Nat /\ c \in Nat /\ u \in Nat
  BY WorkNumbers
<1>2. k \in Nat /\ m \in Nat /\ x = p + 3 * k /\ y = q + 3 * m /\ p \in 0..4 /\ q \in 0..4
  BY LeftIs
<1>3. \/ T = S /\ m <= k /\ q < p
      \/ T = S /\ m < k /\ q <= p + 1
      \/ T = S + 1 /\ m <= k + 1 /\ q <= p + 1
  OBVIOUS
<1>4. y + 3 * u + 10 * S + 5 * c < x + 3 * u + 10 * T + 5 * c
  <2> HIDE DEF S, T, c, u, x, y, k, m, p, q
  <2>1. QED
    BY <1>1, <1>2, <1>3
<1>5. CodeLeft(g)' + 3 * Len(throws') + 10 * Len(steps) + 5 * cancels
        < CodeLeft(g) + 3 * Len(throws) + 10 * Len(steps') + 5 * cancels'
  <2>1. Len(throws') = u /\ cancels' = c
    OBVIOUS
  <2>2. QED
    BY <1>4, <2>1, Zenon
<1>6. QED
  BY <1>5, OneFalls

(* A greenlet is cancelled, or a GreenletExit thrown.                          *)
LEMMA KillFalls ==
  ASSUME TypeOK, Bounded, TypeOK', Bounded', NEW g \in Greenlets, Others({g}),
         Len(steps') = Len(steps), stack'[g] = stack[g],
         \/ /\ PlaceLeft(pc'[g], closing'[g]) <= PlaceLeft(pc[g], closing[g])
            /\ cancels' = cancels + 1 /\ Len(throws') = Len(throws)
         \/ /\ PlaceLeft(pc'[g], closing'[g]) <= PlaceLeft(pc[g], closing[g]) + 1
            /\ cancels' = cancels + 1 /\ Len(throws') = Len(throws) + 1
         \/ /\ PlaceLeft(pc'[g], closing'[g]) <= PlaceLeft(pc[g], closing[g]) + 1
            /\ cancels' = cancels /\ Len(throws') = Len(throws) - 1
  PROVE  Falls
<1> DEFINE S == Len(steps)
           T == Len(steps')
           c == cancels
           d == cancels'
           u == Len(throws)
           v == Len(throws')
           x == CodeLeft(g)
           y == CodeLeft(g)'
           k == Len(stack[g])
           p == PlaceLeft(pc[g], closing[g])
           q == PlaceLeft(pc'[g], closing'[g])
<1>1. /\ S \in Nat /\ T \in Nat /\ c \in Nat /\ u \in Nat /\ d \in Nat /\ v \in Nat
  BY WorkNumbers
<1>2. k \in Nat /\ x = p + 3 * k /\ y = q + 3 * k /\ p \in 0..4 /\ q \in 0..4
  BY LeftIs
<1>3. /\ S = T
      /\ \/ q <= p /\ d = c + 1 /\ v = u
         \/ q <= p + 1 /\ d = c + 1 /\ v = u + 1
         \/ q <= p + 1 /\ d = c /\ v = u - 1
  OBVIOUS
<1>4. y + 3 * v + 10 * S + 5 * c < x + 3 * u + 10 * T + 5 * d
  <2> HIDE DEF S, T, c, d, u, v, x, y, k, p, q
  <2>1. QED
    BY <1>1, <1>2, <1>3
<1>5. QED
  BY <1>4, OneFalls

(* Sequences with the same domain are equally long.                            *)
LEMMA SameLength ==
  ASSUME NEW m \in Nat, NEW n \in Nat, 1..m = 1..n
  PROVE  m = n
<1>1. ~(m < n)
  <2>1. m < n => n \in 1..n /\ n \notin 1..m
    OBVIOUS
  <2>2. QED
    BY <2>1
<1>2. ~(n < m)
  <2>1. n < m => m \in 1..m /\ m \notin 1..n
    OBVIOUS
  <2>2. QED
    BY <2>1
<1>3. QED
  BY <1>1, <1>2

LEMMA StartFalls ==
  ASSUME IInv, IInv', Bounded, Bounded', NEW h \in Greenlets, Start(h)
  PROVE  Falls
<1>1. TypeOK /\ TypeOK' /\ pc[h] = "spawned" /\ pc'[h] = "running" /\ Others({h})
  BY DEF IInv, Start, TypeOK, Others
<1>2. Len(stack'[h]) = 1
  BY <1>1 DEF Start, TypeOK
<1>3. Len(stack[h]) = 1
  <2>1. Place(steps, stack[h], base[h], "spawned", closing[h], h)
    BY <1>1 DEF IInv, Places
  <2>2. QED
    BY <2>1 DEF Place
<1>4. Len(steps') = Len(steps) /\ throws' = throws /\ cancels' = cancels
  BY DEF Start
<1>5. PlaceLeft(pc[h], closing[h]) = 3 /\ PlaceLeft(pc'[h], closing'[h]) = 2
  BY <1>1, PlacesLeft, LeftIs
<1>6. QED
  BY <1>1, <1>2, <1>3, <1>4, <1>5, PlaceFalls

LEMMA SpawnFalls ==
  ASSUME IInv, IInv', Bounded, Bounded', NEW g \in Greenlets, Spawn(g)
  PROVE  Falls
<1> PICK h \in Futures :
      /\ pc[g] = "running" /\ pc[h] = "unborn"
      /\ steps' = Closed(g) /\ stack' = [stack EXCEPT ![g] = Popped(g)]
      /\ pc' = [pc EXCEPT ![h] = "spawned"]
      /\ UNCHANGED <<closing, throws, cancels>>
  BY DEF Spawn
<1>1. TypeOK /\ TypeOK' /\ h \in Greenlets /\ h # g
  BY EngineParameters DEF IInv, Futures, Greenlets
<1>2. /\ pc'[h] = "spawned" /\ pc'[g] = "running" /\ stack'[h] = stack[h]
      /\ stack'[g] = Popped(g) /\ Others({g, h}) /\ closing' = closing
  BY <1>1 DEF TypeOK, Others
<1>3. Len(Popped(g)) <= Len(stack[g]) /\ Len(steps') = Len(steps)
  BY TipLeft
<1>4. /\ PlaceLeft(pc[h], closing[h]) = 4 /\ PlaceLeft(pc'[h], closing'[h]) = 3
      /\ PlaceLeft(pc[g], closing[g]) = 2 /\ PlaceLeft(pc'[g], closing'[g]) = 2
  BY <1>1, <1>2, LeftIs, PlacesLeft
<1>5. CodeLeft(h) = 4 + 3 * Len(stack[h]) /\ CodeLeft(h)' = 3 + 3 * Len(stack[h])
  BY <1>1, <1>2, <1>4, LeftIs
<1>6. CodeLeft(g) = 2 + 3 * Len(stack[g]) /\ CodeLeft(g)' = 2 + 3 * Len(Popped(g))
  BY <1>1, <1>2, <1>4, LeftIs
<1>7. Len(stack[h]) \in Nat /\ Len(stack[g]) \in Nat /\ Len(Popped(g)) \in Nat
  BY <1>1, TipLeft, LeftIs
<1>8. CodeLeft(g)' + CodeLeft(h)' < CodeLeft(g) + CodeLeft(h)
  <2> DEFINE x == CodeLeft(g)
             y == CodeLeft(g)'
             z == CodeLeft(h)
             w == CodeLeft(h)'
             k == Len(stack[g])
             l == Len(stack[h])
             m == Len(Popped(g))
  <2>1. /\ m <= k /\ z = 4 + 3 * l /\ w = 3 + 3 * l /\ x = 2 + 3 * k /\ y = 2 + 3 * m
        /\ l \in Nat /\ k \in Nat /\ m \in Nat
    BY <1>3, <1>5, <1>6, <1>7
  <2> HIDE DEF x, y, z, w, k, l, m
  <2>2. y + w < x + z
    BY <2>1
  <2>3. QED
    BY <2>2 DEF x, y, z, w
<1>9. throws' = throws /\ cancels' = cancels
  OBVIOUS
<1>10. QED
  BY <1>1, <1>2, <1>3, <1>8, <1>9, TwoFall

LEMMA OpenFalls ==
  ASSUME IInv, IInv', Bounded, Bounded', NEW g \in Greenlets,
         NEW name \in Names, RunStep(g, name) \/ Nest(g, name)
  PROVE  Falls
<1>1. /\ pc[g] = "running" /\ stack' = [stack EXCEPT ![g] = Append(Popped(g), Len(steps) + 1)]
      /\ closing' = closing /\ throws' = throws /\ cancels' = cancels
      /\ pc' = pc \/ pc' = [pc EXCEPT ![g] = "inStep"]
      /\ \E x : steps' = Append(Closed(g), x)
  BY DEF RunStep, Nest, Open
<1>2. TypeOK /\ TypeOK'
  BY DEF IInv
<1>3. Others({g}) /\ stack'[g] = Append(Popped(g), Len(steps) + 1)
      /\ (pc'[g] = "running" \/ pc'[g] = "inStep")
  BY <1>1, <1>2 DEF TypeOK, Others
<1>4. /\ Popped(g) \in Seq(0..MaxSteps) /\ Closed(g) \in Seq(Step) /\ Len(Closed(g)) = Len(steps)
      /\ Len(Popped(g)) \in Nat /\ Len(Popped(g)) <= Len(stack[g]) /\ Len(stack[g]) \in Nat
  BY <1>1, TipLeft
<1>5. Len(stack'[g]) = Len(Popped(g)) + 1
  BY <1>3, <1>4
<1>6. Len(steps') = Len(steps) + 1
  BY <1>1, <1>4
<1>7. PlaceLeft(pc[g], closing[g]) = 2 /\ PlaceLeft(pc'[g], closing'[g]) \in {2, 3}
  BY <1>1, <1>2, <1>3, LeftIs, PlacesLeft
<1>8. Len(stack'[g]) <= Len(stack[g]) + 1
  BY <1>4, <1>5
<1>9. PlaceLeft(pc'[g], closing'[g]) <= PlaceLeft(pc[g], closing[g]) + 1
  BY <1>7
<1>10. QED
  BY <1>1, <1>2, <1>3, <1>6, <1>8, <1>9, PlaceFalls

LEMMA EndStepFalls ==
  ASSUME IInv, IInv', Bounded, Bounded', NEW g \in Greenlets, NEW status, EndStep(g, status)
  PROVE  Falls
<1>1. /\ pc[g] \in {"inStep", "stopping"} /\ pc' = [pc EXCEPT ![g] = "running"]
      /\ stack' = stack /\ closing' = closing /\ throws' = throws /\ cancels' = cancels
      /\ steps' = [steps EXCEPT ![Last(stack[g])].status = status]
  BY DEF EndStep
<1>2. TypeOK /\ TypeOK'
  BY DEF IInv
<1>3. Others({g}) /\ pc'[g] = "running" /\ Len(stack'[g]) <= Len(stack[g])
  <2>1. Len(stack[g]) \in Nat
    BY <1>2, LeftIs
  <2>2. QED
    BY <1>1, <1>2, <2>1 DEF TypeOK, Others
<1>4. Len(steps') = Len(steps)
  BY <1>1, <1>2 DEF TypeOK
<1>5. PlaceLeft(pc[g], closing[g]) = 3 /\ PlaceLeft(pc'[g], closing'[g]) = 2
  BY <1>1, <1>2, <1>3, LeftIs, PlacesLeft
<1>6. PlaceLeft(pc'[g], closing'[g]) < PlaceLeft(pc[g], closing[g])
  BY <1>5
<1>7. throws' = throws /\ cancels' = cancels
  BY <1>1
<1>8. QED
  BY <1>2, <1>3, <1>4, <1>6, <1>7, PlaceFalls

LEMMA LeaveFalls ==
  ASSUME IInv, IInv', Bounded, Bounded', NEW g \in Greenlets, NEW status, LeaveNest(g, status)
  PROVE  Falls
<1>1. /\ pc[g] = "running" /\ Len(Popped(g)) > 1
      /\ stack' = [stack EXCEPT ![g] = Front(Popped(g))]
      /\ throws' = throws /\ cancels' = cancels
      /\ \/ pc' = pc
         \/ pc' = [pc EXCEPT ![g] = "closing"]
      /\ \/ closing' = closing
         \/ closing' = [closing EXCEPT ![g] = Tip(g)]
  BY DEF LeaveNest
<1>2. TypeOK /\ TypeOK'
  BY DEF IInv
<1>3. Others({g}) /\ stack'[g] = Front(Popped(g)) /\ pc'[g] \in {"running", "closing"}
  BY <1>1, <1>2 DEF TypeOK, Others
<1>4. /\ Popped(g) \in Seq(0..MaxSteps) /\ Closed(g) \in Seq(Step) /\ Len(Closed(g)) = Len(steps)
      /\ Len(Popped(g)) \in Nat /\ Len(Popped(g)) <= Len(stack[g]) /\ Len(stack[g]) \in Nat
  BY <1>1, TipLeft
<1>5. Len(stack'[g]) = Len(Popped(g)) - 1
  BY <1>1, <1>3, <1>4, FrontOf
<1>6. Len(stack'[g]) < Len(stack[g])
  BY <1>4, <1>5
<1>7. Len(steps') = Len(steps)
  <2>1. \/ steps' = [Closed(g) EXCEPT ![Tip(g)].status = status]
        \/ steps' = CloseStep([Closed(g) EXCEPT ![Tip(g)].status = status], Tip(g))
    BY DEF LeaveNest
  <2>2. \A ss, i : DOMAIN CloseStep(ss, i) = DOMAIN ss
    BY DEF CloseStep
  <2>3. DOMAIN steps' = DOMAIN Closed(g)
    BY <1>4, <2>1, <2>2
  <2>4. Len(steps') \in Nat /\ DOMAIN steps' = 1..Len(steps')
    BY <1>2 DEF TypeOK
  <2>5. Len(Closed(g)) \in Nat /\ DOMAIN Closed(g) = 1..Len(Closed(g))
    BY <1>4
  <2>6. QED
    BY <1>4, <2>3, <2>4, <2>5, SameLength
<1>8. PlaceLeft(pc[g], closing[g]) = 2 /\ PlaceLeft(pc'[g], closing'[g]) \in {1, 2, 3}
  BY <1>1, <1>2, <1>3, LeftIs, PlacesLeft
<1>9. PlaceLeft(pc'[g], closing'[g]) <= PlaceLeft(pc[g], closing[g]) + 1
  BY <1>8
<1>10. throws' = throws /\ cancels' = cancels
  BY <1>1
<1>11. QED
  BY <1>2, <1>3, <1>6, <1>7, <1>9, <1>10, PlaceFalls

LEMMA EndOfCodeFalls ==
  ASSUME IInv, IInv', Bounded, Bounded', NEW g \in Greenlets, EndOfCode(g)
  PROVE  Falls
<1>1. /\ pc[g] = "running" /\ steps' = Closed(g)
      /\ stack' = [stack EXCEPT ![g] = Popped(g)]
      /\ closing' = closing /\ throws' = throws /\ cancels' = cancels
      /\ \/ pc' = [pc EXCEPT ![g] = "closing"]
         \/ pc' = [pc EXCEPT ![g] = "dead"]
  BY DEF EndOfCode
<1>2. TypeOK /\ TypeOK'
  BY DEF IInv
<1>3. Others({g}) /\ stack'[g] = Popped(g) /\ pc'[g] \in {"dead", "closing"}
  BY <1>1, <1>2 DEF TypeOK, Others
<1>4. Len(stack'[g]) <= Len(stack[g]) /\ Len(steps') = Len(steps)
  BY <1>1, <1>3, TipLeft
<1>5. closing'[g] = 0
  BY <1>1 DEF IInv, IdleClosing
<1>6. PlaceLeft(pc[g], closing[g]) = 2
  BY <1>1, <1>2, LeftIs, PlacesLeft
<1>7. PlaceLeft(pc'[g], closing'[g]) \in {0, 1}
  BY <1>2, <1>3, <1>5, LeftIs, PlacesLeft
<1>8. PlaceLeft(pc'[g], closing'[g]) < PlaceLeft(pc[g], closing[g])
  BY <1>6, <1>7
<1>9. throws' = throws /\ cancels' = cancels
  BY <1>1
<1>10. QED
  BY <1>2, <1>3, <1>4, <1>8, <1>9, PlaceFalls

LEMMA FinishCloseFalls ==
  ASSUME IInv, IInv', Bounded, Bounded', NEW g \in Greenlets, FinishClose(g)
  PROVE  Falls
<1>1. /\ pc[g] = "closing" /\ stack' = stack /\ throws' = throws /\ cancels' = cancels
      /\ steps' = IF closing[g] = 0 THEN steps ELSE CloseStep(steps, closing[g])
      /\ pc' = [pc EXCEPT ![g] = IF closing[g] = 0 THEN "dead" ELSE "running"]
      /\ closing' = [closing EXCEPT ![g] = 0]
  BY DEF FinishClose
<1>2. TypeOK /\ TypeOK'
  BY DEF IInv
<1>3. /\ Others({g}) /\ pc'[g] = IF closing[g] = 0 THEN "dead" ELSE "running"
      /\ Len(stack'[g]) <= Len(stack[g])
  <2>1. Len(stack[g]) \in Nat
    BY <1>2, LeftIs
  <2>2. QED
    BY <1>1, <1>2, <2>1 DEF TypeOK, Others
<1>4. Len(steps') = Len(steps)
  <2>1. \A ss, i : DOMAIN CloseStep(ss, i) = DOMAIN ss
    BY DEF CloseStep
  <2>2. DOMAIN steps' = DOMAIN steps
    BY <1>1, <2>1
  <2>3. /\ Len(steps') \in Nat /\ DOMAIN steps' = 1..Len(steps')
        /\ Len(steps) \in Nat /\ DOMAIN steps = 1..Len(steps)
    BY <1>2 DEF TypeOK
  <2>4. QED
    BY <2>2, <2>3, SameLength
<1>5. PlaceLeft(pc[g], closing[g]) = IF closing[g] = 0 THEN 1 ELSE 3
  BY <1>1, <1>2, LeftIs, PlacesLeft
<1>6. PlaceLeft(pc'[g], closing'[g]) = IF closing[g] = 0 THEN 0 ELSE 2
  BY <1>2, <1>3, LeftIs, PlacesLeft
<1>7. PlaceLeft(pc'[g], closing'[g]) < PlaceLeft(pc[g], closing[g])
  BY <1>5, <1>6
<1>8. throws' = throws /\ cancels' = cancels
  BY <1>1
<1>9. QED
  BY <1>2, <1>3, <1>4, <1>7, <1>8, PlaceFalls

LEMMA JoinedFalls ==
  ASSUME IInv, IInv', Bounded, Bounded', NEW g \in Greenlets, Joined(g)
  PROVE  Falls
<1>1. /\ pc[g] = "joining" /\ pc' = [pc EXCEPT ![g] = "running"] /\ stack' = stack
      /\ closing' = closing /\ throws' = throws /\ cancels' = cancels /\ steps' = steps
  BY DEF Joined
<1>2. TypeOK /\ TypeOK'
  BY DEF IInv
<1>3. Others({g}) /\ pc'[g] = "running" /\ Len(stack'[g]) <= Len(stack[g])
  <2>1. Len(stack[g]) \in Nat
    BY <1>2, LeftIs
  <2>2. QED
    BY <1>1, <1>2, <2>1 DEF TypeOK, Others
<1>4. PlaceLeft(pc[g], closing[g]) = 3 /\ PlaceLeft(pc'[g], closing'[g]) = 2
  BY <1>1, <1>2, <1>3, LeftIs, PlacesLeft
<1>5. PlaceLeft(pc'[g], closing'[g]) < PlaceLeft(pc[g], closing[g]) /\ Len(steps') = Len(steps)
  BY <1>1, <1>4
<1>6. throws' = throws /\ cancels' = cancels
  BY <1>1
<1>7. QED
  BY <1>2, <1>3, <1>5, <1>6, PlaceFalls

LEMMA CancelFalls ==
  ASSUME IInv, IInv', Bounded, Bounded', NEW h \in Greenlets, NEW g \in Futures, Cancel(h, g)
  PROVE  Falls
<1>1. /\ pc[h] = "running" /\ h # g /\ cancels' = cancels + 1
      /\ steps' = steps /\ stack' = stack /\ closing' = closing
  BY DEF Cancel
<1>2. TypeOK /\ TypeOK' /\ g \in Greenlets /\ throws \in Seq(Futures)
  <2>1. Futures \subseteq Greenlets
    BY EngineParameters DEF Futures, Greenlets
  <2>2. TypeOK /\ TypeOK'
    BY DEF IInv
  <2>3. throws \in Seq(Futures)
    BY <2>2 DEF TypeOK
  <2>4. QED
    BY <2>1, <2>2, <2>3
<1>3. CASE pc[g] = "spawned"
  <2>1. pc' = [pc EXCEPT ![g] = "dead"] /\ throws' = throws
    BY <1>3 DEF Cancel
  <2>2. Others({g}) /\ pc'[g] = "dead"
    BY <1>1, <1>2, <2>1 DEF TypeOK, Others
  <2>3. PlaceLeft(pc[g], closing[g]) = 3 /\ PlaceLeft(pc'[g], closing'[g]) = 0
    BY <1>2, <1>3, <2>2, LeftIs, PlacesLeft
  <2>4. PlaceLeft(pc'[g], closing'[g]) <= PlaceLeft(pc[g], closing[g])
    BY <2>3
  <2>5. Len(steps') = Len(steps) /\ stack'[g] = stack[g] /\ Len(throws') = Len(throws)
    BY <1>1, <2>1
  <2>6. QED
    BY <1>1, <1>2, <2>2, <2>4, <2>5, KillFalls
<1>4. CASE pc[g] # "spawned"
  <2>1. pc' = [pc EXCEPT ![h] = "joining"] /\ throws' = Append(throws, g)
    BY <1>4 DEF Cancel
  <2>2. Others({h}) /\ pc'[h] = "joining"
    BY <1>1, <1>2, <2>1 DEF TypeOK, Others
  <2>3. PlaceLeft(pc[h], closing[h]) = 2 /\ PlaceLeft(pc'[h], closing'[h]) = 3
    BY <1>1, <1>2, <2>2, LeftIs, PlacesLeft
  <2>4. PlaceLeft(pc'[h], closing'[h]) <= PlaceLeft(pc[h], closing[h]) + 1
    BY <2>3
  <2>5. Len(steps') = Len(steps) /\ stack'[h] = stack[h] /\ Len(throws') = Len(throws) + 1
    BY <1>1, <1>2, <2>1
  <2>6. QED
    BY <1>1, <1>2, <2>2, <2>4, <2>5, KillFalls
<1>5. QED
  BY <1>3, <1>4

LEMMA ThrowFalls ==
  ASSUME IInv, IInv', Bounded, Bounded', Throw
  PROVE  Falls
<1> DEFINE g == Head(throws)
<1>1. /\ throws # <<>> /\ throws' = Tail(throws) /\ stack' = stack /\ cancels' = cancels
      /\ closing' = [closing EXCEPT ![g] = 0]
  BY DEF Throw
<1>2. TypeOK /\ TypeOK' /\ throws \in Seq(Futures)
  BY DEF IInv, TypeOK
<1>3. g \in Greenlets /\ Len(throws') = Len(throws) - 1
  <2>1. g \in Futures /\ Len(throws') = Len(throws) - 1
    BY <1>1, <1>2
  <2>2. QED
    BY <2>1 DEF Futures, Greenlets
<1>4. Len(steps') = Len(steps)
  <2>1. \/ steps' = steps
        \/ steps' = [steps EXCEPT ![closing[g]].stream = "lost"]
        \/ steps' = [steps EXCEPT ![Last(stack[g])].status = "CANCELED"]
    BY DEF Throw
  <2>2. QED
    BY <1>2, <2>1 DEF TypeOK
<1>5. /\ Others({g})
      /\ \/ pc[g] = "inStep" /\ pc'[g] = "stopping"
         \/ pc[g] # "dead" /\ pc'[g] = "running"
         \/ pc[g] = "dead" /\ pc'[g] = "dead"
  <2>1. \/ pc[g] = "inStep" /\ pc' = [pc EXCEPT ![g] = "stopping"]
        \/ pc[g] # "dead" /\ pc' = [pc EXCEPT ![g] = "running"]
        \/ pc[g] = "dead" /\ pc' = pc
    BY DEF Throw
  <2>2. QED
    BY <1>1, <1>2, <1>3, <2>1 DEF TypeOK, Others
<1> HIDE DEF g
<1>6. PlaceLeft(pc'[g], closing'[g]) <= PlaceLeft(pc[g], closing[g]) + 1
  <2>1. pc[g] \in PC /\ pc'[g] \in PC
    BY <1>2, <1>3, LeftIs
  <2>2. CASE pc[g] = "inStep" /\ pc'[g] = "stopping"
    <3>1. PlaceLeft(pc[g], closing[g]) = 3 /\ PlaceLeft(pc'[g], closing'[g]) = 3
      BY <2>1, <2>2, PlacesLeft
    <3>2. QED
      BY <3>1
  <2>3. CASE pc[g] # "dead" /\ pc'[g] = "running"
    <3>1. PlaceLeft(pc[g], closing[g]) \in {1, 2, 3, 4}
      BY <2>1, <2>3 DEF PC, PlaceLeft
    <3>2. PlaceLeft(pc'[g], closing'[g]) = 2
      BY <2>1, <2>3, PlacesLeft
    <3>3. QED
      BY <3>1, <3>2
  <2>4. CASE pc[g] = "dead" /\ pc'[g] = "dead"
    <3>1. PlaceLeft(pc[g], closing[g]) = 0 /\ PlaceLeft(pc'[g], closing'[g]) = 0
      BY <2>1, <2>4, PlacesLeft
    <3>2. QED
      BY <3>1
  <2>5. QED
    BY <1>5, <2>2, <2>3, <2>4
<1>7. stack'[g] = stack[g]
  BY <1>1
<1>8. QED
  BY <1>1, <1>2, <1>3, <1>4, <1>5, <1>6, <1>7, KillFalls

LEMMA NextFalls ==
  ASSUME IInv, IInv', Bounded, Bounded', Next
  PROVE  Falls
<1>1. ASSUME NEW g \in Greenlets, Calls(g)
      PROVE  Falls
  BY <1>1, SpawnFalls, OpenFalls, CancelFalls DEF Calls
<1>2. ASSUME NEW g \in Greenlets, Returns(g)
      PROVE  Falls
  BY <1>2, StartFalls, FinishCloseFalls, JoinedFalls, EndStepFalls, LeaveFalls, EndOfCodeFalls
     DEF Returns, EndNest, RaiseOutOfNest
<1>3. QED
  BY <1>1, <1>2, ThrowFalls DEF Next

(* However greenlets spawn, wait for and cancel each other, each step of the   *)
(* engine leaves less to do: it goes on for ever only by being asked for ever  *)
(* more steps, greenlets and cancellations.  With EngineGoesOn this is what    *)
(* makes run_steps return, but for the fairness.                               *)
THEOREM WorkEnds == Spec => WorkRunsOut
<1>1. IInv /\ IInv' /\ Bounded /\ Bounded' /\ [Next]_vars => [Falls]_vars
  BY NextFalls
<1>2. (Spec => []IInv) /\ (Spec => []Bounded)
  BY InductiveInvariant, BoundedHolds
<1>3. [Falls]_vars => [WorkLeft' \in Nat /\ WorkLeft' < WorkLeft]_vars
  BY DEF Falls
<1>4. QED
  BY <1>1, <1>2, <1>3, PTL DEF Spec, WorkRunsOut
===============================================================================
