----------------------- MODULE CheckTransactionsProofs -----------------------
(***************************************************************************)
(* Proofs about CheckTransactions, for any number of clients, nodes,       *)
(* attempts, copies and other writes.                                      *)
(***************************************************************************)
EXTENDS CheckTransactions, TLAPS

(***************************************************************************)
(* The inductive invariant.                                                *)
(***************************************************************************)

\* Versions are old revisions, and a check that is absent has never changed.
Sane ==
  \A n \in Nodes :
    /\ checks[n].version <= rev
    /\ checks[n].version = 0 => checks[n].changes = 0 /\ checks[n].results = "none"
    /\ checks[n].changes = 0 => checks[n].version = 0

\* The revision of x tells which nodes have changed since.
Tracks(x) ==
  /\ x.snap <= rev
  /\ \A n \in Nodes :
       /\ x.base[n] <= checks[n].changes
       /\ checks[n].version > x.snap => x.base[n] < checks[n].changes
       /\ OnlyData /\ checks[n].version <= x.snap => x.base[n] = checks[n].changes

\* The requests that may be applied now or after being sent again.
Sent == net \cup {call[c] : c \in {d \in Clients : pc[d] = "waiting"}}

AllTrack ==
  /\ \A c \in Clients : Tracks(tx[c]) /\ (~tx[c].read => tx[c].snap = 0 /\ tx[c].base = Nothing)
  /\ \A r \in Sent : Tracks(r)

\* A client has sent nothing for the attempt whose callback still runs.
Numbered ==
  /\ \A c \in Clients :
       /\ pc[c] = "idle" => attempt[c] = 0
       /\ pc[c] \in {"body", "waiting"} => attempt[c] \in Attempts(c)
       /\ pc[c] = "waiting" => call[c].from = c /\ call[c].attempt = attempt[c]
       /\ \A a \in Attempts(c) :
            commits[c][a] > 0 => a <= attempt[c] /\ (pc[c] = "body" => a < attempt[c])
  /\ \A r \in Sent :
       /\ r.attempt \in Attempts(r.from) /\ r.writes # {} /\ r.kind \in Kinds
       /\ r.attempt <= attempt[r.from]
       /\ pc[r.from] = "body" => r.attempt < attempt[r.from]

\* All copies of an attempt's request are alike.
Alike(r, s) ==
  r.nodes = s.nodes /\ r.writes = s.writes /\ r.snap = s.snap /\ r.kind = s.kind
CopiesAreAlike ==
  \A r, s \in Sent : r.from = s.from /\ r.attempt = s.attempt => Alike(r, s)

\* A copy of what has been applied will be refused, because of a version or
\* because what it finalizes is final.
Useless(r) == TooNew(r) # {} \/ ~Allowed(r.writes, r.kind)

Spent ==
  \A r \in Sent : r.nodes # {} /\ commits[r.from][r.attempt] > 0 => Useless(r)

IInv ==
  /\ TypeOK /\ Sane /\ AllTrack /\ Numbered /\ CopiesAreAlike /\ Spent /\ AppliedOnce
  /\ OnlyData => ConsistentReads

(***************************************************************************)
(* Types.                                                                  *)
(***************************************************************************)

\* The constant records are of their types.
LEMMA RecordTypes ==
  /\ Absent \in Check /\ Fresh \in Observed
  /\ \A c \in Clients : NoCall(c) \in Request
BY DEF Absent, Check, Fresh, Observed, NoCall, Request, Nothing

\* A callback's request is a request, and so is a copy of it.
LEMMA RequestTypes ==
  ASSUME TypeOK, NEW c \in Clients
  PROVE  /\ \A writes \in SUBSET Nodes, kind \in Kinds : WriteRequest(c, writes, kind) \in Request
         /\ SentAgain(c) \in Request
<1>1. tx[c] \in Observed /\ attempt[c] \in Nat /\ call[c] \in Request
  BY DEF TypeOK
<1>2. \A writes \in SUBSET Nodes, kind \in Kinds : WriteRequest(c, writes, kind) \in Request
  BY <1>1, TransactionParameters DEF WriteRequest, Request, Observed
<1>3. SentAgain(c) \in Request
  BY <1>1 DEF SentAgain, Request
<1> QED
  BY <1>2, <1>3

\* A write leaves checks and a revision.
LEMMA WriteTypes ==
  ASSUME TypeOK, NEW writes \in SUBSET Nodes, NEW kind \in Kinds, ApplyWrites(writes, kind)
  PROVE  checks' \in [Nodes -> Check] /\ rev' \in Nat
<1>1. rev \in Nat /\ rev' = rev + 1
  BY DEF TypeOK, ApplyWrites
<1>2. ASSUME NEW n \in Nodes PROVE WrittenCheck(n, kind) \in Check
  BY <1>1 DEF TypeOK, WrittenCheck, Check
<1> QED
  BY <1>1, <1>2 DEF TypeOK, ApplyWrites

\* Restart and Leave keep the types of a client's state.
LEMMA DiscardTypes ==
  ASSUME TypeOK, NEW c \in Clients, Restart(c) \/ Leave(c)
  PROVE  /\ tx' \in [Clients -> Observed] /\ call' \in [Clients -> Request]
         /\ pc' \in [Clients -> PC] /\ attempt' \in [Clients -> Nat]
<1>1. tx' \in [Clients -> Observed] /\ call' \in [Clients -> Request]
  BY RecordTypes DEF TypeOK, Restart, Leave, Discard
<1>2. pc' \in [Clients -> PC]
  BY DEF TypeOK, Restart, Leave, PC
<1>3. attempt' \in [Clients -> Nat]
  BY DEF TypeOK, Restart, Leave
<1> QED
  BY <1>1, <1>2, <1>3

\* Answers are answers.
LEMMA AnswerTypes ==
  ASSUME TypeOK, NEW r \in net, NEW what \in Replies, Answer(r, what)
  PROVE  reply' \in [Clients -> Replies]
BY DEF TypeOK, Answer, Request

\* Every step keeps the types.
LEMMA TypesKept ==
  ASSUME IInv, [Next]_vars
  PROVE  TypeOK'
<1> USE DEF IInv
<1>1. ASSUME NEW c \in Clients, Begin(c) PROVE TypeOK'
  BY <1>1 DEF TypeOK, Begin, PC
<1>2. ASSUME NEW c \in Clients, NEW asked \in SUBSET Nodes, Observe(c, asked) PROVE TypeOK'
  <2>1. /\ UNCHANGED <<checks, rev, reply, net, commits>>
        /\ TypeOK
    BY <1>2 DEF Observe
  <2>2. CASE Restart(c)
    BY <2>1, <2>2, DiscardTypes DEF TypeOK
  <2>3. CASE ~Restart(c)
    <3> DEFINE new == [read |-> TRUE, snap |-> ObservedAt(tx[c]), nodes |-> tx[c].nodes \cup asked,
                       base |-> IF tx[c].read THEN tx[c].base ELSE Contents,
                       seen |-> [n \in Nodes |-> IF n \in asked THEN checks[n].changes
                                                                ELSE tx[c].seen[n]]]
    <3>1. tx' = [tx EXCEPT ![c] = new] /\ UNCHANGED <<pc, attempt, call>>
      BY <1>2, <2>3 DEF Observe
    <3>2. new \in Observed
      BY <2>1 DEF TypeOK, Observed, ObservedAt, Contents, Check
    <3> QED
      BY <2>1, <3>1, <3>2 DEF TypeOK
  <2> QED
    BY <2>2, <2>3
<1>3. ASSUME NEW c \in Clients, NEW n \in Nodes, AssertMissing(c, n) PROVE TypeOK'
  <2>1. /\ tx' = [tx EXCEPT ![c] = [tx[c] EXCEPT !.nodes = tx[c].nodes \cup {n}]]
        /\ UNCHANGED <<checks, rev, pc, attempt, call, reply, net, commits>>
    BY <1>3 DEF AssertMissing
  <2>2. tx \in [Clients -> Observed] /\ tx[c] \in Observed
    BY DEF TypeOK
  <2>3. [tx[c] EXCEPT !.nodes = tx[c].nodes \cup {n}] \in Observed
    BY <2>2 DEF Observed
  <2>4. tx' \in [Clients -> Observed]
    BY <2>1, <2>2, <2>3
  <2> QED
    BY <2>1, <2>4 DEF TypeOK
<1>4. ASSUME NEW c \in Clients, NEW writes \in (SUBSET Nodes) \ {{}}, NEW kind \in Kinds,
             Write(c, writes, kind)
      PROVE  TypeOK'
  <2>1. WriteRequest(c, writes, kind) \in Request
    BY RequestTypes
  <2> QED
    BY <1>4, <2>1 DEF TypeOK, Write, PC, Replies
<1>5. ASSUME NEW c \in Clients, Return(c) PROVE TypeOK'
  BY <1>5, DiscardTypes DEF TypeOK, Return
<1>6. ASSUME NEW c \in Clients, Receive(c) PROVE TypeOK'
  <2>1. reply' \in [Clients -> Replies]
    BY <1>6 DEF TypeOK, Receive, Replies
  <2>2. (Leave(c) \/ Restart(c)) /\ UNCHANGED <<checks, rev, net, commits>>
    BY <1>6 DEF Receive
  <2> QED
    BY <2>1, <2>2, DiscardTypes DEF TypeOK
<1>7. ASSUME NEW c \in Clients, CallFails(c) PROVE TypeOK'
  <2>1. reply' \in [Clients -> Replies] /\ UNCHANGED <<checks, rev, commits>>
    BY <1>7 DEF TypeOK, CallFails, Replies
  <2>2. CASE Leave(c) /\ UNCHANGED net
    BY <2>1, <2>2, DiscardTypes DEF TypeOK
  <2>3. CASE ~(Leave(c) /\ UNCHANGED net)
    <3>1. call' = [call EXCEPT ![c] = SentAgain(c)] /\ net' = net \cup {SentAgain(c)}
          /\ UNCHANGED <<pc, tx, attempt>>
      BY <1>7, <2>3 DEF CallFails
    <3>2. SentAgain(c) \in Request
      BY RequestTypes
    <3> QED
      BY <2>1, <3>1, <3>2 DEF TypeOK
  <2> QED
    BY <2>2, <2>3
<1>8. ASSUME NEW r \in net, Apply(r) PROVE TypeOK'
  <2>1. /\ net' \subseteq Request /\ UNCHANGED <<pc, tx, attempt, call>>
        /\ r.writes \in SUBSET Nodes /\ r.kind \in Kinds /\ r.from \in Clients
        /\ r.attempt \in Attempts(r.from)
    BY <1>8 DEF Apply, client, TypeOK, Numbered, Sent, Request
  <2>2. checks' \in [Nodes -> Check] /\ rev' \in Nat
    BY <1>8, <2>1, WriteTypes DEF Apply
  <2>3. reply' \in [Clients -> Replies]
    BY <1>8, AnswerTypes DEF Apply, Replies
  <2>4. DOMAIN commits' = Clients /\ \A c \in Clients : commits'[c] \in [Attempts(c) -> Nat]
    BY <1>8, <2>1 DEF Apply, TypeOK
  <2> QED
    BY <2>1, <2>2, <2>3, <2>4 DEF TypeOK
<1>9. ASSUME NEW r \in net, Refuse(r) PROVE TypeOK'
  <2>1. reply' \in [Clients -> Replies]
    BY <1>9, AnswerTypes DEF Refuse, Replies
  <2> QED
    BY <1>9, <2>1 DEF Refuse, client, TypeOK
<1>10. ASSUME NEW n \in Nodes, NEW kind \in Kinds, OtherWrite(n, kind) PROVE TypeOK'
  <2>1. checks' \in [Nodes -> Check] /\ rev' \in Nat
    BY <1>10, WriteTypes DEF OtherWrite
  <2> QED
    BY <1>10, <2>1 DEF OtherWrite, client, TypeOK
<1>11. CASE UNCHANGED vars
  BY <1>11 DEF vars, TypeOK
<1>12. Present \in SUBSET Nodes
  BY DEF Present
<1> QED
  BY <1>1, <1>2, <1>3, <1>4, <1>5, <1>6, <1>7, <1>8, <1>9, <1>10, <1>11, <1>12
     DEF Next, Callback, QueryByIds, QueryWorkplan, Terminated

(***************************************************************************)
(* The shapes of the steps.                                                *)
(***************************************************************************)

\* The callback goes on: it has learnt something.
Learns(c, new) ==
  /\ pc[c] = "body"
  /\ UNCHANGED <<checks, rev, net, commits, pc, attempt, call>>
  /\ tx' = [tx EXCEPT ![c] = new]

\* The callback begins, begins again, or is over.
Moves(c) ==
  /\ UNCHANGED <<checks, rev, net, commits>>
  /\ \/ tx' = tx
     \/ tx' = [tx EXCEPT ![c] = Fresh]
  /\ \A d \in Clients \ {c} : call'[d] = call[d]
  /\ \/ /\ pc' = [pc EXCEPT ![c] = "over"]
        /\ pc[c] # "idle" /\ attempt' = attempt
     \/ /\ pc' = [pc EXCEPT ![c] = "body"]
        /\ attempt' = [attempt EXCEPT ![c] = @ + 1]
        /\ attempt[c] + 1 \in Attempts(c)

\* A request is sent, for the first time or again.
Sends(c, r) ==
  /\ UNCHANGED <<checks, rev, commits, tx, attempt>>
  /\ pc' = [pc EXCEPT ![c] = "waiting"]
  /\ call' = [call EXCEPT ![c] = r]
  /\ net' = net \cup {r}
  /\ \/ /\ pc[c] = "body"
        /\ \E writes \in (SUBSET Nodes) \ {{}}, kind \in Kinds : r = WriteRequest(c, writes, kind)
     \/ /\ pc[c] = "waiting"
        /\ r = SentAgain(c)

\* A request is refused, or nothing happens.
Rests ==
  /\ UNCHANGED <<checks, rev, commits, tx, attempt, pc, call>>
  /\ net' \subseteq net

\* What a query teaches.
Taught(t, asked) ==
  [read |-> TRUE, snap |-> ObservedAt(t), nodes |-> t.nodes \cup asked,
   base |-> IF t.read THEN t.base ELSE Contents,
   seen |-> [n \in Nodes |-> IF n \in asked THEN checks[n].changes ELSE t.seen[n]]]

\* Every step has one of the shapes.
LEMMA Shapes ==
  ASSUME IInv, [Next]_vars
  PROVE  \/ \E c \in Clients, asked \in SUBSET Nodes :
              /\ Learns(c, Taught(tx[c], asked))
              /\ tx[c].nodes # {} => tx[c].read
              /\ ~NewerThanFirst(tx[c], asked)
         \/ \E c \in Clients, n \in Nodes :
              ~tx[c].read /\ Learns(c, [tx[c] EXCEPT !.nodes = @ \cup {n}])
         \/ \E c \in Clients : Moves(c)
         \/ \E c \in Clients : \E r \in Request : Sends(c, r)
         \/ Rests
         \/ \E r \in net : Apply(r)
         \/ \E n \in Nodes, kind \in Kinds : OtherWrite(n, kind)
<1> DEFINE Goal ==
         \/ \E c \in Clients, asked \in SUBSET Nodes :
              /\ Learns(c, Taught(tx[c], asked))
              /\ tx[c].nodes # {} => tx[c].read
              /\ ~NewerThanFirst(tx[c], asked)
         \/ \E c \in Clients, n \in Nodes :
              ~tx[c].read /\ Learns(c, [tx[c] EXCEPT !.nodes = @ \cup {n}])
         \/ \E c \in Clients : Moves(c)
         \/ \E c \in Clients : \E r \in Request : Sends(c, r)
         \/ Rests
         \/ \E r \in net : Apply(r)
         \/ \E n \in Nodes, kind \in Kinds : OtherWrite(n, kind)
<1> SUFFICES Goal
  OBVIOUS
<1>0. TypeOK /\ Numbered
  BY DEF IInv
<1>a. ASSUME NEW c \in Clients, Restart(c), UNCHANGED <<checks, rev, net, commits>>,
             pc[c] \in {"body", "waiting"}
      PROVE  Moves(c)
  <2>1. attempt[c] \in Attempts(c)
    BY <1>0, <1>a DEF Numbered
  <2>2. attempt[c] < MaxAttempts[c] => attempt[c] + 1 \in Attempts(c)
    BY <2>1, TransactionParameters DEF Attempts
  <2>3. /\ tx' = [tx EXCEPT ![c] = Fresh]
        /\ \A d \in Clients \ {c} : call'[d] = call[d]
    BY <1>0, <1>a DEF Restart, Discard, TypeOK
  <2> QED
    BY <1>a, <2>2, <2>3 DEF Moves, Restart
<1>b. ASSUME NEW c \in Clients, Leave(c), UNCHANGED <<checks, rev, net, commits>>,
             pc[c] \in {"body", "waiting"}
      PROVE  Moves(c)
  <2>1. /\ tx' = [tx EXCEPT ![c] = Fresh]
        /\ \A d \in Clients \ {c} : call'[d] = call[d]
    BY <1>0, <1>b DEF Leave, Discard, TypeOK
  <2> QED
    BY <1>b, <2>1 DEF Moves, Leave
<1>1. ASSUME NEW c \in Clients, Begin(c) PROVE Goal
  <2>1. attempt[c] = 0 /\ 1 \in Attempts(c)
    BY <1>0, <1>1, TransactionParameters DEF Begin, Numbered, Attempts
  <2>2. Moves(c)
    BY <1>1, <2>1 DEF Begin, Moves
  <2> QED
    BY <2>2
<1>2. ASSUME NEW c \in Clients, NEW asked \in SUBSET Nodes, Observe(c, asked) PROVE Goal
  <2>1. CASE Restart(c)
    <3>1. Moves(c)
      BY <1>2, <2>1, <1>a DEF Observe
    <3> QED
      BY <3>1
  <2>2. CASE ~Restart(c)
    <3>1. /\ Learns(c, Taught(tx[c], asked))
          /\ tx[c].nodes # {} => tx[c].read
          /\ ~NewerThanFirst(tx[c], asked)
      BY <1>2, <2>2 DEF Observe, Learns, Taught
    <3> QED
      BY <3>1
  <2> QED
    BY <2>1, <2>2
<1>3. ASSUME NEW c \in Clients, NEW n \in Nodes, AssertMissing(c, n) PROVE Goal
  <2>1. ~tx[c].read /\ Learns(c, [tx[c] EXCEPT !.nodes = @ \cup {n}])
    BY <1>0, <1>3 DEF AssertMissing, Learns, TypeOK
  <2> QED
    BY <2>1
<1>4. ASSUME NEW c \in Clients, NEW writes \in (SUBSET Nodes) \ {{}}, NEW kind \in Kinds,
             Write(c, writes, kind)
      PROVE  Goal
  <2>1. WriteRequest(c, writes, kind) \in Request
    BY <1>0, RequestTypes
  <2>2. Sends(c, WriteRequest(c, writes, kind))
    BY <1>4 DEF Write, Sends
  <2> QED
    BY <2>1, <2>2
<1>5. ASSUME NEW c \in Clients, Return(c) PROVE Goal
  <2>1. Moves(c)
    BY <1>5, <1>b DEF Return
  <2> QED
    BY <2>1
<1>6. ASSUME NEW c \in Clients, Receive(c) PROVE Goal
  <2>1. Moves(c)
    BY <1>6, <1>a, <1>b DEF Receive
  <2> QED
    BY <2>1
<1>7. ASSUME NEW c \in Clients, CallFails(c) PROVE Goal
  <2>1. CASE Leave(c) /\ UNCHANGED net
    <3>1. Moves(c)
      BY <1>7, <2>1, <1>b DEF CallFails
    <3> QED
      BY <3>1
  <2>2. CASE ~(Leave(c) /\ UNCHANGED net)
    <3>1. pc[c] = "waiting" /\ pc' = pc /\ pc \in [Clients -> PC]
      BY <1>0, <1>7, <2>2 DEF CallFails, TypeOK
    <3>2. pc' = [pc EXCEPT ![c] = "waiting"]
      BY <3>1
    <3>3. Sends(c, SentAgain(c))
      BY <1>7, <2>2, <3>1, <3>2 DEF CallFails, Sends
    <3> QED
      BY <1>0, <3>3, RequestTypes
  <2> QED
    BY <2>1, <2>2
<1>8. ASSUME NEW r \in net, Refuse(r) PROVE Goal
  <2>1. Rests
    BY <1>8 DEF Refuse, client, Rests
  <2> QED
    BY <2>1
<1>9. CASE UNCHANGED vars
  <2>1. Rests
    BY <1>9 DEF vars, Rests
  <2> QED
    BY <2>1
<1>10. Present \in SUBSET Nodes
  BY DEF Present
<1>11. (\E r \in net : Apply(r)) => Goal
  OBVIOUS
<1>12. (\E n \in Nodes, kind \in Kinds : OtherWrite(n, kind)) => Goal
  OBVIOUS
<1> HIDE DEF Goal
<1>13. ASSUME NEW c \in Clients, Callback(c) PROVE Goal
  <2>1. ASSUME NEW ids \in (SUBSET Nodes) \ {{}}, QueryByIds(c, ids) PROVE Goal
    BY <1>2, <2>1 DEF QueryByIds
  <2>2. CASE QueryWorkplan(c)
    BY <1>2, <1>10, <2>2 DEF QueryWorkplan
  <2>3. CASE \E n \in Nodes : AssertMissing(c, n)
    BY <1>3, <2>3
  <2>4. CASE \E writes \in (SUBSET Nodes) \ {{}}, kind \in Kinds : Write(c, writes, kind)
    BY <1>4, <2>4
  <2>5. CASE Return(c)
    BY <1>5, <2>5
  <2> QED
    BY <1>13, <2>1, <2>2, <2>3, <2>4, <2>5 DEF Callback
<1>14. CASE Next
  <2>1. CASE \E c \in Clients : Begin(c) \/ Callback(c) \/ Receive(c) \/ CallFails(c)
    BY <1>1, <1>6, <1>7, <1>13, <2>1
  <2>2. CASE \E r \in net : Apply(r) \/ Refuse(r)
    BY <1>8, <1>11, <2>2
  <2>3. CASE Terminated
    BY <1>9, <2>3 DEF Terminated
  <2> QED
    BY <1>12, <1>14, <2>1, <2>2, <2>3 DEF Next
<1> QED
  BY <1>9, <1>14

(***************************************************************************)
(* Revisions.                                                              *)
(***************************************************************************)

\* A write keeps the versions sane.
LEMMA SaneWritten ==
  ASSUME TypeOK, Sane, NEW writes \in SUBSET Nodes, NEW kind \in Kinds,
         ApplyWrites(writes, kind)
  PROVE  Sane'
<1>1. rev \in Nat /\ rev' = rev + 1
  BY DEF TypeOK, ApplyWrites
<1>2. ASSUME NEW n \in Nodes
      PROVE  /\ checks'[n].version <= rev'
             /\ checks'[n].version = 0 => checks'[n].changes = 0 /\ checks'[n].results = "none"
             /\ checks'[n].changes = 0 => checks'[n].version = 0
  <2>1. checks[n] \in Check /\ checks'[n] = IF n \in writes THEN WrittenCheck(n, kind) ELSE checks[n]
    BY DEF TypeOK, ApplyWrites
  <2> QED
    BY <1>1, <2>1 DEF Sane, WrittenCheck, Touches, Check
<1> QED
  BY <1>2 DEF Sane

\* A write keeps track of what has changed since a revision.
LEMMA TracksWritten ==
  ASSUME TypeOK, Sane, NEW x, x.snap \in Nat, x.base \in [Nodes -> Nat], Tracks(x),
         NEW writes \in SUBSET Nodes, NEW kind \in Kinds, ApplyWrites(writes, kind)
  PROVE  Tracks(x)'
<1>1. rev \in Nat /\ rev' = rev + 1 /\ x.snap <= rev
  BY DEF TypeOK, ApplyWrites, Tracks
<1>2. ASSUME NEW n \in Nodes
      PROVE  /\ x.base[n] <= checks'[n].changes
             /\ checks'[n].version > x.snap => x.base[n] < checks'[n].changes
             /\ OnlyData /\ checks'[n].version <= x.snap => x.base[n] = checks'[n].changes
  <2>1. /\ checks[n] \in Check /\ x.base[n] \in Nat
        /\ checks'[n] = IF n \in writes THEN WrittenCheck(n, kind) ELSE checks[n]
    BY DEF TypeOK, ApplyWrites
  <2>2. OnlyData => kind = "data"
    BY DEF OnlyData
  <2>3. CASE n \notin writes
    BY <2>1, <2>3 DEF Tracks
  <2>4. CASE n \in writes
    <3>1. /\ checks'[n].changes = checks[n].changes + 1
          /\ checks'[n].version = IF Touches(n, kind) THEN rev + 1 ELSE checks[n].version
          /\ checks[n].changes \in Nat /\ checks[n].version \in Nat
      BY <2>1, <2>4 DEF WrittenCheck, Check
    <3>2. x.base[n] <= checks[n].changes
      BY DEF Tracks
    <3>3. OnlyData => checks'[n].version = rev + 1
      BY <2>2, <3>1 DEF Touches
    <3> QED
      BY <1>1, <2>1, <3>1, <3>2, <3>3
  <2> QED
    BY <2>3, <2>4
<1> QED
  BY <1>1, <1>2 DEF Tracks, OnlyData

\* What is known at the present revision, and what is known of nothing.
LEMMA TracksAtFirst ==
  ASSUME TypeOK, Sane, NEW x,
         \/ x.snap = rev /\ x.base = Contents
         \/ x.snap = 0 /\ x.base = Nothing
  PROVE  Tracks(x)
<1>1. rev \in Nat /\ \A n \in Nodes : checks[n].version \in Nat /\ checks[n].changes \in Nat
  BY DEF TypeOK, Check
<1>2. CASE x.snap = rev /\ x.base = Contents
  BY <1>1, <1>2 DEF Tracks, Sane, Contents
<1>3. CASE x.snap = 0 /\ x.base = Nothing
  BY <1>1, <1>3 DEF Tracks, Sane, Nothing
<1> QED
  BY <1>2, <1>3

\* Only Sends adds to what is sent.
LEMMA SentShrinks ==
  ASSUME TypeOK, NEW c \in Clients
  PROVE  /\ \A new : Learns(c, new) => Sent' = Sent
         /\ Moves(c) => Sent' \subseteq Sent
         /\ \A r : Sends(c, r) => Sent' \subseteq Sent \cup {r}
<1>1. \A new : Learns(c, new) => Sent' = Sent
  BY DEF Learns, Sent
<1>2. ASSUME Moves(c) PROVE Sent' \subseteq Sent
  <2>1. /\ net' = net /\ pc'[c] # "waiting"
        /\ \A d \in Clients \ {c} : pc'[d] = pc[d] /\ call'[d] = call[d]
    BY <1>2 DEF Moves, TypeOK
  <2> QED
    BY <2>1 DEF Sent
<1>3. ASSUME NEW r, Sends(c, r) PROVE Sent' \subseteq Sent \cup {r}
  <2>1. /\ net' = net \cup {r} /\ call'[c] = r
        /\ \A d \in Clients \ {c} : pc'[d] = pc[d] /\ call'[d] = call[d]
    BY <1>3 DEF Sends, TypeOK
  <2> QED
    BY <2>1 DEF Sent
<1> QED
  BY <1>1, <1>2, <1>3

\* Requests are requests.
LEMMA SentTypes ==
  ASSUME TypeOK
  PROVE  Sent \subseteq Request
BY DEF TypeOK, Sent

\* Nobody's knowledge becomes wrong.
LEMMA AllTrackKept ==
  ASSUME IInv, [Next]_vars
  PROVE  Sane' /\ AllTrack'
<1>0. TypeOK /\ Sane /\ AllTrack /\ Numbered
  BY DEF IInv
<1>1. ASSUME UNCHANGED <<checks, rev>>, NEW x, Tracks(x) PROVE Tracks(x)'
  BY <1>1 DEF Tracks, OnlyData
<1>2. ASSUME UNCHANGED <<checks, rev>> PROVE Sane'
  BY <1>0, <1>2 DEF Sane
<1>3. ASSUME NEW c \in Clients, NEW asked \in SUBSET Nodes, Learns(c, Taught(tx[c], asked))
      PROVE  Sane' /\ AllTrack'
  <2>1. UNCHANGED <<checks, rev>> /\ Sent' = Sent
    BY <1>0, <1>3, SentShrinks DEF Learns
  <2>2. Tracks(Taught(tx[c], asked))
    <3>1. CASE tx[c].read
      BY <1>0, <3>1 DEF AllTrack, Tracks, Taught, ObservedAt
    <3>2. CASE ~tx[c].read
      BY <1>0, <3>2, TracksAtFirst DEF Taught, ObservedAt
    <3> QED
      BY <3>1, <3>2
  <2>3. tx' = [tx EXCEPT ![c] = Taught(tx[c], asked)] /\ Taught(tx[c], asked).read
    BY <1>3 DEF Learns, Taught
  <2> QED
    BY <1>0, <1>1, <1>2, <2>1, <2>2, <2>3 DEF AllTrack, TypeOK
<1>4. ASSUME NEW c \in Clients, NEW n \in Nodes, Learns(c, [tx[c] EXCEPT !.nodes = @ \cup {n}])
      PROVE  Sane' /\ AllTrack'
  <2>1. UNCHANGED <<checks, rev>> /\ Sent' = Sent
    BY <1>0, <1>4, SentShrinks DEF Learns
  <2> DEFINE new == [tx[c] EXCEPT !.nodes = @ \cup {n}]
  <2>2. new.snap = tx[c].snap /\ new.base = tx[c].base /\ new.read = tx[c].read
    BY <1>0 DEF TypeOK, Observed
  <2>3. Tracks(new)
    BY <1>0, <2>2 DEF AllTrack, Tracks
  <2>4. tx' = [tx EXCEPT ![c] = new]
    BY <1>4 DEF Learns
  <2> QED
    BY <1>0, <1>1, <1>2, <2>1, <2>2, <2>3, <2>4 DEF AllTrack, TypeOK
<1>5. ASSUME NEW c \in Clients, Moves(c) PROVE Sane' /\ AllTrack'
  <2>1. UNCHANGED <<checks, rev>> /\ Sent' \subseteq Sent
    BY <1>0, <1>5, SentShrinks DEF Moves
  <2>2. Tracks(Fresh) /\ Fresh.snap = 0 /\ Fresh.base = Nothing
    BY <1>0, TracksAtFirst DEF Fresh
  <2>3. \A d \in Clients : tx'[d] = tx[d] \/ tx'[d] = Fresh
    BY <1>0, <1>5 DEF Moves, TypeOK
  <2> QED
    BY <1>0, <1>1, <1>2, <2>1, <2>2, <2>3 DEF AllTrack
<1>6. ASSUME NEW c \in Clients, NEW r \in Request, Sends(c, r) PROVE Sane' /\ AllTrack'
  <2>1. UNCHANGED <<checks, rev, tx>> /\ Sent' \subseteq Sent \cup {r}
    BY <1>0, <1>6, SentShrinks DEF Sends
  <2>2. Tracks(r)
    <3>1. CASE \E writes \in (SUBSET Nodes) \ {{}}, kind \in Kinds : r = WriteRequest(c, writes, kind)
      BY <1>0, <3>1 DEF AllTrack, Tracks, WriteRequest
    <3>2. CASE pc[c] = "waiting" /\ r = SentAgain(c)
      <4>1. call[c] \in Sent /\ call[c] \in Request
        BY <1>0, <3>2 DEF Sent, TypeOK
      <4>2. r.snap = call[c].snap /\ r.base = call[c].base
        BY <3>2, <4>1 DEF SentAgain, Request
      <4> QED
        BY <1>0, <4>1, <4>2 DEF AllTrack, Tracks
    <3> QED
      BY <1>6, <3>1, <3>2 DEF Sends
  <2> QED
    BY <1>0, <1>1, <1>2, <2>1, <2>2 DEF AllTrack
<1>7. CASE Rests
  <2>1. UNCHANGED <<checks, rev, tx>> /\ Sent' \subseteq Sent
    BY <1>7 DEF Rests, Sent
  <2> QED
    BY <1>0, <1>1, <1>2, <2>1 DEF AllTrack
<1>8. ASSUME NEW writes \in SUBSET Nodes, NEW kind \in Kinds, ApplyWrites(writes, kind),
             tx' = tx, Sent' \subseteq Sent
      PROVE  Sane' /\ AllTrack'
  <2>1. \A c \in Clients : tx[c].snap \in Nat /\ tx[c].base \in [Nodes -> Nat]
    BY <1>0 DEF TypeOK, Observed
  <2>2. \A r \in Sent : r.snap \in Nat /\ r.base \in [Nodes -> Nat]
    BY <1>0, SentTypes DEF Request
  <2>3. \A c \in Clients : Tracks(tx[c])'
    <3>1. SUFFICES ASSUME NEW c \in Clients PROVE Tracks(tx[c])'
      OBVIOUS
    <3> DEFINE x == tx[c]
    <3>2. Tracks(x) /\ x.snap \in Nat /\ x.base \in [Nodes -> Nat] /\ x' = x
      BY <1>0, <1>8, <2>1 DEF AllTrack
    <3> QED
      BY <1>0, <1>8, <3>2, TracksWritten DEF Tracks, OnlyData
  <2>4. ASSUME NEW r \in Sent PROVE Tracks(r)'
    BY <1>0, <1>8, <2>2, TracksWritten DEF AllTrack
  <2> QED
    BY <1>0, <1>8, <2>3, <2>4, SaneWritten DEF AllTrack
<1>9. ASSUME NEW r \in net, Apply(r) PROVE Sane' /\ AllTrack'
  <2>1. r.writes \in SUBSET Nodes /\ r.kind \in Kinds
    BY <1>0 DEF TypeOK, Request, Numbered, Sent
  <2>2. tx' = tx /\ Sent' \subseteq Sent
    BY <1>9 DEF Apply, client, Sent
  <2> QED
    BY <1>8, <1>9, <2>1, <2>2 DEF Apply
<1>10. ASSUME NEW n \in Nodes, NEW kind \in Kinds, OtherWrite(n, kind) PROVE Sane' /\ AllTrack'
  <2>1. tx' = tx /\ Sent' \subseteq Sent
    BY <1>10 DEF OtherWrite, client, Sent
  <2> QED
    BY <1>8, <1>10, <2>1 DEF OtherWrite
<1> QED
  BY <1>3, <1>4, <1>5, <1>6, <1>7, <1>9, <1>10, Shapes

(***************************************************************************)
(* Requests and their copies.                                              *)
(***************************************************************************)

\* What a request that is sent has in common with what its client knows.
LEMMA SentFacts ==
  ASSUME TypeOK, Numbered, NEW c \in Clients, NEW r \in Request, Sends(c, r)
  PROVE  /\ r.from = c /\ r.attempt = attempt[c] /\ attempt[c] \in Attempts(c)
         /\ r.writes # {} /\ r.kind \in Kinds
         /\ pc[c] # "body" => call[c] \in Sent /\ Alike(r, call[c])
                              /\ call[c].from = c /\ call[c].attempt = attempt[c]
<1>1. CASE pc[c] = "body"
  <2>1. PICK writes \in (SUBSET Nodes) \ {{}}, kind \in Kinds : r = WriteRequest(c, writes, kind)
    BY <1>1 DEF Sends
  <2>2. r.from = c /\ r.attempt = attempt[c] /\ r.writes = writes /\ r.kind = kind
    BY <2>1 DEF WriteRequest
  <2> QED
    BY <1>1, <2>2 DEF Numbered
<1>2. CASE pc[c] = "waiting" /\ r = SentAgain(c)
  <2>1. call[c] \in Sent /\ call[c] \in Request
    BY <1>2 DEF Sent, TypeOK
  <2>2. /\ r.from = call[c].from /\ r.attempt = call[c].attempt /\ r.writes = call[c].writes
        /\ r.kind = call[c].kind /\ r.nodes = call[c].nodes /\ r.snap = call[c].snap
    BY <1>2, <2>1 DEF SentAgain, Request
  <2> QED
    BY <1>2, <2>1, <2>2 DEF Numbered, Alike
<1> QED
  BY <1>1, <1>2 DEF Sends

\* Attempts are numbered in the order they are made.
LEMMA NumberedKept ==
  ASSUME IInv, [Next]_vars
  PROVE  Numbered'
<1>0. TypeOK /\ Numbered
  BY DEF IInv
<1>1. /\ \A c \in Clients : attempt[c] \in Nat
      /\ \A r \in Sent : r.attempt \in Nat /\ r.from \in Clients
  BY <1>0, SentTypes DEF TypeOK, Request
<1>2. ASSUME UNCHANGED <<commits, attempt, pc, call>>, Sent' \subseteq Sent PROVE Numbered'
  BY <1>0, <1>2 DEF Numbered
<1>3. ASSUME NEW c \in Clients, NEW new, Learns(c, new) PROVE Numbered'
  BY <1>0, <1>2, <1>3, SentShrinks DEF Learns
<1>4. ASSUME NEW c \in Clients, Moves(c) PROVE Numbered'
  <2>1. /\ Sent' \subseteq Sent /\ commits' = commits
        /\ \A d \in Clients \ {c} : call'[d] = call[d] /\ pc'[d] = pc[d] /\ attempt'[d] = attempt[d]
    BY <1>0, <1>4, SentShrinks DEF Moves, TypeOK
  <2>2. CASE pc'[c] = "over" /\ attempt'[c] = attempt[c]
    BY <1>0, <1>1, <2>1, <2>2 DEF Numbered
  <2>3. CASE pc'[c] = "body" /\ attempt'[c] = attempt[c] + 1 /\ attempt[c] + 1 \in Attempts(c)
    <3>1. \A a \in Attempts(c) : a \in Nat
      BY DEF Attempts
    <3>2. \A a \in Attempts(c) : commits'[c][a] > 0 => a <= attempt'[c] /\ a < attempt'[c]
      BY <1>0, <1>1, <2>1, <2>3, <3>1 DEF Numbered
    <3>3. \A r \in Sent : r.from = c => r.attempt <= attempt'[c] /\ r.attempt < attempt'[c]
      BY <1>0, <1>1, <2>3 DEF Numbered
    <3> QED
      BY <1>0, <1>1, <2>1, <2>3, <3>2, <3>3 DEF Numbered
  <2> QED
    BY <1>0, <1>4, <2>2, <2>3 DEF Moves, TypeOK
<1>5. ASSUME NEW c \in Clients, NEW r \in Request, Sends(c, r) PROVE Numbered'
  <2>1. /\ Sent' \subseteq Sent \cup {r} /\ UNCHANGED <<commits, attempt>>
        /\ pc'[c] = "waiting" /\ call'[c] = r
        /\ \A d \in Clients \ {c} : call'[d] = call[d] /\ pc'[d] = pc[d]
    BY <1>0, <1>5, SentShrinks DEF Sends, TypeOK
  <2>2. /\ r.from = c /\ r.attempt = attempt[c] /\ attempt[c] \in Attempts(c)
        /\ r.writes # {} /\ r.kind \in Kinds
    BY <1>0, <1>5, SentFacts
  <2> QED
    BY <1>0, <1>1, <2>1, <2>2 DEF Numbered
<1>6. CASE Rests
  BY <1>2, <1>6 DEF Rests, Sent
<1>7. ASSUME NEW r \in net, Apply(r) PROVE Numbered'
  <2>1. UNCHANGED <<attempt, pc, call>> /\ Sent' \subseteq Sent /\ r \in Sent
    BY <1>7 DEF Apply, client, Sent
  <2>2. ASSUME NEW c \in Clients, NEW a \in Attempts(c), commits'[c][a] > 0
        PROVE  commits[c][a] > 0 \/ (c = r.from /\ a = r.attempt)
    <3>1. DOMAIN commits = Clients /\ commits[c] \in [Attempts(c) -> Nat]
      BY <1>0 DEF TypeOK
    <3>2. \/ commits' = commits
          \/ commits' = [commits EXCEPT ![r.from][r.attempt] = @ + 1]
      BY <1>7 DEF Apply
    <3>3. c # r.from => commits'[c] = commits[c]
      BY <3>1, <3>2
    <3>4. c = r.from => \/ commits'[c] = commits[c]
                        \/ commits'[c] = [commits[c] EXCEPT ![r.attempt] = @ + 1]
      BY <3>1, <3>2
    <3>5. CASE c = r.from /\ a # r.attempt
      <4>1. commits'[c][a] = commits[c][a]
        BY <3>1, <3>4, <3>5
      <4> QED
        BY <2>2, <4>1
    <3> QED
      BY <2>2, <3>3, <3>5
  <2> QED
    BY <1>0, <2>1, <2>2 DEF Numbered
<1>8. ASSUME NEW n \in Nodes, NEW kind \in Kinds, OtherWrite(n, kind) PROVE Numbered'
  BY <1>2, <1>8 DEF OtherWrite, client, Sent
<1> QED
  BY <1>3, <1>4, <1>5, <1>6, <1>7, <1>8, Shapes

\* Copies stay alike.
LEMMA CopiesKept ==
  ASSUME IInv, [Next]_vars
  PROVE  CopiesAreAlike'
<1>0. TypeOK /\ Numbered /\ CopiesAreAlike
  BY DEF IInv
<1>1. ASSUME Sent' \subseteq Sent PROVE CopiesAreAlike'
  BY <1>0, <1>1 DEF CopiesAreAlike
<1>2. ASSUME NEW c \in Clients, NEW r \in Request, Sends(c, r) PROVE CopiesAreAlike'
  <2>1. Sent' \subseteq Sent \cup {r}
    BY <1>0, <1>2, SentShrinks
  <2>2. ASSUME NEW s \in Sent, s.from = c, s.attempt = attempt[c] PROVE Alike(r, s) /\ Alike(s, r)
    <3>1. CASE pc[c] = "body"
      BY <1>0, <2>2, <3>1, SentTypes DEF Numbered, Request
    <3>2. CASE pc[c] # "body"
      BY <1>0, <1>2, <2>2, <3>2, SentFacts DEF CopiesAreAlike, Alike
    <3> QED
      BY <3>1, <3>2
  <2>3. r.from = c /\ r.attempt = attempt[c] /\ Alike(r, r)
    BY <1>0, <1>2, SentFacts DEF Alike
  <2> QED
    BY <1>0, <2>1, <2>2, <2>3 DEF CopiesAreAlike
<1>3. CASE Rests
  BY <1>1, <1>3 DEF Rests, Sent
<1>4. ASSUME NEW r \in net, Apply(r) PROVE CopiesAreAlike'
  BY <1>1, <1>4 DEF Apply, client, Sent
<1>5. ASSUME NEW n \in Nodes, NEW kind \in Kinds, OtherWrite(n, kind) PROVE CopiesAreAlike'
  BY <1>1, <1>5 DEF OtherWrite, client, Sent
<1>6. ASSUME NEW c \in Clients, Moves(c) \/ (\E new : Learns(c, new)) PROVE CopiesAreAlike'
  BY <1>0, <1>1, <1>6, SentShrinks
<1> QED
  BY <1>2, <1>3, <1>4, <1>5, <1>6, Shapes

\* What has been refused stays refused, and an applied write spends its copies.
LEMMA UselessStays ==
  ASSUME TypeOK, Sane, NEW writes \in SUBSET Nodes, NEW kind \in {"data", "finalize"},
         ApplyWrites(writes, kind), NEW r \in Request, Tracks(r)
  PROVE  /\ Useless(r) => Useless(r)'
         /\ writes = r.writes /\ kind = r.kind /\ writes # {} => Useless(r)'
<1>1. rev \in Nat /\ r.snap \in Nat /\ r.snap <= rev /\ r.writes \in SUBSET Nodes
      /\ r.nodes \in SUBSET Nodes
  BY DEF TypeOK, Request, Tracks
<1>2. ASSUME NEW n \in Nodes
      PROVE  /\ checks[n].version \in Nat /\ checks'[n].version \in Nat
             /\ checks[n].version <= checks'[n].version
             /\ kind = "data" /\ n \in writes => checks'[n].version = rev + 1
             /\ kind = "finalize" /\ n \in writes => checks'[n].results = "final"
             /\ checks[n].results = "final" => checks'[n].results = "final"
  <2>1. checks[n] \in Check /\ checks[n].version <= rev
        /\ checks'[n] = IF n \in writes THEN WrittenCheck(n, kind) ELSE checks[n]
    BY DEF TypeOK, ApplyWrites, Sane
  <2> QED
    BY <1>1, <2>1 DEF WrittenCheck, Touches, Check
<1>3. ASSUME NEW n \in TooNew(r) PROVE n \in TooNew(r)'
  BY <1>1, <1>2, <1>3 DEF TooNew, IsNewer
<1>4. ASSUME kind = "data", writes = r.writes, NEW n \in writes PROVE n \in TooNew(r)'
  BY <1>1, <1>2, <1>4 DEF TooNew, IsNewer
<1>5. ~Allowed(r.writes, r.kind) => ~Allowed(r.writes, r.kind)'
  BY <1>1, <1>2 DEF Allowed
<1>6. kind = "finalize" /\ writes = r.writes /\ kind = r.kind /\ writes # {}
        => ~Allowed(r.writes, r.kind)'
  BY <1>1, <1>2 DEF Allowed
<1> QED
  BY <1>3, <1>4, <1>5, <1>6 DEF Useless

\* What was applied is never applied again.
LEMMA OnceKept ==
  ASSUME IInv, [Next]_vars
  PROVE  Spent' /\ AppliedOnce'
<1>0. TypeOK /\ Sane /\ AllTrack /\ Numbered /\ CopiesAreAlike /\ Spent /\ AppliedOnce
  BY DEF IInv
<1>1. ASSUME UNCHANGED <<checks, commits>>, Sent' \subseteq Sent PROVE Spent' /\ AppliedOnce'
  BY <1>0, <1>1 DEF Spent, AppliedOnce, Useless, TooNew, Allowed
<1>2. ASSUME NEW c \in Clients, NEW r \in Request, Sends(c, r) PROVE Spent' /\ AppliedOnce'
  <2>1. Sent' \subseteq Sent \cup {r} /\ UNCHANGED <<checks, commits>>
    BY <1>0, <1>2, SentShrinks DEF Sends
  <2>2. r.nodes # {} /\ commits[r.from][r.attempt] > 0 => Useless(r)
    <3>1. CASE pc[c] = "body"
      <4>1. ~(attempt[c] < attempt[c])
        BY <1>0 DEF TypeOK
      <4> QED
        BY <1>0, <1>2, <3>1, <4>1, SentFacts DEF Numbered
    <3>2. CASE pc[c] # "body"
      <4>1. call[c] \in Sent /\ Alike(r, call[c]) /\ r.from = call[c].from
            /\ r.attempt = call[c].attempt
        BY <1>0, <1>2, <3>2, SentFacts
      <4> QED
        BY <1>0, <4>1 DEF Spent, Alike, Useless, TooNew
    <3> QED
      BY <3>1, <3>2
  <2>3. AppliedOnce'
    BY <1>0, <2>1 DEF AppliedOnce
  <2>4. \A s \in Sent : s.nodes # {} /\ commits[s.from][s.attempt] > 0 => Useless(s)
    BY <1>0 DEF Spent
  <2> QED
    BY <2>1, <2>2, <2>3, <2>4 DEF Spent, Useless, TooNew, Allowed
<1>3. CASE Rests
  BY <1>1, <1>3 DEF Rests, Sent
<1>4. ASSUME NEW r \in net, Apply(r) PROVE Spent' /\ AppliedOnce'
  <2>1. /\ r \in Sent /\ Sent' \subseteq Sent /\ r \in Request
        /\ r.writes \in (SUBSET Nodes) \ {{}} /\ r.kind \in {"data", "finalize"}
        /\ r.from \in Clients /\ r.attempt \in Attempts(r.from)
    BY <1>0, <1>4 DEF Apply, client, Sent, TypeOK, Request, Numbered
  <2>2. /\ DOMAIN commits = Clients
        /\ \A c \in Clients : commits[c] \in [Attempts(c) -> Nat]
    BY <1>0 DEF TypeOK
  <2>3. \/ r.nodes = {} /\ commits' = commits
        \/ r.nodes # {} /\ commits' = [commits EXCEPT ![r.from][r.attempt] = @ + 1]
    BY <1>4 DEF Apply
  <2>4. r.nodes # {} => commits[r.from][r.attempt] = 0
    <3>1. r.nodes # {} => ~Useless(r)
      BY <1>4 DEF Apply, Conflicts, ApplyWrites, Useless
    <3>2. commits[r.from][r.attempt] \in Nat
      BY <2>1, <2>2
    <3> QED
      BY <1>0, <2>1, <3>1, <3>2 DEF Spent
  <2>5. ASSUME NEW c \in Clients, NEW a \in Attempts(c)
        PROVE  \/ commits'[c][a] = commits[c][a]
               \/ c = r.from /\ a = r.attempt /\ r.nodes # {} /\ commits'[c][a] = 1
    <3>1. c # r.from => commits'[c] = commits[c]
      BY <2>2, <2>3
    <3>2. c = r.from /\ r.nodes # {} => commits'[c] = [commits[c] EXCEPT ![r.attempt] = @ + 1]
      BY <2>2, <2>3
    <3>3. commits[c] \in [Attempts(c) -> Nat]
      BY <2>2
    <3>4. CASE c = r.from /\ a = r.attempt /\ r.nodes # {}
      <4>1. commits'[c][a] = commits[c][a] + 1
        BY <3>2, <3>3, <3>4
      <4> QED
        BY <2>4, <3>4, <4>1
    <3>5. CASE c = r.from /\ a # r.attempt /\ r.nodes # {}
      <4>1. commits'[c][a] = commits[c][a]
        BY <3>2, <3>3, <3>5
      <4> QED
        BY <4>1
    <3> QED
      BY <2>3, <3>1, <3>4, <3>5
  <2>6. AppliedOnce'
    BY <1>0, <2>5 DEF AppliedOnce
  <2>7. ASSUME NEW s \in Sent, s.nodes # {}, commits'[s.from][s.attempt] > 0
        PROVE  Useless(s)'
    <3>1. s \in Request /\ Tracks(s) /\ s.from \in Clients /\ s.attempt \in Attempts(s.from)
      BY <1>0, SentTypes DEF AllTrack, Numbered, Request
    <3>2. CASE commits[s.from][s.attempt] > 0
      BY <1>0, <1>4, <2>1, <2>7, <3>1, <3>2, UselessStays DEF Spent, Apply
    <3>3. CASE ~(commits[s.from][s.attempt] > 0)
      <4>1. s.from = r.from /\ s.attempt = r.attempt
        BY <2>5, <2>7, <3>1, <3>3
      <4>2. s.writes = r.writes /\ s.kind = r.kind
        BY <1>0, <2>1, <4>1 DEF CopiesAreAlike, Alike
      <4> QED
        BY <1>0, <1>4, <2>1, <3>1, <4>2, UselessStays DEF Apply
    <3> QED
      BY <3>2, <3>3
  <2> QED
    BY <2>1, <2>6, <2>7 DEF Spent
<1>5. ASSUME NEW n \in Nodes, NEW kind \in Kinds, OtherWrite(n, kind) PROVE Spent' /\ AppliedOnce'
  <2>1. Sent' = Sent /\ commits' = commits
    BY <1>5 DEF OtherWrite, client, Sent
  <2>2. ASSUME NEW s \in Sent, Useless(s) PROVE Useless(s)'
    <3>1. s \in Request /\ Tracks(s)
      BY <1>0, SentTypes DEF AllTrack
    <3>2. ApplyWrites({n}, kind) /\ {n} \in SUBSET Nodes /\ kind \in {"data", "finalize"}
      BY <1>5, TransactionParameters DEF OtherWrite
    <3> QED
      BY <1>0, <2>2, <3>1, <3>2, UselessStays
  <2> QED
    BY <1>0, <2>1, <2>2 DEF Spent, AppliedOnce
<1>6. ASSUME NEW c \in Clients, Moves(c) \/ (\E new : Learns(c, new)) PROVE Spent' /\ AppliedOnce'
  <2>1. Sent' \subseteq Sent /\ UNCHANGED <<checks, commits>>
    BY <1>0, <1>6, SentShrinks DEF Moves, Learns
  <2> QED
    BY <1>1, <2>1
<1> QED
  BY <1>2, <1>3, <1>4, <1>5, <1>6, Shapes

\* A client's reads stay consistent.
LEMMA ReadsKept ==
  ASSUME IInv, [Next]_vars, OnlyData
  PROVE  ConsistentReads'
<1>0. TypeOK /\ Sane /\ AllTrack /\ ConsistentReads
  BY DEF IInv
<1>1. ASSUME tx' = tx PROVE ConsistentReads'
  BY <1>0, <1>1 DEF ConsistentReads
<1>2. ASSUME NEW c \in Clients, NEW asked \in SUBSET Nodes,
             Learns(c, Taught(tx[c], asked)), tx[c].nodes # {} => tx[c].read,
             ~NewerThanFirst(tx[c], asked)
      PROVE  ConsistentReads'
  <2> DEFINE t == tx[c]  new == Taught(tx[c], asked)
  <2>1. t \in Observed /\ Tracks(t)
    BY <1>0 DEF TypeOK, AllTrack
  <2>2. ASSUME NEW n \in new.nodes PROVE new.seen[n] = new.base[n]
    <3>1. n \in Nodes /\ n \in t.nodes \cup asked /\ checks[n] \in Check
      BY <1>0, <2>1, <2>2 DEF Taught, Observed, TypeOK
    <3>2. CASE ~t.read
      BY <1>2, <3>1, <3>2 DEF Taught, Contents
    <3>3. CASE t.read /\ n \notin asked
      BY <1>0, <3>1, <3>3 DEF Taught, ConsistentReads
    <3>4. CASE t.read /\ n \in asked
      <4>1. checks[n].version <= t.snap
        <5>1. CASE n \in Present
          BY <1>2, <2>1, <3>1, <3>4, <5>1 DEF NewerThanFirst, IsNewer, ObservedAt, Observed, Check
        <5>2. CASE n \notin Present
          BY <2>1, <3>1, <5>2 DEF Present, Absent, Observed
        <5> QED
          BY <5>1, <5>2
      <4>2. t.base[n] = checks[n].changes
        BY <2>1, <3>1, <4>1 DEF Tracks
      <4> QED
        BY <3>1, <3>4, <4>2 DEF Taught
    <3> QED
      BY <3>2, <3>3, <3>4
  <2>3. tx' = [tx EXCEPT ![c] = new]
    BY <1>2 DEF Learns
  <2> HIDE DEF new
  <2>4. \A d \in Clients : tx'[d] = new \/ tx'[d] = tx[d]
    BY <1>0, <2>3 DEF TypeOK
  <2> QED
    BY <1>0, <2>2, <2>4 DEF ConsistentReads
<1>3. ASSUME NEW c \in Clients, NEW n \in Nodes, ~tx[c].read,
             Learns(c, [tx[c] EXCEPT !.nodes = @ \cup {n}])
      PROVE  ConsistentReads'
  <2> DEFINE new == [tx[c] EXCEPT !.nodes = @ \cup {n}]
  <2>1. ~new.read
    BY <1>0, <1>3 DEF TypeOK, Observed
  <2>2. tx' = [tx EXCEPT ![c] = new]
    BY <1>3 DEF Learns
  <2> HIDE DEF new
  <2>3. \A d \in Clients : tx'[d] = new \/ tx'[d] = tx[d]
    BY <1>0, <2>2 DEF TypeOK
  <2> QED
    BY <1>0, <2>1, <2>3 DEF ConsistentReads
<1>4. ASSUME NEW c \in Clients, Moves(c) PROVE ConsistentReads'
  <2>1. \A d \in Clients : tx'[d] = Fresh \/ tx'[d] = tx[d]
    BY <1>0, <1>4 DEF Moves, TypeOK
  <2> QED
    BY <1>0, <2>1 DEF ConsistentReads, Fresh
<1>5. ASSUME NEW c \in Clients, NEW r \in Request, Sends(c, r) PROVE ConsistentReads'
  BY <1>1, <1>5 DEF Sends
<1>6. CASE Rests
  BY <1>1, <1>6 DEF Rests
<1>7. ASSUME NEW r \in net, Apply(r) PROVE ConsistentReads'
  BY <1>1, <1>7 DEF Apply, client
<1>8. ASSUME NEW n \in Nodes, NEW kind \in Kinds, OtherWrite(n, kind) PROVE ConsistentReads'
  BY <1>1, <1>8 DEF OtherWrite, client
<1> QED
  BY <1>2, <1>3, <1>4, <1>5, <1>6, <1>7, <1>8, Shapes

(***************************************************************************)
(* The theorems.                                                           *)
(***************************************************************************)

\* At first nothing is known and nothing has been sent.
LEMMA Initial == Init => IInv
<1> SUFFICES ASSUME Init PROVE IInv
  OBVIOUS
<1>1. TypeOK
  <2>1. commits = [c \in Clients |-> [a \in Attempts(c) |-> 0]]
    BY DEF Init
  <2> QED
    BY <2>1, RecordTypes, TransactionParameters DEF Init, TypeOK, PC, Replies
<1>2. Sane
  BY DEF Init, Sane, Absent
<1>3. Sent = {}
  BY DEF Init, Sent
<1>4. AllTrack
  <2>1. \A c \in Clients : tx[c] = Fresh
    BY DEF Init
  <2>2. Tracks(Fresh) /\ Fresh.snap = 0 /\ Fresh.base = Nothing
    BY <1>1, <1>2, TracksAtFirst DEF Fresh
  <2> QED
    BY <1>3, <2>1, <2>2 DEF AllTrack
<1>5. Numbered
  BY <1>3 DEF Init, Numbered
<1>6. CopiesAreAlike /\ Spent
  BY <1>3 DEF CopiesAreAlike, Spent
<1>7. AppliedOnce /\ ConsistentReads
  BY DEF Init, AppliedOnce, ConsistentReads, Fresh
<1> QED
  BY <1>1, <1>2, <1>4, <1>5, <1>6, <1>7 DEF IInv

\* The invariant is inductive, for any clients and any kinds of writes.
THEOREM Inductive == Spec => []IInv
<1>1. IInv /\ [Next]_vars => IInv'
  <2> SUFFICES ASSUME IInv, [Next]_vars PROVE IInv'
    OBVIOUS
  <2>1. TypeOK' /\ Sane' /\ AllTrack' /\ Numbered' /\ CopiesAreAlike'
    BY TypesKept, AllTrackKept, NumberedKept, CopiesKept
  <2>2. Spent' /\ AppliedOnce'
    BY OnceKept
  <2>3. OnlyData' => ConsistentReads'
    BY ReadsKept DEF OnlyData
  <2> QED
    BY <2>1, <2>2, <2>3 DEF IInv
<1> QED
  BY <1>1, Initial, PTL DEF Spec

\* The types of the orchestrator's and the clients' state.
THEOREM TransactionTypes == Spec => []TypeOK
BY Inductive, PTL DEF IInv

\* If writes change versions, no client mixes old and new.
THEOREM ReadsAreConsistent ==
  ASSUME OnlyData
  PROVE  Spec => []ConsistentReads
<1>1. IInv => ConsistentReads
  BY DEF IInv
<1> QED
  BY <1>1, Inductive, PTL

\* No attempt that observed a node is applied twice, whatever it writes.
THEOREM NothingTwice == Spec => []AppliedOnce
<1>1. IInv => AppliedOnce
  BY DEF IInv
<1> QED
  BY <1>1, Inductive, PTL

\* Only Apply both handles a request and advances the revision, and only
\* Refuse handles one and does not.
LEMMA HandlingShapes ==
  ASSUME IInv, [Next]_vars, NEW r \in net, Handled(r)
  PROVE  \/ Apply(r) /\ rev' # rev
         \/ Refuse(r) /\ rev' = rev
<1>0. TypeOK /\ rev \in Nat
  BY DEF IInv, TypeOK
<1>1. r \notin net'
  BY DEF Handled
<1>2. ASSUME NEW s \in net, Apply(s) PROVE s = r /\ rev' # rev
  BY <1>0, <1>1, <1>2 DEF Apply, ApplyWrites
<1>3. ASSUME NEW s \in net, Refuse(s) PROVE s = r /\ rev' = rev
  BY <1>1, <1>3 DEF Refuse
<1>4. ASSUME NEW c \in Clients, Callback(c) \/ Begin(c) \/ Receive(c) \/ CallFails(c)
      PROVE  net \subseteq net'
  BY <1>4 DEF Callback, Begin, Receive, CallFails, QueryByIds, QueryWorkplan, Observe,
              AssertMissing, Write, Return
<1>5. ASSUME NEW n \in Nodes, NEW kind \in Kinds, OtherWrite(n, kind) PROVE net' = net
  BY <1>5 DEF OtherWrite
<1>6. CASE UNCHANGED vars
  BY <1>1, <1>6 DEF vars
<1>7. CASE Next
  <2>1. (\E s \in net : Apply(s) \/ Refuse(s)) \/ UNCHANGED vars
    BY <1>1, <1>4, <1>5, <1>7 DEF Next, Terminated
  <2> QED
    BY <1>2, <1>3, <1>6, <2>1
<1> QED
  BY <1>6, <1>7

\* If writes change versions, transactions are serializable: what an attempt
\* observed still holds when its write is applied.
THEOREM TransactionsAreSerializable ==
  ASSUME OnlyData
  PROVE  Spec => Serializable
<1>1. IInv /\ [Next]_vars =>
        [\A r \in net : Handled(r) /\ rev' # rev /\ r.nodes # {} =>
           \A n \in r.nodes \cup r.writes : checks[n].changes = r.base[n]]_vars
  <2> SUFFICES ASSUME IInv, [Next]_vars, NEW r \in net, Handled(r), rev' # rev, r.nodes # {},
                      NEW n \in r.nodes \cup r.writes
               PROVE  checks[n].changes = r.base[n]
    OBVIOUS
  <2>1. Apply(r)
    BY HandlingShapes
  <2>2. n \notin TooNew(r) /\ n \in r.nodes \cup r.writes
    BY <2>1 DEF Apply, Conflicts
  <2>3. r \in Request /\ Tracks(r) /\ n \in Nodes /\ checks[n] \in Check
    BY DEF IInv, TypeOK, AllTrack, Sent, Request
  <2>4. checks[n].version <= r.snap
    BY <2>2, <2>3 DEF TooNew, IsNewer, Request, Check
  <2> QED
    BY <2>3, <2>4 DEF Tracks
<1> QED
  BY <1>1, Inductive, PTL DEF Spec, Serializable

\* A refused write has observed or writes a node that has really changed,
\* whatever kinds of writes there are.
THEOREM RefusalsHaveReasons == Spec => RefusedForAReason
<1>1. IInv /\ [Next]_vars =>
        [\A r \in net : Handled(r) /\ rev' = rev =>
           \E n \in r.nodes \cup r.writes : checks[n].changes # r.base[n]]_vars
  <2> SUFFICES ASSUME IInv, [Next]_vars, NEW r \in net, Handled(r), rev' = rev
               PROVE  \E n \in r.nodes \cup r.writes : checks[n].changes # r.base[n]
    OBVIOUS
  <2>1. Refuse(r)
    BY HandlingShapes
  <2>2. PICK n \in r.nodes \cup r.writes : checks[n].version > r.snap
    BY <2>1 DEF Refuse, Conflicts, TooNew, IsNewer
  <2>3. r \in Request /\ Tracks(r) /\ n \in Nodes /\ checks[n] \in Check
    BY DEF IInv, TypeOK, AllTrack, Sent, Request
  <2>4. r.base[n] < checks[n].changes /\ r.base[n] \in Nat /\ checks[n].changes \in Nat
    BY <2>2, <2>3 DEF Tracks, Request, Check
  <2> QED
    BY <2>4
<1> QED
  BY <1>1, Inductive, PTL DEF Spec, RefusedForAReason
------------------------------------------------------------------------------
\* An attempt that has read nothing and only asserts that nodes are missing
\* writes none that is there: "sufficient to guard against the nodes already
\* being written" (transaction_details.proto:70-73) is true of a transaction
\* that names a node, whatever kinds of writes there are.
NewNodesOfTransactions ==
  [][\A r \in net : Handled(r) /\ rev' # rev /\ ~r.read /\ r.nodes # {} =>
       (r.nodes \cup r.writes) \cap Present = {}]_vars

\* A request without a revision was made with revision 0.
UnreadIsZero == \A r \in Sent : ~r.read => r.snap = 0

\* What is sent is what was sent before, a copy of it, or what a client knows.
LEMMA UnreadKept ==
  ASSUME IInv, UnreadIsZero, [Next]_vars
  PROVE  UnreadIsZero'
<1>0. TypeOK /\ AllTrack /\ Numbered
  BY DEF IInv
<1>1. ASSUME Sent' \subseteq Sent PROVE UnreadIsZero'
  BY <1>1 DEF UnreadIsZero
<1>2. ASSUME NEW c \in Clients, NEW new, Learns(c, new) PROVE Sent' = Sent
  BY <1>0, <1>2, SentShrinks
<1>3. ASSUME NEW c \in Clients, Moves(c) PROVE Sent' \subseteq Sent
  BY <1>0, <1>3, SentShrinks
<1>4. ASSUME NEW c \in Clients, NEW r \in Request, Sends(c, r) PROVE UnreadIsZero'
  <2>1. Sent' \subseteq Sent \cup {r}
    BY <1>0, <1>4, SentShrinks DEF Sends
  <2>2. ~r.read => r.snap = 0
    <3>1. CASE \E writes \in (SUBSET Nodes) \ {{}}, kind \in Kinds : r = WriteRequest(c, writes, kind)
      BY <1>0, <3>1 DEF AllTrack, WriteRequest
    <3>2. CASE pc[c] = "waiting" /\ r = SentAgain(c)
      <4>1. call[c] \in Sent /\ call[c] \in Request
        BY <1>0, <3>2 DEF Sent, TypeOK
      <4>2. r.snap = call[c].snap /\ r.read = call[c].read
        BY <3>2, <4>1 DEF SentAgain, Request
      <4> QED
        BY <4>1, <4>2 DEF UnreadIsZero
    <3> QED
      BY <1>4, <3>1, <3>2 DEF Sends
  <2> QED
    BY <2>1, <2>2 DEF UnreadIsZero
<1>5. CASE Rests
  BY <1>1, <1>5 DEF Rests, Sent
<1>6. CASE \/ \E r \in net : Apply(r)
           \/ \E n \in Nodes, kind \in Kinds : OtherWrite(n, kind)
  <2>1. Sent' \subseteq Sent
    BY <1>6 DEF Apply, OtherWrite, client, Sent
  <2> QED
    BY <1>1, <2>1
<1> QED
  BY <1>1, <1>2, <1>3, <1>4, <1>5, <1>6, Shapes

\* The orchestrator compares versions with revision 0 for such an attempt, and a
\* check that is present has a version, even one that was only finalized.
THEOREM NewNodesGuarded == Spec => NewNodesOfTransactions
<1>1. Init => UnreadIsZero
  BY DEF Init, UnreadIsZero, Sent
<1>2. IInv /\ UnreadIsZero /\ [Next]_vars => UnreadIsZero'
  BY UnreadKept
<1>3. IInv /\ UnreadIsZero /\ [Next]_vars =>
        [\A r \in net : Handled(r) /\ rev' # rev /\ ~r.read /\ r.nodes # {} =>
           (r.nodes \cup r.writes) \cap Present = {}]_vars
  <2> SUFFICES ASSUME IInv, UnreadIsZero, [Next]_vars, NEW r \in net, Handled(r), rev' # rev,
                      ~r.read, r.nodes # {}, NEW n \in r.nodes \cup r.writes
               PROVE  n \notin Present
    OBVIOUS
  <2>1. Apply(r)
    BY HandlingShapes
  <2>2. n \notin TooNew(r)
    BY <2>1 DEF Apply, Conflicts
  <2>3. r \in Request /\ r.snap = 0 /\ n \in Nodes /\ checks[n] \in Check
    BY DEF IInv, TypeOK, UnreadIsZero, Sent, Request
  <2>4. checks[n].version = 0
    BY <2>2, <2>3 DEF TooNew, IsNewer, Check
  <2>5. checks[n].changes = 0 /\ checks[n].results = "none"
    BY <2>3, <2>4 DEF IInv, Sane, Check
  <2>6. checks[n] = Absent
    BY <2>3, <2>4, <2>5 DEF Check, Absent
  <2> QED
    BY <2>6 DEF Present
<1> QED
  BY <1>1, <1>2, <1>3, Inductive, PTL DEF Spec, NewNodesOfTransactions

\* The version of a check is "updated any time fields in this Check change"
\* (check.proto:87-89), if no write only finalizes results.
THEOREM VersionsFollow ==
  ASSUME OnlyData
  PROVE  Spec => VersionTracksChanges
<1>1. IInv /\ [Next]_vars =>
        [\A n \in Nodes : checks[n].changes # checks'[n].changes =>
           IsNewer(checks'[n].version, checks[n].version)]_vars
  <2> SUFFICES ASSUME IInv, [Next]_vars, NEW n \in Nodes, checks[n].changes # checks'[n].changes
               PROVE  checks'[n].version > checks[n].version
    BY DEF IsNewer
  <2>1. \E writes \in SUBSET Nodes, kind \in Kinds : ApplyWrites(writes, kind)
    <3>1. checks' # checks
      OBVIOUS
    <3>2. \/ \E r \in net : Apply(r)
          \/ \E m \in Nodes, kind \in Kinds : OtherWrite(m, kind)
      BY <3>1, Shapes DEF Learns, Moves, Sends, Rests
    <3>3. ASSUME NEW r \in net, Apply(r)
          PROVE  r.writes \in SUBSET Nodes /\ r.kind \in Kinds /\ ApplyWrites(r.writes, r.kind)
      BY <3>3 DEF IInv, TypeOK, Request, Numbered, Sent, Apply
    <3> QED
      BY <3>2, <3>3 DEF OtherWrite
  <2>2. PICK writes \in SUBSET Nodes, kind \in Kinds : ApplyWrites(writes, kind)
    BY <2>1
  <2>3. n \in writes /\ kind = "data"
    BY <2>2 DEF ApplyWrites, OnlyData
  <2>4. checks'[n].version = rev + 1
    BY <2>2, <2>3 DEF ApplyWrites, WrittenCheck, Touches
  <2>5. checks[n].version \in Nat /\ rev \in Nat /\ checks[n].version <= rev
    BY DEF IInv, Sane, TypeOK, Check
  <2> QED
    BY <2>4, <2>5
<1> QED
  BY <1>1, Inductive, PTL DEF Spec, VersionTracksChanges
=============================================================================
