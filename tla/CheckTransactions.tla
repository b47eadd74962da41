-------------------------- MODULE CheckTransactions --------------------------
(***************************************************************************)
(* Transactions on the nodes of a workplan (turboci/utils/client/          *)
(* transaction.py and clients.py) and the revisions that decide about them *)
(* (recipe_engine/internal/turboci/fake.py).                               *)
(*                                                                         *)
(* A client calls run_transaction with a callback, which queries and then  *)
(* writes once.  The write carries the nodes observed and the revision of  *)
(* the first query; the orchestrator refuses it when one of those nodes,   *)
(* or of the nodes it writes, has a newer version.  A call that fails in   *)
(* transit is sent again as it is: every copy may still be executed, in    *)
(* any order, or never.  After a refusal the callback starts again.        *)
(*                                                                         *)
(* A query is one step: its client is blocked until the answer, and a lost *)
(* one is only asked again.  What a check says is represented by the       *)
(* number of its changes, `changes`; the writes are legal (CheckGraph).    *)
(***************************************************************************)
EXTENDS Naturals, FiniteSets

CONSTANTS Clients,      \* callers of run_transaction
          Nodes,        \* identifiers of checks
          Kinds,        \* the kinds of write callbacks make
          MaxAttempts,  \* max_retries + 1 in each caller's run_transaction
          MaxCopies,    \* max_retries + 1 in its retry policy
          MaxRevision   \* bound: no writes outside of transactions from it on

ASSUME TransactionParameters ==
  /\ Kinds \subseteq {"data", "finalize"}
  /\ MaxAttempts \in [Clients -> Nat \ {0}]
  /\ MaxCopies \in [Clients -> Nat \ {0}]
  /\ MaxRevision \in Nat

(* Every write changes the version.  Not so the one that only finalizes       *)
(* results: it is "finalize", and with it among the Kinds three of the        *)
(* properties below do not hold, those that say so.                           *)
OnlyData == Kinds = {"data"}

VARIABLES checks,   \* the orchestrator's checks
          rev,      \* _revision
          pc,       \* where each client is
          tx,       \* its ObservedNodeSet
          attempt,  \* the attempt of run_transaction
          call,     \* its WriteNodes request, number of copies included
          reply,    \* the answer under way to it
          net,      \* copies of WriteNodes requests on their way
          commits   \* how often a guarded attempt was applied

vars == <<checks, rev, pc, tx, attempt, call, reply, net, commits>>
client == <<pc, tx, attempt, call>>
------------------------------------------------------------------------------
PC == {"idle", "body", "waiting", "over"}
Replies == {"none", "applied", "conflict"}
Attempts(c) == 1..MaxAttempts[c]

(* A check that is absent has version 0, that of an unset Revision.           *)
Check == [version : Nat, changes : Nat, results : {"none", "open", "final"}]
Absent == [version |-> 0, changes |-> 0, results |-> "none"]
Present == {n \in Nodes : checks[n] # Absent}
Contents == [n \in Nodes |-> checks[n].changes]

(* `read` says whether _rev is set.  `base` is what the nodes said at that    *)
(* revision, and `seen` what the client was told of them last.                *)
Observed == [read : BOOLEAN, snap : Nat, nodes : SUBSET Nodes,
             base : [Nodes -> Nat], seen : [Nodes -> Nat]]
Nothing == [n \in Nodes |-> 0]
Fresh == [read |-> FALSE, snap |-> 0, nodes |-> {}, base |-> Nothing, seen |-> Nothing]

Request == [from : Clients, attempt : Nat, copy : Nat, read : BOOLEAN, snap : Nat,
            nodes : SUBSET Nodes, base : [Nodes -> Nat],
            writes : SUBSET Nodes, kind : {"data", "finalize"}]
NoCall(c) == [from |-> c, attempt |-> 0, copy |-> 0, read |-> FALSE, snap |-> 0,
              nodes |-> {}, base |-> Nothing, writes |-> {}, kind |-> "data"]

IsNewerOrSame(a, b) == a >= b

(* _is_rev_newer and _is_after *)
IsNewer(a, b) == a > b

Init ==
  /\ checks = [n \in Nodes |-> Absent] /\ rev = 0
  /\ pc = [c \in Clients |-> "idle"]
  /\ tx = [c \in Clients |-> Fresh]
  /\ attempt = [c \in Clients |-> 0]
  /\ call = [c \in Clients |-> NoCall(c)]
  /\ reply = [c \in Clients |-> "none"]
  /\ net = {}
  /\ commits = [c \in Clients |-> [a \in Attempts(c) |-> 0]]
------------------------------------------------------------------------------
(* The orchestrator. *)
TooNewObserved(r) == {n \in r.nodes : IsNewer(checks[n].version, r.snap)}

TooNew(r) == {n \in r.nodes \cup r.writes : IsNewer(checks[n].version, r.snap)}

(* Without observed nodes nothing is checked, not even the nodes written.     *)
Conflicts(r) == r.nodes # {} /\ TooNew(r) # {}

TouchesNew(n, kind) == checks[n].results = "none"

(* _touch: writing data always does; finalizing results only if there were    *)
(* none, so that they are created.                                            *)
Touches(n, kind) == kind = "data" \/ checks[n].results = "none"

WrittenCheck(n, kind) ==
  [version |-> IF Touches(n, kind) THEN rev + 1 ELSE checks[n].version,
   changes |-> checks[n].changes + 1,
   results |-> IF kind = "finalize" \/ checks[n].results = "final" THEN "final" ELSE "open"]

(* Final results are not finalized again (check_invariant.py:119-121).        *)
Allowed(writes, kind) ==
  kind = "finalize" => \A n \in writes : checks[n].results # "final"

ApplyWrites(writes, kind) ==
  /\ Allowed(writes, kind)
  /\ rev' = rev + 1
  /\ checks' = [n \in Nodes |-> IF n \in writes THEN WrittenCheck(n, kind) ELSE checks[n]]

(* The client still waits for this copy and no other.                         *)
Awaited(r) == pc[r.from] = "waiting" /\ call[r.from] = r

Answer(r, what) == reply' = IF Awaited(r) THEN [reply EXCEPT ![r.from] = what] ELSE reply

(* A request that is not allowed is an error for the client, and nothing else: *)
(* it is as good as lost.                                                     *)
Apply(r) ==
  /\ r \in net /\ ~Conflicts(r)
  /\ net' = net \ {r}
  /\ ApplyWrites(r.writes, r.kind)
  /\ Answer(r, "applied")
  /\ commits' = IF r.nodes = {} THEN commits
                ELSE [commits EXCEPT ![r.from][r.attempt] = @ + 1]
  /\ UNCHANGED client

Refuse(r) ==
  /\ r \in net /\ Conflicts(r)
  /\ net' = net \ {r}
  /\ Answer(r, "conflict")
  /\ UNCHANGED <<checks, rev, client, commits>>

(* An oblivious write, or the propagation of a resolved dependency.           *)
OtherWrite(n, kind) ==
  /\ rev < MaxRevision
  /\ ApplyWrites({n}, kind)
  /\ UNCHANGED <<client, reply, net, commits>>
------------------------------------------------------------------------------
(* The client. *)
Begin(c) ==
  /\ pc[c] = "idle"
  /\ pc' = [pc EXCEPT ![c] = "body"]
  /\ attempt' = [attempt EXCEPT ![c] = 1]
  /\ UNCHANGED <<checks, rev, tx, call, reply, net, commits>>

Discard(c) ==
  /\ call' = [call EXCEPT ![c] = NoCall(c)]
  /\ tx' = [tx EXCEPT ![c] = Fresh]

(* The callback returned, or raised what is not a conflict.                   *)
Leave(c) ==
  /\ Discard(c)
  /\ pc' = [pc EXCEPT ![c] = "over"]
  /\ UNCHANGED attempt

(* The callback raised a conflict: again with a new client, or give up.       *)
Restart(c) ==
  /\ Discard(c)
  /\ IF attempt[c] < MaxAttempts[c]
       THEN /\ attempt' = [attempt EXCEPT ![c] = @ + 1]
            /\ pc' = [pc EXCEPT ![c] = "body"]
       ELSE /\ pc' = [pc EXCEPT ![c] = "over"]
            /\ UNCHANGED attempt

ObservedAtLast(t) == rev

(* _rev: the revision of the first answer.                                    *)
ObservedAt(t) == IF t.read THEN t.snap ELSE rev

NewerThanFirst(t, asked) ==
  \E n \in asked \cap Present : IsNewer(checks[n].version, ObservedAt(t))

(* observe_QueryNodes.  Queries are refused after assert_missing_nodes.       *)
Observe(c, asked) ==
  LET t == tx[c] IN
  /\ pc[c] = "body"
  /\ t.nodes # {} => t.read
  /\ \/ /\ NewerThanFirst(t, asked)
        /\ Restart(c)
     \/ /\ ~NewerThanFirst(t, asked)
        /\ tx' = [tx EXCEPT ![c] =
                   [read |-> TRUE, snap |-> ObservedAt(t), nodes |-> t.nodes \cup asked,
                    base |-> IF t.read THEN t.base ELSE Contents,
                    seen |-> [n \in Nodes |-> IF n \in asked THEN checks[n].changes
                                                             ELSE t.seen[n]]]]
        /\ UNCHANGED <<pc, attempt, call>>
  /\ UNCHANGED <<checks, rev, reply, net, commits>>

(* Nodes asked for by their ids are observed even if they are absent.         *)
QueryByIds(c, ids) == Observe(c, ids)

(* A query of the workplan observes what it finds.                            *)
QueryWorkplan(c) == Observe(c, Present)

AssertMissing(c, n) ==
  /\ pc[c] = "body" /\ ~tx[c].read
  /\ tx' = [tx EXCEPT ![c].nodes = @ \cup {n}]
  /\ UNCHANGED <<checks, rev, pc, attempt, call, reply, net, commits>>

WriteRequest(c, writes, kind) ==
  [from |-> c, attempt |-> attempt[c], copy |-> 1, read |-> tx[c].read,
   snap |-> tx[c].snap, nodes |-> tx[c].nodes, base |-> tx[c].base,
   writes |-> writes, kind |-> kind]

Write(c, writes, kind) ==
  LET r == WriteRequest(c, writes, kind) IN
  /\ pc[c] = "body"
  /\ call' = [call EXCEPT ![c] = r]
  /\ net' = net \cup {r}
  /\ reply' = [reply EXCEPT ![c] = "none"]
  /\ pc' = [pc EXCEPT ![c] = "waiting"]
  /\ UNCHANGED <<checks, rev, tx, attempt, commits>>

(* The callback returns without a write, or raises.                           *)
Return(c) ==
  /\ pc[c] = "body"
  /\ Leave(c)
  /\ UNCHANGED <<checks, rev, reply, net, commits>>

Receive(c) ==
  /\ pc[c] = "waiting" /\ reply[c] # "none"
  /\ reply' = [reply EXCEPT ![c] = "none"]
  /\ \/ reply[c] = "applied" /\ Leave(c)
     \/ reply[c] = "conflict" /\ Restart(c)
  /\ UNCHANGED <<checks, rev, net, commits>>

SentAgain(c) == [call[c] EXCEPT !.copy = @ + 1]

(* A retryable error: the request, or its answer, is late or lost.            *)
CallFails(c) ==
  /\ pc[c] = "waiting"
  /\ reply' = [reply EXCEPT ![c] = "none"]
  /\ \/ /\ call[c].copy < MaxCopies[c]
        /\ call' = [call EXCEPT ![c] = SentAgain(c)]
        /\ net' = net \cup {SentAgain(c)}
        /\ UNCHANGED <<pc, tx, attempt>>
     \/ /\ call[c].copy = MaxCopies[c]
        /\ Leave(c)
        /\ UNCHANGED net
  /\ UNCHANGED <<checks, rev, commits>>

(* Every transaction is over. *)
Terminated ==
  /\ \A c \in Clients : pc[c] = "over"
  /\ UNCHANGED vars

Callback(c) ==
  \/ \E ids \in (SUBSET Nodes) \ {{}} : QueryByIds(c, ids)
  \/ QueryWorkplan(c)
  \/ \E n \in Nodes : AssertMissing(c, n)
  \/ \E writes \in (SUBSET Nodes) \ {{}}, kind \in Kinds : Write(c, writes, kind)
  \/ Return(c)

Next ==
  \/ \E c \in Clients : Begin(c) \/ Callback(c) \/ Receive(c) \/ CallFails(c)
  \/ \E r \in net : Apply(r) \/ Refuse(r)
  \/ \E n \in Nodes, kind \in Kinds : OtherWrite(n, kind)
  \/ Terminated

Spec == Init /\ [][Next]_vars
------------------------------------------------------------------------------
TypeOK ==
  /\ checks \in [Nodes -> Check] /\ rev \in Nat
  /\ pc \in [Clients -> PC]
  /\ tx \in [Clients -> Observed]
  /\ attempt \in [Clients -> Nat]
  /\ call \in [Clients -> Request]
  /\ reply \in [Clients -> Replies]
  /\ net \subseteq Request
  /\ DOMAIN commits = Clients
  /\ \A c \in Clients : commits[c] \in [Attempts(c) -> Nat]

(* If writes change versions (OnlyData), a client never works with a mixture  *)
(* of old and new: all it was told in one attempt, by however many queries,   *)
(* is what the nodes said at the moment of the first (_assert_older_or_same;  *)
(* QueryNodes with version.require).                                          *)
ConsistentReads ==
  \A c \in Clients : tx[c].read =>
    \A n \in tx[c].nodes : tx[c].seen[n] = tx[c].base[n]

(* "If the WriteNodesRequest has a TransactionDetails, the retry will fail"   *)
(* (write_nodes_request.proto:91): an attempt that observed a node is applied *)
(* at most once, however often its request is sent and delivered, and even if *)
(* it only finalizes results, because those are not finalized twice.          *)
AppliedOnce == \A c \in Clients : \A a \in Attempts(c) : commits[c][a] <= 1

Handled(r) == r \in net /\ r \notin net'

(* "TurboCI Orchestrator will ensure that these nodes haven't changed since   *)
(* the writer observed them" (transaction_details.proto:19-20): when a write  *)
(* is applied, every node its attempt observed or writes still says what it   *)
(* said at the revision of the snapshot.  It is true if writes change         *)
(* versions (OnlyData), and only then.                                        *)
Serializable ==
  [][\A r \in net : Handled(r) /\ rev' # rev /\ r.nodes # {} =>
       \A n \in r.nodes \cup r.writes : checks[n].changes = r.base[n]]_vars

(* No transaction is refused without a reason: one of the nodes has really    *)
(* changed since the snapshot (the strict comparison of _is_rev_newer).       *)
RefusedForAReason ==
  [][\A r \in net : Handled(r) /\ rev' = rev =>
       \E n \in r.nodes \cup r.writes : checks[n].changes # r.base[n]]_vars

(* "just providing `txn` with `nodes_observed` and `snapshot_version` left    *)
(* unset (zero) is sufficient to guard against the nodes already being        *)
(* written" (transaction_details.proto:70-73).                                *)
NewNodesAreGuarded ==
  [][\A r \in net : Handled(r) /\ rev' # rev /\ ~r.read =>
       r.writes \cap Present = {}]_vars

------------------------------------------------------------------------------
(* What the repository says, and the code does only if OnlyData.              *)

(* "Updated any time fields in this Check change" (check.proto:87-89).  The    *)
(* write that finalizes results there already are does not (fake.py:321-322).  *)
VersionTracksChanges ==
  [][\A n \in Nodes : checks[n].changes # checks'[n].changes =>
       IsNewer(checks'[n].version, checks[n].version)]_vars
==============================================================================
