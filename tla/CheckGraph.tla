----------------------------- MODULE CheckGraph -----------------------------
(***************************************************************************)
(* The check graph of the in-process TurboCI orchestrator                  *)
(* (recipe_engine/internal/turboci: fake.py, edge.py, check_invariant.py). *)
(*                                                                         *)
(* A WriteNodes request carries check writes.  It is refused as a whole,   *)
(* or every write is applied in the order of the request, all under one    *)
(* lock; then the conditions it resolved are propagated to the dependents, *)
(* in rounds, until no event is left.  A round may raise: the lock is then *)
(* released with the writes applied and the events still queued.           *)
(*                                                                         *)
(* A predicate is a group of edges and of leaf groups with a threshold     *)
(* (0: all of them).  An edge waits for its target to reach a state.  Only *)
(* the expression "true" exists, so an edge is satisfied or unknown, never *)
(* unsatisfied.  Options, results and versions are in CheckTransactions.   *)
(***************************************************************************)
EXTENDS Naturals, Sequences, FiniteSets

CONSTANTS Checks,     \* identifiers of checks
          OnStates,   \* the states edges wait for
          Requests    \* the WriteNodes requests that may arrive

VARIABLES state,              \* check.state, "NONE" before the first write
          dependencies,       \* check.dependencies
          edgesFlat,          \* index: targets of a check's edges
          dependents,         \* index: the inverse of edgesFlat
          satisfiedEdges,     \* index: satisfied_edges_flat
          satisfiedDependents,\* index: the inverse of satisfiedEdges
          depsState,          \* index: _DepsState of a check
          conditions,         \* index: conditions of a target, by state
          queue,              \* _resolution_events
          pending,            \* writes still to apply under the lock
          phase               \* "writing" while WriteNodes holds the lock

index == <<edgesFlat, dependents, satisfiedEdges, satisfiedDependents,
           depsState, conditions>>
vars == <<state, dependencies, index, queue, pending, phase>>
-----------------------------------------------------------------------------
WriteStates == {"PLANNING", "PLANNED", "WAITING", "FINAL"}
CheckStates == WriteStates \cup {"NONE"}

Rank == [s \in CheckStates |->
          CASE s = "NONE" -> 0 [] s = "PLANNING" -> 10 [] s = "PLANNED" -> 20
            [] s = "WAITING" -> 30 [] s = "FINAL" -> 40]

Edge  == [target : Checks, onState : OnStates]
Leaf  == [threshold : Nat, edges : SUBSET Edge]
Group == [threshold : Nat, edges : SUBSET Edge, groups : SUBSET Leaf]

Size(group)   == Cardinality(group.edges) + Cardinality(group.groups)
Needed(n, of) == IF n = 0 THEN of ELSE n
Edges(group)  == group.edges \cup UNION {leaf.edges : leaf \in group.groups}
Targets(edges) == {e.target : e \in edges}

(* The checks of extract_dependencies: sensible thresholds, no empty subgroup. *)
WellFormed(group) ==
  /\ group.threshold <= Size(group)
  /\ \A leaf \in group.groups : /\ leaf.edges # {}
                                /\ leaf.threshold <= Cardinality(leaf.edges)

(* Its normal form: a group that only wraps one other is that other group, *)
(* and a threshold of everything is no threshold.                          *)
Unset(n, of) == IF n = of THEN 0 ELSE n
NormalLeaf(leaf) ==
  [threshold |-> Unset(leaf.threshold, Cardinality(leaf.edges)), edges |-> leaf.edges]
Normal(group) ==
  IF group.edges = {} /\ \E leaf \in group.groups : group.groups = {leaf}
  THEN LET leaf == NormalLeaf(CHOOSE l \in group.groups : TRUE)
       IN [threshold |-> leaf.threshold, edges |-> leaf.edges, groups |-> {}]
  ELSE [threshold |-> Unset(group.threshold, Size(group)), edges |-> group.edges,
        groups |-> {NormalLeaf(leaf) : leaf \in group.groups}]

LeafHolds(leaf, satisfied) ==
  Cardinality(leaf.edges \cap satisfied)
     >= Needed(leaf.threshold, Cardinality(leaf.edges))

(* resolve_dependencies: does this set of satisfied edges satisfy the group? *)
Holds(group, satisfied) ==
  Cardinality(group.edges \cap satisfied)
     + Cardinality({leaf \in group.groups : LeafHolds(leaf, satisfied)})
     >= Needed(group.threshold, Size(group))

(* The edges that contributed to it. *)
Contributing(group, satisfied) ==
  satisfied \cap (group.edges \cup
     UNION {leaf.edges : leaf \in {l \in group.groups : LeafHolds(l, satisfied)}})
-----------------------------------------------------------------------------
Dependencies ==
  [predicate : Group, satisfied : SUBSET Edge, resolution : BOOLEAN]
CheckWrite ==
  [check : Checks, state : WriteStates \cup {"UNSET"}, wrote : BOOLEAN,
   deps : Dependencies]
DepsStates == {"MUTABLE", "RECEIVING_EVENTS", "RESOLVED"}

NoGroup == [threshold |-> 0, edges |-> {}, groups |-> {}]
Unresolved(group) ==
  [predicate |-> group, satisfied |-> {}, resolution |-> FALSE]

(* Checks are finitely many; a request is a sequence of writes. *)
ASSUME GraphAssumption ==
  /\ IsFiniteSet(Checks)
  /\ OnStates \subseteq WriteStates
  /\ Requests \subseteq Seq([check : Checks, state : WriteStates \cup {"UNSET"},
                             wrote : BOOLEAN, group : Group])
  /\ \A req \in Requests : \A i \in DOMAIN req : IsFiniteSet(req[i].group.groups)

Reached(edge) == Rank[state[edge.target]] >= Rank[edge.onState]
KnownTracked(edge) == conditions[edge.target][edge.onState] # "ABSENT"
KnownSatisfied(edge) == conditions[edge.target][edge.onState] = "SATISFIED"

Init ==
  /\ state = [c \in Checks |-> "NONE"]
  /\ dependencies = [c \in Checks |-> Unresolved(NoGroup)]
  /\ edgesFlat = [c \in Checks |-> {}]
  /\ dependents = [c \in Checks |-> {}]
  /\ satisfiedEdges = [c \in Checks |-> {}]
  /\ satisfiedDependents = [c \in Checks |-> {}]
  /\ depsState = [c \in Checks |-> "MUTABLE"]
  /\ conditions = [c \in Checks |-> [s \in OnStates |-> "ABSENT"]]
  /\ queue = {}
  /\ pending = <<>>
  /\ phase = "idle"
-----------------------------------------------------------------------------
(* assert_can_apply: may this write be applied to the check as it is? *)
LegalStateFromWaiting(w) ==
  \/ state[w.check] \in {"NONE", "PLANNING", "WAITING"}
  \/ w.state \in {"UNSET", state[w.check]}
LegalState(w) ==
  LET c == w.check
      emptied == w.wrote /\ Edges(w.deps.predicate) = {}
  IN \/ state[c] = "NONE"
     \/ w.state \in {"UNSET", state[c]}
     \/ state[c] = "PLANNING" /\ w.state = "PLANNED"
     \/ state[c] = "PLANNING" /\ (emptied \/ Edges(dependencies[c].predicate) = {})
     \/ state[c] = "WAITING" /\ w.state = "FINAL"
CanApplyAnyDeps(w) == LegalState(w)
CanApply(w) ==
  /\ LegalState(w)
  /\ w.wrote => state[w.check] \in {"NONE", "PLANNING"}

(* The write of a request, its predicate normalised. *)
Extract(r) ==
  [check |-> r.check, state |-> r.state, wrote |-> r.wrote,
   deps |-> Unresolved(IF r.wrote THEN Normal(r.group) ELSE NoGroup)]

RequestEdges(req) ==
  UNION {Edges(req[i].group) : i \in {j \in DOMAIN req : req[j].wrote}}
RequestChecks(req) == {req[i].check : i \in DOMAIN req}

(* Refused before the lock is taken. *)
Sound(req) ==
  /\ \A i \in DOMAIN req : req[i].wrote => WellFormed(req[i].group)
  /\ \A i, j \in DOMAIN req : req[i].check = req[j].check => i = j
(* Refused under the lock, with nothing written. *)
Accepted(req) ==
  /\ \A i \in DOMAIN req : CanApply(Extract(req[i]))
  /\ \A t \in Targets(RequestEdges(req)) :
       state[t] # "NONE" \/ t \in RequestChecks(req)

(* ensure_conditions: what edges wait for is evaluated on the committed    *)
(* check the first time, also for a request that is refused later.         *)
EnsureConditions(edges) ==
  conditions' = [c \in Checks |-> [s \in OnStates |->
    LET e == [target |-> c, onState |-> s]
    IN IF e \in edges /\ conditions[c][s] = "ABSENT"
       THEN IF Reached(e) THEN "SATISFIED" ELSE "UNKNOWN"
       ELSE conditions[c][s]]]

(* A request is validated, and its writes are about to be applied. *)
WriteNodes(req) ==
  /\ phase = "idle"
  /\ Sound(req)
  /\ EnsureConditions(RequestEdges(req))
  /\ IF Accepted(req)
     THEN /\ pending' = [i \in DOMAIN req |-> Extract(req[i])]
          /\ phase' = "writing"
     ELSE UNCHANGED <<pending, phase>>
  /\ UNCHANGED <<state, dependencies, edgesFlat, dependents, satisfiedEdges,
                 satisfiedDependents, depsState, queue>>
-----------------------------------------------------------------------------
(* What _apply_checkwrite_locked makes of the check, given the write. *)
IsNew(w)       == state[w.check] = "NONE"
WasPlanning(w) == state[w.check] \in {"NONE", "PLANNING"}
Marks(w)       == WasPlanning(w) /\ w.state \notin {"UNSET", "PLANNING"}
WritesDeps(w)  == IsNew(w) \/ w.wrote
Indexes(w)     == Marks(w) \/ (WasPlanning(w) /\ WritesDeps(w))

Written(w) == IF WritesDeps(w) THEN w.deps ELSE dependencies[w.check]
(* index_predicate(mark_immutable): the conditions that hold already count. *)
Resolve(deps, satisfied) ==
  [deps EXCEPT !.satisfied = satisfied,
               !.resolution = @ \/ Holds(deps.predicate, satisfied)]
NewDependenciesUntold(w) ==
  IF Marks(w) THEN Resolve(Written(w), {}) ELSE Written(w)
NewDependencies(w) ==
  IF Marks(w)
  THEN Resolve(Written(w), {e \in Edges(Written(w).predicate) : KnownSatisfied(e)})
  ELSE Written(w)
NewlyResolved(w) == (Marks(w) \/ WritesDeps(w)) /\ NewDependencies(w).resolution
WrittenState(w) ==
  IF w.state # "UNSET" THEN w.state
  ELSE IF IsNew(w) THEN "PLANNING" ELSE state[w.check]
NewState(w) ==
  IF NewlyResolved(w) /\ WrittenState(w) = "PLANNED" THEN "WAITING"
  ELSE WrittenState(w)

(* What index_predicate and index_resolved assert. *)
IndexAccepts(w) ==
  /\ Indexes(w) => depsState[w.check] = "MUTABLE"
  /\ Marks(w) => Written(w).satisfied = {}
  /\ NewlyResolved(w) => Marks(w) \/ depsState[w.check] = "RECEIVING_EVENTS"

IndexPredicateAdds(w) ==
  LET c == w.check
      targets == Targets(Edges(NewDependencies(w).predicate))
  IN IF Indexes(w)
     THEN /\ edgesFlat' = [edgesFlat EXCEPT ![c] = targets]
          /\ dependents' = [t \in Checks |->
               IF t \in targets THEN dependents[t] \cup {c} ELSE dependents[t]]
     ELSE UNCHANGED <<edgesFlat, dependents>>
IndexPredicate(w) ==
  LET c == w.check
      targets == Targets(Edges(NewDependencies(w).predicate))
  IN IF Indexes(w)
     THEN /\ edgesFlat' = [edgesFlat EXCEPT ![c] = targets]
          /\ dependents' = [t \in Checks |->
               IF t \in edgesFlat[c] \ targets THEN dependents[t] \ {c}
               ELSE IF t \in targets \ edgesFlat[c] THEN dependents[t] \cup {c}
               ELSE dependents[t]]
     ELSE UNCHANGED <<edgesFlat, dependents>>

IndexResolved(w) ==
  LET c == w.check
      deps == NewDependencies(w)
      targets == Targets(Contributing(deps.predicate, deps.satisfied))
  IN IF NewlyResolved(w)
     THEN /\ depsState' = [depsState EXCEPT ![c] = "RESOLVED"]
          /\ satisfiedEdges' = [satisfiedEdges EXCEPT ![c] = targets]
          /\ satisfiedDependents' = [t \in Checks |->
               IF t \in targets THEN satisfiedDependents[t] \cup {c}
               ELSE satisfiedDependents[t]]
     ELSE /\ depsState' = [depsState EXCEPT ![c] =
                             IF Marks(w) THEN "RECEIVING_EVENTS" ELSE @]
          /\ UNCHANGED <<satisfiedEdges, satisfiedDependents>>

(* index_node_write: the conditions on this check that now hold. *)
Fired(w) ==
  {e \in Edge : /\ e.target = w.check
                /\ conditions[e.target][e.onState] = "UNKNOWN"
                /\ Rank[NewState(w)] >= Rank[e.onState]}
IndexNodeWrite(w) ==
  /\ queue' = queue \cup Fired(w)
  /\ conditions' = [c \in Checks |-> [s \in OnStates |->
       IF [target |-> c, onState |-> s] \in Fired(w) THEN "SATISFIED"
       ELSE conditions[c][s]]]

(* One write is applied: the next of the request, or of a round. *)
ApplyCheckWrite ==
  /\ phase = "writing"
  /\ pending # <<>>
  /\ LET w == Head(pending)
     IN /\ IndexAccepts(w)
        /\ state' = [state EXCEPT ![w.check] = NewState(w)]
        /\ dependencies' = [dependencies EXCEPT ![w.check] = NewDependencies(w)]
        /\ IndexPredicate(w)
        /\ IndexResolved(w)
        /\ IndexNodeWrite(w)
  /\ pending' = Tail(pending)
  /\ UNCHANGED phase
-----------------------------------------------------------------------------
(* process_queue: every event goes to every dependent still receiving. *)
ReceiversAll(event) == dependents[event.target]
Receivers(event) ==
  {c \in dependents[event.target] : depsState[c] = "RECEIVING_EVENTS"}
(* "failed to propagate" or "already has resolution" *)
Misdirected(event, c) ==
  \/ event \notin Edges(dependencies[c].predicate)
  \/ event \in dependencies[c].satisfied
CanPropagate == \A event \in queue : \A c \in Receivers(event) : ~Misdirected(event, c)

Propagated(c) ==
  [check |-> c, state |-> "UNSET", wrote |-> TRUE,
   deps |-> Resolve(dependencies[c],
                    dependencies[c].satisfied
                      \cup {event \in queue : c \in Receivers(event)})]

Orders(S) ==
  {order \in [1 .. Cardinality(S) -> S] :
     \A i, j \in 1 .. Cardinality(S) : order[i] = order[j] => i = j}

Rounding == phase = "writing" /\ pending = <<>> /\ queue # {}

(* A round: the events become writes, applied in an order nobody fixes. *)
ProcessQueueKept ==
  /\ Rounding
  /\ CanPropagate
  /\ \E order \in Orders(UNION {Receivers(event) : event \in queue}) :
       pending' = [i \in DOMAIN order |-> Propagated(order[i])]
  /\ UNCHANGED <<state, dependencies, index, queue, phase>>
ProcessQueue ==
  /\ Rounding
  /\ CanPropagate
  /\ \E order \in Orders(UNION {Receivers(event) : event \in queue}) :
       pending' = [i \in DOMAIN order |-> Propagated(order[i])]
  /\ queue' = {}
  /\ UNCHANGED <<state, dependencies, index, phase>>

(* An AssertionError leaves WriteNodes, and the events stay in the queue. *)
Raise ==
  /\ Rounding
  /\ ~CanPropagate
  /\ phase' = "idle"
  /\ UNCHANGED <<state, dependencies, index, queue, pending>>

Return ==
  /\ phase = "writing"
  /\ pending = <<>>
  /\ queue = {}
  /\ phase' = "idle"
  /\ UNCHANGED <<state, dependencies, index, queue, pending>>

Next ==
  \/ \E req \in Requests : WriteNodes(req)
  \/ ApplyCheckWrite
  \/ ProcessQueue
  \/ Raise
  \/ Return

Spec == Init /\ [][Next]_vars

(* The call holds the lock and nothing in it blocks. *)
LiveSpec == Spec /\ WF_vars(ApplyCheckWrite \/ ProcessQueue \/ Raise \/ Return)
-----------------------------------------------------------------------------
(* The variables hold what their names say. *)
TypeOK ==
  /\ state \in [Checks -> CheckStates]
  /\ dependencies \in [Checks -> Dependencies]
  /\ edgesFlat \in [Checks -> SUBSET Checks]
  /\ dependents \in [Checks -> SUBSET Checks]
  /\ satisfiedEdges \in [Checks -> SUBSET Checks]
  /\ satisfiedDependents \in [Checks -> SUBSET Checks]
  /\ depsState \in [Checks -> DepsStates]
  /\ conditions \in [Checks -> [OnStates -> {"ABSENT", "UNKNOWN", "SATISFIED"}]]
  /\ queue \subseteq Edge
  /\ pending \in Seq(CheckWrite)
  /\ phase \in {"idle", "writing"}

(* Queries follow dependencies in both directions, all of them or those    *)
(* that were satisfied: whatever order predicates were written, rewritten  *)
(* and resolved in, the four maps agree with the predicates                *)
(* (edge.py:363 index_predicate, edge.py:497 index_resolved).              *)
IndexAgrees ==
  \A c \in Checks :
    /\ edgesFlat[c] = Targets(Edges(dependencies[c].predicate))
    /\ satisfiedEdges[c] \subseteq edgesFlat[c]
    /\ \A t \in Checks :
         /\ c \in dependents[t] <=> t \in edgesFlat[c]
         /\ c \in satisfiedDependents[t] <=> t \in satisfiedEdges[c]

(* A check is unblocked only by what happened: once its dependencies are   *)
(* resolved, the checks it depends on have reached the states its edges    *)
(* name, in a combination that satisfies its predicate, whether it learnt  *)
(* that when it was planned or from events (fake.py:340-366).              *)
ResolvedIsJustified ==
  \A c \in Checks : dependencies[c].resolution =>
    Holds(dependencies[c].predicate,
          {e \in Edges(dependencies[c].predicate) : Reached(e)})

(* No event is lost: when no call is under way and no event is queued, no  *)
(* check is left PLANNED although its dependencies are met, neither by one *)
(* that was met before it was planned, in the same request or in a later   *)
(* round (edge.py:389 and edge.py:410 hand events over to edge.py:436).    *)
NoneLeftBlocked ==
  phase = "idle" /\ queue = {} =>
    \A c \in Checks : state[c] = "PLANNED" =>
      ~Holds(dependencies[c].predicate,
             {e \in Edges(dependencies[c].predicate) : Reached(e)})

(* What index_predicate and index_resolved raise for cannot happen, in any *)
(* order of writes and rounds (edge.py:384, edge.py:396, edge.py:507).     *)
IndexNeverRefuses ==
  pending # <<>> => IndexAccepts(Head(pending))

(* A check moves forward through its states, whatever is requested, in one *)
(* request or several (check_invariant.py:74).                             *)
StatesInOrder ==
  [][\A c \in Checks : Rank[state'[c]] >= Rank[state[c]]]_vars

(* Once planned, what a check depends on never changes again, and what was *)
(* satisfied stays so: readers may act on it (check_invariant.py:112).     *)
DependenciesFrozen ==
  [][\A c \in Checks : state[c] \notin {"NONE", "PLANNING"} =>
       /\ dependencies'[c].predicate = dependencies[c].predicate
       /\ dependencies[c].satisfied \subseteq dependencies'[c].satisfied
       /\ dependencies[c].resolution => dependencies'[c].resolution]_vars

(* Propagation ends: chains and circles of dependencies included, a call   *)
(* of WriteNodes releases the lock (fake.py:730).                          *)
WritesReturn == phase = "writing" ~> phase = "idle"

(* "no exceptions past this point" (fake.py:721): a call that has begun to *)
(* write propagates all that follows from it.                              *)
CommittedWritesPropagate == phase = "idle" => queue = {}

(* check_state.proto:52: a WAITING check "is unblocked (dependencies have  *)
(* been satisfied)"                                                        *)
WaitingIsUnblocked ==
  \A c \in Checks : state[c] = "WAITING" => dependencies[c].resolution
=============================================================================
