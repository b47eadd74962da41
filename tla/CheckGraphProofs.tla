-------------------------- MODULE CheckGraphProofs --------------------------
(***************************************************************************)
(* Proofs about CheckGraph, for every finite set of checks, every choice   *)
(* of states edges wait for, and every set of requests.                    *)
(***************************************************************************)
EXTENDS CheckGraph, FiniteSetTheorems, TLAPS

(* What a check's dependencies say, from where the index has them.         *)
DepsAgree ==
  \A c \in Checks :
    /\ IsFiniteSet(dependencies[c].predicate.groups)
    /\ dependencies[c].satisfied \subseteq Edges(dependencies[c].predicate)
    /\ \A e \in Edges(dependencies[c].predicate) :
         conditions[e.target][e.onState] # "ABSENT"
    /\ \A e \in dependencies[c].satisfied : KnownSatisfied(e)
    /\ dependencies[c].resolution <=> depsState[c] = "RESOLVED"
    /\ depsState[c] = "MUTABLE" => dependencies[c].satisfied = {}
    /\ depsState[c] # "MUTABLE" => 
         (dependencies[c].resolution
            <=> Holds(dependencies[c].predicate, dependencies[c].satisfied))

StateAgrees ==
  \A c \in Checks :
    /\ depsState[c] = "MUTABLE" <=> state[c] \in {"NONE", "PLANNING"}
    /\ state[c] = "PLANNED" => depsState[c] = "RECEIVING_EVENTS"

(* The conditions of a target are what they evaluate to.                   *)
ConditionsAgree ==
  /\ \A e \in Edge :
       /\ conditions[e.target][e.onState] = "SATISFIED" => Reached(e)
       /\ conditions[e.target][e.onState] = "UNKNOWN" => ~Reached(e)
  /\ \A e \in queue : KnownSatisfied(e)

(* A write of the request is as it was validated; a write of a round adds  *)
(* to what the check still has.                                            *)
FromRequest(w) ==
  /\ CanApply(w)
  /\ w.deps.satisfied = {}
  /\ w.deps.resolution = FALSE
  /\ w.wrote => \A e \in Edges(w.deps.predicate) :
                  conditions[e.target][e.onState] # "ABSENT"
FromRound(w) ==
  /\ w.state = "UNSET" /\ w.wrote
  /\ depsState[w.check] = "RECEIVING_EVENTS"
  /\ w.deps.predicate = dependencies[w.check].predicate
  /\ dependencies[w.check].satisfied \subseteq w.deps.satisfied
  /\ w.deps.satisfied \subseteq Edges(w.deps.predicate)
  /\ \A e \in w.deps.satisfied : KnownSatisfied(e)
  /\ w.deps.resolution <=> Holds(w.deps.predicate, w.deps.satisfied)
PendingAgrees ==
  /\ phase = "idle" => pending = <<>>
  /\ \A i \in DOMAIN pending :
       /\ IsFiniteSet(pending[i].deps.predicate.groups)
       /\ ~pending[i].wrote => pending[i].deps = Unresolved(NoGroup)
       /\ FromRequest(pending[i]) \/ FromRound(pending[i])
  /\ \A i, j \in DOMAIN pending : pending[i].check = pending[j].check => i = j

(* A condition that holds has reached whoever waits for it, or is on its   *)
(* way: in the queue, or in a write still to apply.                        *)
Underway(c, e) ==
  \/ e \in dependencies[c].satisfied
  \/ e \in queue
  \/ \E i \in DOMAIN pending : pending[i].check = c /\ e \in pending[i].deps.satisfied
Delivered ==
  \A c \in Checks : depsState[c] = "RECEIVING_EVENTS" =>
    \A e \in Edges(dependencies[c].predicate) : KnownSatisfied(e) => Underway(c, e)

SatisfiedAgrees ==
  \A c \in Checks : depsState[c] # "RESOLVED" => satisfiedEdges[c] = {}

IInv ==
  /\ TypeOK /\ DepsAgree /\ StateAgrees /\ ConditionsAgree /\ PendingAgrees
  /\ Delivered /\ SatisfiedAgrees /\ IndexAgrees
-----------------------------------------------------------------------------
(* There are finitely many edges. *)
LEMMA EdgeFinite == IsFiniteSet(Edge)
<1> DEFINE f == [p \in Checks \X OnStates |-> [target |-> p[1], onState |-> p[2]]]
<1>1. IsFiniteSet(OnStates)
  <2>1. IsFiniteSet({"PLANNING"}) /\ IsFiniteSet({"PLANNED"})
        /\ IsFiniteSet({"WAITING"}) /\ IsFiniteSet({"FINAL"})
    BY FS_Singleton
  <2>2. IsFiniteSet((({"PLANNING"} \cup {"PLANNED"}) \cup {"WAITING"}) \cup {"FINAL"})
    BY ONLY <2>1, FS_Union
  <2>3. WriteStates = (({"PLANNING"} \cup {"PLANNED"}) \cup {"WAITING"}) \cup {"FINAL"}
    BY DEF WriteStates
  <2>4. OnStates \in SUBSET WriteStates
    BY GraphAssumption
  <2> QED BY ONLY <2>2, <2>3, <2>4, FS_Subset
<1>2. IsFiniteSet(Checks \X OnStates)
  BY <1>1, GraphAssumption, FS_Product
<1>3. f \in Surjection(Checks \X OnStates, Edge)
  <2>1. f \in [Checks \X OnStates -> Edge]
    BY DEF Edge
  <2>2. ASSUME NEW e \in Edge PROVE \E p \in Checks \X OnStates : f[p] = e
    <3>1. <<e.target, e.onState>> \in Checks \X OnStates
      BY DEF Edge
    <3>2. f[<<e.target, e.onState>>] = e
      BY <3>1 DEF Edge
    <3> QED BY <3>1, <3>2
  <2> QED BY <2>1, <2>2 DEF Surjection
<1> QED BY <1>2, <1>3, FS_Surjection

(* A finite set counts at least as many elements as its subsets. *)
LEMMA CountMonotone ==
  ASSUME NEW S, NEW T, S \subseteq T, IsFiniteSet(T)
  PROVE  /\ Cardinality(S) \in Nat /\ Cardinality(T) \in Nat
         /\ Cardinality(S) <= Cardinality(T)
<1>1. IsFiniteSet(S) /\ Cardinality(S) <= Cardinality(T)
  BY FS_Subset
<1> QED BY <1>1, FS_CardinalityType

(* Any set of edges is finite and can be counted. *)
LEMMA CountEdges ==
  ASSUME NEW S \in SUBSET Edge PROVE IsFiniteSet(S) /\ Cardinality(S) \in Nat
BY EdgeFinite, FS_Subset, FS_CardinalityType

(* More satisfied edges satisfy no fewer groups: what holds goes on holding *)
(* while edges are satisfied.                                               *)
THEOREM HoldsMonotone ==
  ASSUME NEW g \in Group, IsFiniteSet(g.groups),
         NEW S \in SUBSET Edge, NEW T \in SUBSET Edge, S \subseteq T, Holds(g, S)
  PROVE  Holds(g, T)
<1> DEFINE LS == {leaf \in g.groups : LeafHolds(leaf, S)}
           LT == {leaf \in g.groups : LeafHolds(leaf, T)}
<1>1. g.edges \in SUBSET Edge /\ g.threshold \in Nat /\ g.groups \in SUBSET Leaf
  BY DEF Group
<1>2. LS \subseteq LT
  <2> SUFFICES ASSUME NEW l \in g.groups, LeafHolds(l, S) PROVE LeafHolds(l, T)
    OBVIOUS
  <2>1. l.edges \in SUBSET Edge /\ l.threshold \in Nat
    BY <1>1 DEF Leaf
  <2>2. IsFiniteSet(l.edges \cap T) /\ l.edges \cap S \subseteq l.edges \cap T
    BY <2>1, CountEdges
  <2>3. /\ Cardinality(l.edges \cap S) \in Nat /\ Cardinality(l.edges \cap T) \in Nat
        /\ Cardinality(l.edges \cap S) <= Cardinality(l.edges \cap T)
    BY <2>2, CountMonotone
  <2>4. Cardinality(l.edges) \in Nat
    BY <2>1, CountEdges
  <2> QED BY <2>1, <2>3, <2>4 DEF LeafHolds, Needed
<1>3. LT \subseteq g.groups /\ IsFiniteSet(LT)
  <2>1. LT \in SUBSET g.groups
    OBVIOUS
  <2> QED BY <2>1, FS_Subset
<1>4. /\ Cardinality(LS) \in Nat /\ Cardinality(LT) \in Nat
      /\ Cardinality(LS) <= Cardinality(LT)
  BY <1>2, <1>3, CountMonotone
<1>5. IsFiniteSet(g.edges \cap T) /\ g.edges \cap S \subseteq g.edges \cap T
  BY <1>1, CountEdges
<1>6. /\ Cardinality(g.edges \cap S) \in Nat /\ Cardinality(g.edges \cap T) \in Nat
      /\ Cardinality(g.edges \cap S) <= Cardinality(g.edges \cap T)
  BY <1>5, CountMonotone
<1>7. Cardinality(g.edges) \in Nat /\ Cardinality(g.groups) \in Nat
  BY <1>1, CountEdges, FS_CardinalityType
<1>8. Needed(g.threshold, Size(g)) \in Nat
  BY <1>1, <1>7 DEF Needed, Size
<1>9. Cardinality(g.edges \cap S) + Cardinality(LS) >= Needed(g.threshold, Size(g))
  BY DEF Holds
<1>10. Cardinality(g.edges \cap T) + Cardinality(LT) >= Needed(g.threshold, Size(g))
  BY ONLY <1>4, <1>6, <1>8, <1>9
<1> QED BY ONLY <1>10 DEF Holds

(* The normal form of a group is a group with the same edges.  *)
LEMMA NormalType ==
  ASSUME NEW g \in Group, IsFiniteSet(g.groups)
  PROVE  /\ Normal(g) \in Group
         /\ IsFiniteSet(Normal(g).groups)
         /\ Edges(Normal(g)) = Edges(g)
<1>1. g.edges \in SUBSET Edge /\ g.threshold \in Nat /\ g.groups \in SUBSET Leaf
  BY DEF Group
<1>2. ASSUME NEW l \in g.groups
      PROVE NormalLeaf(l) \in Leaf /\ NormalLeaf(l).edges = l.edges
  <2>1. l.edges \in SUBSET Edge /\ l.threshold \in Nat
    BY <1>1 DEF Leaf
  <2>2. Unset(l.threshold, Cardinality(l.edges)) \in Nat
    BY <2>1 DEF Unset
  <2> QED BY <2>1, <2>2 DEF NormalLeaf, Leaf
<1>3. CASE g.edges = {} /\ \E leaf \in g.groups : g.groups = {leaf}
  <2>1. PICK l \in g.groups : g.groups = {l}
    BY <1>3
  <2>2. (CHOOSE x \in g.groups : TRUE) = l
    BY <2>1
  <2>3. Normal(g) = [threshold |-> NormalLeaf(l).threshold,
                     edges |-> NormalLeaf(l).edges, groups |-> {}]
    BY <1>3, <2>2 DEF Normal
  <2>4. Edges(g) = l.edges
    BY <1>3, <2>1 DEF Edges
  <2>5. Edges(Normal(g)) = NormalLeaf(l).edges
    BY <2>3 DEF Edges
  <2>6. NormalLeaf(l).threshold \in Nat /\ NormalLeaf(l).edges \in SUBSET Edge
    BY <1>2 DEF Leaf
  <2>7. Normal(g) \in Group
    BY <2>3, <2>6 DEF Group
  <2>8. IsFiniteSet(Normal(g).groups)
    BY <2>3, FS_EmptySet
  <2> QED BY <1>2, <2>4, <2>5, <2>7, <2>8
<1>4. CASE ~(g.edges = {} /\ \E leaf \in g.groups : g.groups = {leaf})
  <2> DEFINE leaves == {NormalLeaf(l) : l \in g.groups}
  <2>1. Normal(g) = [threshold |-> Unset(g.threshold, Size(g)),
                     edges |-> g.edges, groups |-> leaves]
    BY <1>4 DEF Normal
  <2>2. Unset(g.threshold, Size(g)) \in Nat
    BY <1>1 DEF Unset
  <2>3. leaves \in SUBSET Leaf
    BY <1>2
  <2>4. Normal(g) \in Group
    BY <1>1, <2>1, <2>2, <2>3 DEF Group
  <2>5. UNION {l.edges : l \in leaves} = UNION {l.edges : l \in g.groups}
    BY <1>2
  <2>6. IsFiniteSet(leaves)
    <3> DEFINE f == [l \in g.groups |-> NormalLeaf(l)]
    <3>1. f \in [g.groups -> leaves]
      OBVIOUS
    <3>2. \A n \in leaves : \E l \in g.groups : f[l] = n
      OBVIOUS
    <3>3. f \in Surjection(g.groups, leaves)
      BY <3>1, <3>2 DEF Surjection
    <3> HIDE DEF f, leaves
    <3> QED BY <3>3, FS_Surjection
  <2> HIDE DEF leaves
  <2> QED BY <2>1, <2>4, <2>5, <2>6 DEF Edges
<1> QED BY <1>3, <1>4

(* The edges of a group are edges, the contributing ones among them. *)
LEMMA EdgesType ==
  ASSUME NEW g \in Group, NEW S \in SUBSET Edge
  PROVE  /\ Edges(g) \in SUBSET Edge
         /\ Contributing(g, S) \in SUBSET Edges(g)
         /\ Targets(Edges(g)) \in SUBSET Checks
         /\ Targets(Contributing(g, S)) \subseteq Targets(Edges(g))
<1>1. g.edges \in SUBSET Edge /\ g.groups \in SUBSET Leaf
  BY DEF Group
<1>2. Edges(g) \in SUBSET Edge
  BY <1>1 DEF Edges, Leaf
<1>3. Contributing(g, S) \in SUBSET Edges(g)
  BY DEF Edges, Contributing
<1>4. \A e \in Edge : e.target \in Checks
  BY DEF Edge
<1> QED BY <1>2, <1>3, <1>4 DEF Targets
-----------------------------------------------------------------------------
(* The dependencies a write leaves behind are well formed. *)
NewOK(d) ==
  /\ d \in Dependencies
  /\ IsFiniteSet(d.predicate.groups)
  /\ d.satisfied \subseteq Edges(d.predicate)
  /\ \A e \in Edges(d.predicate) : conditions[e.target][e.onState] # "ABSENT"
  /\ \A e \in d.satisfied : KnownSatisfied(e)

(* What the three kinds of writes do to dependencies and state: one that   *)
(* ends the planning, one that does not, and one of a round.               *)
LEMMA NewValues ==
  ASSUME TypeOK, DepsAgree, StateAgrees, NEW w \in CheckWrite,
         IsFiniteSet(w.deps.predicate.groups),
         ~w.wrote => w.deps = Unresolved(NoGroup),
         FromRequest(w) \/ FromRound(w)
  PROVE  /\ NewOK(NewDependencies(w))
         /\ NewState(w) \in WriteStates
         /\ Rank[NewState(w)] >= Rank[state[w.check]]
         /\ IndexAccepts(w)
         /\ WrittenState(w) \in WriteStates
         /\ \/ /\ Marks(w)
               /\ depsState[w.check] = "MUTABLE"
               /\ NewDependencies(w).satisfied
                    = {e \in Edges(NewDependencies(w).predicate) : KnownSatisfied(e)}
               /\ NewDependencies(w).resolution
                    <=> Holds(NewDependencies(w).predicate, NewDependencies(w).satisfied)
               /\ NewState(w) # "PLANNING"
            \/ /\ ~Marks(w)
               /\ depsState[w.check] = "MUTABLE"
               /\ NewDependencies(w).satisfied = {}
               /\ ~NewDependencies(w).resolution
               /\ NewState(w) = "PLANNING"
            \/ /\ ~Marks(w) /\ ~NewlyResolved(w) /\ FromRequest(w)
               /\ depsState[w.check] # "MUTABLE"
               /\ NewDependencies(w) = dependencies[w.check]
               /\ NewState(w) \in {state[w.check], "WAITING", "FINAL"}
               /\ NewState(w) # "PLANNING"
            \/ /\ ~Marks(w) /\ FromRound(w)
               /\ depsState[w.check] = "RECEIVING_EVENTS"
               /\ NewDependencies(w) = w.deps
               /\ NewState(w) = IF w.deps.resolution /\ state[w.check] = "PLANNED"
                                THEN "WAITING" ELSE state[w.check]
<1> DEFINE c == w.check
           W == Written(w)
           N == NewDependencies(w)
<1>1. /\ c \in Checks /\ w.deps \in Dependencies
      /\ w.state \in WriteStates \cup {"UNSET"} /\ w.wrote \in BOOLEAN
  BY DEF CheckWrite
<1>2. /\ dependencies[c] \in Dependencies /\ state[c] \in CheckStates
      /\ depsState[c] \in DepsStates
  BY <1>1 DEF TypeOK
<1>3. /\ IsFiniteSet(dependencies[c].predicate.groups)
      /\ dependencies[c].satisfied \subseteq Edges(dependencies[c].predicate)
      /\ \A e \in Edges(dependencies[c].predicate) :
           conditions[e.target][e.onState] # "ABSENT"
      /\ \A e \in dependencies[c].satisfied : KnownSatisfied(e)
      /\ dependencies[c].resolution <=> depsState[c] = "RESOLVED"
      /\ depsState[c] = "MUTABLE" => dependencies[c].satisfied = {}
  BY <1>1 DEF DepsAgree
<1>4. /\ depsState[c] = "MUTABLE" <=> state[c] \in {"NONE", "PLANNING"}
      /\ state[c] = "PLANNED" => depsState[c] = "RECEIVING_EVENTS"
  BY <1>1 DEF StateAgrees
<1>5. NewOK(dependencies[c])
  BY <1>2, <1>3 DEF NewOK
<1>6. CASE FromRound(w)
  <2>1. /\ w.state = "UNSET" /\ w.wrote /\ depsState[c] = "RECEIVING_EVENTS"
        /\ w.deps.predicate = dependencies[c].predicate
        /\ w.deps.satisfied \subseteq Edges(w.deps.predicate)
        /\ \A e \in w.deps.satisfied : KnownSatisfied(e)
    BY <1>6 DEF FromRound
  <2>2. /\ ~Marks(w) /\ ~WasPlanning(w) /\ ~IsNew(w) /\ state[c] \in WriteStates
        /\ W = w.deps /\ N = w.deps /\ WrittenState(w) = state[c]
    BY <1>2, <1>4, <2>1 DEF Marks, WasPlanning, IsNew, Written, NewDependencies,
       WritesDeps, WrittenState, CheckStates
  <2>3. NewOK(N)
    BY <1>1, <1>3, <2>1, <2>2 DEF NewOK
  <2>4. NewlyResolved(w) <=> w.deps.resolution
    BY <2>1, <2>2 DEF NewlyResolved, WritesDeps
  <2>5. NewState(w) = IF w.deps.resolution /\ state[c] = "PLANNED"
                      THEN "WAITING" ELSE state[c]
    BY <2>2, <2>4 DEF NewState
  <2>6. NewState(w) \in WriteStates /\ Rank[NewState(w)] >= Rank[state[c]]
    BY <2>2, <2>5 DEF WriteStates, Rank, CheckStates
  <2>7. IndexAccepts(w)
    BY <2>1, <2>2 DEF IndexAccepts, Indexes
  <2> QED BY <1>6, <2>1, <2>2, <2>3, <2>5, <2>6, <2>7
<1>7. CASE FromRequest(w)
  <2>1. /\ CanApply(w) /\ w.deps.satisfied = {} /\ w.deps.resolution = FALSE
        /\ w.wrote => \A e \in Edges(w.deps.predicate) :
                        conditions[e.target][e.onState] # "ABSENT"
    BY <1>7 DEF FromRequest
  <2>2. NewOK(w.deps)
    <3>1. CASE w.wrote
      BY <1>1, <2>1, <3>1 DEF NewOK
    <3>2. CASE ~w.wrote
      <4>1. Edges(w.deps.predicate) = {}
        BY <3>2 DEF Unresolved, NoGroup, Edges
      <4> QED BY <1>1, <2>1, <4>1 DEF NewOK
    <3> QED BY <1>1, <3>1, <3>2
  <2>3. CASE depsState[c] = "MUTABLE"
    <3>1. WasPlanning(w) /\ state[c] \in {"NONE", "PLANNING"}
      BY <1>4, <2>3 DEF WasPlanning
    <3>2. /\ NewOK(W) /\ W.satisfied = {} /\ W.resolution = FALSE
          /\ W.predicate \in Group
      BY <1>1, <1>2, <1>3, <1>5, <2>1, <2>2, <2>3 DEF Written, Dependencies
    <3>3. IndexAccepts(w)
      BY <2>3, <3>1, <3>2 DEF IndexAccepts, NewlyResolved, NewDependencies
    <3>4. CASE Marks(w)
      <4> DEFINE S == {e \in Edges(W.predicate) : KnownSatisfied(e)}
      <4>1. N = [W EXCEPT !.satisfied = S, !.resolution = @ \/ Holds(W.predicate, S)]
        BY <3>4 DEF NewDependencies, Resolve
      <4>2. W \in Dependencies
        BY <3>2 DEF NewOK
      <4>3. N = [predicate |-> W.predicate, satisfied |-> S,
                 resolution |-> (FALSE \/ Holds(W.predicate, S))]
        BY <3>2, <4>1, <4>2 DEF Dependencies
      <4>4. Edges(W.predicate) \in SUBSET Edge
        BY <3>2, EdgesType
      <4>5. Holds(W.predicate, S) \in BOOLEAN
        BY DEF Holds
      <4>6. N \in Dependencies
        BY <3>2, <4>3, <4>4, <4>5 DEF Dependencies
      <4>7. NewOK(N)
        BY <3>2, <4>3, <4>6 DEF NewOK
      <4>8. w.state \in {"PLANNED", "WAITING", "FINAL"} /\ WrittenState(w) = w.state
        BY <1>1, <3>4 DEF Marks, WrittenState, WriteStates
      <4>9. /\ NewState(w) \in WriteStates /\ NewState(w) # "PLANNING"
            /\ Rank[NewState(w)] >= Rank[state[c]] /\ WrittenState(w) \in WriteStates
        BY <3>1, <4>8 DEF NewState, WriteStates, Rank, CheckStates
      <4>10. /\ N.predicate = W.predicate /\ N.satisfied = S
             /\ N.resolution <=> Holds(W.predicate, S)
        <5> DEFINE R == FALSE \/ Holds(W.predicate, S)
        <5>1. N = [predicate |-> W.predicate, satisfied |-> S, resolution |-> R]
          BY <4>3
        <5>2. R <=> Holds(W.predicate, S)
          OBVIOUS
        <5> HIDE DEF R, S, N
        <5>3. N.predicate = W.predicate /\ N.satisfied = S /\ N.resolution = R
          BY <5>1
        <5> QED BY <5>2, <5>3
      <4>11. N.satisfied = {e \in Edges(N.predicate) : KnownSatisfied(e)}
        BY <4>10
      <4>12. N.resolution <=> Holds(N.predicate, N.satisfied)
        BY <4>10
      <4> QED BY <2>3, <3>3, <3>4, <4>7, <4>9, <4>11, <4>12
    <3>5. CASE ~Marks(w)
      <4>1. N = W
        BY <3>5 DEF NewDependencies
      <4>2. w.state \in {"UNSET", "PLANNING"}
        BY <3>1, <3>5 DEF Marks
      <4>3. WrittenState(w) = "PLANNING"
        BY <3>1, <4>2 DEF WrittenState, IsNew
      <4>4. NewState(w) = "PLANNING"
        BY <4>3 DEF NewState
      <4>5. Rank[NewState(w)] >= Rank[state[c]]
        BY <3>1, <4>4 DEF Rank, CheckStates, WriteStates
      <4> QED BY <2>3, <3>2, <3>3, <3>5, <4>1, <4>3, <4>4, <4>5 DEF WriteStates
    <3> QED BY <3>4, <3>5
  <2>4. CASE depsState[c] # "MUTABLE"
    <3>1. state[c] \in {"PLANNED", "WAITING", "FINAL"}
      BY <1>2, <1>4, <2>4 DEF CheckStates, WriteStates
    <3>2. /\ ~WasPlanning(w) /\ ~IsNew(w) /\ ~Marks(w) /\ ~w.wrote /\ ~WritesDeps(w)
          /\ ~Indexes(w) /\ ~NewlyResolved(w)
      BY <1>1, <2>1, <3>1 DEF WasPlanning, IsNew, Marks, CanApply, WritesDeps, Indexes,
         NewlyResolved
    <3>3. N = dependencies[c]
      BY <3>2 DEF NewDependencies, Written
    <3>4. w.state \in {"UNSET", state[c]} \/ (state[c] = "WAITING" /\ w.state = "FINAL")
      BY <2>1, <3>1 DEF CanApply, LegalState
    <3>5. NewState(w) = WrittenState(w)
      BY <3>2 DEF NewState
    <3>6. WrittenState(w) = state[c] \/ (state[c] = "WAITING" /\ WrittenState(w) = "FINAL")
      BY <3>1, <3>2, <3>4 DEF WrittenState
    <3>7. /\ NewState(w) \in WriteStates /\ WrittenState(w) \in WriteStates
          /\ Rank[NewState(w)] >= Rank[state[c]] /\ NewState(w) # "PLANNING"
          /\ NewState(w) \in {state[c], "WAITING", "FINAL"}
      BY <3>1, <3>5, <3>6 DEF WriteStates, Rank, CheckStates
    <3>8. IndexAccepts(w)
      BY <3>2 DEF IndexAccepts
    <3> QED BY <1>5, <1>7, <2>4, <3>2, <3>3, <3>7, <3>8
  <2> QED BY <2>3, <2>4
<1> QED BY <1>6, <1>7
-----------------------------------------------------------------------------
(* A sequence and its tail hold the same, but for the head. *)
LEMMA TailFacts ==
  ASSUME NEW S, NEW s \in Seq(S), s # <<>>
  PROVE  /\ Head(s) = s[1] /\ 1 \in DOMAIN s /\ Head(s) \in S
         /\ Tail(s) \in Seq(S)
         /\ \A i \in DOMAIN Tail(s) : /\ i + 1 \in DOMAIN s /\ i + 1 # 1
                                      /\ Tail(s)[i] = s[i + 1]
         /\ \A i \in DOMAIN s : i # 1 => /\ i - 1 \in DOMAIN Tail(s)
                                         /\ Tail(s)[i - 1] = s[i]
<1>1. PICK n \in Nat : n = Len(s)
  OBVIOUS
<1>2. n # 0 /\ DOMAIN s = 1..n /\ Len(Tail(s)) = n - 1 /\ DOMAIN Tail(s) = 1..(n-1)
  BY <1>1
<1>3. \A i \in 1..(n-1) : Tail(s)[i] = s[i + 1]
  BY <1>1, <1>2
<1>4. Head(s) = s[1] /\ Head(s) \in S /\ Tail(s) \in Seq(S)
  OBVIOUS
<1>5. \A i \in 1..(n-1) : i + 1 \in 1..n /\ i + 1 # 1
  BY <1>1
<1>6. ASSUME NEW i \in 1..n, i # 1
      PROVE i - 1 \in 1..(n-1) /\ Tail(s)[i - 1] = s[i]
  <2>1. i - 1 \in 1..(n-1) /\ (i - 1) + 1 = i
    BY <1>1, <1>6
  <2> QED BY <1>3, <2>1
<1> QED BY <1>2, <1>3, <1>4, <1>5, <1>6

(* The write applied next, and those behind it. *)
LEMMA HeadFacts ==
  ASSUME TypeOK, PendingAgrees, pending # <<>>, NEW w, w = Head(pending)
  PROVE  /\ w \in CheckWrite /\ w.check \in Checks
         /\ IsFiniteSet(w.deps.predicate.groups)
         /\ ~w.wrote => w.deps = Unresolved(NoGroup)
         /\ FromRequest(w) \/ FromRound(w)
         /\ Tail(pending) \in Seq(CheckWrite)
         /\ \A i \in DOMAIN Tail(pending) :
              /\ Tail(pending)[i] \in CheckWrite
              /\ IsFiniteSet(Tail(pending)[i].deps.predicate.groups)
              /\ ~Tail(pending)[i].wrote =>
                   Tail(pending)[i].deps = Unresolved(NoGroup)
              /\ FromRequest(Tail(pending)[i]) \/ FromRound(Tail(pending)[i])
              /\ Tail(pending)[i].check # w.check
         /\ \A i, j \in DOMAIN Tail(pending) :
              Tail(pending)[i].check = Tail(pending)[j].check => i = j
         /\ \A i \in DOMAIN pending : pending[i] # w =>
              \E j \in DOMAIN Tail(pending) : Tail(pending)[j] = pending[i]
<1>1. pending \in Seq(CheckWrite)
  BY DEF TypeOK
<1>2. /\ Head(pending) = pending[1] /\ 1 \in DOMAIN pending
      /\ Head(pending) \in CheckWrite /\ Tail(pending) \in Seq(CheckWrite)
      /\ \A i \in DOMAIN Tail(pending) : /\ i + 1 \in DOMAIN pending /\ i + 1 # 1
                                         /\ Tail(pending)[i] = pending[i + 1]
      /\ \A i \in DOMAIN pending : i # 1 => /\ i - 1 \in DOMAIN Tail(pending)
                                            /\ Tail(pending)[i - 1] = pending[i]
  BY <1>1, TailFacts
<1>3. /\ \A i \in DOMAIN pending :
           /\ IsFiniteSet(pending[i].deps.predicate.groups)
           /\ ~pending[i].wrote => pending[i].deps = Unresolved(NoGroup)
           /\ FromRequest(pending[i]) \/ FromRound(pending[i])
      /\ \A i, j \in DOMAIN pending : pending[i].check = pending[j].check => i = j
  BY DEF PendingAgrees
<1>4. w \in CheckWrite /\ w.check \in Checks
  BY <1>2 DEF CheckWrite
<1>5. ASSUME NEW i \in DOMAIN Tail(pending)
      PROVE  /\ Tail(pending)[i] \in CheckWrite
             /\ IsFiniteSet(Tail(pending)[i].deps.predicate.groups)
             /\ ~Tail(pending)[i].wrote =>
                  Tail(pending)[i].deps = Unresolved(NoGroup)
             /\ FromRequest(Tail(pending)[i]) \/ FromRound(Tail(pending)[i])
             /\ Tail(pending)[i].check # w.check
  <2>1. Tail(pending)[i] \in CheckWrite
    BY <1>2
  <2>2. i + 1 \in DOMAIN pending /\ i + 1 # 1 /\ Tail(pending)[i] = pending[i + 1]
    BY <1>2
  <2> QED BY <1>2, <1>3, <2>1, <2>2
<1>6. ASSUME NEW i \in DOMAIN Tail(pending), NEW j \in DOMAIN Tail(pending),
             Tail(pending)[i].check = Tail(pending)[j].check
      PROVE  i = j
  <2>1. i \in Nat /\ j \in Nat
    BY <1>2
  <2>2. i + 1 = j + 1
    BY <1>2, <1>3, <1>6
  <2> QED BY <2>1, <2>2
<1>7. \A i \in DOMAIN pending : pending[i] # w =>
         \E j \in DOMAIN Tail(pending) : Tail(pending)[j] = pending[i]
  BY <1>2
<1> QED BY <1>2, <1>3, <1>4, <1>5, <1>6, <1>7

(* Applying a write only turns conditions on that check from unknown to    *)
(* satisfied, and queues an event for each.                                *)
LEMMA ConditionsStep ==
  ASSUME TypeOK, ApplyCheckWrite, NEW w, w = Head(pending)
  PROVE  /\ queue' = queue \cup Fired(w)
         /\ \A e \in Edge :
              conditions'[e.target][e.onState] =
                IF e \in Fired(w) THEN "SATISFIED" ELSE conditions[e.target][e.onState]
         /\ \A e \in Edge : conditions'[e.target][e.onState] = "ABSENT"
                              <=> conditions[e.target][e.onState] = "ABSENT"
         /\ \A e \in Edge : KnownSatisfied(e)' <=> KnownSatisfied(e) \/ e \in Fired(w)
<1>1. /\ queue' = queue \cup Fired(w)
      /\ conditions' = [c \in Checks |-> [s \in OnStates |->
           IF [target |-> c, onState |-> s] \in Fired(w) THEN "SATISFIED"
           ELSE conditions[c][s]]]
  BY DEF ApplyCheckWrite, IndexNodeWrite
<1>2. ASSUME NEW e \in Edge
      PROVE  conditions'[e.target][e.onState] =
               IF e \in Fired(w) THEN "SATISFIED" ELSE conditions[e.target][e.onState]
  <2>1. /\ e.target \in Checks /\ e.onState \in OnStates
        /\ [target |-> e.target, onState |-> e.onState] = e
    BY DEF Edge
  <2> HIDE DEF Edge
  <2> QED BY <1>1, <2>1
<1>3. \A e \in Edge : e \in Fired(w) => conditions[e.target][e.onState] = "UNKNOWN"
  BY DEF Fired
<1>4. \A e \in Edge : conditions'[e.target][e.onState] = "ABSENT"
                              <=> conditions[e.target][e.onState] = "ABSENT"
  BY <1>2, <1>3
<1>5. \A e \in Edge : KnownSatisfied(e)' <=> KnownSatisfied(e) \/ e \in Fired(w)
  BY <1>2 DEF KnownSatisfied
<1> QED BY <1>1, <1>2, <1>4, <1>5

(* What a write leaves of each check, in terms of the values above. *)
LEMMA ApplyFrame ==
  ASSUME TypeOK, ApplyCheckWrite, NEW w \in CheckWrite, w = Head(pending)
  PROVE  /\ state'[w.check] = NewState(w)
         /\ dependencies'[w.check] = NewDependencies(w)
         /\ depsState'[w.check] = IF NewlyResolved(w) THEN "RESOLVED"
                                  ELSE IF Marks(w) THEN "RECEIVING_EVENTS"
                                  ELSE depsState[w.check]
         /\ \A c \in Checks : c # w.check =>
              /\ state'[c] = state[c] /\ dependencies'[c] = dependencies[c]
              /\ depsState'[c] = depsState[c]
         /\ IndexAccepts(w) /\ pending' = Tail(pending) /\ phase' = phase
<1>1. /\ w.check \in Checks
      /\ state \in [Checks -> CheckStates] /\ dependencies \in [Checks -> Dependencies]
      /\ depsState \in [Checks -> DepsStates]
  BY DEF TypeOK, CheckWrite
<1>2. /\ state' = [state EXCEPT ![w.check] = NewState(w)]
      /\ dependencies' = [dependencies EXCEPT ![w.check] = NewDependencies(w)]
      /\ depsState' = [depsState EXCEPT ![w.check] =
           IF NewlyResolved(w) THEN "RESOLVED"
           ELSE IF Marks(w) THEN "RECEIVING_EVENTS" ELSE @]
      /\ IndexAccepts(w) /\ pending' = Tail(pending) /\ phase' = phase
  <2>1. IndexResolved(w)
    BY DEF ApplyCheckWrite
  <2>2. depsState' = [depsState EXCEPT ![w.check] =
           IF NewlyResolved(w) THEN "RESOLVED"
           ELSE IF Marks(w) THEN "RECEIVING_EVENTS" ELSE @]
    BY <2>1 DEF IndexResolved
  <2> QED BY <2>2 DEF ApplyCheckWrite
<1> QED BY ONLY <1>1, <1>2
-----------------------------------------------------------------------------
(* Where the dependencies of the written check are in their life. *)
LEMMA ApplyWritten ==
  ASSUME TypeOK, DepsAgree, StateAgrees, PendingAgrees, ApplyCheckWrite,
         NEW w, w = Head(pending), NEW c, c = w.check
  PROVE  /\ w \in CheckWrite /\ c \in Checks /\ NewOK(NewDependencies(w))
         /\ state'[c] = NewState(w) /\ dependencies'[c] = NewDependencies(w)
         /\ state'[c] \in WriteStates /\ Rank[state'[c]] >= Rank[state[c]]
         /\ dependencies'[c] \in Dependencies
         /\ depsState'[c] \in DepsStates
         /\ depsState'[c] = "MUTABLE" <=> state'[c] = "PLANNING"
         /\ state'[c] = "PLANNED" => depsState'[c] = "RECEIVING_EVENTS"
         /\ dependencies'[c].resolution <=> depsState'[c] = "RESOLVED"
         /\ depsState'[c] = "MUTABLE" => dependencies'[c].satisfied = {}
         /\ depsState'[c] # "MUTABLE" =>
              (dependencies'[c].resolution
                 <=> Holds(dependencies'[c].predicate, dependencies'[c].satisfied))
         /\ depsState[c] = "RESOLVED" => /\ ~NewlyResolved(w)
                                         /\ dependencies'[c] = dependencies[c]
                                         /\ depsState'[c] = "RESOLVED"
         /\ NewlyResolved(w) <=> /\ depsState'[c] = "RESOLVED"
                                 /\ depsState[c] # "RESOLVED"
         /\ depsState[c] # "MUTABLE" =>
              /\ dependencies'[c].predicate = dependencies[c].predicate
              /\ dependencies[c].satisfied \subseteq dependencies'[c].satisfied
         /\ Indexes(w) <=> depsState[c] = "MUTABLE" /\ (Marks(w) \/ WritesDeps(w))
         /\ depsState[c] = "MUTABLE" /\ ~Indexes(w) =>
              dependencies'[c] = dependencies[c]
         /\ depsState[c] = "MUTABLE" /\ depsState'[c] = "RECEIVING_EVENTS" =>
              dependencies'[c].satisfied
                = {e \in Edges(dependencies'[c].predicate) : KnownSatisfied(e)}
         /\ depsState[c] = "RECEIVING_EVENTS" =>
              w.deps.satisfied \subseteq dependencies'[c].satisfied
<1> DEFINE N == NewDependencies(w)
<1>1. pending # <<>>
  BY DEF ApplyCheckWrite
<1>2. /\ w \in CheckWrite /\ c \in Checks
      /\ IsFiniteSet(w.deps.predicate.groups)
      /\ ~w.wrote => w.deps = Unresolved(NoGroup)
      /\ FromRequest(w) \/ FromRound(w)
  BY <1>1, HeadFacts
<1>3. /\ state'[c] = NewState(w) /\ dependencies'[c] = N
      /\ depsState'[c] = IF NewlyResolved(w) THEN "RESOLVED"
                         ELSE IF Marks(w) THEN "RECEIVING_EVENTS" ELSE depsState[c]
  BY <1>2, ApplyFrame
<1>4. /\ depsState[c] \in DepsStates /\ state[c] \in CheckStates
      /\ dependencies[c] \in Dependencies
      /\ dependencies[c].resolution <=> depsState[c] = "RESOLVED"
      /\ depsState[c] = "MUTABLE" <=> state[c] \in {"NONE", "PLANNING"}
      /\ state[c] = "PLANNED" => depsState[c] = "RECEIVING_EVENTS"
      /\ depsState[c] = "MUTABLE" => dependencies[c].satisfied = {}
      /\ depsState[c] # "MUTABLE" =>
           (dependencies[c].resolution
              <=> Holds(dependencies[c].predicate, dependencies[c].satisfied))
  BY <1>2 DEF TypeOK, DepsAgree, StateAgrees
<1>5. /\ NewOK(N) /\ NewState(w) \in WriteStates
      /\ Rank[NewState(w)] >= Rank[state[c]] /\ IndexAccepts(w)
      /\ WrittenState(w) \in WriteStates
  BY <1>2, NewValues
<1>6. N \in Dependencies
  BY <1>5 DEF NewOK
<1>7. Indexes(w) <=> depsState[c] = "MUTABLE" /\ (Marks(w) \/ WritesDeps(w))
  BY <1>4 DEF Indexes, Marks, WasPlanning
<1>8. NewlyResolved(w) <=> (Marks(w) \/ WritesDeps(w)) /\ N.resolution
  BY DEF NewlyResolved
<1>9. \/ /\ Marks(w)
         /\ depsState[c] = "MUTABLE"
         /\ N.satisfied = {e \in Edges(N.predicate) : KnownSatisfied(e)}
         /\ N.resolution <=> Holds(N.predicate, N.satisfied)
         /\ NewState(w) # "PLANNING"
      \/ /\ ~Marks(w)
         /\ depsState[c] = "MUTABLE"
         /\ N.satisfied = {}
         /\ ~N.resolution
         /\ NewState(w) = "PLANNING"
      \/ /\ ~Marks(w) /\ ~NewlyResolved(w) /\ FromRequest(w)
         /\ depsState[c] # "MUTABLE"
         /\ N = dependencies[c]
         /\ NewState(w) \in {state[c], "WAITING", "FINAL"}
         /\ NewState(w) # "PLANNING"
      \/ /\ ~Marks(w) /\ FromRound(w)
         /\ depsState[c] = "RECEIVING_EVENTS"
         /\ N = w.deps
         /\ NewState(w) = IF w.deps.resolution /\ state[c] = "PLANNED"
                          THEN "WAITING" ELSE state[c]
  BY <1>2, NewValues
<1> HIDE DEF N
<1>10. CASE Marks(w) /\ depsState[c] = "MUTABLE"
  <2>1. /\ N.satisfied = {e \in Edges(N.predicate) : KnownSatisfied(e)}
        /\ N.resolution <=> Holds(N.predicate, N.satisfied)
        /\ NewState(w) # "PLANNING"
    BY <1>9, <1>10
  <2>2. NewState(w) = "PLANNED" => ~N.resolution
    BY <1>8, <1>10 DEF NewState
  <2>3. depsState'[c] = IF N.resolution THEN "RESOLVED" ELSE "RECEIVING_EVENTS"
    BY <1>3, <1>8, <1>10
  <2> QED BY <1>2, <1>3, <1>4, <1>5, <1>6, <1>7, <1>8, <1>10, <2>1, <2>2, <2>3 DEF DepsStates, N
<1>11. CASE ~Marks(w) /\ depsState[c] = "MUTABLE"
  <2>1. N.satisfied = {} /\ ~N.resolution /\ NewState(w) = "PLANNING"
    BY <1>9, <1>11
  <2>2. ~NewlyResolved(w) /\ depsState'[c] = "MUTABLE"
    BY <1>3, <1>8, <1>11, <2>1
  <2>3. ~Indexes(w) => N = dependencies[c]
    BY <1>7, <1>11 DEF N, NewDependencies, Written
  <2> QED BY <1>2, <1>3, <1>4, <1>5, <1>6, <1>7, <1>11, <2>1, <2>2, <2>3 DEF DepsStates, N
<1>12. CASE depsState[c] # "MUTABLE" /\ FromRound(w)
  <2>1. /\ depsState[c] = "RECEIVING_EVENTS" /\ w.state = "UNSET" /\ w.wrote
        /\ w.deps.predicate = dependencies[c].predicate
        /\ dependencies[c].satisfied \subseteq w.deps.satisfied
        /\ w.deps.resolution <=> Holds(w.deps.predicate, w.deps.satisfied)
    BY <1>2, <1>12 DEF FromRound
  <2>2. WritesDeps(w)
    BY <2>1 DEF WritesDeps
  <2>3. ~Marks(w)
    BY <2>1 DEF Marks
  <2>4. N = w.deps
    BY <2>2, <2>3 DEF N, NewDependencies, Written
  <2>5. depsState'[c] = IF N.resolution THEN "RESOLVED" ELSE "RECEIVING_EVENTS"
    BY <1>3, <1>8, <2>1, <2>2, <2>3
  <2>6. /\ NewState(w) # "PLANNING"
        /\ NewState(w) = "PLANNED" => ~N.resolution
    <3>1. WrittenState(w) = state[c]
      BY <1>2, <1>4, <2>1 DEF WrittenState, IsNew
    <3> QED BY <1>2, <1>4, <1>8, <2>1, <2>2, <3>1 DEF NewState
  <2> QED BY <1>2, <1>3, <1>4, <1>5, <1>6, <1>7, <1>8, <1>12, <2>1, <2>2, <2>3, <2>4, <2>5, <2>6 DEF DepsStates, N
<1>13. CASE depsState[c] # "MUTABLE" /\ ~FromRound(w)
  <2>1. /\ ~Marks(w) /\ ~NewlyResolved(w) /\ FromRequest(w)
        /\ N = dependencies[c]
        /\ NewState(w) \in {state[c], "WAITING", "FINAL"}
        /\ NewState(w) # "PLANNING"
    BY <1>9, <1>13
  <2>2. w.deps.satisfied = {}
    BY <2>1 DEF FromRequest
  <2>3. depsState'[c] = depsState[c]
    BY <1>3, <2>1
  <2> QED BY <1>2, <1>3, <1>4, <1>5, <1>6, <1>7, <1>13, <2>1, <2>2, <2>3 DEF N
<1> QED BY <1>10, <1>11, <1>12, <1>13
-----------------------------------------------------------------------------
(* Applying a write keeps the variables in their types. *)
LEMMA ApplyType ==
  ASSUME TypeOK, DepsAgree, StateAgrees, PendingAgrees, ApplyCheckWrite
  PROVE  TypeOK'
<1> DEFINE w == Head(pending)
           T == Targets(Edges(NewDependencies(w).predicate))
           R == Targets(Contributing(NewDependencies(w).predicate, NewDependencies(w).satisfied))
<1>1. /\ w \in CheckWrite /\ w.check \in Checks /\ NewOK(NewDependencies(w))
      /\ state'[w.check] \in WriteStates /\ dependencies'[w.check] \in Dependencies
      /\ depsState'[w.check] \in DepsStates
  BY ApplyWritten
<1>2. pending # <<>> /\ phase' = phase /\ pending' = Tail(pending)
  BY DEF ApplyCheckWrite
<1>3. pending' \in Seq(CheckWrite)
  BY <1>2, HeadFacts
<1>4. state' \in [Checks -> CheckStates]
  BY <1>1 DEF ApplyCheckWrite, TypeOK, CheckStates
<1>5. dependencies' \in [Checks -> Dependencies]
  BY <1>1 DEF ApplyCheckWrite, TypeOK
<1>6. /\ NewDependencies(w).predicate \in Group
      /\ NewDependencies(w).satisfied \in SUBSET Edge
  BY <1>1 DEF NewOK, Dependencies
<1>7. T \in SUBSET Checks /\ R \in SUBSET Checks
  BY <1>6, EdgesType
<1>8. edgesFlat' \in [Checks -> SUBSET Checks] /\ dependents' \in [Checks -> SUBSET Checks]
  <2>1. IndexPredicate(w)
    BY DEF ApplyCheckWrite
  <2>2. \/ /\ edgesFlat' = [edgesFlat EXCEPT ![w.check] = T]
           /\ dependents' = [t \in Checks |->
                IF t \in edgesFlat[w.check] \ T THEN dependents[t] \ {w.check}
                ELSE IF t \in T \ edgesFlat[w.check] THEN dependents[t] \cup {w.check}
                ELSE dependents[t]]
        \/ edgesFlat' = edgesFlat /\ dependents' = dependents
    BY <2>1 DEF IndexPredicate
  <2> HIDE DEF w, T, R
  <2>3. /\ edgesFlat \in [Checks -> SUBSET Checks]
        /\ dependents \in [Checks -> SUBSET Checks]
    BY DEF TypeOK
  <2>4. edgesFlat' \in [Checks -> SUBSET Checks]
    BY <1>1, <1>7, <2>2, <2>3
  <2>5. dependents' \in [Checks -> SUBSET Checks]
    BY <1>1, <1>7, <2>2, <2>3
  <2> QED BY <2>4, <2>5
<1>9. /\ satisfiedEdges' \in [Checks -> SUBSET Checks]
      /\ satisfiedDependents' \in [Checks -> SUBSET Checks]
      /\ depsState' \in [Checks -> DepsStates]
  <2>1. IndexResolved(w)
    BY DEF ApplyCheckWrite
  <2>2. /\ \/ /\ satisfiedEdges' = [satisfiedEdges EXCEPT ![w.check] = R]
              /\ satisfiedDependents' = [t \in Checks |->
                   IF t \in R THEN satisfiedDependents[t] \cup {w.check}
                   ELSE satisfiedDependents[t]]
           \/ /\ satisfiedEdges' = satisfiedEdges
              /\ satisfiedDependents' = satisfiedDependents
        /\ \/ depsState' = [depsState EXCEPT ![w.check] = "RESOLVED"]
           \/ depsState' = [depsState EXCEPT ![w.check] =
                              IF Marks(w) THEN "RECEIVING_EVENTS" ELSE @]
    BY <2>1 DEF IndexResolved
  <2> HIDE DEF w, T, R
  <2>3. /\ satisfiedEdges \in [Checks -> SUBSET Checks]
        /\ satisfiedDependents \in [Checks -> SUBSET Checks]
        /\ depsState \in [Checks -> DepsStates]
    BY DEF TypeOK
  <2>4. satisfiedEdges' \in [Checks -> SUBSET Checks]
    BY <1>1, <1>7, <2>2, <2>3
  <2>5. satisfiedDependents' \in [Checks -> SUBSET Checks]
    BY <1>1, <1>7, <2>2, <2>3
  <2>6. depsState' \in [Checks -> DepsStates]
    BY <1>1, <2>2, <2>3 DEF DepsStates
  <2> QED BY <2>4, <2>5, <2>6
<1>10. /\ queue' \subseteq Edge
       /\ conditions' \in [Checks -> [OnStates -> {"ABSENT", "UNKNOWN", "SATISFIED"}]]
  <2>1. IndexNodeWrite(w)
    BY DEF ApplyCheckWrite
  <2>2. Fired(w) \subseteq Edge
    BY DEF Fired
  <2> HIDE DEF w
  <2> QED BY <2>1, <2>2 DEF IndexNodeWrite, TypeOK
<1>11. phase' \in {"idle", "writing"}
  BY <1>2 DEF TypeOK
<1> QED BY ONLY <1>3, <1>4, <1>5, <1>8, <1>9, <1>10, <1>11 DEF TypeOK

(* Targets reach what conditions say, and no more than that. *)
LEMMA ApplyConditions ==
  ASSUME TypeOK, DepsAgree, StateAgrees, PendingAgrees, ConditionsAgree, ApplyCheckWrite
  PROVE  ConditionsAgree'
<1> DEFINE w == Head(pending)
<1>1. /\ w \in CheckWrite /\ w.check \in Checks /\ state'[w.check] = NewState(w)
      /\ state'[w.check] \in WriteStates /\ Rank[state'[w.check]] >= Rank[state[w.check]]
  BY ApplyWritten
<1>2. \A c \in Checks : c # w.check => state'[c] = state[c]
  BY <1>1, ApplyFrame
<1>3. /\ queue' = queue \cup Fired(w)
      /\ \A e \in Edge :
           conditions'[e.target][e.onState] =
             IF e \in Fired(w) THEN "SATISFIED" ELSE conditions[e.target][e.onState]
      /\ \A e \in Edge : KnownSatisfied(e)' <=> KnownSatisfied(e) \/ e \in Fired(w)
  BY ConditionsStep
<1>4. \A e \in Edge : e.target \in Checks /\ e.onState \in OnStates
  BY DEF Edge
<1>5. /\ \A c \in Checks : Rank[state[c]] \in Nat /\ Rank[state'[c]] \in Nat
      /\ \A e \in Edge : Rank[e.onState] \in Nat
  <2>1. \A s \in CheckStates : Rank[s] \in Nat
    BY DEF Rank, CheckStates, WriteStates
  <2>2. \A c \in Checks : state[c] \in CheckStates /\ state'[c] \in CheckStates
    BY <1>1, <1>2 DEF TypeOK, CheckStates
  <2>3. OnStates \subseteq CheckStates
    BY GraphAssumption DEF CheckStates
  <2> QED BY <1>4, <2>1, <2>2, <2>3
<1> HIDE DEF w
<1>6. ASSUME NEW e \in Edge, conditions'[e.target][e.onState] = "SATISFIED"
      PROVE  Reached(e)'
  <2>1. CASE e \in Fired(w)
    BY <1>1, <2>1 DEF Fired, Reached
  <2>2. CASE e \notin Fired(w)
    <3>1. Reached(e)
      BY <1>3, <1>6, <2>2 DEF ConditionsAgree
    <3>2. Rank[state'[e.target]] >= Rank[state[e.target]]
      BY <1>1, <1>2, <1>4, <1>5
    <3> QED BY <1>4, <1>5, <3>1, <3>2 DEF Reached
  <2> QED BY <2>1, <2>2
<1>7. ASSUME NEW e \in Edge, conditions'[e.target][e.onState] = "UNKNOWN"
      PROVE  ~Reached(e)'
  <2>1. e \notin Fired(w) /\ conditions[e.target][e.onState] = "UNKNOWN"
    BY <1>3, <1>7
  <2>2. CASE e.target = w.check
    BY <1>1, <1>4, <1>5, <2>1, <2>2 DEF Fired, Reached
  <2>3. CASE e.target # w.check
    BY <1>2, <1>4, <2>1, <2>3 DEF ConditionsAgree, Reached
  <2> QED BY <2>2, <2>3
<1>8. ASSUME NEW e \in queue' PROVE KnownSatisfied(e)'
  <2>1. e \in Edge
    BY <1>3, <1>8 DEF TypeOK, Fired
  <2> QED BY <1>3, <1>8, <2>1 DEF ConditionsAgree
<1> QED BY <1>6, <1>7, <1>8 DEF ConditionsAgree

(* The dependencies of every check stay in order. *)
LEMMA ApplyDeps ==
  ASSUME TypeOK, DepsAgree, StateAgrees, PendingAgrees, ApplyCheckWrite
  PROVE  DepsAgree' /\ StateAgrees'
<1> DEFINE w == Head(pending)
<1>1. /\ w \in CheckWrite /\ w.check \in Checks /\ NewOK(NewDependencies(w))
      /\ dependencies'[w.check] = NewDependencies(w)
      /\ state'[w.check] \in WriteStates
      /\ depsState'[w.check] = "MUTABLE" <=> state'[w.check] = "PLANNING"
      /\ state'[w.check] = "PLANNED" => depsState'[w.check] = "RECEIVING_EVENTS"
      /\ dependencies'[w.check].resolution <=> depsState'[w.check] = "RESOLVED"
      /\ depsState'[w.check] = "MUTABLE" => dependencies'[w.check].satisfied = {}
      /\ depsState'[w.check] # "MUTABLE" =>
           (dependencies'[w.check].resolution
             <=> Holds(dependencies'[w.check].predicate, dependencies'[w.check].satisfied))
  BY ApplyWritten
<1>2. \A c \in Checks : c # w.check =>
        /\ state'[c] = state[c] /\ dependencies'[c] = dependencies[c]
        /\ depsState'[c] = depsState[c]
  BY <1>1, ApplyFrame
<1>3. /\ \A e \in Edge : conditions'[e.target][e.onState] = "ABSENT"
                            <=> conditions[e.target][e.onState] = "ABSENT"
      /\ \A e \in Edge : KnownSatisfied(e)' <=> KnownSatisfied(e) \/ e \in Fired(w)
  BY ConditionsStep
<1>4. \A c \in Checks : /\ dependencies[c].predicate \in Group
                        /\ Edges(dependencies[c].predicate) \in SUBSET Edge
                        /\ dependencies[c].satisfied \in SUBSET Edge
  BY EdgesType DEF TypeOK, Dependencies
<1>5. /\ Edges(NewDependencies(w).predicate) \in SUBSET Edge
      /\ NewDependencies(w).satisfied \in SUBSET Edge
  BY <1>1, EdgesType DEF NewOK, Dependencies
<1> HIDE DEF w
<1>6. DepsAgree'
  <2> SUFFICES ASSUME NEW c \in Checks
      PROVE
      (/\ IsFiniteSet(dependencies[c].predicate.groups)
       /\ dependencies[c].satisfied \subseteq Edges(dependencies[c].predicate)
       /\ \A e \in Edges(dependencies[c].predicate) :
            conditions[e.target][e.onState] # "ABSENT"
       /\ \A e \in dependencies[c].satisfied : KnownSatisfied(e)
       /\ dependencies[c].resolution <=> depsState[c] = "RESOLVED"
       /\ depsState[c] = "MUTABLE" => dependencies[c].satisfied = {}
       /\ depsState[c] # "MUTABLE" =>
            (dependencies[c].resolution
               <=> Holds(dependencies[c].predicate, dependencies[c].satisfied)))'
    BY DEF DepsAgree
  <2>1. CASE c = w.check
    <3>1. /\ IsFiniteSet(NewDependencies(w).predicate.groups)
          /\ NewDependencies(w).satisfied \subseteq Edges(NewDependencies(w).predicate)
          /\ \A e \in Edges(NewDependencies(w).predicate) :
               conditions[e.target][e.onState] # "ABSENT"
          /\ \A e \in NewDependencies(w).satisfied : KnownSatisfied(e)
      BY <1>1 DEF NewOK
    <3> QED BY <1>1, <1>3, <1>5, <2>1, <3>1
  <2>2. CASE c # w.check
    <3>1. /\ IsFiniteSet(dependencies[c].predicate.groups)
          /\ dependencies[c].satisfied \subseteq Edges(dependencies[c].predicate)
          /\ \A e \in Edges(dependencies[c].predicate) :
               conditions[e.target][e.onState] # "ABSENT"
          /\ \A e \in dependencies[c].satisfied : KnownSatisfied(e)
          /\ dependencies[c].resolution <=> depsState[c] = "RESOLVED"
          /\ depsState[c] = "MUTABLE" => dependencies[c].satisfied = {}
          /\ depsState[c] # "MUTABLE" =>
               (dependencies[c].resolution
                  <=> Holds(dependencies[c].predicate, dependencies[c].satisfied))
      BY DEF DepsAgree
    <3> QED BY <1>2, <1>3, <1>4, <2>2, <3>1
  <2> QED BY <2>1, <2>2
<1>7. StateAgrees'
  BY <1>1, <1>2 DEF StateAgrees, WriteStates
<1> QED BY <1>6, <1>7

(* What is still to apply stays as it was validated, or as the round made it. *)
LEMMA ApplyPending ==
  ASSUME TypeOK, DepsAgree, StateAgrees, PendingAgrees, ApplyCheckWrite
  PROVE  PendingAgrees'
<1> DEFINE w == Head(pending)
<1>1. pending # <<>> /\ phase = "writing" /\ phase' = phase /\ pending' = Tail(pending)
  BY DEF ApplyCheckWrite
<1>2. /\ w \in CheckWrite /\ w.check \in Checks
      /\ \A i \in DOMAIN Tail(pending) :
              /\ Tail(pending)[i] \in CheckWrite
              /\ IsFiniteSet(Tail(pending)[i].deps.predicate.groups)
              /\ ~Tail(pending)[i].wrote =>
                   Tail(pending)[i].deps = Unresolved(NoGroup)
              /\ FromRequest(Tail(pending)[i]) \/ FromRound(Tail(pending)[i])
              /\ Tail(pending)[i].check # w.check
      /\ \A i, j \in DOMAIN Tail(pending) :
              Tail(pending)[i].check = Tail(pending)[j].check => i = j
  BY <1>1, HeadFacts
<1>3. \A c \in Checks : c # w.check =>
        /\ state'[c] = state[c] /\ dependencies'[c] = dependencies[c]
        /\ depsState'[c] = depsState[c]
  BY <1>2, ApplyFrame
<1>4. /\ \A e \in Edge : conditions'[e.target][e.onState] = "ABSENT"
                            <=> conditions[e.target][e.onState] = "ABSENT"
      /\ \A e \in Edge : KnownSatisfied(e)' <=> KnownSatisfied(e) \/ e \in Fired(w)
  BY ConditionsStep
<1> HIDE DEF w
<1>5. ASSUME NEW u \in CheckWrite, u.check # w.check, FromRequest(u) \/ FromRound(u)
      PROVE  FromRequest(u)' \/ FromRound(u)'
  <2>1. /\ u.check \in Checks /\ u.deps.predicate \in Group
        /\ u.deps.satisfied \in SUBSET Edge
    BY DEF CheckWrite, Dependencies
  <2>2. Edges(u.deps.predicate) \in SUBSET Edge
    BY <2>1, EdgesType
  <2>3. /\ state'[u.check] = state[u.check]
        /\ dependencies'[u.check] = dependencies[u.check]
        /\ depsState'[u.check] = depsState[u.check]
    BY <1>3, <1>5, <2>1
  <2>4. CASE FromRequest(u)
    <3>1. CanApply(u)'
      BY <2>3, <2>4 DEF FromRequest, CanApply, LegalState
    <3> QED BY <1>4, <2>2, <2>4, <3>1 DEF FromRequest
  <2>5. CASE FromRound(u)
    BY <1>4, <2>1, <2>3, <2>5 DEF FromRound
  <2> QED BY <1>5, <2>4, <2>5
<1>7. /\ phase' # "idle"
      /\ \A i \in DOMAIN pending' :
           /\ IsFiniteSet(pending'[i].deps.predicate.groups)
           /\ ~pending'[i].wrote => pending'[i].deps = Unresolved(NoGroup)
      /\ \A i, j \in DOMAIN pending' : pending'[i].check = pending'[j].check => i = j
  BY <1>1, <1>2
<1>8. ASSUME NEW i \in DOMAIN pending'
      PROVE  FromRequest(pending[i])' \/ FromRound(pending[i])'
  <2>1. PICK u \in CheckWrite : u = pending'[i] /\ u = Tail(pending)[i]
    BY <1>1, <1>2
  <2>2. u.check # w.check /\ (FromRequest(u) \/ FromRound(u))
    BY <1>1, <1>2, <2>1
  <2>3. FromRequest(u)' \/ FromRound(u)'
    BY <1>5, <2>2
  <2> QED BY <2>1, <2>3 DEF FromRequest, FromRound, CanApply, LegalState
<1> QED BY <1>7, <1>8 DEF PendingAgrees

(* An event that is not delivered by a write is still under way after it.  *)
LEMMA ApplyDelivered ==
  ASSUME TypeOK, DepsAgree, StateAgrees, PendingAgrees, Delivered, ApplyCheckWrite
  PROVE  Delivered'
<1> DEFINE w == Head(pending)
<1>1. pending # <<>> /\ pending' = Tail(pending)
  BY DEF ApplyCheckWrite
<1>2. /\ w \in CheckWrite /\ w.check \in Checks
      /\ \A i \in DOMAIN Tail(pending) : Tail(pending)[i].check # w.check
      /\ \A i \in DOMAIN pending : pending[i] # w =>
              \E j \in DOMAIN Tail(pending) : Tail(pending)[j] = pending[i]
  BY <1>1, HeadFacts
<1>3. \A c \in Checks : c # w.check =>
        /\ state'[c] = state[c] /\ dependencies'[c] = dependencies[c]
        /\ depsState'[c] = depsState[c]
  BY <1>2, ApplyFrame
<1>4. /\ queue' = queue \cup Fired(w)
      /\ \A e \in Edge : KnownSatisfied(e)' <=> KnownSatisfied(e) \/ e \in Fired(w)
  BY ConditionsStep
<1>5. /\ dependencies'[w.check] \in Dependencies
      /\ depsState[w.check] = "RESOLVED" => depsState'[w.check] = "RESOLVED"
      /\ depsState[w.check] # "MUTABLE" =>
           /\ dependencies'[w.check].predicate = dependencies[w.check].predicate
           /\ dependencies[w.check].satisfied \subseteq dependencies'[w.check].satisfied
      /\ depsState[w.check] = "MUTABLE" /\ depsState'[w.check] = "RECEIVING_EVENTS" =>
           dependencies'[w.check].satisfied
             = {e \in Edges(dependencies'[w.check].predicate) : KnownSatisfied(e)}
      /\ depsState[w.check] = "RECEIVING_EVENTS" =>
           w.deps.satisfied \subseteq dependencies'[w.check].satisfied
  BY ApplyWritten
<1>6. depsState[w.check] \in DepsStates
  BY <1>2 DEF TypeOK
<1> HIDE DEF w
<1> SUFFICES ASSUME NEW c \in Checks, depsState'[c] = "RECEIVING_EVENTS",
                    NEW e \in Edges(dependencies'[c].predicate), KnownSatisfied(e)'
             PROVE  Underway(c, e)'
  BY DEF Delivered
<1>7. e \in Edge
  <2>1. dependencies'[c] \in Dependencies
    BY <1>3, <1>5 DEF TypeOK
  <2>2. dependencies'[c].predicate \in Group
    BY <2>1 DEF Dependencies
  <2> QED BY <2>2, EdgesType
<1>8. CASE e \in Fired(w)
  BY <1>4, <1>8 DEF Underway
<1>9. CASE e \notin Fired(w)
  <2>1. KnownSatisfied(e)
    BY <1>4, <1>7, <1>9
  <2>2. CASE c # w.check
    <3>1. Underway(c, e)
      BY <1>3, <2>1, <2>2 DEF Delivered
    <3>2. CASE e \in dependencies[c].satisfied
      BY <1>3, <2>2, <3>2 DEF Underway
    <3>3. CASE e \in queue
      BY <1>4, <3>3 DEF Underway
    <3>4. CASE \E i \in DOMAIN pending : pending[i].check = c /\ e \in pending[i].deps.satisfied
      <4>1. PICK i \in DOMAIN pending : pending[i].check = c /\ e \in pending[i].deps.satisfied
        BY <3>4
      <4>2. PICK j \in DOMAIN Tail(pending) : Tail(pending)[j] = pending[i]
        BY <1>2, <2>2, <4>1
      <4> QED BY <1>1, <4>1, <4>2 DEF Underway
    <3> QED BY <3>1, <3>2, <3>3, <3>4 DEF Underway
  <2>3. CASE c = w.check
    <3>1. CASE depsState[c] = "MUTABLE"
      BY <1>5, <2>1, <2>3, <3>1 DEF Underway
    <3>2. CASE depsState[c] = "RECEIVING_EVENTS"
      <4>1. Underway(c, e)
        BY <1>5, <2>1, <2>3, <3>2 DEF Delivered
      <4>2. CASE e \in dependencies[c].satisfied
        BY <1>5, <2>3, <3>2, <4>2 DEF Underway
      <4>3. CASE e \in queue
        BY <1>4, <4>3 DEF Underway
      <4>4. CASE \E i \in DOMAIN pending : pending[i].check = c /\ e \in pending[i].deps.satisfied
        <5>1. e \in w.deps.satisfied
          BY <1>2, <2>3, <4>4
        <5> QED BY <1>5, <2>3, <3>2, <5>1 DEF Underway
      <4> QED BY <4>1, <4>2, <4>3, <4>4 DEF Underway
    <3>3. CASE depsState[c] = "RESOLVED"
      BY <1>5, <2>3, <3>3
    <3> QED BY <1>6, <2>3, <3>1, <3>2, <3>3 DEF DepsStates
  <2> QED BY <2>2, <2>3
<1> QED BY <1>8, <1>9

(* The four maps follow the predicates. *)
LEMMA ApplyIndex ==
  ASSUME TypeOK, DepsAgree, StateAgrees, PendingAgrees, SatisfiedAgrees, IndexAgrees,
         ApplyCheckWrite
  PROVE  IndexAgrees' /\ SatisfiedAgrees'
<1> DEFINE w == Head(pending)
           N == NewDependencies(w)
           T == Targets(Edges(N.predicate))
           R == Targets(Contributing(N.predicate, N.satisfied))
<1>1. /\ w \in CheckWrite /\ w.check \in Checks /\ NewOK(N)
      /\ dependencies'[w.check] = N
      /\ depsState[w.check] = "RESOLVED" => ~NewlyResolved(w)
      /\ NewlyResolved(w) <=> /\ depsState'[w.check] = "RESOLVED"
                              /\ depsState[w.check] # "RESOLVED"
      /\ depsState[w.check] = "RESOLVED" => depsState'[w.check] = "RESOLVED"
      /\ depsState[w.check] # "MUTABLE" => N.predicate = dependencies[w.check].predicate
      /\ Indexes(w) => depsState[w.check] = "MUTABLE"
      /\ depsState[w.check] = "MUTABLE" /\ ~Indexes(w) => N = dependencies[w.check]
  BY ApplyWritten
<1>2. \A c \in Checks : c # w.check =>
        dependencies'[c] = dependencies[c] /\ depsState'[c] = depsState[c]
  BY <1>1, ApplyFrame
<1>3. T \in SUBSET Checks /\ R \subseteq T
  <2>1. N.predicate \in Group /\ N.satisfied \in SUBSET Edge
    BY <1>1 DEF NewOK, Dependencies
  <2> QED BY <2>1, EdgesType
<1>4. \/ /\ Indexes(w)
         /\ edgesFlat' = [edgesFlat EXCEPT ![w.check] = T]
         /\ dependents' = [t \in Checks |->
              IF t \in edgesFlat[w.check] \ T THEN dependents[t] \ {w.check}
              ELSE IF t \in T \ edgesFlat[w.check] THEN dependents[t] \cup {w.check}
              ELSE dependents[t]]
      \/ ~Indexes(w) /\ edgesFlat' = edgesFlat /\ dependents' = dependents
  <2>1. IndexPredicate(w)
    BY DEF ApplyCheckWrite
  <2> QED BY <2>1 DEF IndexPredicate
<1>5. \/ /\ NewlyResolved(w)
         /\ satisfiedEdges' = [satisfiedEdges EXCEPT ![w.check] = R]
         /\ satisfiedDependents' = [t \in Checks |->
              IF t \in R THEN satisfiedDependents[t] \cup {w.check}
              ELSE satisfiedDependents[t]]
      \/ /\ ~NewlyResolved(w)
         /\ satisfiedEdges' = satisfiedEdges /\ satisfiedDependents' = satisfiedDependents
  <2>1. IndexResolved(w)
    BY DEF ApplyCheckWrite
  <2> QED BY <2>1 DEF IndexResolved
<1>6. ~Indexes(w) => N.predicate = dependencies[w.check].predicate
  BY <1>1
<1>7. /\ edgesFlat \in [Checks -> SUBSET Checks] /\ dependents \in [Checks -> SUBSET Checks]
      /\ satisfiedEdges \in [Checks -> SUBSET Checks]
      /\ satisfiedDependents \in [Checks -> SUBSET Checks]
  BY DEF TypeOK
<1>8. T = Targets(Edges(N.predicate))
  OBVIOUS
<1> HIDE DEF w, N, T, R
<1>9. /\ \A c \in Checks : edgesFlat[c] = Targets(Edges(dependencies[c].predicate))
      /\ \A c \in Checks : satisfiedEdges[c] \subseteq edgesFlat[c]
      /\ \A c, t \in Checks : c \in dependents[t] <=> t \in edgesFlat[c]
      /\ \A c, t \in Checks : c \in satisfiedDependents[t] <=> t \in satisfiedEdges[c]
  BY DEF IndexAgrees
<1>10. edgesFlat'[w.check] = T
  BY <1>1, <1>4, <1>6, <1>7, <1>8, <1>9
<1>11. ASSUME NEW c \in Checks, c # w.check
       PROVE  edgesFlat'[c] = edgesFlat[c] /\ satisfiedEdges'[c] = satisfiedEdges[c]
  BY <1>1, <1>4, <1>5, <1>7, <1>11
<1>12. ASSUME NEW c \in Checks
       PROVE  edgesFlat'[c] = Targets(Edges(dependencies'[c].predicate))
  BY <1>1, <1>2, <1>8, <1>9, <1>10, <1>11
<1>13. ASSUME NEW c \in Checks, NEW t \in Checks
       PROVE  c \in dependents'[t] <=> t \in edgesFlat'[c]
  <2>1. CASE ~Indexes(w)
    BY <1>4, <1>9, <2>1
  <2>2. CASE Indexes(w) /\ c # w.check
    <3>1. c \in dependents'[t] <=> c \in dependents[t]
      BY <1>4, <1>7, <2>2
    <3> QED BY <1>9, <1>11, <2>2, <3>1
  <2>3. CASE Indexes(w) /\ c = w.check
    <3>1. c \in dependents'[t] <=> t \in T
      BY <1>1, <1>4, <1>7, <1>9, <2>3
    <3> QED BY <1>10, <2>3, <3>1
  <2> QED BY <2>1, <2>2, <2>3
<1>14. satisfiedEdges'[w.check] \subseteq edgesFlat'[w.check]
  <2>1. CASE NewlyResolved(w)
    BY <1>1, <1>3, <1>5, <1>7, <1>10, <2>1
  <2>2. CASE ~NewlyResolved(w) /\ depsState[w.check] # "RESOLVED"
    BY <1>1, <1>5, <2>2 DEF SatisfiedAgrees
  <2>3. CASE depsState[w.check] = "RESOLVED"
    BY <1>1, <1>4, <1>5, <1>9, <2>3
  <2> QED BY <2>1, <2>2, <2>3
<1>15. ASSUME NEW c \in Checks, NEW t \in Checks
       PROVE  c \in satisfiedDependents'[t] <=> t \in satisfiedEdges'[c]
  <2>1. CASE ~NewlyResolved(w)
    BY <1>5, <1>9, <2>1
  <2>2. CASE NewlyResolved(w) /\ c # w.check
    <3>1. c \in satisfiedDependents'[t] <=> c \in satisfiedDependents[t]
      BY <1>5, <1>7, <2>2
    <3> QED BY <1>9, <1>11, <2>2, <3>1
  <2>3. CASE NewlyResolved(w) /\ c = w.check
    <3>1. satisfiedEdges[c] = {}
      BY <1>1, <2>3 DEF SatisfiedAgrees
    <3>2. c \notin satisfiedDependents[t]
      BY <1>9, <3>1
    <3>3. c \in satisfiedDependents'[t] <=> t \in R
      BY <1>5, <2>3, <3>2
    <3>4. satisfiedEdges'[c] = R
      BY <1>1, <1>5, <1>7, <2>3
    <3> QED BY <3>3, <3>4
  <2> QED BY <2>1, <2>2, <2>3
<1>16. ASSUME NEW c \in Checks
       PROVE  satisfiedEdges'[c] \subseteq edgesFlat'[c]
  BY <1>9, <1>11, <1>14
<1>17. SatisfiedAgrees'
  <2>1. ASSUME NEW c \in Checks, depsState'[c] # "RESOLVED" PROVE satisfiedEdges'[c] = {}
    <3>1. depsState[c] # "RESOLVED"
      BY <1>1, <1>2, <2>1
    <3>2. satisfiedEdges'[c] = satisfiedEdges[c]
      BY <1>1, <1>5, <1>11, <2>1
    <3> QED BY <3>1, <3>2 DEF SatisfiedAgrees
  <2> QED BY <2>1 DEF SatisfiedAgrees
<1> QED BY <1>12, <1>13, <1>15, <1>16, <1>17 DEF IndexAgrees
-----------------------------------------------------------------------------
(* The invariant holds of the empty graph. *)
LEMMA IInvInit == Init => IInv
<1> SUFFICES ASSUME Init PROVE IInv
  OBVIOUS
<1>1. NoGroup \in Group /\ Edges(NoGroup) = {}
  BY DEF NoGroup, Group, Edges
<1>2. Unresolved(NoGroup) \in Dependencies
  BY <1>1 DEF Unresolved, Dependencies
<1>3. Targets({}) = {}
  BY DEF Targets
<1>4. TypeOK
  BY <1>2 DEF Init, TypeOK, CheckStates, DepsStates
<1>5. DepsAgree
  BY <1>1, FS_EmptySet DEF Init, DepsAgree, Unresolved, NoGroup
<1>6. StateAgrees /\ SatisfiedAgrees
  BY DEF Init, StateAgrees, SatisfiedAgrees
<1>7. ConditionsAgree
  BY DEF Init, ConditionsAgree, Edge
<1>8. PendingAgrees
  BY DEF Init, PendingAgrees
<1>9. Delivered
  BY DEF Init, Delivered
<1>10. IndexAgrees
  BY <1>1, <1>3 DEF Init, IndexAgrees, Unresolved
<1> QED BY <1>4, <1>5, <1>6, <1>7, <1>8, <1>9, <1>10 DEF IInv

(* A step that applies a write keeps the invariant. *)
LEMMA ApplyStep == IInv /\ ApplyCheckWrite => IInv'
<1> SUFFICES ASSUME IInv, ApplyCheckWrite PROVE IInv'
  OBVIOUS
<1>1. /\ TypeOK /\ DepsAgree /\ StateAgrees /\ ConditionsAgree /\ PendingAgrees
      /\ Delivered /\ SatisfiedAgrees /\ IndexAgrees
  BY DEF IInv
<1>2. TypeOK'
  BY <1>1, ApplyType
<1>3. DepsAgree' /\ StateAgrees'
  BY <1>1, ApplyDeps
<1>4. ConditionsAgree'
  BY <1>1, ApplyConditions
<1>5. PendingAgrees'
  BY <1>1, ApplyPending
<1>6. Delivered'
  BY <1>1, ApplyDelivered
<1>7. IndexAgrees' /\ SatisfiedAgrees'
  BY <1>1, ApplyIndex
<1> QED BY <1>2, <1>3, <1>4, <1>5, <1>6, <1>7 DEF IInv

(* The elements of a sequence. *)
LEMMA SeqElement ==
  ASSUME NEW S, NEW s \in Seq(S), NEW i \in DOMAIN s PROVE s[i] \in S
<1>1. PICK n \in Nat : n = Len(s)
  OBVIOUS
<1>2. i \in 1..n
  BY <1>1
<1> QED BY <1>1, <1>2

(* A request is validated on the graph it is then applied to, and the      *)
(* conditions of its edges are evaluated before anything is written.       *)
LEMMA WriteStep ==
  ASSUME IInv, NEW req \in Requests, WriteNodes(req) PROVE IInv'
<1>1. /\ TypeOK /\ DepsAgree /\ StateAgrees /\ ConditionsAgree /\ PendingAgrees
      /\ Delivered /\ SatisfiedAgrees /\ IndexAgrees
  BY DEF IInv
<1>2. /\ phase = "idle" /\ pending = <<>> /\ Sound(req)
      /\ UNCHANGED <<state, dependencies, edgesFlat, dependents, satisfiedEdges,
                     satisfiedDependents, depsState, queue>>
  BY <1>1 DEF WriteNodes, PendingAgrees
<1>3. /\ req \in Seq([check : Checks, state : WriteStates \cup {"UNSET"},
                      wrote : BOOLEAN, group : Group])
      /\ \A i \in DOMAIN req : IsFiniteSet(req[i].group.groups)
  BY GraphAssumption
<1>4. \A i \in DOMAIN req : /\ req[i].check \in Checks /\ req[i].wrote \in BOOLEAN
                            /\ req[i].state \in WriteStates \cup {"UNSET"}
                            /\ req[i].group \in Group
  <2>1. \A i \in DOMAIN req :
          req[i] \in [check : Checks, state : WriteStates \cup {"UNSET"},
                      wrote : BOOLEAN, group : Group]
    BY <1>3, SeqElement
  <2> QED BY <2>1
<1> DEFINE E == RequestEdges(req)
<1>5. \A i \in DOMAIN req : req[i].wrote => Edges(req[i].group) \subseteq E
  BY DEF RequestEdges
<1>6. \A e \in Edge :
        conditions'[e.target][e.onState] =
          IF e \in E /\ conditions[e.target][e.onState] = "ABSENT"
          THEN IF Reached(e) THEN "SATISFIED" ELSE "UNKNOWN"
          ELSE conditions[e.target][e.onState]
  <2> SUFFICES ASSUME NEW e \in Edge
               PROVE conditions'[e.target][e.onState] =
                       IF e \in E /\ conditions[e.target][e.onState] = "ABSENT"
                       THEN IF Reached(e) THEN "SATISFIED" ELSE "UNKNOWN"
                       ELSE conditions[e.target][e.onState]
    OBVIOUS
  <2>1. conditions' = [c \in Checks |-> [s \in OnStates |->
          IF [target |-> c, onState |-> s] \in E /\ conditions[c][s] = "ABSENT"
          THEN IF Reached([target |-> c, onState |-> s]) THEN "SATISFIED" ELSE "UNKNOWN"
          ELSE conditions[c][s]]]
    BY DEF WriteNodes, EnsureConditions
  <2>2. /\ e.target \in Checks /\ e.onState \in OnStates
        /\ [target |-> e.target, onState |-> e.onState] = e
    BY DEF Edge
  <2> HIDE DEF E
  <2> QED BY <2>1, <2>2
<1> HIDE DEF E
<1>7. /\ \A e \in Edge : conditions[e.target][e.onState] # "ABSENT" =>
           conditions'[e.target][e.onState] = conditions[e.target][e.onState]
      /\ \A e \in Edge : e \in E => conditions'[e.target][e.onState] # "ABSENT"
  BY <1>6
<1>8. \A e \in Edge : Reached(e)' <=> Reached(e)
  BY <1>2 DEF Reached
<1>9. \A c \in Checks : /\ Edges(dependencies[c].predicate) \in SUBSET Edge
                        /\ dependencies[c].satisfied \in SUBSET Edge
  BY <1>1, EdgesType DEF TypeOK, Dependencies
<1>10. \A e \in Edge : KnownSatisfied(e) => KnownSatisfied(e)'
  BY <1>7 DEF KnownSatisfied
<1>11. DepsAgree'
  BY <1>1, <1>2, <1>7, <1>9, <1>10 DEF DepsAgree
<1>12. StateAgrees' /\ SatisfiedAgrees' /\ IndexAgrees'
  BY <1>1, <1>2 DEF StateAgrees, SatisfiedAgrees, IndexAgrees
<1>13. ConditionsAgree'
  <2>1. \A e \in Edge : /\ conditions'[e.target][e.onState] = "SATISFIED" => Reached(e)
                        /\ conditions'[e.target][e.onState] = "UNKNOWN" => ~Reached(e)
    BY <1>1, <1>6 DEF ConditionsAgree
  <2>2. \A e \in queue' : KnownSatisfied(e)'
    BY <1>1, <1>2, <1>10 DEF ConditionsAgree, TypeOK
  <2> QED BY <1>8, <2>1, <2>2 DEF ConditionsAgree
<1>14. \A i \in DOMAIN req :
         /\ Extract(req[i]) \in CheckWrite
         /\ Extract(req[i]).check = req[i].check /\ Extract(req[i]).wrote = req[i].wrote
         /\ Extract(req[i]).deps.satisfied = {}
         /\ Extract(req[i]).deps.resolution = FALSE
         /\ IsFiniteSet(Extract(req[i]).deps.predicate.groups)
         /\ ~req[i].wrote => Extract(req[i]).deps = Unresolved(NoGroup)
         /\ req[i].wrote => Edges(Extract(req[i]).deps.predicate) = Edges(req[i].group)
  <2> SUFFICES ASSUME NEW i \in DOMAIN req
      PROVE  /\ Extract(req[i]) \in CheckWrite
             /\ Extract(req[i]).check = req[i].check /\ Extract(req[i]).wrote = req[i].wrote
             /\ Extract(req[i]).deps.satisfied = {}
             /\ Extract(req[i]).deps.resolution = FALSE
             /\ IsFiniteSet(Extract(req[i]).deps.predicate.groups)
             /\ ~req[i].wrote => Extract(req[i]).deps = Unresolved(NoGroup)
             /\ req[i].wrote => Edges(Extract(req[i]).deps.predicate) = Edges(req[i].group)
    OBVIOUS
  <2> DEFINE G == IF req[i].wrote THEN Normal(req[i].group) ELSE NoGroup
  <2>1. /\ Normal(req[i].group) \in Group
        /\ IsFiniteSet(Normal(req[i].group).groups)
        /\ Edges(Normal(req[i].group)) = Edges(req[i].group)
    BY <1>3, <1>4, NormalType
  <2>2. NoGroup \in Group /\ IsFiniteSet(NoGroup.groups)
    BY FS_EmptySet DEF NoGroup, Group
  <2>3. /\ G \in Group /\ IsFiniteSet(G.groups)
        /\ req[i].wrote => Edges(G) = Edges(req[i].group)
        /\ ~req[i].wrote => G = NoGroup
    BY <2>1, <2>2
  <2>4. Extract(req[i]) = [check |-> req[i].check, state |-> req[i].state,
                           wrote |-> req[i].wrote, deps |-> Unresolved(G)]
    BY DEF Extract
  <2> HIDE DEF G
  <2>5. /\ Unresolved(G) \in Dependencies /\ Unresolved(G).predicate = G
        /\ Unresolved(G).satisfied = {} /\ Unresolved(G).resolution = FALSE
    BY <2>3 DEF Unresolved, Dependencies
  <2>6. Extract(req[i]) \in CheckWrite
    BY <1>4, <2>4, <2>5 DEF CheckWrite
  <2> QED BY <2>3, <2>4, <2>5, <2>6
<1>15. CASE Accepted(req)
  <2>1. pending' = [i \in DOMAIN req |-> Extract(req[i])] /\ phase' = "writing"
    BY <1>15 DEF WriteNodes
  <2>2. pending' \in Seq(CheckWrite)
    <3>1. PICK n \in Nat : DOMAIN req = 1..n
      BY <1>3
    <3>2. pending' \in [1..n -> CheckWrite]
      BY <1>14, <2>1, <3>1
    <3> QED BY <3>2
  <2>3. TypeOK'
    <3>1. conditions' \in [Checks -> [OnStates -> {"ABSENT", "UNKNOWN", "SATISFIED"}]]
      BY <1>1 DEF WriteNodes, EnsureConditions, TypeOK
    <3> QED BY <1>1, <1>2, <2>1, <2>2, <3>1 DEF TypeOK
  <2>4. PendingAgrees'
    <3>1. ASSUME NEW i \in DOMAIN req PROVE FromRequest(pending[i])'
      <4> DEFINE u == Extract(req[i])
      <4>1. pending'[i] = u
        BY <2>1
      <4>2. CanApply(u)
        BY <1>15 DEF Accepted
      <4>3. /\ u.deps.satisfied = {} /\ u.deps.resolution = FALSE /\ u \in CheckWrite
            /\ u.wrote => Edges(u.deps.predicate) \subseteq E
        BY <1>5, <1>14
      <4>4. Edges(u.deps.predicate) \in SUBSET Edge
        BY <4>3, EdgesType DEF CheckWrite, Dependencies
      <4> HIDE DEF u
      <4>5. state' = state /\ dependencies' = dependencies
        BY <1>2
      <4>6. CanApply(pending[i])'
        BY <4>1, <4>2, <4>5 DEF CanApply, LegalState
      <4> QED BY <1>7, <4>1, <4>3, <4>4, <4>6 DEF FromRequest
    <3>2. \A i, j \in DOMAIN req : req[i].check = req[j].check => i = j
      BY <1>2 DEF Sound
    <3>3. \A i \in DOMAIN req :
            /\ IsFiniteSet(pending'[i].deps.predicate.groups)
            /\ ~pending'[i].wrote => pending'[i].deps = Unresolved(NoGroup)
            /\ pending'[i].check = req[i].check
      BY <1>14, <2>1
    <3>4. DOMAIN pending' = DOMAIN req
      BY <2>1
    <3> QED BY <2>1, <3>1, <3>2, <3>3, <3>4 DEF PendingAgrees
  <2>5. Delivered'
    <3> SUFFICES ASSUME NEW c \in Checks, depsState'[c] = "RECEIVING_EVENTS",
                        NEW e \in Edges(dependencies'[c].predicate), KnownSatisfied(e)'
                 PROVE  Underway(c, e)'
      BY DEF Delivered
    <3>1. e \in Edge /\ e \in Edges(dependencies[c].predicate)
      BY <1>2, <1>9
    <3>2. KnownSatisfied(e)
      BY <1>1, <1>7, <3>1 DEF DepsAgree, KnownSatisfied
    <3>3. Underway(c, e)
      BY <1>1, <1>2, <3>1, <3>2 DEF Delivered
    <3>4. e \in dependencies[c].satisfied \/ e \in queue
      BY <1>2, <3>3 DEF Underway
    <3> QED BY <1>2, <3>4 DEF Underway
  <2> QED BY <1>11, <1>12, <1>13, <2>3, <2>4, <2>5 DEF IInv
<1>16. CASE ~Accepted(req)
  <2>1. pending' = pending /\ phase' = phase
    BY <1>16 DEF WriteNodes
  <2>2. TypeOK'
    <3>1. conditions' \in [Checks -> [OnStates -> {"ABSENT", "UNKNOWN", "SATISFIED"}]]
      BY <1>1 DEF WriteNodes, EnsureConditions, TypeOK
    <3> QED BY <1>1, <1>2, <2>1, <3>1 DEF TypeOK
  <2>3. PendingAgrees'
    BY <1>2, <2>1 DEF PendingAgrees
  <2>4. Delivered'
    <3> SUFFICES ASSUME NEW c \in Checks, depsState'[c] = "RECEIVING_EVENTS",
                        NEW e \in Edges(dependencies'[c].predicate), KnownSatisfied(e)'
                 PROVE  Underway(c, e)'
      BY DEF Delivered
    <3>1. e \in Edge /\ e \in Edges(dependencies[c].predicate)
      BY <1>2, <1>9
    <3>2. KnownSatisfied(e)
      BY <1>1, <1>7, <3>1 DEF DepsAgree, KnownSatisfied
    <3>3. Underway(c, e)
      BY <1>1, <1>2, <3>1, <3>2 DEF Delivered
    <3>4. e \in dependencies[c].satisfied \/ e \in queue
      BY <1>2, <3>3 DEF Underway
    <3> QED BY <1>2, <3>4 DEF Underway
  <2> QED BY <1>11, <1>12, <1>13, <2>2, <2>3, <2>4 DEF IInv
<1> QED BY <1>15, <1>16

(* An order of a finite set names each of its elements once. *)
LEMMA OrderIsOnto ==
  ASSUME NEW S, IsFiniteSet(S), NEW order \in Orders(S)
  PROVE  /\ Cardinality(S) \in Nat /\ DOMAIN order = 1..Cardinality(S)
         /\ \A i \in DOMAIN order : order[i] \in S
         /\ \A i, j \in DOMAIN order : order[i] = order[j] => i = j
         /\ \A x \in S : \E i \in DOMAIN order : order[i] = x
<1>1. Cardinality(S) \in Nat
  BY FS_CardinalityType
<1>2. /\ order \in [1..Cardinality(S) -> S]
      /\ \A i, j \in 1..Cardinality(S) : order[i] = order[j] => i = j
  BY DEF Orders
<1>3. order \in Injection(1..Cardinality(S), S)
  BY <1>2 DEF Injection, IsInjective
<1>4. Cardinality(1..Cardinality(S)) = Cardinality(S)
  BY <1>1, FS_Interval
<1>5. order \in Surjection(1..Cardinality(S), S)
  BY <1>3, <1>4, FS_Injection
<1>6. \A x \in S : \E i \in 1..Cardinality(S) : order[i] = x
  BY <1>5 DEF Surjection
<1> QED BY <1>1, <1>2, <1>6

(* A round turns every event into writes for all that wait for it. *)
LEMMA RoundStep == IInv /\ ProcessQueue => IInv'
<1> SUFFICES ASSUME IInv, ProcessQueue PROVE IInv'
  OBVIOUS
<1>1. /\ TypeOK /\ DepsAgree /\ StateAgrees /\ ConditionsAgree /\ PendingAgrees
      /\ Delivered /\ SatisfiedAgrees /\ IndexAgrees
  BY DEF IInv
<1> DEFINE S == UNION {Receivers(event) : event \in queue}
<1>2. /\ phase = "writing" /\ pending = <<>> /\ queue' = {} /\ CanPropagate
      /\ UNCHANGED <<state, dependencies, edgesFlat, dependents, satisfiedEdges,
                     satisfiedDependents, depsState, conditions, phase>>
  BY DEF ProcessQueue, Rounding, index
<1>3. PICK order \in Orders(S) : pending' = [i \in DOMAIN order |-> Propagated(order[i])]
  BY DEF ProcessQueue
<1>4. S \in SUBSET Checks
  <2>1. \A e \in queue : e.target \in Checks
    BY <1>1 DEF TypeOK, Edge
  <2>2. \A e \in queue : Receivers(e) \subseteq Checks
    BY <1>1, <2>1 DEF TypeOK, Receivers
  <2> QED BY <2>2
<1>5. IsFiniteSet(S)
  BY <1>4, GraphAssumption, FS_Subset
<1> HIDE DEF S
<1>6. /\ Cardinality(S) \in Nat /\ DOMAIN order = 1..Cardinality(S)
      /\ \A i \in DOMAIN order : order[i] \in S
      /\ \A i, j \in DOMAIN order : order[i] = order[j] => i = j
      /\ \A x \in S : \E i \in DOMAIN order : order[i] = x
  BY <1>5, OrderIsOnto
<1>7. ASSUME NEW c \in S
      PROVE  /\ Propagated(c) \in CheckWrite
             /\ Propagated(c).check = c /\ Propagated(c).wrote
             /\ Propagated(c).deps.satisfied =
                  dependencies[c].satisfied \cup {event \in queue : c \in Receivers(event)}
             /\ IsFiniteSet(Propagated(c).deps.predicate.groups)
             /\ FromRound(Propagated(c))
  <2> DEFINE d == dependencies[c]
             Q == {event \in queue : c \in Receivers(event)}
             X == d.satisfied \cup Q
             H == Holds(d.predicate, X)
  <2>1. c \in Checks /\ d \in Dependencies /\ Q \in SUBSET Edge
    BY <1>1, <1>4 DEF TypeOK
  <2>2. d.satisfied \in SUBSET Edge /\ d.predicate \in Group
    BY <2>1 DEF Dependencies
  <2>3. depsState[c] = "RECEIVING_EVENTS"
    BY <1>7 DEF S, Receivers
  <2>4. d.resolution = FALSE
    BY <1>1, <2>1, <2>3 DEF DepsAgree, Dependencies
  <2>5. H \in BOOLEAN
    BY DEF Holds
  <2>6. Resolve(d, X) = [predicate |-> d.predicate, satisfied |-> X,
                         resolution |-> (FALSE \/ H)]
    <3>1. Resolve(d, X) = [d EXCEPT !.satisfied = X,
                                    !.resolution = @ \/ Holds(d.predicate, X)]
      BY DEF Resolve
    <3> HIDE DEF X, d, Q
    <3> QED BY <2>1, <2>4, <3>1 DEF Dependencies
  <2>7. Q \subseteq Edges(d.predicate)
    BY <1>2 DEF CanPropagate, Misdirected
  <2>8. \A e \in Q : KnownSatisfied(e)
    BY <1>1 DEF ConditionsAgree
  <2>9. /\ IsFiniteSet(d.predicate.groups)
        /\ d.satisfied \subseteq Edges(d.predicate)
        /\ \A e \in d.satisfied : KnownSatisfied(e)
    BY <1>1, <2>1 DEF DepsAgree
  <2>10. Propagated(c) = [check |-> c, state |-> "UNSET", wrote |-> TRUE,
                          deps |-> Resolve(d, X)]
    BY DEF Propagated
  <2>11. X \in SUBSET Edge /\ X \subseteq Edges(d.predicate) /\ d.satisfied \subseteq X
         /\ \A e \in X : KnownSatisfied(e)
    BY <2>1, <2>2, <2>7, <2>8, <2>9
  <2>12. X = dependencies[c].satisfied \cup {event \in queue : c \in Receivers(event)}
         /\ d = dependencies[c] /\ (H <=> Holds(d.predicate, X))
    OBVIOUS
  <2> DEFINE F == FALSE \/ H
  <2>13. F \in BOOLEAN /\ (F <=> H)
    BY <2>5
  <2>14. Resolve(d, X) = [predicate |-> d.predicate, satisfied |-> X, resolution |-> F]
    BY <2>6
  <2> HIDE DEF F, H, X, Q, d
  <2>15. /\ Resolve(d, X) \in Dependencies
         /\ Resolve(d, X).predicate = d.predicate /\ Resolve(d, X).satisfied = X
         /\ Resolve(d, X).resolution = F
    BY <2>2, <2>11, <2>13, <2>14 DEF Dependencies
  <2>16. Propagated(c) \in CheckWrite
    BY <2>1, <2>10, <2>15 DEF CheckWrite
  <2>17. /\ Propagated(c).check = c /\ Propagated(c).wrote
         /\ Propagated(c).state = "UNSET" /\ Propagated(c).deps = Resolve(d, X)
    BY <2>10
  <2>18. FromRound(Propagated(c))
    BY <2>3, <2>11, <2>12, <2>13, <2>15, <2>17 DEF FromRound
  <2> QED BY <2>9, <2>12, <2>15, <2>16, <2>17, <2>18
<1>8. pending' \in Seq(CheckWrite)
  <2>1. pending' \in [1..Cardinality(S) -> CheckWrite]
    BY <1>3, <1>6, <1>7
  <2> QED BY <1>6, <2>1
<1>9. TypeOK'
  BY <1>1, <1>2, <1>8 DEF TypeOK
<1>10. DepsAgree' /\ StateAgrees' /\ ConditionsAgree' /\ SatisfiedAgrees' /\ IndexAgrees'
  <2>1. \A e : KnownSatisfied(e)' <=> KnownSatisfied(e)
    BY <1>2 DEF KnownSatisfied
  <2>2. \A e : Reached(e)' <=> Reached(e)
    BY <1>2 DEF Reached
  <2>3. DepsAgree'
    BY <1>1, <1>2, <2>1 DEF DepsAgree
  <2>4. StateAgrees' /\ SatisfiedAgrees' /\ IndexAgrees'
    BY <1>1, <1>2 DEF StateAgrees, SatisfiedAgrees, IndexAgrees
  <2>5. ConditionsAgree'
    BY <1>1, <1>2, <2>2 DEF ConditionsAgree
  <2> QED BY <2>3, <2>4, <2>5
<1>11. PendingAgrees'
  <2>1. DOMAIN pending' = DOMAIN order /\ \A i \in DOMAIN order : pending'[i] = Propagated(order[i])
    BY <1>3
  <2>2. ASSUME NEW i \in DOMAIN order PROVE FromRound(pending[i])'
    <3>1. FromRound(Propagated(order[i]))
      BY <1>6, <1>7
    <3>2. PICK u : u = Propagated(order[i]) /\ u = pending'[i]
      BY <2>1
    <3> QED BY <1>2, <3>1, <3>2 DEF FromRound, KnownSatisfied
  <2>3. \A i \in DOMAIN order : /\ IsFiniteSet(pending'[i].deps.predicate.groups)
                                /\ pending'[i].wrote /\ pending'[i].check = order[i]
    BY <1>6, <1>7, <2>1
  <2>4. phase' # "idle"
    BY <1>2
  <2> QED BY <1>6, <2>1, <2>2, <2>3, <2>4 DEF PendingAgrees
<1>12. Delivered'
  <2> SUFFICES ASSUME NEW c \in Checks, depsState'[c] = "RECEIVING_EVENTS",
                      NEW e \in Edges(dependencies'[c].predicate), KnownSatisfied(e)'
               PROVE  Underway(c, e)'
    BY DEF Delivered
  <2>1. /\ depsState[c] = "RECEIVING_EVENTS" /\ e \in Edges(dependencies[c].predicate)
        /\ KnownSatisfied(e)
    BY <1>2 DEF KnownSatisfied
  <2>2. Underway(c, e)
    BY <1>1, <2>1 DEF Delivered
  <2>3. CASE e \in dependencies[c].satisfied
    BY <1>2, <2>3 DEF Underway
  <2>4. CASE e \in queue
    <3>1. e \in Edge /\ e.target \in Checks
      BY <1>1, <2>4 DEF TypeOK, Edge
    <3>2. e.target \in edgesFlat[c]
      BY <1>1, <2>1 DEF IndexAgrees, Targets
    <3>3. c \in Receivers(e)
      BY <1>1, <2>1, <3>1, <3>2 DEF IndexAgrees, Receivers
    <3>4. c \in S
      BY <2>4, <3>3 DEF S
    <3>5. PICK i \in DOMAIN order : order[i] = c
      BY <1>6, <3>4
    <3>6. pending'[i] = Propagated(c) /\ i \in DOMAIN pending'
      BY <1>3, <3>5
    <3>7. e \in Propagated(c).deps.satisfied /\ Propagated(c).check = c
      BY <1>7, <2>4, <3>3, <3>4
    <3> QED BY <3>6, <3>7 DEF Underway
  <2>5. CASE \E i \in DOMAIN pending : pending[i].check = c /\ e \in pending[i].deps.satisfied
    BY <1>2, <2>5
  <2> QED BY <2>2, <2>3, <2>4, <2>5 DEF Underway
<1> QED BY <1>9, <1>10, <1>11, <1>12 DEF IInv

(* Leaving the call, by an exception or not, changes no graph. *)
LEMMA LeaveStep ==
  ASSUME IInv, UNCHANGED <<state, dependencies, index, queue, pending>>,
         pending = <<>>, phase' \in {"idle", "writing"}
  PROVE  IInv'
<1>1. /\ TypeOK /\ DepsAgree /\ StateAgrees /\ ConditionsAgree /\ PendingAgrees
      /\ Delivered /\ SatisfiedAgrees /\ IndexAgrees
  BY DEF IInv
<1>2. UNCHANGED <<state, dependencies, edgesFlat, dependents, satisfiedEdges,
                  satisfiedDependents, depsState, conditions, queue, pending>>
  BY DEF index
<1>3. /\ \A e : KnownSatisfied(e)' <=> KnownSatisfied(e)
      /\ \A e : Reached(e)' <=> Reached(e)
  BY <1>2 DEF KnownSatisfied, Reached
<1>4. TypeOK'
  BY <1>1, <1>2 DEF TypeOK
<1>5. DepsAgree' /\ StateAgrees' /\ SatisfiedAgrees' /\ IndexAgrees'
  BY <1>1, <1>2, <1>3 DEF DepsAgree, StateAgrees, SatisfiedAgrees, IndexAgrees
<1>6. ConditionsAgree'
  BY <1>1, <1>2, <1>3 DEF ConditionsAgree
<1>7. PendingAgrees'
  BY <1>2 DEF PendingAgrees
<1>8. Delivered'
  BY <1>1, <1>2, <1>3 DEF Delivered, Underway
<1> QED BY <1>4, <1>5, <1>6, <1>7, <1>8 DEF IInv

(* A step that changes nothing. *)
LEMMA StutterStep == IInv /\ UNCHANGED vars => IInv'
<1> SUFFICES ASSUME IInv, UNCHANGED vars PROVE IInv'
  OBVIOUS
<1>1. /\ TypeOK /\ DepsAgree /\ StateAgrees /\ ConditionsAgree /\ PendingAgrees
      /\ Delivered /\ SatisfiedAgrees /\ IndexAgrees
  BY DEF IInv
<1>2. UNCHANGED <<state, dependencies, edgesFlat, dependents, satisfiedEdges,
                  satisfiedDependents, depsState, conditions, queue, pending, phase>>
  BY DEF vars, index
<1>3. /\ \A e : KnownSatisfied(e)' <=> KnownSatisfied(e)
      /\ \A e : Reached(e)' <=> Reached(e)
  BY <1>2 DEF KnownSatisfied, Reached
<1>4. TypeOK'
  BY <1>1, <1>2 DEF TypeOK
<1>5. DepsAgree' /\ StateAgrees' /\ SatisfiedAgrees' /\ IndexAgrees'
  BY <1>1, <1>2, <1>3 DEF DepsAgree, StateAgrees, SatisfiedAgrees, IndexAgrees
<1>6. ConditionsAgree' /\ Delivered'
  BY <1>1, <1>2, <1>3 DEF ConditionsAgree, Delivered, Underway
<1>7. PendingAgrees'
  <2>1. \A i \in DOMAIN pending :
          FromRequest(pending[i]) \/ FromRound(pending[i])
            => FromRequest(pending[i])' \/ FromRound(pending[i])'
    BY <1>2 DEF FromRequest, FromRound, CanApply, LegalState, KnownSatisfied
  <2> QED BY <1>1, <1>2, <2>1 DEF PendingAgrees
<1> QED BY <1>4, <1>5, <1>6, <1>7 DEF IInv

(* The graph, its index and what is under way agree in every state.        *)
THEOREM Inductive == Spec => []IInv
<1>1. Init => IInv
  BY IInvInit
<1>2. IInv /\ [Next]_vars => IInv'
  <2> SUFFICES ASSUME IInv, [Next]_vars PROVE IInv'
    OBVIOUS
  <2>1. ASSUME NEW req \in Requests, WriteNodes(req) PROVE IInv'
    BY <2>1, WriteStep
  <2>2. CASE ApplyCheckWrite
    BY <2>2, ApplyStep
  <2>3. CASE ProcessQueue
    BY <2>3, RoundStep
  <2>4. CASE Raise
    BY <2>4, LeaveStep DEF Raise, Rounding
  <2>5. CASE Return
    BY <2>5, LeaveStep DEF Return
  <2>6. CASE UNCHANGED vars
    BY <2>6, StutterStep
  <2> QED BY <2>1, <2>2, <2>3, <2>4, <2>5, <2>6 DEF Next
<1> QED BY <1>1, <1>2, PTL DEF Spec

(* The variables hold what their names say. *)
THEOREM GraphTypes == Spec => []TypeOK
<1>1. IInv => TypeOK
  BY DEF IInv
<1> QED BY <1>1, Inductive, PTL

(* The maps that queries follow agree with the predicates, whatever was    *)
(* written (edge.py:363, edge.py:497).                                     *)
THEOREM IndexIsExact == Spec => []IndexAgrees
<1>1. IInv => IndexAgrees
  BY DEF IInv
<1> QED BY <1>1, Inductive, PTL

(* The index raises for no write that was validated (edge.py:384, 396, 507). *)
THEOREM IndexAlwaysAccepts == Spec => []IndexNeverRefuses
<1>1. IInv => IndexNeverRefuses
  <2> SUFFICES ASSUME IInv, pending # <<>> PROVE IndexAccepts(Head(pending))
    BY DEF IndexNeverRefuses
  <2>1. TypeOK /\ DepsAgree /\ StateAgrees /\ PendingAgrees
    BY DEF IInv
  <2> QED BY <2>1, HeadFacts, NewValues
<1> QED BY <1>1, Inductive, PTL

(* A check is unblocked only by what happened (fake.py:340-366).           *)
THEOREM UnblockedByFacts == Spec => []ResolvedIsJustified
<1>1. IInv => ResolvedIsJustified
  <2> SUFFICES ASSUME IInv, NEW c \in Checks, dependencies[c].resolution
               PROVE  Holds(dependencies[c].predicate,
                            {e \in Edges(dependencies[c].predicate) : Reached(e)})
    BY DEF ResolvedIsJustified
  <2> DEFINE d == dependencies[c]
             R == {e \in Edges(d.predicate) : Reached(e)}
  <2>1. TypeOK /\ DepsAgree /\ ConditionsAgree
    BY DEF IInv
  <2>2. d \in Dependencies
    BY <2>1 DEF TypeOK
  <2>3. d.predicate \in Group /\ d.satisfied \in SUBSET Edge
    BY <2>2 DEF Dependencies
  <2>4. Edges(d.predicate) \in SUBSET Edge
    BY <2>3, EdgesType
  <2>5. /\ IsFiniteSet(d.predicate.groups)
        /\ d.satisfied \subseteq Edges(d.predicate)
        /\ \A e \in d.satisfied : KnownSatisfied(e)
        /\ Holds(d.predicate, d.satisfied)
    BY <2>1 DEF DepsAgree
  <2>6. d.satisfied \subseteq R /\ R \in SUBSET Edge
    BY <2>1, <2>3, <2>4, <2>5 DEF ConditionsAgree, KnownSatisfied
  <2> HIDE DEF R, d
  <2>7. Holds(d.predicate, R)
    BY <2>3, <2>5, <2>6, HoldsMonotone
  <2> QED BY <2>7 DEF R, d
<1> QED BY <1>1, Inductive, PTL

(* No event is lost: at rest, whoever could go on has gone on              *)
(* (edge.py:389, 410, 436).                                                *)
THEOREM NoLostEvent == Spec => []NoneLeftBlocked
<1>1. IInv => NoneLeftBlocked
  <2> SUFFICES ASSUME IInv, phase = "idle", queue = {}, NEW c \in Checks,
                      state[c] = "PLANNED"
               PROVE  ~Holds(dependencies[c].predicate,
                             {e \in Edges(dependencies[c].predicate) : Reached(e)})
    BY DEF NoneLeftBlocked
  <2> DEFINE d == dependencies[c]
             R == {e \in Edges(d.predicate) : Reached(e)}
  <2>1. /\ TypeOK /\ DepsAgree /\ ConditionsAgree /\ StateAgrees /\ Delivered
        /\ PendingAgrees
    BY DEF IInv
  <2>2. d \in Dependencies /\ pending = <<>>
    BY <2>1 DEF TypeOK, PendingAgrees
  <2>3. d.predicate \in Group /\ d.satisfied \in SUBSET Edge
    BY <2>2 DEF Dependencies
  <2>4. Edges(d.predicate) \in SUBSET Edge
    BY <2>3, EdgesType
  <2>5. depsState[c] = "RECEIVING_EVENTS"
    BY <2>1 DEF StateAgrees
  <2>6. ~Holds(d.predicate, d.satisfied)
    BY <2>1, <2>5 DEF DepsAgree
  <2>7. d.satisfied \subseteq R
    BY <2>1, <2>3, <2>4 DEF DepsAgree, ConditionsAgree, KnownSatisfied
  <2>8. ASSUME NEW e \in R PROVE e \in d.satisfied
    <3>1. e \in Edge /\ e \in Edges(d.predicate) /\ Reached(e)
      BY <2>4
    <3>2. conditions[e.target][e.onState] \in {"ABSENT", "UNKNOWN", "SATISFIED"}
      BY <2>1, <3>1 DEF TypeOK, Edge
    <3>3. KnownSatisfied(e)
      BY <2>1, <3>1, <3>2 DEF DepsAgree, ConditionsAgree, KnownSatisfied
    <3>4. Underway(c, e)
      BY <2>1, <2>5, <3>1, <3>3 DEF Delivered
    <3> QED BY <2>2, <3>4 DEF Underway
  <2>9. R = d.satisfied
    BY <2>7, <2>8
  <2> HIDE DEF R, d
  <2>10. ~Holds(d.predicate, R)
    BY <2>6, <2>9
  <2> QED BY <2>10 DEF R, d
<1> QED BY <1>1, Inductive, PTL

(* A check moves forward through its states (check_invariant.py:74).       *)
THEOREM ForwardOnly == Spec => StatesInOrder
<1>1. IInv /\ [Next]_vars => [\A c \in Checks : Rank[state'[c]] >= Rank[state[c]]]_vars
  <2> SUFFICES ASSUME IInv, Next, NEW c \in Checks
               PROVE  Rank[state'[c]] >= Rank[state[c]]
    OBVIOUS
  <2>1. TypeOK /\ DepsAgree /\ StateAgrees /\ PendingAgrees
    BY DEF IInv
  <2>2. Rank[state[c]] \in Nat
    BY <2>1 DEF TypeOK, Rank, CheckStates, WriteStates
  <2>3. CASE ApplyCheckWrite
    <3>1. /\ Head(pending) \in CheckWrite
          /\ Rank[state'[Head(pending).check]] >= Rank[state[Head(pending).check]]
      BY <2>1, <2>3, ApplyWritten
    <3>2. c # Head(pending).check => state'[c] = state[c]
      BY <2>1, <2>3, <3>1, ApplyFrame
    <3> QED BY <2>2, <3>1, <3>2
  <2>4. CASE ~ApplyCheckWrite
    <3>1. state' = state
      BY <2>4 DEF Next, WriteNodes, ProcessQueue, Raise, Return
    <3> QED BY <2>2, <3>1
  <2> QED BY <2>3, <2>4
<1> QED BY <1>1, Inductive, PTL DEF Spec, StatesInOrder

(* Once planned, dependencies are frozen, and what satisfied them stays    *)
(* (check_invariant.py:112).                                               *)
THEOREM FrozenOncePlanned == Spec => DependenciesFrozen
<1>1. IInv /\ [Next]_vars =>
        [\A c \in Checks : state[c] \notin {"NONE", "PLANNING"} =>
           /\ dependencies'[c].predicate = dependencies[c].predicate
           /\ dependencies[c].satisfied \subseteq dependencies'[c].satisfied
           /\ dependencies[c].resolution => dependencies'[c].resolution]_vars
  <2> SUFFICES ASSUME IInv, Next, NEW c \in Checks, state[c] \notin {"NONE", "PLANNING"}
               PROVE  /\ dependencies'[c].predicate = dependencies[c].predicate
                      /\ dependencies[c].satisfied \subseteq dependencies'[c].satisfied
                      /\ dependencies[c].resolution => dependencies'[c].resolution
    OBVIOUS
  <2>1. TypeOK /\ DepsAgree /\ StateAgrees /\ PendingAgrees
    BY DEF IInv
  <2>2. depsState[c] # "MUTABLE" /\ (dependencies[c].resolution <=> depsState[c] = "RESOLVED")
    BY <2>1 DEF StateAgrees, DepsAgree
  <2>3. CASE ApplyCheckWrite
    <3>1. Head(pending) \in CheckWrite
      BY <2>1, <2>3, ApplyWritten
    <3>2. CASE c = Head(pending).check
      BY <2>1, <2>2, <2>3, <3>2, ApplyWritten
    <3>3. CASE c # Head(pending).check
      BY <2>1, <2>3, <3>1, <3>3, ApplyFrame
    <3> QED BY <3>2, <3>3
  <2>4. CASE ~ApplyCheckWrite
    <3>1. dependencies' = dependencies
      BY <2>4 DEF Next, WriteNodes, ProcessQueue, Raise, Return
    <3> QED BY <3>1
  <2> QED BY <2>3, <2>4
<1> QED BY <1>1, Inductive, PTL DEF Spec, DependenciesFrozen
-----------------------------------------------------------------------------
(* Propagation ends.  Every step taken under the lock uses up some of the  *)
(* work that is left: a condition settles for good, or with none settling  *)
(* a round empties the queue into at most one write for each check, or a   *)
(* write is applied.                                                       *)
Unsettled == {e \in Edge : conditions[e.target][e.onState] = "UNKNOWN"}
RoundsLeft == Cardinality(Unsettled) + (IF queue = {} THEN 0 ELSE 1)
Work == (Cardinality(Checks) + 1) * RoundsLeft + Len(pending)

(* The measure is a number. *)
LEMMA WorkType ==
  ASSUME TypeOK
  PROVE  /\ Cardinality(Checks) \in Nat /\ Cardinality(Unsettled) \in Nat
         /\ IsFiniteSet(Unsettled) /\ Unsettled \in SUBSET Edge
         /\ RoundsLeft \in Nat /\ Len(pending) \in Nat /\ Work \in Nat
<1>1. Cardinality(Checks) \in Nat
  BY GraphAssumption, FS_CardinalityType
<1>2. Unsettled \in SUBSET Edge
  BY DEF Unsettled
<1>3. IsFiniteSet(Unsettled) /\ Cardinality(Unsettled) \in Nat
  BY <1>2, CountEdges
<1>4. Len(pending) \in Nat
  BY DEF TypeOK
<1>5. RoundsLeft \in Nat
  BY <1>3 DEF RoundsLeft
<1>6. (Cardinality(Checks) + 1) * RoundsLeft \in Nat
  BY <1>1, <1>5
<1> QED BY <1>1, <1>2, <1>3, <1>4, <1>5, <1>6 DEF Work

(* More rounds than before cannot be left. *)
LEMMA FewerRounds ==
  ASSUME NEW n \in Nat, NEW r \in Nat, NEW s \in Nat, r <= s
  PROVE  /\ (n + 1) * r <= (n + 1) * s
         /\ r < s => (n + 1) * r + n < (n + 1) * s
<1>1. PICK d \in Nat : s = r + d
  <2>1. s - r \in Nat /\ s = r + (s - r)
    OBVIOUS
  <2> QED BY <2>1
<1>2. (n + 1) * s = (n + 1) * r + (n + 1) * d
  BY <1>1
<1>3. (n + 1) * d = n * d + d /\ n * d \in Nat /\ (n + 1) * r \in Nat
  OBVIOUS
<1>4. ASSUME r < s PROVE n * d >= n
  <2>1. PICK k \in Nat : d = k + 1
    <3>1. d - 1 \in Nat /\ d = (d - 1) + 1
      BY <1>1, <1>4
    <3> QED BY <3>1
  <2>2. n * d = n * k + n /\ n * k \in Nat
    BY <2>1
  <2> QED BY <2>2
<1>5. (n + 1) * r <= (n + 1) * s
  BY <1>2, <1>3
<1>6. ASSUME r < s PROVE (n + 1) * r + n < (n + 1) * s
  <2>1. d > 0
    BY <1>1, <1>6
  <2> QED BY <1>2, <1>3, <1>4, <1>6, <2>1
<1> QED BY <1>5, <1>6

(* Applying a write settles the conditions it fires and queues no others. *)
LEMMA ApplyWork ==
  ASSUME TypeOK, DepsAgree, StateAgrees, PendingAgrees, ApplyCheckWrite
  PROVE  RoundsLeft' <= RoundsLeft /\ Len(pending') = Len(pending) - 1
<1> DEFINE w == Head(pending)
           n == Cardinality(Unsettled)
<1>1. TypeOK'
  BY ApplyType
<1>2. /\ queue' = queue \cup Fired(w)
      /\ \A e \in Edge :
           conditions'[e.target][e.onState] =
             IF e \in Fired(w) THEN "SATISFIED" ELSE conditions[e.target][e.onState]
  BY ConditionsStep
<1>3. Fired(w) \subseteq Unsettled
  BY DEF Fired, Unsettled
<1>4. Unsettled' = Unsettled \ Fired(w)
  BY <1>2 DEF Unsettled
<1>5. IsFiniteSet(Unsettled) /\ n \in Nat
  BY WorkType
<1>6. Len(pending') = Len(pending) - 1
  BY DEF ApplyCheckWrite, TypeOK
<1>7. CASE Fired(w) = {}
  <2>1. queue' = queue /\ Unsettled' = Unsettled
    BY <1>2, <1>4, <1>7
  <2> QED BY <1>5, <1>6, <2>1 DEF RoundsLeft
<1>8. CASE Fired(w) # {}
  <2>1. PICK e \in Fired(w) : TRUE
    BY <1>8
  <2>2. Unsettled' \subseteq Unsettled \ {e}
    BY <1>4, <2>1
  <2>3. IsFiniteSet(Unsettled \ {e}) /\ Cardinality(Unsettled \ {e}) = n - 1
    BY <1>3, <1>5, <2>1, FS_RemoveElement
  <2>4. Cardinality(Unsettled') <= n - 1 /\ Cardinality(Unsettled') \in Nat
    BY <2>2, <2>3, CountMonotone
  <2>5. RoundsLeft' <= Cardinality(Unsettled') + 1
    BY <2>4 DEF RoundsLeft
  <2>6. n <= RoundsLeft /\ RoundsLeft \in Nat
    BY <1>5 DEF RoundsLeft
  <2>7. RoundsLeft' \in Nat
    BY <2>4 DEF RoundsLeft
  <2> QED BY <1>5, <1>6, <2>4, <2>5, <2>6, <2>7
<1> QED BY <1>6, <1>7, <1>8

(* Every step that keeps the lock leaves less to do (fake.py:730): what    *)
(* makes WritesReturn true, chains and circles of dependencies included.   *)
THEOREM PropagationEnds ==
  Spec => [][phase = "writing" /\ phase' = "writing"
               => Work \in Nat /\ Work' \in Nat /\ Work' < Work]_vars
<1>1. IInv /\ IInv' /\ [Next]_vars =>
        [phase = "writing" /\ phase' = "writing"
           => Work \in Nat /\ Work' \in Nat /\ Work' < Work]_vars
  <2> SUFFICES ASSUME IInv, IInv', Next, phase = "writing", phase' = "writing"
               PROVE  Work \in Nat /\ Work' \in Nat /\ Work' < Work
    OBVIOUS
  <2>1. /\ TypeOK /\ DepsAgree /\ StateAgrees /\ PendingAgrees /\ TypeOK'
    BY DEF IInv
  <2> DEFINE n == Cardinality(Checks)
  <2>2. n \in Nat /\ RoundsLeft \in Nat /\ Len(pending) \in Nat /\ Work \in Nat
    BY <2>1, WorkType
  <2>3. RoundsLeft' \in Nat /\ Len(pending') \in Nat /\ Work' \in Nat
    <3>1. Unsettled' \in SUBSET Edge
      BY DEF Unsettled
    <3>2. Cardinality(Unsettled') \in Nat
      BY <3>1, CountEdges
    <3>3. RoundsLeft' \in Nat
      BY <3>2 DEF RoundsLeft
    <3>4. Len(pending') \in Nat
      BY <2>1 DEF TypeOK
    <3>5. (n + 1) * RoundsLeft' \in Nat
      BY <2>2, <3>3
    <3> QED BY <3>3, <3>4, <3>5 DEF Work
  <2>4. ApplyCheckWrite \/ ProcessQueue
    BY DEF Next, WriteNodes, Raise, Return
  <2>5. Work = (n + 1) * RoundsLeft + Len(pending)
        /\ Work' = (n + 1) * RoundsLeft' + Len(pending')
    BY DEF Work
  <2>6. (n + 1) * RoundsLeft \in Nat /\ (n + 1) * RoundsLeft' \in Nat
    BY <2>2, <2>3
  <2>7. CASE ApplyCheckWrite
    <3>1. RoundsLeft' <= RoundsLeft /\ Len(pending') = Len(pending) - 1
      BY <2>1, <2>7, ApplyWork
    <3>2. (n + 1) * RoundsLeft' <= (n + 1) * RoundsLeft
      BY <2>2, <2>3, <3>1, FewerRounds
    <3> QED BY <2>2, <2>3, <2>5, <2>6, <3>1, <3>2, SMTT(30)
  <2>8. CASE ProcessQueue
    <3>1. /\ queue # {} /\ queue' = {} /\ conditions' = conditions /\ pending = <<>>
      BY <2>8 DEF ProcessQueue, Rounding, index
    <3>2. Unsettled' = Unsettled
      BY <3>1 DEF Unsettled
    <3>3. RoundsLeft' < RoundsLeft
      <4>1. Cardinality(Unsettled) \in Nat
        BY <2>1, WorkType
      <4>2. RoundsLeft' = Cardinality(Unsettled) /\ RoundsLeft = Cardinality(Unsettled) + 1
        BY <3>1, <3>2, <4>1 DEF RoundsLeft
      <4> QED BY <4>1, <4>2
    <3>4. (n + 1) * RoundsLeft' + n < (n + 1) * RoundsLeft
      <4> HIDE DEF n
      <4>1. RoundsLeft' <= RoundsLeft
        BY <2>2, <2>3, <3>3
      <4> QED BY <2>2, <2>3, <3>3, <4>1, FewerRounds
    <3>5. Len(pending') <= n
      <4> DEFINE S == UNION {Receivers(event) : event \in queue}
      <4>1. PICK order \in Orders(S) : pending' = [i \in DOMAIN order |-> Propagated(order[i])]
        BY <2>8 DEF ProcessQueue
      <4>2. S \in SUBSET Checks
        BY <2>1 DEF Receivers, TypeOK, Edge
      <4>3. IsFiniteSet(S) /\ Cardinality(S) <= n
        BY <4>2, GraphAssumption, CountMonotone, FS_Subset
      <4> HIDE DEF S
      <4>4. Cardinality(S) \in Nat /\ DOMAIN order = 1..Cardinality(S)
        BY <4>3, OrderIsOnto
      <4>5. pending' \in Seq(CheckWrite) /\ DOMAIN pending' = 1..Cardinality(S)
        BY <2>1, <4>1, <4>4 DEF TypeOK
      <4>6. Len(pending') = Cardinality(S)
        BY <4>4, <4>5
      <4> QED BY <4>3, <4>6
    <3>6. Len(pending) = 0
      BY <3>1
    <3> QED BY <2>2, <2>3, <2>5, <2>6, <3>4, <3>5, <3>6
  <2> QED BY <2>4, <2>7, <2>8
<1> QED BY <1>1, Inductive, PTL DEF Spec
-----------------------------------------------------------------------------
(* When propagation never fails.  CommittedWritesPropagate does not hold   *)
(* of every set of requests, but it holds when a request writes one check  *)
(* and when all edges on a check wait for the same state of it.            *)
RequestedEdges == UNION {RequestEdges(req) : req \in Requests}
OneWriteEach == \A req \in Requests : Len(req) <= 1
OneStateEach == \A e, f \in RequestedEdges : e.target = f.target => e.onState = f.onState

(* No event finds a check that knows of it: a condition is queued when it  *)
(* settles, and a check takes what has settled when its planning ends,     *)
(* which happens with no event in the queue.                               *)
NewsIsNew ==
  /\ phase = "idle" => queue = {}
  /\ \/ queue = {} /\ Len(pending) <= 1
     \/ \A i \in DOMAIN pending : pending[i].state = "UNSET"
  /\ \A e \in queue : \A c \in Checks : e \notin dependencies[c].satisfied
  /\ \A e \in queue : \A i \in DOMAIN pending : e \notin pending[i].deps.satisfied
OnlyRequested ==
  /\ \A c \in Checks : Edges(dependencies[c].predicate) \subseteq RequestedEdges
  /\ \A i \in DOMAIN pending : Edges(pending[i].deps.predicate) \subseteq RequestedEdges
  /\ \A e \in Edge : conditions[e.target][e.onState] # "ABSENT" => e \in RequestedEdges

(* The edges of a request are edges that were requested. *)
LEMMA RequestedType ==
  ASSUME NEW req \in Requests
  PROVE  /\ req \in Seq([check : Checks, state : WriteStates \cup {"UNSET"},
                         wrote : BOOLEAN, group : Group])
         /\ RequestEdges(req) \subseteq RequestedEdges
         /\ \A i \in DOMAIN req : req[i].wrote => Edges(req[i].group) \subseteq RequestedEdges
<1>1. req \in Seq([check : Checks, state : WriteStates \cup {"UNSET"},
                   wrote : BOOLEAN, group : Group])
  BY GraphAssumption
<1>2. RequestEdges(req) \subseteq RequestedEdges
  BY DEF RequestedEdges
<1>3. \A i \in DOMAIN req : req[i].wrote => Edges(req[i].group) \subseteq RequestEdges(req)
  BY DEF RequestEdges
<1> QED BY <1>1, <1>2, <1>3

(* A request brings only edges that were requested. *)
LEMMA WriteNews ==
  ASSUME OneWriteEach, IInv, NewsIsNew, OnlyRequested, NEW req \in Requests, WriteNodes(req)
  PROVE  NewsIsNew' /\ OnlyRequested'
<1>1. /\ phase = "idle" /\ queue = {} /\ pending = <<>> /\ queue' = queue
      /\ dependencies' = dependencies
      /\ EnsureConditions(RequestEdges(req))
      /\ \/ pending' = [i \in DOMAIN req |-> Extract(req[i])]
         \/ pending' = pending
  BY DEF WriteNodes, NewsIsNew, IInv, PendingAgrees
<1>2. /\ req \in Seq([check : Checks, state : WriteStates \cup {"UNSET"},
                      wrote : BOOLEAN, group : Group])
      /\ RequestEdges(req) \subseteq RequestedEdges /\ Len(req) <= 1
      /\ \A i \in DOMAIN req : req[i].wrote => Edges(req[i].group) \subseteq RequestedEdges
  BY RequestedType DEF OneWriteEach
<1>3. Len(pending') <= 1
  <2>1. DOMAIN req = 1..Len(req) /\ Len(req) \in Nat
    BY <1>2
  <2>2. pending' \in Seq(CheckWrite) /\ Len(pending') \in Nat
        /\ DOMAIN pending' = 1..Len(pending')
    BY WriteStep DEF IInv, TypeOK
  <2>3. CASE pending' = pending
    BY <1>1, <2>3
  <2>4. CASE pending' = [i \in DOMAIN req |-> Extract(req[i])]
    <3>1. 1..Len(pending') = 1..Len(req)
      BY <2>1, <2>2, <2>4
    <3>2. Len(pending') > 1 => Len(pending') \in 1..Len(req)
      BY <2>2, <3>1
    <3> QED BY <1>2, <2>1, <2>2, <3>2
  <2> QED BY <1>1, <2>3, <2>4
<1>4. NewsIsNew'
  BY <1>1, <1>3 DEF NewsIsNew
<1>5. \A i \in DOMAIN pending' : Edges(pending'[i].deps.predicate) \subseteq RequestedEdges
  <2> SUFFICES ASSUME pending' = [j \in DOMAIN req |-> Extract(req[j])],
                      NEW i \in DOMAIN pending'
               PROVE  Edges(pending'[i].deps.predicate) \subseteq RequestedEdges
    <3>1. pending' = pending => DOMAIN pending' = {}
      BY <1>1
    <3> QED BY <1>1, <3>1
  <2>0. i \in DOMAIN req /\ pending'[i] = Extract(req[i])
    OBVIOUS
  <2>1. req[i].group \in Group /\ IsFiniteSet(req[i].group.groups)
    <3>1. IsFiniteSet(req[i].group.groups)
      BY <2>0, GraphAssumption
    <3>2. req[i] \in [check : Checks, state : WriteStates \cup {"UNSET"},
                      wrote : BOOLEAN, group : Group]
      BY <1>2, <2>0, SeqElement
    <3> QED BY <3>1, <3>2
  <2>2. Edges(NoGroup) = {}
    BY DEF Edges, NoGroup
  <2>3. pending'[i].deps.predicate = IF req[i].wrote THEN Normal(req[i].group) ELSE NoGroup
    BY <2>0 DEF Extract, Unresolved
  <2>4. CASE req[i].wrote
    BY <1>2, <2>0, <2>1, <2>3, <2>4, NormalType
  <2>5. CASE ~req[i].wrote
    BY <2>2, <2>3, <2>5
  <2> QED BY <2>4, <2>5
<1>6. ASSUME NEW e \in Edge, conditions'[e.target][e.onState] # "ABSENT", e \notin RequestedEdges
      PROVE  FALSE
  <2>1. /\ e.target \in Checks /\ e.onState \in OnStates
        /\ [target |-> e.target, onState |-> e.onState] = e
    BY DEF Edge
  <2>2. e \notin RequestEdges(req)
    BY <1>2, <1>6
  <2>3. conditions'[e.target][e.onState] = conditions[e.target][e.onState]
    BY <1>1, <2>1, <2>2 DEF EnsureConditions
  <2> QED BY <1>6, <2>3 DEF OnlyRequested
<1>7. OnlyRequested'
  BY <1>1, <1>5, <1>6 DEF OnlyRequested
<1> QED BY <1>4, <1>7

(* What a write fires is news to every check, and no write behind it tells it. *)
LEMMA ApplyNews ==
  ASSUME IInv, NewsIsNew, OnlyRequested, ApplyCheckWrite
  PROVE  NewsIsNew' /\ OnlyRequested'
<1> DEFINE w == Head(pending)
<1>1. TypeOK /\ DepsAgree /\ StateAgrees /\ PendingAgrees /\ TypeOK'
  BY ApplyStep DEF IInv
<1>2. /\ pending # <<>> /\ pending' = Tail(pending) /\ phase = "writing" /\ phase' = "writing"
  BY DEF ApplyCheckWrite
<1>3. /\ w \in CheckWrite /\ w.check \in Checks
      /\ w.deps \in Dependencies
      /\ FromRequest(w) \/ FromRound(w)
  BY <1>1, <1>2, HeadFacts DEF CheckWrite
<1>4. /\ w = pending[1] /\ 1 \in DOMAIN pending
      /\ \A i \in DOMAIN Tail(pending) : i + 1 \in DOMAIN pending /\ Tail(pending)[i] = pending[i + 1]
  BY <1>1, <1>2, TailFacts DEF TypeOK
<1>5. /\ queue' = queue \cup Fired(w)
      /\ \A e \in Edge : conditions'[e.target][e.onState] = "ABSENT"
                              <=> conditions[e.target][e.onState] = "ABSENT"
  BY <1>1, ConditionsStep
<1>6. /\ dependencies'[w.check] = NewDependencies(w)
      /\ \A c \in Checks : c # w.check => dependencies'[c] = dependencies[c]
  BY <1>1, <1>3, ApplyFrame
<1>7. \A e \in Fired(w) : e \in Edge /\ ~KnownSatisfied(e)
  BY DEF Fired, KnownSatisfied
<1>8. \A c \in Checks : \A e \in dependencies[c].satisfied : KnownSatisfied(e)
  BY <1>1 DEF DepsAgree
<1>9. \A i \in DOMAIN pending : \A e \in pending[i].deps.satisfied : KnownSatisfied(e)
  BY <1>1 DEF PendingAgrees, FromRequest, FromRound
<1>10. /\ NewDependencies(w).predicate \in {w.deps.predicate, dependencies[w.check].predicate}
       /\ \A e \in NewDependencies(w).satisfied : KnownSatisfied(e)
       /\ ~Marks(w) => NewDependencies(w) \in {w.deps, dependencies[w.check]}
  <2>1. Written(w) \in {w.deps, dependencies[w.check]} /\ Written(w) \in Dependencies
    BY <1>1, <1>3 DEF Written, TypeOK
  <2>2. \A e \in Written(w).satisfied : KnownSatisfied(e)
    BY <1>3, <1>4, <1>8, <1>9, <2>1
  <2>3. CASE ~Marks(w)
    BY <2>1, <2>2, <2>3 DEF NewDependencies
  <2>4. CASE Marks(w)
    <3> DEFINE S == {e \in Edges(Written(w).predicate) : KnownSatisfied(e)}
    <3>1. NewDependencies(w) = Resolve(Written(w), S)
      BY <2>4 DEF NewDependencies
    <3>2. \A e \in S : KnownSatisfied(e)
      OBVIOUS
    <3> HIDE DEF S
    <3>3. NewDependencies(w).predicate = Written(w).predicate
          /\ NewDependencies(w).satisfied = S
      BY <2>1, <3>1 DEF Resolve, Dependencies
    <3> QED BY <2>1, <2>4, <3>2, <3>3
  <2> QED BY <2>3, <2>4
<1>11. \A e \in Fired(w) : \A c \in Checks : e \notin dependencies'[c].satisfied
  BY <1>6, <1>7, <1>8, <1>10
<1>12. \A e \in Fired(w) : \A i \in DOMAIN pending' : e \notin pending'[i].deps.satisfied
  BY <1>2, <1>4, <1>7, <1>9
<1>13. \A e \in queue : \A c \in Checks : e \notin dependencies'[c].satisfied
  <2> SUFFICES ASSUME NEW e \in queue PROVE e \notin NewDependencies(w).satisfied
    BY <1>6 DEF NewsIsNew
  <2>1. w.state = "UNSET"
    BY <1>4 DEF NewsIsNew
  <2>2. ~Marks(w)
    BY <2>1 DEF Marks
  <2> QED BY <1>3, <1>4, <1>10, <2>2 DEF NewsIsNew
<1>14. \A e \in queue : \A i \in DOMAIN pending' : e \notin pending'[i].deps.satisfied
  BY <1>2, <1>4 DEF NewsIsNew
<1>15. \A i \in DOMAIN pending' : pending'[i].state = "UNSET"
  <2>1. CASE Len(pending) <= 1
    BY <1>1, <1>2, <2>1 DEF TypeOK
  <2>2. CASE \A i \in DOMAIN pending : pending[i].state = "UNSET"
    BY <1>2, <1>4, <2>2
  <2> QED BY <2>1, <2>2 DEF NewsIsNew
<1>16. NewsIsNew'
  BY <1>2, <1>5, <1>11, <1>12, <1>13, <1>14, <1>15 DEF NewsIsNew
<1>17. \A c \in Checks : Edges(dependencies'[c].predicate) \subseteq RequestedEdges
  BY <1>4, <1>3, <1>6, <1>10 DEF OnlyRequested
<1>18. \A i \in DOMAIN pending' : Edges(pending'[i].deps.predicate) \subseteq RequestedEdges
  BY <1>2, <1>4 DEF OnlyRequested
<1>19. OnlyRequested'
  BY <1>5, <1>17, <1>18 DEF OnlyRequested
<1> QED BY <1>16, <1>19

(* A round tells everything there is to tell. *)
LEMMA RoundNews ==
  ASSUME IInv, NewsIsNew, OnlyRequested, ProcessQueue
  PROVE  NewsIsNew' /\ OnlyRequested'
<1> DEFINE S == UNION {Receivers(event) : event \in queue}
<1>1. /\ queue' = {} /\ dependencies' = dependencies /\ conditions' = conditions
      /\ phase = "writing" /\ phase' = "writing"
  BY DEF ProcessQueue, Rounding, index
<1>2. PICK order \in Orders(S) : pending' = [i \in DOMAIN order |-> Propagated(order[i])]
  BY DEF ProcessQueue
<1>3. S \in SUBSET Checks /\ IsFiniteSet(S)
  <2>1. S \in SUBSET Checks
    BY DEF Receivers, IInv, TypeOK, Edge
  <2> QED BY <2>1, GraphAssumption, FS_Subset
<1> HIDE DEF S
<1>4. \A i \in DOMAIN order : order[i] \in Checks
  BY <1>3, OrderIsOnto
<1>5. ASSUME NEW i \in DOMAIN order
      PROVE  /\ pending'[i].state = "UNSET"
             /\ pending'[i].deps.predicate = dependencies[order[i]].predicate
  <2>1. dependencies[order[i]] \in Dependencies
    BY <1>4 DEF IInv, TypeOK
  <2>2. pending'[i] = Propagated(order[i])
    BY <1>2
  <2> DEFINE d == dependencies[order[i]]
             X == d.satisfied \cup {event \in queue : order[i] \in Receivers(event)}
             F == d.resolution \/ Holds(d.predicate, X)
  <2>3. pending'[i].state = "UNSET"
        /\ pending'[i].deps = [d EXCEPT !.satisfied = X, !.resolution = F]
    BY <2>2 DEF Propagated, Resolve
  <2> HIDE DEF X, F
  <2> QED BY <2>1, <2>3 DEF Dependencies
<1>6. DOMAIN pending' = DOMAIN order
  BY <1>2
<1>7. NewsIsNew'
  BY <1>1, <1>5, <1>6 DEF NewsIsNew
<1>8. OnlyRequested'
  BY <1>1, <1>4, <1>5, <1>6 DEF OnlyRequested
<1> QED BY <1>7, <1>8

(* No round fails: whoever receives an event waits for it. *)
LEMMA NoneMisdirected ==
  ASSUME OneStateEach, IInv, NewsIsNew, OnlyRequested
  PROVE  CanPropagate
<1> SUFFICES ASSUME NEW event \in queue, NEW c \in Receivers(event)
             PROVE  /\ event \in Edges(dependencies[c].predicate)
                    /\ event \notin dependencies[c].satisfied
  BY DEF CanPropagate, Misdirected
<1>1. /\ TypeOK /\ ConditionsAgree /\ IndexAgrees
  BY DEF IInv
<1>2. event \in Edge /\ event.target \in Checks /\ c \in Checks /\ c \in dependents[event.target]
  BY <1>1 DEF TypeOK, Edge, Receivers
<1>3. event \notin dependencies[c].satisfied
  BY <1>2 DEF NewsIsNew
<1>4. PICK f \in Edges(dependencies[c].predicate) : f.target = event.target
  BY <1>1, <1>2 DEF IndexAgrees, Targets
<1>5. f \in Edge
  BY <1>1, <1>2, EdgesType DEF TypeOK, Dependencies
<1>6. f \in RequestedEdges /\ event \in RequestedEdges
  BY <1>1, <1>2, <1>4 DEF OnlyRequested, ConditionsAgree, KnownSatisfied
<1>7. f = event
  BY <1>2, <1>4, <1>5, <1>6 DEF OneStateEach, Edge
<1> QED BY <1>3, <1>4, <1>7

(* A call that has begun to write propagates all that follows from it, as  *)
(* fake.py:721 says, when requests write one check each and the edges on a *)
(* check wait for one state.                                               *)
THEOREM PropagationSucceeds ==
  OneWriteEach /\ OneStateEach => (Spec => []CommittedWritesPropagate)
<1> SUFFICES ASSUME OneWriteEach, OneStateEach PROVE Spec => []CommittedWritesPropagate
  OBVIOUS
<1>1. Init => NewsIsNew /\ OnlyRequested
  <2>1. Edges(NoGroup) = {}
    BY DEF Edges, NoGroup
  <2> QED BY <2>1 DEF Init, NewsIsNew, OnlyRequested, Unresolved, Edge
<1>2. IInv /\ IInv' /\ (NewsIsNew /\ OnlyRequested) /\ [Next]_vars => (NewsIsNew /\ OnlyRequested)'
  <2> SUFFICES ASSUME IInv, IInv', NewsIsNew, OnlyRequested, [Next]_vars
               PROVE  NewsIsNew' /\ OnlyRequested'
    OBVIOUS
  <2>1. ASSUME NEW req \in Requests, WriteNodes(req) PROVE NewsIsNew' /\ OnlyRequested'
    BY <2>1, WriteNews
  <2>2. CASE ApplyCheckWrite
    BY <2>2, ApplyNews
  <2>3. CASE ProcessQueue
    BY <2>3, RoundNews
  <2>4. CASE Raise
    BY <2>4, NoneMisdirected DEF Raise
  <2>5. CASE Return
    <3>1. queue' = {} /\ pending = <<>> /\ pending' = <<>>
          /\ dependencies' = dependencies /\ conditions' = conditions
      BY <2>5 DEF Return, index
    <3> QED BY <3>1 DEF NewsIsNew, OnlyRequested
  <2>6. CASE UNCHANGED vars
    BY <2>6 DEF vars, index, NewsIsNew, OnlyRequested
  <2> QED BY <2>1, <2>2, <2>3, <2>4, <2>5, <2>6 DEF Next
<1>3. NewsIsNew => CommittedWritesPropagate
  BY DEF NewsIsNew, CommittedWritesPropagate
<1> QED BY <1>1, <1>2, <1>3, Inductive, PTL DEF Spec
-----------------------------------------------------------------------------
(* The operators.  Two subgroups of a request that normalise to the same   *)
(* group are one element of a set, but two of the list the code keeps: the *)
(* groups spoken of here have none.                                        *)
Distinct(group) ==
  \A k, l \in group.groups : NormalLeaf(k) = NormalLeaf(l) => k = l

(* Normalising a subgroup does not change when it holds. *)
LEMMA NormalLeafHolds ==
  ASSUME NEW leaf \in Leaf, leaf.threshold <= Cardinality(leaf.edges),
         NEW S \in SUBSET Edge
  PROVE  LeafHolds(NormalLeaf(leaf), S) <=> LeafHolds(leaf, S)
<1>1. leaf.edges \in SUBSET Edge /\ leaf.threshold \in Nat
  BY DEF Leaf
<1>2. Cardinality(leaf.edges) \in Nat /\ Cardinality(leaf.edges \cap S) \in Nat
  BY <1>1, CountEdges
<1>3. /\ NormalLeaf(leaf).edges = leaf.edges
      /\ NormalLeaf(leaf).threshold = Unset(leaf.threshold, Cardinality(leaf.edges))
  BY DEF NormalLeaf
<1>4. Needed(Unset(leaf.threshold, Cardinality(leaf.edges)), Cardinality(leaf.edges))
        = Needed(leaf.threshold, Cardinality(leaf.edges))
  BY <1>1, <1>2 DEF Needed, Unset
<1> QED BY <1>3, <1>4 DEF LeafHolds

(* What a check is told to wait for is what it was asked to wait for:      *)
(* normalising a predicate, unwrapping a group that wraps one other and    *)
(* unsetting a threshold of everything, does not change which satisfied    *)
(* edges satisfy it (edge.py:130 _visit, edge.py:186 _resolve).            *)
THEOREM NormalKeepsMeaning ==
  ASSUME NEW g \in Group, IsFiniteSet(g.groups), WellFormed(g), Distinct(g),
         NEW S \in SUBSET Edge
  PROVE  Holds(Normal(g), S) <=> Holds(g, S)
<1>1. g.edges \in SUBSET Edge /\ g.threshold \in Nat /\ g.groups \in SUBSET Leaf
  BY DEF Group
<1>2. /\ Cardinality(g.edges) \in Nat /\ Cardinality(g.groups) \in Nat
      /\ Cardinality(g.edges \cap S) \in Nat
  BY <1>1, CountEdges, FS_CardinalityType
<1>3. \A l \in g.groups : /\ l \in Leaf /\ l.edges # {} /\ l.threshold <= Cardinality(l.edges)
                          /\ (LeafHolds(NormalLeaf(l), S) <=> LeafHolds(l, S))
  BY <1>1, NormalLeafHolds DEF WellFormed
<1> DEFINE L == {l \in g.groups : LeafHolds(l, S)}
<1>4. L \in SUBSET g.groups /\ IsFiniteSet(L) /\ Cardinality(L) \in Nat
  <2>1. L \in SUBSET g.groups
    OBVIOUS
  <2> QED BY <2>1, FS_Subset, FS_CardinalityType
<1>5. CASE g.edges = {} /\ \E leaf \in g.groups : g.groups = {leaf}
  <2>1. PICK l \in g.groups : g.groups = {l}
    BY <1>5
  <2>2. (CHOOSE x \in g.groups : TRUE) = l
    BY <2>1
  <2>3. Normal(g) = [threshold |-> NormalLeaf(l).threshold,
                     edges |-> NormalLeaf(l).edges, groups |-> {}]
    BY <1>5, <2>2 DEF Normal
  <2>4. l.edges \in SUBSET Edge /\ l.threshold \in Nat
    BY <1>3 DEF Leaf
  <2>5. NormalLeaf(l).edges = l.edges
    BY DEF NormalLeaf
  <2>6. /\ Cardinality(l.edges) \in Nat /\ Cardinality(l.edges \cap S) \in Nat
    BY <2>4, CountEdges
  <2>7. Holds(Normal(g), S) <=> LeafHolds(NormalLeaf(l), S)
    <3>1. {leaf \in Normal(g).groups : LeafHolds(leaf, S)} = {} /\ Normal(g).groups = {}
      BY <2>3
    <3>2. Cardinality({}) = 0
      BY FS_EmptySet
    <3> QED BY <2>3, <2>5, <2>6, <3>1, <3>2 DEF Holds, LeafHolds, Size
  <2>8. Holds(g, S) <=> LeafHolds(l, S)
    <3>1. Cardinality({}) = 0 /\ Cardinality({l}) = 1
      BY FS_EmptySet, FS_Singleton
    <3>2. L = IF LeafHolds(l, S) THEN {l} ELSE {}
      BY <2>1
    <3>3. Cardinality(g.edges \cap S) = 0 /\ Cardinality(g.edges) = 0
      <4>1. g.edges \cap S = {} /\ g.edges = {}
        BY <1>5
      <4> QED BY <3>1, <4>1
    <3>4. Size(g) = 1
      BY <2>1, <3>1, <3>3 DEF Size
    <3>5. Needed(g.threshold, Size(g)) = 1
      BY <1>1, <3>4 DEF Needed, WellFormed
    <3>6. Holds(g, S) <=> Cardinality(L) >= 1
      BY <1>4, <3>3, <3>5 DEF Holds
    <3> HIDE DEF L
    <3> QED BY <3>1, <3>2, <3>6
  <2> QED BY <1>3, <2>7, <2>8
<1>6. CASE ~(g.edges = {} /\ \E leaf \in g.groups : g.groups = {leaf})
  <2> DEFINE leaves == {NormalLeaf(l) : l \in g.groups}
             M == {n \in leaves : LeafHolds(n, S)}
             f == [l \in g.groups |-> NormalLeaf(l)]
             h == [l \in L |-> NormalLeaf(l)]
  <2>1. Normal(g) = [threshold |-> Unset(g.threshold, Size(g)),
                     edges |-> g.edges, groups |-> leaves]
    BY <1>6 DEF Normal
  <2>2. Cardinality(leaves) = Cardinality(g.groups)
    <3>1. f \in Bijection(g.groups, leaves)
      BY DEF Distinct, Bijection, Injection, Surjection, IsInjective
    <3>2. ExistsBijection(g.groups, leaves)
      BY <3>1 DEF ExistsBijection
    <3> QED BY <3>2, FS_Bijection
  <2>3. Cardinality(M) = Cardinality(L)
    <3>1. h \in [L -> M]
      BY <1>3
    <3>2. \A n \in M : \E l \in L : h[l] = n
      BY <1>3
    <3>3. \A k, l \in L : h[k] = h[l] => k = l
      BY DEF Distinct
    <3>4. h \in Bijection(L, M)
      BY <3>1, <3>2, <3>3 DEF Bijection, Injection, Surjection, IsInjective
    <3>5. ExistsBijection(L, M)
      BY <3>4 DEF ExistsBijection
    <3> HIDE DEF L, M
    <3> QED BY <1>4, <3>5, FS_Bijection
  <2>4. Size(Normal(g)) = Size(g)
    BY <2>1, <2>2 DEF Size
  <2>5. Needed(Unset(g.threshold, Size(g)), Size(g)) = Needed(g.threshold, Size(g))
    BY <1>1, <1>2 DEF Needed, Unset, Size
  <2>6. Normal(g).edges = g.edges /\ Normal(g).threshold = Unset(g.threshold, Size(g))
        /\ {n \in Normal(g).groups : LeafHolds(n, S)} = M
    BY <2>1
  <2> HIDE DEF L, M, leaves
  <2> QED BY <2>3, <2>4, <2>5, <2>6 DEF Holds, L
<1> QED BY <1>5, <1>6

(* The edges reported as having contributed satisfy a predicate by         *)
(* themselves (edge.py:526 visit).                                         *)
THEOREM ContributingSuffices ==
  ASSUME NEW g \in Group, IsFiniteSet(g.groups), NEW S \in SUBSET Edge, Holds(g, S)
  PROVE  Holds(g, Contributing(g, S))
<1> DEFINE K == Contributing(g, S)
           L == {l \in g.groups : LeafHolds(l, S)}
           M == {l \in g.groups : LeafHolds(l, K)}
<1>1. g.edges \in SUBSET Edge /\ g.threshold \in Nat /\ g.groups \in SUBSET Leaf
  BY DEF Group
<1>2. K = S \cap (g.edges \cup UNION {l.edges : l \in L})
  BY DEF Contributing
<1>3. g.edges \cap K = g.edges \cap S
  BY <1>2
<1>4. L \subseteq M
  <2> SUFFICES ASSUME NEW l \in L PROVE LeafHolds(l, K)
    OBVIOUS
  <2>1. l.edges \cap K = l.edges \cap S
    BY <1>2
  <2> QED BY <2>1 DEF LeafHolds
<1>5. M \subseteq g.groups /\ IsFiniteSet(M)
  <2>1. M \in SUBSET g.groups
    OBVIOUS
  <2> QED BY <2>1, FS_Subset
<1>6. Cardinality(L) \in Nat /\ Cardinality(M) \in Nat /\ Cardinality(L) <= Cardinality(M)
  <2> HIDE DEF L, M
  <2> QED BY <1>4, <1>5, CountMonotone
<1>7. /\ Cardinality(g.edges) \in Nat /\ Cardinality(g.groups) \in Nat
      /\ Cardinality(g.edges \cap S) \in Nat
  BY <1>1, CountEdges, FS_CardinalityType
<1>8. Needed(g.threshold, Size(g)) \in Nat
  BY <1>1, <1>7 DEF Needed, Size
<1>9. Cardinality(g.edges \cap S) + Cardinality(L) >= Needed(g.threshold, Size(g))
  BY DEF Holds
<1> HIDE DEF K, L, M
<1>10. Cardinality(g.edges \cap K) = Cardinality(g.edges \cap S)
  BY ONLY <1>3
<1>11. Cardinality(g.edges \cap K) + Cardinality(M) >= Needed(g.threshold, Size(g))
  BY ONLY <1>6, <1>7, <1>8, <1>9, <1>10
<1> QED BY ONLY <1>11 DEF Holds, K, M
-----------------------------------------------------------------------------
(* What a query for the satisfied dependencies of an unblocked check       *)
(* returns is reason enough to have unblocked it (edge.py:497, edge.py:546).*)
ReasonsSuffice ==
  \A c \in Checks : dependencies[c].resolution =>
    Holds(dependencies[c].predicate,
          {e \in dependencies[c].satisfied : e.target \in satisfiedEdges[c]})

(* The index has, for a resolved check, what contributed to it.            *)
Reported ==
  \A c \in Checks : depsState[c] = "RESOLVED" =>
    satisfiedEdges[c] = Targets(Contributing(dependencies[c].predicate,
                                             dependencies[c].satisfied))

(* What is reported of a check is written when it resolves, and stays. *)
LEMMA ApplyReported ==
  ASSUME IInv, Reported, ApplyCheckWrite PROVE Reported'
<1> DEFINE w == Head(pending)
<1>1. TypeOK /\ DepsAgree /\ StateAgrees /\ PendingAgrees
  BY DEF IInv
<1>2. w \in CheckWrite /\ w.check \in Checks
  BY <1>1, ApplyWritten
<1>3. IndexResolved(w)
  BY DEF ApplyCheckWrite
<1> SUFFICES ASSUME NEW c \in Checks, depsState'[c] = "RESOLVED"
             PROVE  satisfiedEdges'[c] = Targets(Contributing(dependencies'[c].predicate,
                                                              dependencies'[c].satisfied))
  BY DEF Reported
<1>4. CASE c # w.check
  <2>1. dependencies'[c] = dependencies[c] /\ depsState'[c] = depsState[c]
    BY <1>1, <1>2, <1>4, ApplyFrame
  <2>2. satisfiedEdges'[c] = satisfiedEdges[c]
    BY <1>1, <1>3, <1>4 DEF IndexResolved, TypeOK
  <2> QED BY <2>1, <2>2 DEF Reported
<1>5. CASE c = w.check /\ depsState[c] = "RESOLVED"
  <2>1. ~NewlyResolved(w) /\ dependencies'[c] = dependencies[c]
    BY <1>1, <1>5, ApplyWritten
  <2>2. satisfiedEdges'[c] = satisfiedEdges[c]
    BY <1>3, <2>1 DEF IndexResolved
  <2> QED BY <1>5, <2>1, <2>2 DEF Reported
<1>6. CASE c = w.check /\ depsState[c] # "RESOLVED"
  <2>1. NewlyResolved(w) /\ dependencies'[c] = NewDependencies(w)
    BY <1>1, <1>6, ApplyWritten
  <2> DEFINE N == NewDependencies(w)
             T == Targets(Contributing(N.predicate, N.satisfied))
  <2>2. satisfiedEdges' = [satisfiedEdges EXCEPT ![w.check] = T]
    BY <1>3, <2>1 DEF IndexResolved
  <2> HIDE DEF T
  <2>3. satisfiedEdges'[c] = T
    BY <1>1, <1>6, <2>2 DEF TypeOK
  <2> QED BY <2>1, <2>3 DEF T
<1> QED BY <1>4, <1>5, <1>6

(* Whoever asks why a check was unblocked is told enough to unblock it. *)
THEOREM ReportedReasons == Spec => []ReasonsSuffice
<1>1. Init => Reported
  BY DEF Init, Reported
<1>2. IInv /\ Reported /\ [Next]_vars => Reported'
  <2> SUFFICES ASSUME IInv, Reported, [Next]_vars PROVE Reported'
    OBVIOUS
  <2>1. CASE ApplyCheckWrite
    BY <2>1, ApplyReported
  <2>2. CASE ~ApplyCheckWrite
    <3>1. UNCHANGED <<dependencies, depsState, satisfiedEdges>>
      BY <2>2 DEF Next, WriteNodes, ProcessQueue, Raise, Return, vars, index
    <3> QED BY <3>1 DEF Reported
  <2> QED BY <2>1, <2>2
<1>3. IInv /\ Reported => ReasonsSuffice
  <2> SUFFICES ASSUME IInv, Reported, NEW c \in Checks, dependencies[c].resolution
               PROVE  Holds(dependencies[c].predicate,
                            {e \in dependencies[c].satisfied : e.target \in satisfiedEdges[c]})
    BY DEF ReasonsSuffice
  <2> DEFINE g == dependencies[c].predicate
             S == dependencies[c].satisfied
             R == {e \in S : e.target \in satisfiedEdges[c]}
  <2>1. TypeOK /\ DepsAgree
    BY DEF IInv
  <2>2. g \in Group /\ S \in SUBSET Edge
    BY <2>1 DEF TypeOK, Dependencies
  <2>3. IsFiniteSet(g.groups) /\ Holds(g, S) /\ depsState[c] = "RESOLVED"
    BY <2>1 DEF DepsAgree
  <2>4. satisfiedEdges[c] = Targets(Contributing(g, S))
    BY <2>3 DEF Reported
  <2>5. Contributing(g, S) \subseteq S /\ Contributing(g, S) \in SUBSET Edge
    BY <2>2 DEF Contributing
  <2>6. Contributing(g, S) \subseteq R /\ R \in SUBSET Edge
    BY <2>2, <2>4, <2>5 DEF Targets
  <2> HIDE DEF g, S, R
  <2>7. Holds(g, Contributing(g, S))
    BY <2>2, <2>3, ContributingSuffices
  <2>8. Holds(g, R)
    BY <2>2, <2>3, <2>5, <2>6, <2>7, HoldsMonotone
  <2> QED BY <2>8 DEF g, S, R
<1> QED BY <1>1, <1>2, <1>3, Inductive, PTL DEF Spec
-----------------------------------------------------------------------------
(* When WAITING means unblocked.  WaitingIsUnblocked does not hold of      *)
(* every set of requests, but it holds when none asks for WAITING.         *)
NoneAsksForWaiting == \A req \in Requests : \A i \in DOMAIN req : req[i].state # "WAITING"

NothingAsksForWaiting == \A i \in DOMAIN pending : pending[i].state # "WAITING"

(* The orchestrator itself makes a check WAITING only when what it depends *)
(* on is satisfied, as check_state.proto:52 says.                          *)
THEOREM WaitingMeansUnblocked ==
  NoneAsksForWaiting => (Spec => []WaitingIsUnblocked)
<1> SUFFICES ASSUME NoneAsksForWaiting PROVE Spec => []WaitingIsUnblocked
  OBVIOUS
<1> DEFINE J == NothingAsksForWaiting /\ WaitingIsUnblocked
<1>1. Init => J
  BY DEF Init, NothingAsksForWaiting, WaitingIsUnblocked
<1>2. IInv /\ J /\ [Next]_vars => J'
  <2> SUFFICES ASSUME IInv, J, [Next]_vars PROVE J'
    OBVIOUS
  <2>1. TypeOK /\ DepsAgree /\ StateAgrees /\ PendingAgrees
    BY DEF IInv
  <2>2. CASE ApplyCheckWrite
    <3> DEFINE w == Head(pending)
    <3>1. pending # <<>> /\ pending' = Tail(pending)
      BY <2>2 DEF ApplyCheckWrite
    <3>2. /\ w = pending[1] /\ 1 \in DOMAIN pending
          /\ \A i \in DOMAIN Tail(pending) :
               i + 1 \in DOMAIN pending /\ Tail(pending)[i] = pending[i + 1]
      BY <2>1, <3>1, TailFacts DEF TypeOK
    <3>3. NothingAsksForWaiting'
      BY <3>1, <3>2 DEF NothingAsksForWaiting
    <3>4. w \in CheckWrite /\ w.check \in Checks
      BY <2>1, <2>2, ApplyWritten
    <3>5. ASSUME NEW c \in Checks, c # w.check, state'[c] = "WAITING"
          PROVE  dependencies'[c].resolution
      BY <2>1, <2>2, <3>4, <3>5, ApplyFrame DEF WaitingIsUnblocked
    <3>6. ASSUME state'[w.check] = "WAITING" PROVE dependencies'[w.check].resolution
      <4>1. NewState(w) = "WAITING" /\ dependencies'[w.check] = NewDependencies(w)
        BY <2>1, <2>2, <3>6, ApplyWritten
      <4>2. CASE NewlyResolved(w)
        BY <4>1, <4>2 DEF NewlyResolved
      <4>3. CASE ~NewlyResolved(w)
        <5>1. WrittenState(w) = "WAITING"
          BY <4>1, <4>3 DEF NewState
        <5>2. w.state # "WAITING"
          BY <3>2 DEF NothingAsksForWaiting
        <5>3. state[w.check] = "WAITING"
          BY <5>1, <5>2 DEF WrittenState
        <5>4. dependencies[w.check].resolution /\ depsState[w.check] = "RESOLVED"
          BY <2>1, <3>4, <5>3 DEF WaitingIsUnblocked, DepsAgree
        <5> QED BY <2>1, <2>2, <5>4, ApplyWritten
      <4> QED BY <4>2, <4>3
    <3>7. WaitingIsUnblocked'
      BY <3>5, <3>6 DEF WaitingIsUnblocked
    <3> QED BY <3>3, <3>7
  <2>3. CASE ~ApplyCheckWrite
    <3>1. UNCHANGED <<state, dependencies>>
      BY <2>3 DEF Next, WriteNodes, ProcessQueue, Raise, Return, vars, index
    <3>2. WaitingIsUnblocked'
      BY <3>1 DEF WaitingIsUnblocked
    <3>3. NothingAsksForWaiting'
      <4>1. ASSUME NEW req \in Requests, WriteNodes(req) PROVE NothingAsksForWaiting'
        <5>1. pending' = pending \/ pending' = [i \in DOMAIN req |-> Extract(req[i])]
          BY <4>1 DEF WriteNodes
        <5>2. \A i \in DOMAIN req : Extract(req[i]).state = req[i].state
          BY DEF Extract
        <5> QED BY <5>1, <5>2 DEF NothingAsksForWaiting, NoneAsksForWaiting
      <4>2. CASE ProcessQueue
        <5>1. \A c : Propagated(c).state = "UNSET"
          BY DEF Propagated
        <5>2. \E order : pending' = [i \in DOMAIN order |-> Propagated(order[i])]
          BY <4>2 DEF ProcessQueue
        <5> QED BY <5>1, <5>2 DEF NothingAsksForWaiting
      <4>3. CASE UNCHANGED pending
        BY <4>3 DEF NothingAsksForWaiting
      <4> QED BY <2>3, <4>1, <4>2, <4>3 DEF Next, Raise, Return, vars
    <3> QED BY <3>2, <3>3
  <2> QED BY <2>2, <2>3
<1>3. J => WaitingIsUnblocked
  OBVIOUS
<1> QED BY <1>1, <1>2, <1>3, Inductive, PTL DEF Spec
=============================================================================
