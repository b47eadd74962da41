------------------------------ MODULE RecipeEngine ------------------------------
(***************************************************************************)
(* How the steps of a recipe nest, and how its greenlets share the nests:   *)
(*   recipe_engine/internal/engine.py   _ActiveStep, spawn_greenlet,        *)
(*                       parent_step, run_step, the end of run_steps        *)
(*   recipe_modules/step/api.py         nest                                *)
(*   recipe_modules/futures/api.py      Future.cancel                       *)
(*                                                                          *)
(* Greenlet 0 runs the recipe's RunSteps; the others are spawned by recipe  *)
(* code.  Recipe code does what it likes between two calls of the engine    *)
(* and may block there for as long as it likes ("running"), so the calls of *)
(* different greenlets come in any order.  A call is one action up to the   *)
(* point where the engine itself blocks: the subprocess of a step, the      *)
(* gevent.wait of _ActiveStep.close and the wait for a killed greenlet.     *)
(* What happens inside a step's subprocess is the subject of StepRunner.    *)
(***************************************************************************)
EXTENDS Integers, SequencesExt

CONSTANTS
  MaxSpawns,   \* bound: how many greenlets are spawned
  MaxSteps,    \* bound: how many steps are opened, nests included
  MaxCancels,  \* bound: how often Future.cancel is called
  Names,       \* the names recipes give to steps: sequences, see Dedup
  Outcomes,    \* the statuses a subprocess gives to its step
  Raised,      \* the statuses exceptions give to a nest they leave
  Algorithms   \* the `status` arguments of nest: "worst", "last"

Greenlets == 0..MaxSpawns
Futures   == 1..MaxSpawns

(* StepPresentation._RAW_STATUSES, from the best to the worst; "none" is None. *)
RawStatuses == <<"none", "SUCCESS", "WARNING", "FAILURE", "EXCEPTION", "CANCELED">>
Statuses    == {RawStatuses[i] : i \in 2..6}

ASSUME EngineParameters ==
  /\ MaxSpawns \in Nat /\ MaxSteps \in Nat /\ MaxCancels \in Nat
  /\ Outcomes \subseteq Statuses /\ Raised \subseteq Statuses
  /\ Algorithms \subseteq {"worst", "last"}

ASSUME NamesAreSequences ==
  \A name \in Names : Len(name) \in Nat /\ name = [i \in 1..Len(name) |-> name[i]]

VARIABLES
  steps,    \* every _ActiveStep opened so far; its number is its place
  stack,    \* _step_stack of each greenlet: the numbers of steps, 0 is the root
  base,     \* the step a greenlet was spawned under: it is in its `greenlets`
  pc,       \* where each greenlet is
  closing,  \* the step whose close() a greenlet is blocked in
  waitFor,  \* the greenlets it waits for there, or in Future.cancel
  throws,   \* the GreenletExits the hub has still to throw, in order
  cancels,  \* how often Future.cancel has been called
  late      \* history: the futures spawned under a step that was being closed

vars == <<steps, stack, base, pc, closing, waitFor, throws, cancels, late>>

(* "spawned"  not started yet          "stopping" the same, being killed      *)
(* "running"  in recipe code           "closing"  in _ActiveStep.close        *)
(* "inStep"   in run_step              "joining"  in Future.cancel            *)
PC == {"unborn", "spawned", "running", "inStep", "stopping", "closing", "joining",
       "dead"}

DedupTooLate(name, count) == IF count <= 1 THEN name ELSE Append(name, count)

(* A name is "a" (<<"a">>) or looks like the engine's own "a (2)" (<<"a", 2>>). *)
Dedup(name, count) == IF count = 0 THEN name ELSE Append(name, count + 1)
Token == {Dedup(name, count) : name \in Names, count \in 0..MaxSteps}

(* A "lost" stream is still open, and nobody will ever close it: the code that *)
(* had to was left with an exception.                                         *)
Step == [owner : Greenlets, under : 0..MaxSteps, parent : BOOLEAN,
         asked : Names, tokens : Seq(Token),
         stream : {"open", "closed", "lost"}, status : Statuses \cup {"none"}]

-------------------------------------------------------------------------------
(* status_worst compares the places in RawStatuses. *)
Badness(status) == CHOOSE i \in DOMAIN RawStatuses : RawStatuses[i] = status

WorstOf(S) == CHOOSE a \in S : \A b \in S : Badness(b) <= Badness(a)

IsParent(s) == s = 0 \/ steps[s].parent
TokensOf(s) == IF s = 0 THEN <<>> ELSE steps[s].tokens

SpawnedUnderShared(s) == {h \in Futures : pc[h] # "unborn"}

(* The list `greenlets` of a step, and its list `children_presentations`. *)
SpawnedUnder(s) == {h \in Futures : pc[h] # "unborn" /\ base[h] = s}
Children(s)     == {c \in DOMAIN steps : steps[c].under = s}

(* close_non_parent_step: what the stack and the steps are after it.  The      *)
(* `greenlets` of the step it closes are none, so it does not block.           *)
TipIsReal(g) == ~IsParent(Last(stack[g]))
Popped(g)    == IF TipIsReal(g) THEN Front(stack[g]) ELSE stack[g]
Closed(g)    == IF TipIsReal(g) THEN [steps EXCEPT ![Last(stack[g])].stream = "closed"]
                                ELSE steps
Tip(g)       == Last(Popped(g))

(* _record_step_name counts how often a name was asked for in a namespace. *)
Recorded(namespace, name) ==
  Cardinality({i \in DOMAIN steps : /\ Front(steps[i].tokens) = namespace
                                    /\ steps[i].asked = name})

NameTokens(namespace, name) ==
  Append(namespace, Dedup(name, Recorded(namespace, name)))

-------------------------------------------------------------------------------
Init ==
  /\ steps = <<>>
  /\ stack = [g \in Greenlets |-> <<0>>]
  /\ base = [g \in Greenlets |-> 0]
  /\ pc = [g \in Greenlets |-> IF g = 0 THEN "running" ELSE "unborn"]
  /\ closing = [g \in Greenlets |-> 0]
  /\ waitFor = [g \in Greenlets |-> {}]
  /\ throws = <<>> /\ cancels = 0 /\ late = {}

(* A step is being closed, or has been: gevent.wait has looked at its list. *)
Over(s) ==
  \/ \E g \in Greenlets : pc[g] = "closing" /\ closing[g] = s
  \/ s = 0 /\ pc[0] = "dead"
  \/ s # 0 /\ steps[s].stream # "open"

(* spawn_greenlet: the new greenlet is added to the list of the current step,  *)
(* whether somebody already waits for that list or not.                        *)
Spawn(g) ==
  \E h \in Futures :
    /\ pc[g] = "running"
    /\ pc[h] = "unborn" /\ \A i \in 1..(h - 1) : pc[i] # "unborn"
    /\ steps' = Closed(g)
    /\ stack' = [stack EXCEPT ![g] = Popped(g)]
    /\ base' = [base EXCEPT ![h] = Tip(g)]
    /\ pc' = [pc EXCEPT ![h] = "spawned"]
    /\ late' = IF Over(Tip(g)) THEN late \cup {h} ELSE late
    /\ UNCHANGED <<closing, waitFor, throws, cancels>>

(* The hub starts the greenlet: _runner sets its stack. *)
Start(h) ==
  /\ pc[h] = "spawned"
  /\ stack' = [stack EXCEPT ![h] = <<base[h]>>]
  /\ pc' = [pc EXCEPT ![h] = "running"]
  /\ UNCHANGED <<steps, base, closing, waitFor, throws, cancels, late>>

(* Close the step at the tip if it is a real one, and open a new one. *)
Open(g, name, parent, status) ==
  /\ pc[g] = "running"
  /\ Len(steps) < MaxSteps
  /\ steps' = Append(Closed(g),
       [owner |-> g, under |-> Tip(g), parent |-> parent, asked |-> name,
        tokens |-> NameTokens(TokensOf(Tip(g)), name),
        stream |-> "open", status |-> status])
  /\ stack' = [stack EXCEPT ![g] = Append(Popped(g), Len(steps) + 1)]
  /\ UNCHANGED <<base, closing, waitFor, throws, cancels, late>>

(* run_step, until its subprocess has ended.  The presentation starts as an   *)
(* EXCEPTION, which is what its parent sees meanwhile.                        *)
RunStep(g, name) ==
  /\ Open(g, name, FALSE, "EXCEPTION")
  /\ pc' = [pc EXCEPT ![g] = "inStep"]

(* A killed step is CANCELED, whatever its subprocess did. *)
EndStep(g, status) ==
  /\ \/ pc[g] = "inStep" /\ status \in Outcomes
     \/ pc[g] = "stopping" /\ status = "CANCELED"
  /\ steps' = [steps EXCEPT ![Last(stack[g])].status = status]
  /\ pc' = [pc EXCEPT ![g] = "running"]
  /\ UNCHANGED <<stack, base, closing, waitFor, throws, cancels, late>>

(* Enter `with api.step.nest(name)`. *)
Nest(g, name) ==
  /\ Open(g, name, TRUE, "none")
  /\ UNCHANGED pc

(* The finally block of nest: the status of a nest whose body did not raise.  *)
(* It is computed before parent_step waits for the greenlets of the nest.     *)
StatusFor(s, algorithm) ==
  IF algorithm = "last" /\ Children(s) # {}
    THEN steps[Max(Children(s))].status
    ELSE WorstOf({"SUCCESS"} \cup {steps[c].status : c \in Children(s)})

(* finalize() sends the status to the stream before it is closed; None makes  *)
(* it raise a KeyError, parent_step raises CrashEngine, and the stream stays  *)
(* open for ever ("lost").                                                    *)
CloseStep(ss, s) ==
  [ss EXCEPT ![s].stream = IF ss[s].status = "none" THEN "lost" ELSE "closed"]

LeaveNestNoWait(g, status) ==
  LET s  == Tip(g)
      ss == [Closed(g) EXCEPT ![s].status = status]
  IN  /\ pc[g] = "running"
      /\ Len(Popped(g)) > 1
      /\ stack' = [stack EXCEPT ![g] = Front(Popped(g))]
      /\ steps' = CloseStep(ss, s)
      /\ UNCHANGED <<base, pc, closing, waitFor, throws, cancels, late>>

LeaveNestNoPop(g, status) ==
  LET s  == Tip(g)
      ss == [Closed(g) EXCEPT ![s].status = status]
  IN  /\ pc[g] = "running"
      /\ Len(Popped(g)) > 1
      /\ stack' = [stack EXCEPT ![g] = Popped(g)]
      /\ IF SpawnedUnder(s) = {}
           THEN /\ steps' = CloseStep(ss, s)
                /\ UNCHANGED <<pc, closing, waitFor>>
           ELSE /\ steps' = ss
                /\ pc' = [pc EXCEPT ![g] = "closing"]
                /\ closing' = [closing EXCEPT ![g] = s]
                /\ waitFor' = [waitFor EXCEPT ![g] = SpawnedUnder(s)]
      /\ UNCHANGED <<base, throws, cancels, late>>

(* Leave the innermost nest.  close() blocks in gevent.wait if the list of    *)
(* greenlets is not empty.  A choice of the algorithm at the end of the nest  *)
(* stands for the choice at its start: nothing looks at it in between.        *)
LeaveNest(g, status) ==
  LET s  == Tip(g)
      ss == [Closed(g) EXCEPT ![s].status = status]
  IN  /\ pc[g] = "running"
      /\ Len(Popped(g)) > 1
      /\ stack' = [stack EXCEPT ![g] = Front(Popped(g))]
      /\ IF SpawnedUnder(s) = {}
           THEN /\ steps' = CloseStep(ss, s)
                /\ UNCHANGED <<pc, closing, waitFor>>
           ELSE /\ steps' = ss
                /\ pc' = [pc EXCEPT ![g] = "closing"]
                /\ closing' = [closing EXCEPT ![g] = s]
                /\ waitFor' = [waitFor EXCEPT ![g] = SpawnedUnder(s)]
      /\ UNCHANGED <<base, throws, cancels, late>>

EndNest(g) ==
  Len(Popped(g)) > 1 /\ \E a \in Algorithms : LeaveNest(g, StatusFor(Tip(g), a))

RaiseOutOfNest(g) == \E status \in Raised : LeaveNest(g, status)

EndOfCodeNoClose(g) ==
  /\ pc[g] = "running"
  /\ Len(Popped(g)) = 1
  /\ IF g = 0 /\ SpawnedUnder(0) # {}
       THEN /\ pc' = [pc EXCEPT ![0] = "closing"]
            /\ waitFor' = [waitFor EXCEPT ![0] = SpawnedUnder(0)]
       ELSE /\ pc' = [pc EXCEPT ![g] = "dead"]
            /\ UNCHANGED waitFor
  /\ UNCHANGED <<steps, stack, base, closing, throws, cancels, late>>

(* The function of the greenlet returns or raises; _runner closes its last    *)
(* step.  For greenlet 0, run_steps closes the root, which has no stream.     *)
EndOfCode(g) ==
  /\ pc[g] = "running"
  /\ Len(Popped(g)) = 1
  /\ steps' = Closed(g)
  /\ stack' = [stack EXCEPT ![g] = Popped(g)]
  /\ IF g = 0 /\ SpawnedUnder(0) # {}
       THEN /\ pc' = [pc EXCEPT ![0] = "closing"]
            /\ waitFor' = [waitFor EXCEPT ![0] = SpawnedUnder(0)]
       ELSE /\ pc' = [pc EXCEPT ![g] = "dead"]
            /\ UNCHANGED waitFor
  /\ UNCHANGED <<base, closing, throws, cancels, late>>

FinishCloseWaitsForAll(g) ==
  LET s == closing[g]
  IN  /\ pc[g] = "closing"
      /\ \A h \in Futures : pc[h] \in {"unborn", "dead"}
      /\ steps' = IF s = 0 THEN steps ELSE CloseStep(steps, s)
      /\ pc' = [pc EXCEPT ![g] = IF s = 0 THEN "dead" ELSE "running"]
      /\ closing' = [closing EXCEPT ![g] = 0]
      /\ waitFor' = [waitFor EXCEPT ![g] = {}]
      /\ UNCHANGED <<stack, base, throws, cancels, late>>

(* The wait of a parent step's close() is over. *)
FinishClose(g) ==
  LET s == closing[g]
  IN  /\ pc[g] = "closing"
      /\ \A h \in waitFor[g] : pc[h] = "dead"
      /\ steps' = IF s = 0 THEN steps ELSE CloseStep(steps, s)
      /\ pc' = [pc EXCEPT ![g] = IF s = 0 THEN "dead" ELSE "running"]
      /\ closing' = [closing EXCEPT ![g] = 0]
      /\ waitFor' = [waitFor EXCEPT ![g] = {}]
      /\ UNCHANGED <<stack, base, throws, cancels, late>>

(* Future.cancel is gevent's kill(), which blocks until the greenlet is dead, *)
(* unless it has not started: then it never will.                             *)
Cancel(h, g) ==
  /\ pc[h] = "running" /\ h # g
  /\ pc[g] \notin {"unborn", "dead"}
  /\ cancels < MaxCancels
  /\ cancels' = cancels + 1
  /\ IF pc[g] = "spawned"
       THEN /\ pc' = [pc EXCEPT ![g] = "dead"]
            /\ UNCHANGED <<waitFor, throws>>
       ELSE /\ pc' = [pc EXCEPT ![h] = "joining"]
            /\ waitFor' = [waitFor EXCEPT ![h] = {g}]
            /\ throws' = Append(throws, g)
  /\ UNCHANGED <<steps, stack, base, closing, late>>

Joined(h) ==
  /\ pc[h] = "joining"
  /\ \A g \in waitFor[h] : pc[g] = "dead"
  /\ pc' = [pc EXCEPT ![h] = "running"]
  /\ waitFor' = [waitFor EXCEPT ![h] = {}]
  /\ UNCHANGED <<steps, stack, base, closing, throws, cancels, late>>

(* GreenletExit is raised where the greenlet blocks.  A step that runs is     *)
(* killed first, which takes a while, and the kill may be interrupted; one    *)
(* that waits for resources ends as the EXCEPTION it started as.  Out of      *)
(* close() it becomes a CrashEngine (line 370): the step has been popped,     *)
(* nobody finalizes it, and its stream stays open for ever ("lost").          *)
Throw ==
  /\ throws # <<>>
  /\ throws' = Tail(throws)
  /\ LET g == Head(throws)
         s == closing[g]
     IN  /\ \/ /\ pc[g] = "inStep"
               /\ pc' = [pc EXCEPT ![g] = "stopping"]
               /\ UNCHANGED steps
            \/ /\ pc[g] \notin {"dead", "stopping"}
               /\ pc' = [pc EXCEPT ![g] = "running"]
               /\ steps' = IF pc[g] = "closing"
                             THEN [steps EXCEPT ![s].stream = "lost"] ELSE steps
            \/ /\ pc[g] = "stopping"
               /\ pc' = [pc EXCEPT ![g] = "running"]
               /\ steps' = [steps EXCEPT ![Last(stack[g])].status = "CANCELED"]
            \/ /\ pc[g] = "dead"
               /\ UNCHANGED <<pc, steps>>
         /\ closing' = [closing EXCEPT ![g] = 0]
         /\ waitFor' = [waitFor EXCEPT ![g] = {}]
  /\ UNCHANGED <<stack, base, cancels, late>>

Calls(g) ==
  \/ Spawn(g)
  \/ \E name \in Names : RunStep(g, name) \/ Nest(g, name)
  \/ \E h \in Futures : Cancel(g, h)

Returns(g) ==
  \/ Start(g) \/ FinishClose(g) \/ Joined(g)
  \/ \E status \in Statuses : EndStep(g, status)
  \/ EndNest(g) \/ RaiseOutOfNest(g) \/ EndOfCode(g)

Next ==
  \/ \E g \in Greenlets : Calls(g) \/ Returns(g)
  \/ Throw

Spec == Init /\ [][Next]_vars

(* Subprocesses end, recipe functions return, and the hub runs what can run.  *)
Fairness == WF_vars(Throw) /\ \A g \in Greenlets : WF_vars(Returns(g))

LiveSpec == Spec /\ Fairness

-------------------------------------------------------------------------------
(* The types; the presentation of a real step always has a status.             *)
TypeOK ==
  /\ steps \in Seq(Step) /\ Len(steps) <= MaxSteps
  /\ \A s \in DOMAIN steps : ~steps[s].parent => steps[s].status # "none"
  /\ stack \in [Greenlets -> Seq(0..MaxSteps)]
  /\ base \in [Greenlets -> 0..MaxSteps]
  /\ pc \in [Greenlets -> PC]
  /\ closing \in [Greenlets -> 0..MaxSteps]
  /\ waitFor \in [Greenlets -> SUBSET Greenlets]
  /\ throws \in Seq(Futures)
  /\ cancels \in Nat /\ late \subseteq Futures

Alive(g) == pc[g] \notin {"unborn", "dead"}
Above(g) == {stack[g][i] : i \in 2..Len(stack[g])}

(* Only the tip of a stack is a real step (the NOTE at engine.py:170-172), so  *)
(* no greenlet ever has a real step for its base, and closing a real step     *)
(* never blocks.  What a greenlet has opened is above its base in the order    *)
(* it was opened in, open, and its own.                                       *)
StacksAreNested ==
  \A g \in Greenlets : Alive(g) /\ pc[g] # "spawned" =>
    /\ stack[g] # <<>> /\ stack[g][1] = base[g] /\ IsParent(base[g])
    /\ \A i \in 2..Len(stack[g]) :
         /\ steps[stack[g][i]].owner = g /\ steps[stack[g][i]].stream = "open"
         /\ steps[stack[g][i]].under = stack[g][i - 1]
         /\ i < Len(stack[g]) => steps[stack[g][i]].parent

(* Somebody will still close the stream of s: its owner is alive and has it on *)
(* his stack, or is closing it.                                               *)
Owned(s) ==
  LET g == steps[s].owner
  IN  Alive(g) /\ (s \in Above(g) \/ (pc[g] = "closing" /\ closing[g] = s))

(* Killed in close(): the owner is a future, others were spawned under s.     *)
KilledInClose(s) == cancels > 0 /\ steps[s].owner # 0 /\ SpawnedUnder(s) # {}

(* Streams leak in two ways only.  Whatever is killed and whenever, a stream  *)
(* that is not closed has an owner who will close it, or belongs to a nest    *)
(* which had no status when it was left, or to one whose greenlets a killed   *)
(* future was waiting for (line 370).  The stream of a real step never leaks. *)
OnlyKnownLeaks ==
  \A s \in DOMAIN steps : steps[s].stream # "closed" =>
    \/ Owned(s)
    \/ /\ steps[s].stream = "lost" /\ steps[s].parent
       /\ steps[s].status = "none" \/ KilledInClose(s)

(* A nest is not closed, and run_steps does not return, before the greenlets  *)
(* spawned under it are dead and their steps closed, except for the greenlets *)
(* spawned when it was already being closed.                                  *)
ClosedNestsAreQuiet ==
  \A h \in Futures : Alive(h) /\ h \notin late =>
    IF base[h] = 0 THEN pc[0] # "dead" ELSE steps[base[h]].stream # "closed"

(* Two greenlets never wait for each other, and the engine never deadlocks,   *)
(* as long as Future.cancel is not used: the greenlets somebody waits for in  *)
(* close() are spawned under a step opened later than his own base.           *)
SomebodyCanGoOn ==
  cancels = 0 => \/ pc[0] = "dead"
                 \/ \E g \in Greenlets : pc[g] \in {"spawned", "running", "inStep"}
                 \/ \E g \in Greenlets : /\ pc[g] = "closing"
                                        /\ \A h \in waitFor[g] : pc[h] = "dead"

(* Two steps have the same tokens only if a recipe itself chose, besides a    *)
(* name, that name followed by a number: names asked for twice never clash    *)
(* with each other, whoever asks for them and in whatever namespaces (the     *)
(* counts of _record_step_name).                                              *)
OnlyChosenNamesClash ==
  \A i, j \in DOMAIN steps : i # j /\ steps[i].tokens = steps[j].tokens =>
    \E n \in 2..MaxSteps : \/ steps[i].asked = Append(steps[j].asked, n)
                           \/ steps[j].asked = Append(steps[i].asked, n)

(* A finalized presentation does not change, nor does its stream reopen,      *)
(* whatever other greenlets or a late GreenletExit do (engine_types.py:517).  *)
FinalIsFinal ==
  [][\A s \in DOMAIN steps : steps[s].stream # "open" => steps'[s] = steps[s]]_vars

(* run_steps returns, if recipe functions do and nothing is cancelled.        *)
RunStepsReturns == <>(pc[0] = "dead" \/ cancels > 0)

-------------------------------------------------------------------------------
(* What the repository says and the code does not do.                         *)

(* "a nest step will wait for ALL recipe code within it (including greenlets  *)
(* spawned with api.future.spawn!)" (recipe_modules/step/api.py:230-232).     *)
NestWaitsForAll ==
  \A h \in Futures : Alive(h) /\ base[h] # 0 => steps[base[h]].stream # "closed"

(* "it will assume the status of the worst child step"                        *)
(* (recipe_modules/step/api.py:221-222), for nests no exception leaves.       *)
NestIsWorstOfChildren ==
  \A s \in DOMAIN steps : steps[s].parent /\ steps[s].stream = "closed" =>
    steps[s].status = WorstOf({"SUCCESS"} \cup {steps[c].status : c \in Children(s)})

(* "assert name not in self._streams, 'Step %r already exists'"               *)
(* (stream/invariants.py:138): the tokens of a step name it uniquely.  The    *)
(* names the engine makes are not recorded, so that they may clash with those *)
(* a recipe chooses (line 303).                                               *)
NamesAreUnique ==
  \A i, j \in DOMAIN steps : steps[i].tokens = steps[j].tokens => i = j

(* "When we pop from this stack, we close the corresponding step stream"      *)
(* (engine.py:167-168): a stream that is not closed belongs to a step that is *)
(* on a stack, or has been popped and is being closed.  A GreenletExit in     *)
(* close(), or a nest without a status, leaves it open for ever (line 370).   *)
PoppedStreamsAreClosed ==
  \A s \in DOMAIN steps : steps[s].stream # "closed" => Owned(s)

(* CrashEngine is raised "when the user-provided functions (like step         *)
(* callbacks) raise an exception" (exceptions.py:64-65): the model has none.  *)
EngineDoesNotCrash == \A s \in DOMAIN steps : steps[s].stream # "lost"

(* Future.cancel "does not block on the death of the greenlet"                *)
(* (recipe_modules/futures/api.py:119), so once the GreenletExits have been    *)
(* thrown no greenlet waits for the death of one that waits for it.           *)
NoCircularWait ==
  throws = <<>> =>
    ~ \E g, h \in Greenlets : /\ pc[h] = "joining" /\ g \in waitFor[h]
                              /\ pc[g] = "closing" /\ h \in waitFor[g]
===============================================================================
