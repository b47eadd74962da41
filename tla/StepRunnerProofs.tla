---------------------------- MODULE StepRunnerProofs ----------------------------
(***************************************************************************)
(* Proofs about StepRunner, for every set of steps and every number of      *)
(* slots and of cancellations.                                              *)
(***************************************************************************)
EXTENDS StepRunner, FiniteSetTheorems, TLAPS

(* The terminator has noticed GLOBAL_SHUTDOWN, the engine has waited for its  *)
(* greenlets.                                                                 *)
PhasesAgree ==
  /\ terminator # "waiting" => shutdown
  /\ engine # "running" => \A s \in Steps : pc[s] \in {"new", "ended"}
  /\ engine = "gone" => terminator = "done"

(* What is known of a step, from where its greenlet is.                       *)
StepsAgree ==
  \A s \in Steps :
    /\ pc[s] \in {"new", "blocked"} =>
         proc[s] = "none" /\ ~hasGroup[s] /\ signalled[s] = "none" /\ result[s] = "none"
    /\ pc[s] \in Body => result[s] = "none"
    /\ pc[s] \in Killing => hasGroup[s]
    /\ pc[s] = "cancelling" => cancels[s] >= 1
    /\ pc[s] = "running" /\ signalled[s] # "none" => shutdown
    /\ proc[s] = "alive" => hasGroup[s]
    /\ proc[s] = "killed" => signalled[s] = "KILL"

IInv ==
  /\ TypeOK /\ PhasesAgree /\ StepsAgree
  /\ GroupsAreTracked /\ FinishedByItself /\ ResourcesCoverProcesses

USE DEF globals, Body, Killing, PC, Results

(* The invariant holds before the step is started.                            *)
LEMMA IInvInit == Init => IInv
<1> SUFFICES ASSUME Init
             PROVE  IInv
  OBVIOUS
<1>1. TypeOK
  BY DEF Init, TypeOK
<1>2. PhasesAgree /\ StepsAgree
  BY DEF Init, PhasesAgree, StepsAgree
<1>3. GroupsAreTracked /\ FinishedByItself /\ ResourcesCoverProcesses
  BY DEF Init, GroupsAreTracked, FinishedByItself, ResourcesCoverProcesses
<1>4. QED
  BY <1>1, <1>2, <1>3 DEF IInv

(* One lemma for each part of the invariant would repeat the same case split; *)
(* there is one for each kind of step instead.                                *)
LEMMA GreenletKeepsIInv ==
  ASSUME IInv, NEW s \in Steps, Skip(s) \/ Block(s) \/ StepGreenlet(s) \/ Cancel(s)
  PROVE  IInv'
<1> USE DEF IInv, TypeOK, PhasesAgree, StepsAgree, GroupsAreTracked,
            FinishedByItself, ResourcesCoverProcesses, EndWith, Killpg
<1>1. CASE Skip(s)
  BY <1>1 DEF Skip
<1>2. CASE Block(s)
  BY <1>2 DEF Block
<1>3. CASE Launch(s)
  BY <1>3 DEF Launch
<1>4. CASE SeeShutdown(s)
  BY <1>4 DEF SeeShutdown, StartKill
<1>5. CASE SeeExit(s)
  BY <1>5 DEF SeeExit
<1>6. CASE SeeTimeout(s)
  BY <1>6 DEF SeeTimeout, StartKill
<1>7. CASE FinishKill(s)
  BY <1>7 DEF FinishKill
<1>8. CASE Cancel(s)
  BY <1>8 DEF Cancel, StartKill
<1>9. QED
  BY <1>1, <1>2, <1>3, <1>4, <1>5, <1>6, <1>7, <1>8 DEF StepGreenlet

(* What the process does on its own keeps it.                                 *)
LEMMA ProcessKeepsIInv ==
  ASSUME IInv, NEW s \in Steps, ProcessEnds(s) \/ ProcessKilled(s)
  PROVE  IInv'
<1> USE DEF IInv, TypeOK, PhasesAgree, StepsAgree, GroupsAreTracked,
            FinishedByItself, ResourcesCoverProcesses
<1>1. CASE ProcessEnds(s)
  BY <1>1 DEF ProcessEnds
<1>2. CASE ProcessKilled(s)
  BY <1>2 DEF ProcessKilled
<1>3. QED
  BY <1>1, <1>2

(* So does what the engine does.                                              *)
LEMMA EngineKeepsIInv ==
  ASSUME IInv, Terminator \/ Interrupt \/ Leave \/ Exit
  PROVE  IInv'
<1> USE DEF IInv, TypeOK, PhasesAgree, StepsAgree, GroupsAreTracked,
            FinishedByItself, ResourcesCoverProcesses
<1>1. CASE NoticeShutdown
  BY <1>1 DEF NoticeShutdown
<1>2. CASE Terminate
  BY <1>2 DEF Terminate, Killpg
<1>3. CASE Interrupt
  BY <1>3 DEF Interrupt
<1>4. CASE Leave
  BY <1>4 DEF Leave
<1>5. CASE Exit
  BY <1>5 DEF Exit
<1>6. QED
  BY <1>1, <1>2, <1>3, <1>4, <1>5 DEF Terminator

(* The inductive invariant holds in every behaviour.                          *)
LEMMA IInvHolds == Spec => []IInv
<1>1. IInv /\ UNCHANGED vars => IInv'
  BY DEF vars, IInv, TypeOK, PhasesAgree, StepsAgree, GroupsAreTracked,
         FinishedByItself, ResourcesCoverProcesses
<1>2. IInv /\ [Next]_vars => IInv'
  BY <1>1, GreenletKeepsIInv, ProcessKeepsIInv, EngineKeepsIInv DEF Next
<1>3. QED
  BY IInvInit, <1>2, PTL DEF Spec

(* The state of the engine and of its steps keeps its types.                  *)
THEOREM TypeCorrect == Spec => []TypeOK
<1>1. IInv => TypeOK
  BY DEF IInv
<1>2. QED
  BY <1>1, IInvHolds, PTL

(* A process group is in UNKILLED_PROC_GROUPS for as long as it has not been  *)
(* sent SIGKILL.                                                              *)
THEOREM Tracking == Spec => []GroupsAreTracked
<1>1. IInv => GroupsAreTracked
  BY DEF IInv
<1>2. QED
  BY <1>1, IInvHolds, PTL

(* A process that the engine signalled is never reported as finished.         *)
THEOREM HonestResults == Spec => []FinishedByItself
<1>1. IInv => FinishedByItself
  BY DEF IInv
<1>2. QED
  BY <1>1, IInvHolds, PTL

(* Resources are held for as long as a step's process may run.                *)
THEOREM ResourcesHeld == Spec => []ResourcesCoverProcesses
<1>1. IInv => ResourcesCoverProcesses
  BY DEF IInv
<1>2. QED
  BY <1>1, IInvHolds, PTL

(* No process group that the engine knows of outlives it.                     *)
THEOREM NoStrays == Spec => []NoStrayGroups
<1>1. IInv => NoStrayGroups
  BY DEF IInv, PhasesAgree, GroupsAreTracked, NoStrayGroups
<1>2. QED
  BY <1>1, IInvHolds, PTL
-------------------------------------------------------------------------------
(* The resources.  Each of the steps that have got theirs holds one of the    *)
(* slots.                                                                     *)
SlotsAreKept == Cardinality(InBody) <= Slots

(* A set that gains one element, or loses some. *)
LEMMA Counting ==
  ASSUME NEW S, IsFiniteSet(S)
  PROVE  /\ Cardinality(S) \in Nat
         /\ \A x : x \notin S => Cardinality(S \cup {x}) = Cardinality(S) + 1
         /\ \A T \in SUBSET S : /\ IsFiniteSet(T) /\ Cardinality(T) \in Nat
                                /\ Cardinality(T) <= Cardinality(S)
                                /\ Cardinality(T) = Cardinality(S) => T = S
BY FS_CardinalityType, FS_AddElement, FS_Subset

(* The steps in their bodies can be counted. *)
LEMMA InBodyIsFinite == IsFiniteSet(InBody) /\ Cardinality(InBody) \in Nat
<1>1. InBody \in SUBSET Steps
  BY DEF InBody
<1>2. QED
  BY <1>1, RunnerParameters, Counting

(* One step of Next gives resources to one step, or to none. *)
LEMMA SlotsStep ==
  ASSUME TypeOK, SlotsAreKept, [Next]_vars
  PROVE  SlotsAreKept'
<1> USE DEF EndWith, TypeOK
<1>1. Cardinality(InBody) <= Slots /\ Slots \in Nat
  BY RunnerParameters DEF SlotsAreKept
<1>2. ASSUME InBody' \subseteq InBody PROVE SlotsAreKept'
  <2>1. InBody' \in SUBSET InBody
    BY <1>2
  <2>2. Cardinality(InBody') \in Nat /\ Cardinality(InBody') <= Cardinality(InBody)
    BY <2>1, InBodyIsFinite, Counting
  <2>3. QED
    BY <1>1, <2>2, InBodyIsFinite DEF SlotsAreKept
<1>3. ASSUME NEW s \in Steps, Launch(s) PROVE SlotsAreKept'
  <2>1. Cardinality(InBody) < Slots
    BY <1>3 DEF Launch
  <2>2. s \notin InBody /\ InBody' = InBody \cup {s}
    BY <1>3 DEF Launch, InBody
  <2>3. Cardinality(InBody') = Cardinality(InBody) + 1
    BY <2>2, InBodyIsFinite, Counting
  <2>4. QED
    BY <2>1, <2>3, <1>1, InBodyIsFinite DEF SlotsAreKept
<1>4. ASSUME NEW s \in Steps,
             Skip(s) \/ Block(s) \/ SeeExit(s) \/ FinishKill(s)
               \/ ProcessEnds(s) \/ ProcessKilled(s)
      PROVE  InBody' \subseteq InBody
  BY <1>4 DEF Skip, Block, SeeExit, FinishKill, ProcessEnds, ProcessKilled, InBody
<1>5. ASSUME NEW s \in Steps, SeeShutdown(s) \/ SeeTimeout(s) \/ Cancel(s)
      PROVE  InBody' \subseteq InBody
  BY <1>5 DEF SeeShutdown, SeeTimeout, Cancel, StartKill, InBody
<1>6. ASSUME Terminator \/ Interrupt \/ Leave \/ Exit \/ UNCHANGED vars
      PROVE  InBody' \subseteq InBody
  BY <1>6 DEF Terminator, NoticeShutdown, Terminate, Interrupt, Leave, Exit, vars, InBody
<1>7. QED
  BY <1>2, <1>3, <1>4, <1>5, <1>6 DEF Next, StepGreenlet

(* Never more steps than slots have their resources.                          *)
THEOREM SlotsSuffice == Spec => []SlotsAreKept
<1>1. Init => SlotsAreKept
  <2>1. Init => InBody = {}
    BY DEF Init, InBody
  <2>2. QED
    BY <2>1, FS_EmptySet, RunnerParameters DEF SlotsAreKept
<1>2. IInv => TypeOK
  BY DEF IInv
<1>3. QED
  BY <1>1, <1>2, SlotsStep, IInvHolds, PTL DEF Spec

-------------------------------------------------------------------------------
(* When nothing is launched after GLOBAL_SHUTDOWN.  NoLaunchAfterShutdown     *)
(* does not hold of every run: a step that waited for resources does not look *)
(* at GLOBAL_SHUTDOWN again.  It holds if nobody ever has to wait.            *)
NoneWaits == \A s \in Steps : pc[s] # "blocked"

(* With a slot for each step nobody is made to wait. *)
LEMMA NoneWaitsStep ==
  ASSUME Cardinality(Steps) <= Slots, TypeOK, NoneWaits, [Next]_vars
  PROVE  NoneWaits'
<1> USE DEF EndWith, TypeOK, NoneWaits
<1>1. ASSUME NEW s \in Steps, Block(s) PROVE FALSE
  <2>1. Cardinality(InBody) >= Slots /\ s \notin InBody
    BY <1>1 DEF Block, InBody
  <2>2. InBody \in SUBSET Steps /\ InBody # Steps
    BY <2>1 DEF InBody
  <2>3. /\ Cardinality(InBody) \in Nat /\ Cardinality(Steps) \in Nat
        /\ Cardinality(InBody) <= Cardinality(Steps)
        /\ Cardinality(InBody) # Cardinality(Steps)
    BY <2>2, RunnerParameters, Counting
  <2>4. QED
    BY <2>1, <2>3, RunnerParameters
<1>2. ASSUME NEW s \in Steps, Skip(s) \/ StepGreenlet(s) \/ Cancel(s) PROVE NoneWaits'
  BY <1>2 DEF Skip, StepGreenlet, Launch, SeeShutdown, SeeTimeout, SeeExit, FinishKill,
              Cancel, StartKill
<1>3. ASSUME NEW s \in Steps, ProcessEnds(s) \/ ProcessKilled(s) PROVE NoneWaits'
  BY <1>3 DEF ProcessEnds, ProcessKilled
<1>4. ASSUME Terminator \/ Interrupt \/ Leave \/ Exit \/ UNCHANGED vars PROVE NoneWaits'
  BY <1>4 DEF Terminator, NoticeShutdown, Terminate, Interrupt, Leave, Exit, vars
<1>5. QED
  BY <1>1, <1>2, <1>3, <1>4 DEF Next

(* "no new steps will be able to launch" (global_shutdown.py:30-32) is true   *)
(* when there are enough resources for all steps at once.                     *)
THEOREM NoLaunchWithSlots ==
  Cardinality(Steps) <= Slots => (Spec => NoLaunchAfterShutdown)
<1> SUFFICES ASSUME Cardinality(Steps) <= Slots PROVE Spec => NoLaunchAfterShutdown
  OBVIOUS
<1>1. Init => NoneWaits
  BY DEF Init, NoneWaits
<1>2. IInv /\ NoneWaits /\ [Next]_vars => NoneWaits'
  BY NoneWaitsStep DEF IInv
<1>3. IInv /\ NoneWaits /\ [Next]_vars =>
        [shutdown => \A s \in Steps : proc[s] = "none" => proc'[s] = "none"]_vars
  <2> SUFFICES ASSUME IInv, NoneWaits, Next, shutdown, NEW s \in Steps, proc[s] = "none"
               PROVE  proc'[s] = "none"
    OBVIOUS
  <2> USE DEF IInv, TypeOK
  <2>1. ASSUME NEW t \in Steps, StepGreenlet(t) \/ Skip(t) \/ Block(t) \/ Cancel(t)
        PROVE  proc' = proc
    BY <2>1 DEF NoneWaits, StepGreenlet, Launch, SeeShutdown, SeeTimeout, SeeExit,
                FinishKill, Skip, Block, Cancel, StartKill
  <2>2. ASSUME NEW t \in Steps, ProcessEnds(t) \/ ProcessKilled(t) PROVE proc'[s] = "none"
    BY <2>2 DEF ProcessEnds, ProcessKilled
  <2>3. ASSUME Terminator \/ Interrupt \/ Leave \/ Exit PROVE proc' = proc
    BY <2>3 DEF Terminator, NoticeShutdown, Terminate, Interrupt, Leave, Exit
  <2>4. QED
    BY <2>1, <2>2, <2>3 DEF Next
<1>4. QED
  BY <1>1, <1>2, <1>3, IInvHolds, PTL DEF Spec, NoLaunchAfterShutdown

-------------------------------------------------------------------------------
(* What results say, beyond FinishedByItself: a timeout is reported of a step *)
(* that has one and whose group was sent SIGKILL, a cancellation because the  *)
(* build shuts down or the step was cancelled, and an exception only of a     *)
(* process whose group is not known.  An aborted step has been sent a signal. *)
ReasonsOfResults ==
  \A s \in Steps :
    /\ result[s] = "timeout" => s \in HasTimeout /\ signalled[s] = "KILL"
    /\ result[s] = "cancelled" => /\ shutdown \/ cancels[s] >= 1
                                  /\ proc[s] # "none" => signalled[s] # "none"
    /\ result[s] = "exception" => ~hasGroup[s] /\ proc[s] = "own"

(* Where a greenlet kills its group tells why. *)
ReasonsOfKills ==
  \A s \in Steps :
    /\ pc[s] = "stopping" => shutdown
    /\ pc[s] = "expiring" => s \in HasTimeout
    /\ pc[s] = "cancelling" => cancels[s] >= 1
    /\ pc[s] \in Killing => signalled[s] # "none"
    /\ pc[s] \in Body => proc[s] # "none" /\ (proc[s] = "alive" => hasGroup[s])
    /\ hasGroup[s] \/ proc[s] \in {"none", "own"}

(* The result is chosen where the greenlet kills or waits. *)
LEMMA ReasonsStep ==
  ASSUME IInv, ReasonsOfResults, ReasonsOfKills, [Next]_vars
  PROVE  ReasonsOfResults' /\ ReasonsOfKills'
<1> USE DEF IInv, TypeOK, StepsAgree, ReasonsOfResults, ReasonsOfKills, EndWith, Killpg
<1>1. ASSUME NEW s \in Steps, Skip(s) \/ Block(s) \/ Launch(s) \/ SeeExit(s)
      PROVE  ReasonsOfResults' /\ ReasonsOfKills'
  BY <1>1 DEF Skip, Block, Launch, SeeExit
<1>2. ASSUME NEW s \in Steps, SeeShutdown(s) \/ SeeTimeout(s)
      PROVE  ReasonsOfResults' /\ ReasonsOfKills'
  BY <1>2 DEF SeeShutdown, SeeTimeout, StartKill
<1>3. ASSUME NEW s \in Steps, FinishKill(s) PROVE ReasonsOfResults' /\ ReasonsOfKills'
  BY <1>3 DEF FinishKill
<1>4. ASSUME NEW s \in Steps, Cancel(s) PROVE ReasonsOfResults' /\ ReasonsOfKills'
  BY <1>4 DEF Cancel, StartKill
<1>5. ASSUME NEW s \in Steps, ProcessEnds(s) \/ ProcessKilled(s)
      PROVE  ReasonsOfResults' /\ ReasonsOfKills'
  BY <1>5 DEF ProcessEnds, ProcessKilled
<1>6. ASSUME Terminator \/ Interrupt \/ Leave \/ Exit \/ UNCHANGED vars
      PROVE  ReasonsOfResults' /\ ReasonsOfKills'
  BY <1>6 DEF Terminator, NoticeShutdown, Terminate, Interrupt, Leave, Exit, vars
<1>7. QED
  BY <1>1, <1>2, <1>3, <1>4, <1>5, <1>6 DEF Next, StepGreenlet

(* Every result has the reason it states.                                     *)
THEOREM ResultsHaveReasons == Spec => []ReasonsOfResults
<1>1. Init => ReasonsOfResults /\ ReasonsOfKills
  BY DEF Init, ReasonsOfResults, ReasonsOfKills
<1>2. IInv /\ (ReasonsOfResults /\ ReasonsOfKills) /\ [Next]_vars
        => (ReasonsOfResults /\ ReasonsOfKills)'
  BY ReasonsStep
<1>3. QED
  BY <1>1, <1>2, IInvHolds, PTL DEF Spec

-------------------------------------------------------------------------------
(* The core of ShutdownEndsSteps: once GLOBAL_SHUTDOWN is set, somebody can   *)
(* go on while a step is under way, and whoever does gets nearer to its end;  *)
(* nothing takes a step back.                                                 *)
ToGo(place) ==
  CASE place = "new" -> 5 [] place = "blocked" -> 4 [] place = "running" -> 3
    [] place \in {"stopping", "expiring"} -> 2 [] place = "cancelling" -> 1
    [] place = "ended" -> 0

CanGoOn(s) ==
  \/ pc[s] = "blocked" /\ Cardinality(InBody) < Slots
  \/ pc[s] = "running" /\ shutdown
  \/ pc[s] \in Killing

ShutdownIsNotStuck ==
  shutdown /\ (\E s \in Steps : pc[s] \notin {"new", "ended"}) => \E s \in Steps : CanGoOn(s)

StepsGoForward ==
  [][\A s \in Steps : /\ ToGo(pc'[s]) <= ToGo(pc[s])
                      /\ StepGreenlet(s) \/ Cancel(s) => ToGo(pc'[s]) < ToGo(pc[s])]_vars

(* A build that shuts down gets on with it: the steps that wait for resources *)
(* get them from the others, and every move of a step is one of at most five. *)
THEOREM ShutdownGoesOn ==
  Slots > 0 => (Spec => []ShutdownIsNotStuck /\ StepsGoForward)
<1> SUFFICES ASSUME Slots > 0 PROVE Spec => []ShutdownIsNotStuck /\ StepsGoForward
  OBVIOUS
<1>1. IInv => ShutdownIsNotStuck
  <2> SUFFICES ASSUME IInv, shutdown, NEW s \in Steps, pc[s] \notin {"new", "ended"}
               PROVE  \E t \in Steps : CanGoOn(t)
    BY DEF ShutdownIsNotStuck
  <2>1. CASE InBody = {}
    <3>1. Cardinality(InBody) = 0 /\ pc[s] \notin Body
      BY <2>1, FS_EmptySet DEF InBody
    <3>2. pc[s] = "blocked"
      BY <3>1 DEF IInv, TypeOK
    <3>3. QED
      BY <3>1, <3>2, RunnerParameters DEF CanGoOn
  <2>2. CASE InBody # {}
    BY <2>2 DEF InBody, CanGoOn
  <2>3. QED
    BY <2>1, <2>2
<1>2. IInv /\ [Next]_vars =>
        [\A s \in Steps : /\ ToGo(pc'[s]) <= ToGo(pc[s])
                          /\ StepGreenlet(s) \/ Cancel(s) => ToGo(pc'[s]) < ToGo(pc[s])]_vars
  <2> SUFFICES ASSUME IInv, Next, NEW s \in Steps
               PROVE  /\ ToGo(pc'[s]) <= ToGo(pc[s])
                      /\ StepGreenlet(s) \/ Cancel(s) => ToGo(pc'[s]) < ToGo(pc[s])
    OBVIOUS
  <2>0. pc[s] \in PC /\ pc \in [Steps -> PC]
    BY DEF IInv, TypeOK
  <2>1. ASSUME StepGreenlet(s) \/ Cancel(s) PROVE ToGo(pc'[s]) < ToGo(pc[s])
    BY <2>0, <2>1 DEF StepGreenlet, Launch, SeeShutdown, SeeTimeout, SeeExit, FinishKill,
                Cancel, StartKill, EndWith, ToGo
  <2>2. ASSUME Skip(s) \/ Block(s) PROVE ToGo(pc'[s]) < ToGo(pc[s])
    BY <2>0, <2>2 DEF Skip, Block, EndWith, ToGo
  <2>3. CASE pc'[s] = pc[s]
    <3>1. ToGo(pc'[s]) = ToGo(pc[s]) /\ ToGo(pc[s]) \in Nat
      BY <2>0, <2>3 DEF ToGo
    <3>2. QED
      BY <2>1, <3>1
  <2>4. ASSUME pc'[s] # pc[s] PROVE Skip(s) \/ Block(s) \/ StepGreenlet(s) \/ Cancel(s)
    <3>1. ASSUME NEW t \in Steps, t # s, Skip(t) \/ Block(t) \/ StepGreenlet(t) \/ Cancel(t)
          PROVE  pc'[s] = pc[s]
      BY <2>0, <3>1 DEF Skip, Block, StepGreenlet, Launch, SeeShutdown, SeeTimeout, SeeExit,
                  FinishKill, Cancel, StartKill, EndWith
    <3>2. ASSUME \/ \E t \in Steps : ProcessEnds(t) \/ ProcessKilled(t)
                 \/ Terminator \/ Interrupt \/ Leave \/ Exit
          PROVE  pc' = pc
      BY <3>2 DEF ProcessEnds, ProcessKilled, Terminator, NoticeShutdown, Terminate,
                  Interrupt, Leave, Exit
    <3>3. QED
      BY <2>4, <3>1, <3>2 DEF Next
  <2>5. ToGo(pc'[s]) \in Nat /\ ToGo(pc[s]) \in Nat
    BY <2>0, GreenletKeepsIInv, ProcessKeepsIInv, EngineKeepsIInv DEF Next, IInv, TypeOK, ToGo
  <2>6. QED
    BY <2>1, <2>2, <2>3, <2>4, <2>5
<1>3. QED
  BY <1>1, <1>2, IInvHolds, PTL DEF Spec, StepsGoForward
===============================================================================
