------------------------------ MODULE StepRunner ------------------------------
(***************************************************************************)
(* How a step's subprocess is started, waited for and killed, and how the   *)
(* whole engine is interrupted:                                             *)
(*   recipe_engine/internal/engine.py           RecipeEngine.run_step       *)
(*   recipe_engine/internal/step_runner/subproc.py  SubprocessStepRunner    *)
(*   recipe_engine/internal/global_shutdown.py  install_signal_handlers     *)
(* on POSIX, where a process is killed with its group.                      *)
(*                                                                          *)
(* Every step runs in a greenlet.  An action is the code between two points *)
(* where its greenlet blocks: ResourceWaiter.wait_for, the gevent.wait of   *)
(* _wait_proc and the gevent.wait of _kill.  When gevent.wait returns, the  *)
(* code looks at the events again, and so does the action.                  *)
(***************************************************************************)
EXTENDS Integers, FiniteSets

CONSTANTS
  Steps,       \* the steps the recipe may run, at the same time or not
  Slots,       \* how many of them the machine has resources for (wait_for)
  HasTimeout,  \* the steps that have a timeout
  MaxCancels   \* bound: how often the greenlet of a step is cancelled

ASSUME RunnerParameters ==
  /\ Slots \in Nat /\ MaxCancels \in Nat
  /\ HasTimeout \subseteq Steps
  /\ IsFiniteSet(Steps)

VARIABLES
  shutdown,    \* GLOBAL_SHUTDOWN
  quit,        \* GLOBAL_QUITQUITQUIT
  unkilled,    \* UNKILLED_PROC_GROUPS: the steps whose group is in it
  terminator,  \* where _terminator_greenlet is
  engine,      \* "running", "leaving" (the finally of install_signal_handlers), "gone"
  pc,          \* where the greenlet of each step is
  result,      \* what the ExecutionResult of each step says
  cancels,     \* how often the greenlet of each step has been cancelled
  proc,        \* the subprocess: "none", "alive", "own" (ended by itself), "killed"
  hasGroup,    \* _mk_proc found out the group id of the process
  signalled    \* the strongest signal sent to the group: "none", "TERM", "KILL"

globals == <<shutdown, quit, terminator, engine>>
vars == <<shutdown, quit, unkilled, terminator, engine, pc, result, cancels, proc,
          hasGroup, signalled>>

(* "blocked"    in wait_for                                                 *)
(* "running"    in the gevent.wait of _wait_proc                            *)
(* "stopping"   in _kill, because of GLOBAL_SHUTDOWN                        *)
(* "expiring"   in _kill, because the timeout expired                       *)
(* "cancelling" in _kill, called by the handler of GreenletExit             *)
Killing == {"stopping", "expiring", "cancelling"}
Body    == {"running"} \cup Killing
PC      == {"new", "blocked", "ended"} \cup Body
Results == {"none", "finished", "timeout", "cancelled", "exception"}

(* The steps that have got their resources. *)
InBody == {s \in Steps : pc[s] \in Body}

Init ==
  /\ shutdown = FALSE /\ quit = FALSE /\ unkilled = {}
  /\ terminator = "waiting" /\ engine = "running"
  /\ pc = [s \in Steps |-> "new"]
  /\ result = [s \in Steps |-> "none"]
  /\ cancels = [s \in Steps |-> 0]
  /\ proc = [s \in Steps |-> "none"]
  /\ hasGroup = [s \in Steps |-> FALSE]
  /\ signalled = [s \in Steps |-> "none"]

-------------------------------------------------------------------------------
(* The step leaves run_step, and wait_for's finally gives its resources back. *)
EndWith(s, r) ==
  /\ pc' = [pc EXCEPT ![s] = "ended"]
  /\ result' = [result EXCEPT ![s] = r]

(* os.killpg; SIGTERM after SIGKILL changes nothing. *)
Killpg(ss, sig) ==
  signalled' = [s \in Steps |->
                  IF s \in ss /\ signalled[s] # "KILL" THEN sig ELSE signalled[s]]

(* run_step looks at GLOBAL_SHUTDOWN before it asks for resources. *)
Skip(s) ==
  /\ engine = "running" /\ pc[s] = "new" /\ shutdown
  /\ EndWith(s, "cancelled")
  /\ UNCHANGED <<globals, unkilled, cancels, proc, hasGroup, signalled>>

Block(s) ==
  /\ engine = "running" /\ pc[s] = "new" /\ ~shutdown
  /\ Cardinality(InBody) >= Slots
  /\ pc' = [pc EXCEPT ![s] = "blocked"]
  /\ UNCHANGED <<globals, unkilled, result, cancels, proc, hasGroup, signalled>>

(* _mk_proc starts the process and records its group, unless it has already   *)
(* ended when getpgid is called.  A step that had to wait for resources does   *)
(* not look at GLOBAL_SHUTDOWN again.                                          *)
Launch(s) ==
  /\ \/ engine = "running" /\ pc[s] = "new" /\ ~shutdown
     \/ pc[s] = "blocked"
  /\ Cardinality(InBody) < Slots
  /\ pc' = [pc EXCEPT ![s] = "running"]
  /\ \E found \in BOOLEAN :
       /\ hasGroup' = [hasGroup EXCEPT ![s] = found]
       /\ proc' = [proc EXCEPT ![s] = IF found THEN "alive" ELSE "own"]
       /\ unkilled' = IF found THEN unkilled \cup {s} ELSE unkilled
  /\ UNCHANGED <<globals, result, cancels, signalled>>

(* _kill sends SIGTERM to the group and waits; `killpg(%d)` of a group that   *)
(* is None raises a TypeError, which _run_step catches.                       *)
StartKill(s, place) ==
  /\ IF hasGroup[s]
       THEN /\ Killpg({s}, "TERM")
            /\ pc' = [pc EXCEPT ![s] = place]
            /\ UNCHANGED result
       ELSE /\ EndWith(s, "exception")
            /\ UNCHANGED signalled
  /\ UNCHANGED <<globals, unkilled, proc, hasGroup>>

(* The three ways in which _wait_proc goes on. *)
SeeShutdown(s) ==
  /\ pc[s] = "running" /\ shutdown
  /\ StartKill(s, "stopping")
  /\ UNCHANGED cancels

(* GLOBAL_SHUTDOWN is looked at after the process. *)
SeeExitFirst(s) ==
  /\ pc[s] = "running" /\ proc[s] \in {"own", "killed"}
  /\ EndWith(s, "finished")
  /\ UNCHANGED <<globals, unkilled, cancels, proc, hasGroup, signalled>>

(* The rest of the group is left alone, and stays in UNKILLED_PROC_GROUPS. *)
SeeExit(s) ==
  /\ pc[s] = "running" /\ ~shutdown
  /\ proc[s] \in {"own", "killed"}
  /\ EndWith(s, "finished")
  /\ UNCHANGED <<globals, unkilled, cancels, proc, hasGroup, signalled>>

SeeTimeout(s) ==
  /\ pc[s] = "running" /\ ~shutdown /\ s \in HasTimeout
  /\ proc[s] = "alive"
  /\ StartKill(s, "expiring")
  /\ UNCHANGED cancels

FinishKillOnlyIfAlive(s) ==
  /\ pc[s] \in Killing
  /\ IF proc[s] = "alive" THEN Killpg({s}, "KILL") ELSE UNCHANGED signalled
  /\ unkilled' = unkilled \ {s}
  /\ EndWith(s, IF pc[s] = "expiring" THEN "timeout" ELSE "cancelled")
  /\ UNCHANGED <<globals, cancels, proc, hasGroup>>


(* The wait of _kill is over, because the process ended, GLOBAL_QUITQUITQUIT  *)
(* is set or the grace period expired (so always, sooner or later): SIGKILL   *)
(* for the whole group.                                                       *)
FinishKill(s) ==
  /\ pc[s] \in Killing
  /\ Killpg({s}, "KILL")
  /\ unkilled' = unkilled \ {s}
  /\ EndWith(s, IF pc[s] = "expiring" THEN "timeout" ELSE "cancelled")
  /\ UNCHANGED <<globals, cancels, proc, hasGroup>>

CancelDoesNotKill(s) ==
  /\ pc[s] \in Body \cup {"blocked"} /\ cancels[s] < MaxCancels
  /\ cancels' = [cancels EXCEPT ![s] = @ + 1]
  /\ EndWith(s, "cancelled")
  /\ UNCHANGED <<globals, unkilled, proc, hasGroup, signalled>>

(* Future.cancel raises GreenletExit where the greenlet blocks.  _wait_proc   *)
(* handles it with _kill, in its own wait and in a _kill inside its `try`;    *)
(* but in the _kill of the handler itself it escapes, and run_step ends the   *)
(* step without SIGKILL.                                                      *)
Cancel(s) ==
  /\ cancels[s] < MaxCancels
  /\ cancels' = [cancels EXCEPT ![s] = @ + 1]
  /\ \/ /\ pc[s] \in {"running", "stopping", "expiring"}
        /\ StartKill(s, "cancelling")
     \/ /\ pc[s] \in {"blocked", "cancelling"}
        /\ EndWith(s, "cancelled")
        /\ UNCHANGED <<globals, unkilled, proc, hasGroup, signalled>>

-------------------------------------------------------------------------------
(* The process ends, by itself or because it was sent SIGKILL.  It may ignore *)
(* SIGTERM.                                                                   *)
ProcessEnds(s) ==
  /\ proc[s] = "alive" /\ signalled[s] # "KILL"
  /\ proc' = [proc EXCEPT ![s] = "own"]
  /\ UNCHANGED <<globals, unkilled, pc, result, cancels, hasGroup, signalled>>

ProcessKilled(s) ==
  /\ proc[s] = "alive" /\ signalled[s] = "KILL"
  /\ proc' = [proc EXCEPT ![s] = "killed"]
  /\ UNCHANGED <<globals, unkilled, pc, result, cancels, hasGroup, signalled>>

(* The handler of SIGTERM and SIGINT: a second signal does nothing more. *)
Interrupt ==
  /\ engine = "running" /\ ~shutdown
  /\ shutdown' = TRUE
  /\ UNCHANGED <<quit, unkilled, terminator, engine, pc, result, cancels, proc,
                 hasGroup, signalled>>

NoticeShutdown ==
  /\ terminator = "waiting" /\ shutdown
  /\ terminator' = "grace"
  /\ UNCHANGED <<shutdown, quit, unkilled, engine, pc, result, cancels, proc,
                 hasGroup, signalled>>

(* The grace period of the engine expired, or the engine is leaving. *)
Terminate ==
  /\ terminator = "grace"
  /\ terminator' = "done"
  /\ quit' = TRUE
  /\ Killpg(unkilled, "KILL")
  /\ UNCHANGED <<shutdown, unkilled, engine, pc, result, cancels, proc, hasGroup>>

LeaveDoesNotShutDown ==
  /\ engine = "running" /\ \A s \in Steps : pc[s] \in {"new", "ended"}
  /\ engine' = "leaving"
  /\ quit' = TRUE
  /\ UNCHANGED <<shutdown, unkilled, terminator, pc, result, cancels, proc,
                 hasGroup, signalled>>

(* run_steps has returned: RecipeEngine waits for the greenlets of its root   *)
(* step.  The finally of install_signal_handlers sets both events.            *)
Leave ==
  /\ engine = "running" /\ \A s \in Steps : pc[s] \in {"new", "ended"}
  /\ engine' = "leaving"
  /\ shutdown' = TRUE /\ quit' = TRUE
  /\ UNCHANGED <<unkilled, terminator, pc, result, cancels, proc, hasGroup, signalled>>

(* terminator_greenlet.get() *)
Exit ==
  /\ engine = "leaving" /\ terminator = "done"
  /\ engine' = "gone"
  /\ UNCHANGED <<shutdown, quit, unkilled, terminator, pc, result, cancels, proc,
                 hasGroup, signalled>>

StepGreenlet(s) ==
  Launch(s) \/ SeeShutdown(s) \/ SeeExit(s) \/ SeeTimeout(s) \/ FinishKill(s)

Terminator == NoticeShutdown \/ Terminate

Next ==
  \/ \E s \in Steps : \/ Skip(s) \/ Block(s) \/ StepGreenlet(s) \/ Cancel(s)
                      \/ ProcessEnds(s) \/ ProcessKilled(s)
  \/ Terminator
  \/ Interrupt \/ Leave \/ Exit

Spec == Init /\ [][Next]_vars

(* The hub runs every greenlet that can go on, and timers fire.  Processes    *)
(* need not end, the recipe need not start its steps, and nobody need         *)
(* interrupt it.                                                              *)
Fairness ==
  /\ \A s \in Steps : /\ WF_vars(pc[s] # "new" /\ StepGreenlet(s))
                      /\ WF_vars(ProcessKilled(s))
  /\ WF_vars(Terminator) /\ WF_vars(Exit)

LiveSpec == Spec /\ Fairness

-------------------------------------------------------------------------------
(* The types; UNKILLED_PROC_GROUPS never holds a None.                         *)
TypeOK ==
  /\ shutdown \in BOOLEAN /\ quit \in BOOLEAN
  /\ unkilled \subseteq {s \in Steps : hasGroup[s]}
  /\ terminator \in {"waiting", "grace", "done"}
  /\ engine \in {"running", "leaving", "gone"}
  /\ pc \in [Steps -> PC]
  /\ result \in [Steps -> Results]
  /\ cancels \in [Steps -> Nat]
  /\ proc \in [Steps -> {"none", "alive", "own", "killed"}]
  /\ hasGroup \in [Steps -> BOOLEAN]
  /\ signalled \in [Steps -> {"none", "TERM", "KILL"}]

(* When the engine has gone, every process group it knows of has been sent    *)
(* SIGKILL: by its step or by the terminator, however the two interleave,     *)
(* unless the same step was cancelled twice ("any dangling groups are fair    *)
(* game", global_shutdown.py:146-147).                                        *)
NoStrayGroups ==
  engine = "gone" =>
    \A s \in Steps : hasGroup[s] /\ cancels[s] < 2 => signalled[s] = "KILL"

(* A group is in UNKILLED_PROC_GROUPS until it is sent SIGKILL ("process      *)
(* groups which haven't been SIGKILL'd", global_shutdown.py:58-59), and once  *)
(* the terminator has been through, only a step that will do so itself has a  *)
(* group that has not.                                                        *)
GroupsAreTracked ==
  \A s \in Steps : hasGroup[s] /\ signalled[s] # "KILL" =>
    /\ s \in unkilled
    /\ terminator = "done" /\ cancels[s] < 2 => pc[s] \in Body

(* A step that ended without being cancelled or timing out ended by itself:   *)
(* no process that the engine sent a signal is reported as finished, whatever *)
(* the terminator kills while the step's greenlet waits to run.               *)
FinishedByItself ==
  \A s \in Steps : result[s] = "finished" => proc[s] = "own"

(* The resources of a step are not given back while its process may go on:    *)
(* outside wait_for it has ended or been sent SIGKILL.                        *)
ResourcesCoverProcesses ==
  \A s \in Steps : proc[s] = "alive" /\ cancels[s] < 2 =>
    pc[s] \in Body \/ signalled[s] = "KILL"


(* Leaving install_signal_handlers never hangs on the terminator greenlet,    *)
(* and no process outlives it.                                                *)
LeavingEnds ==
  engine = "leaving" ~>
    /\ engine = "gone"
    /\ \A s \in Steps : cancels[s] < 2 => proc[s] # "alive"

(* "no new steps will be able to launch" once GLOBAL_SHUTDOWN is set          *)
(* (global_shutdown.py:30-32).                                                *)
NoLaunchAfterShutdown ==
  [][shutdown => \A s \in Steps : proc[s] = "none" => proc'[s] = "none"]_vars
===============================================================================
