------------------------------ MODULE LuciStream ------------------------------
(***************************************************************************)
(* The stream a luciexe shows its build on:                                 *)
(*   recipe_engine/internal/stream/luci.py   LUCIStreamEngine, LUCIStepStream *)
(*   recipe_engine/internal/stream/invariants.py  the calls it refuses       *)
(*                                                                          *)
(* The greenlets of the recipe change one Build message and set an event; a *)
(* sender greenlet waits for the event, sleeps a second, clears the event   *)
(* and sends the message as it then is.  gevent is not monkey-patched, so a *)
(* call of the stream never yields: an operation is one action, and the     *)
(* sender yields only where it waits and where it sleeps.                   *)
(***************************************************************************)
EXTENDS Integers, Sequences, FiniteSets

CONSTANTS
  Tokens,   \* the words stream names are made of
  Spaces,   \* the log name prefixes of steps, sequences; two steps may share one
  LogNames, \* normalized names of logs: "x" and the numbers after it, as in "x_0"
  Outcomes, \* the results of steps and of the build
  MaxSteps,  \* bound: steps of the build
  MaxChanges \* bound: log names taken and other changes of the build

Ended == {"SUCCESS", "FAILURE", "INFRA_FAILURE", "CANCELED"}

ASSUME StreamParameters ==
  /\ {"", "u", "build.proto"} \subseteq Tokens
  /\ Spaces \subseteq Seq(Tokens) \ {<<>>} /\ LogNames \subseteq [name : Tokens, numbers : Seq(Nat)]
  /\ Outcomes \subseteq Ended
  /\ MaxSteps \in Nat /\ MaxChanges \in Nat

VARIABLES
  build,   \* _build_proto: its steps, its status, and how often the rest changed
  streams, \* the LUCIStepStream of each step: "open", "closed" or "none"
  created, \* _CREATED_LOGS
  event,   \* _send_event is set
  die,     \* _sender_die
  pc,      \* where the sender greenlet is
  wire,    \* the last message sent on build.proto
  engine   \* the stream engine: "open", "closing" or "closed"

client == <<streams, created>>
sender == <<die, pc, wire>>
vars == <<build, client, event, sender, engine>>

LogName == [name : Tokens, numbers : Seq(Nat)]
Url  == [space : Seq(Tokens), log : LogName]
NoUrl == [space |-> <<>>, log |-> [name |-> "", numbers |-> <<>>]]
Step == [space : Spaces, status : {"SCHEDULED", "STARTED"} \cup Ended,
         logs : Seq(Url), merge : Url, over : BOOLEAN]
Build == [steps : Seq(Step), status : {"STARTED"} \cup Ended, notes : Nat]

\* The initial message is never sent: the reader starts from an empty build.
Fresh == [steps |-> <<>>, status |-> "STARTED", notes |-> 0]

Init ==
  /\ build = Fresh /\ wire = Fresh
  /\ streams = <<>> /\ created = {} /\ event = FALSE /\ die = FALSE
  /\ pc = "waiting" /\ engine = "open"

(***************************************************************************)
(* Steps.  The recipe runs until it has a result; the engine closes the     *)
(* stream after that, or without one if run_steps raised.                   *)
(***************************************************************************)

Running == engine = "open" /\ build.status = "STARTED"
Open(s) == Running /\ streams[s] = "open"
Send == event' = TRUE
Bounded == Cardinality(created) + build.notes < MaxChanges

SetStep(s, step) == build' = [build EXCEPT !.steps[s] = step]

NewStep(space, merge) ==
  [space |-> space, status |-> "SCHEDULED", logs |-> <<>>, merge |-> merge, over |-> FALSE]

AddStep(step, stream) ==
  /\ Running /\ Len(streams) < MaxSteps
  /\ build' = [build EXCEPT !.steps = Append(@, step)]
  /\ streams' = Append(streams, stream)
  /\ UNCHANGED <<sender, engine>>

NewStepStream(space) ==
  AddStep(NewStep(space, NoUrl), "open") /\ Send /\ UNCHANGED created

\* The build.proto stream of a sub-build.
MergeUrl(space) == [space |-> Append(space, "u"), log |-> [name |-> "build.proto", numbers |-> <<>>]]

\* Mutant of NewMergeStep.
NewMergeStepUnrecorded(space) ==
  /\ MergeUrl(space) \notin created
  /\ AddStep(NewStep(space, MergeUrl(space)), "open") /\ Send /\ UNCHANGED created

NewMergeStep(space) ==
  LET url == MergeUrl(space) IN
  /\ url \notin created
  /\ created' = created \cup {url}
  /\ AddStep(NewStep(space, url), "open") /\ Send

\* The ValueError of __attrs_post_init__: the step is in the build, it has no
\* stream, and nobody sets the event.
RefuseMergeStep(space) ==
  /\ MergeUrl(space) \in created
  /\ AddStep(NewStep(space, NoUrl), "none") /\ UNCHANGED <<event, created>>

\* Mutant of MarkRunning.
MarkRunningAgain(s) ==
  /\ Open(s)
  /\ SetStep(s, [build.steps[s] EXCEPT !.status = "STARTED"])
  /\ Send /\ UNCHANGED <<client, sender, engine>>

MarkRunning(s) ==
  /\ Open(s) /\ build.steps[s].status = "SCHEDULED"
  /\ SetStep(s, [build.steps[s] EXCEPT !.status = "STARTED"])
  /\ Send /\ UNCHANGED <<client, sender, engine>>

\* The k-th name the loop of _new_log_stream tries.
Flat(url, k) == IF k = 0 THEN url ELSE [url EXCEPT !.log.numbers = Append(@, k - 1)]
FirstFree(url, k) == Flat(url, k) \notin created /\ \A j \in 0..(k - 1) : Flat(url, j) \in created

NewLogStream(s, log) ==
  /\ Open(s) /\ Bounded
  /\ \E k \in 0..Cardinality(created) :
       LET url == Flat([space |-> build.steps[s].space, log |-> log], k) IN
       /\ FirstFree([space |-> build.steps[s].space, log |-> log], k)
       /\ created' = created \cup {url}
       /\ SetStep(s, [build.steps[s] EXCEPT !.logs = Append(@, url)])
  /\ Send /\ UNCHANGED <<streams, sender, engine>>

\* Mutant of Note.
NoteSilent(s) ==
  /\ Open(s) /\ Bounded
  /\ build' = [build EXCEPT !.notes = @ + 1]
  /\ UNCHANGED <<event, client, sender, engine>>

\* append_log, set_summary_markdown, set_build_property, set_step_tag.
Note(s) ==
  /\ Open(s) /\ Bounded
  /\ build' = [build EXCEPT !.notes = @ + 1]
  /\ Send /\ UNCHANGED <<client, sender, engine>>

\* Called once for a stream, by StepPresentation.finalize or _log_crash.
SetStepStatus(s, status) ==
  /\ Open(s) /\ build.steps[s].status \notin Ended
  /\ SetStep(s, [build.steps[s] EXCEPT !.status = status])
  /\ UNCHANGED <<client, event, sender, engine>>

\* Mutant of CloseStep.
CloseStepSilent(s) ==
  /\ Open(s) /\ build.steps[s].status # "SCHEDULED"
  /\ SetStep(s, [build.steps[s] EXCEPT !.status = IF @ = "STARTED" THEN "SUCCESS" ELSE @,
                                       !.over = TRUE])
  /\ streams' = [streams EXCEPT ![s] = "closed"]
  /\ UNCHANGED <<event, created, sender, engine>>

\* The engine closes no stream it neither marked running nor gave a status.
CloseStep(s) ==
  /\ Open(s) /\ build.steps[s].status # "SCHEDULED"
  /\ SetStep(s, [build.steps[s] EXCEPT !.status = IF @ = "STARTED" THEN "SUCCESS" ELSE @,
                                       !.over = TRUE])
  /\ streams' = [streams EXCEPT ![s] = "closed"]
  /\ Send /\ UNCHANGED <<created, sender, engine>>

WriteResult(status) ==
  /\ Running
  /\ build' = [build EXCEPT !.status = status]
  /\ Send /\ UNCHANGED <<client, sender, engine>>

\* Mutant of CloseEngine.
CloseEngineUnsignalled ==
  /\ engine = "open" /\ engine' = "closing" /\ die' = TRUE
  /\ UNCHANGED <<event, build, client, pc, wire>>

CloseEngine ==
  /\ engine = "open" /\ engine' = "closing" /\ die' = TRUE
  /\ Send /\ UNCHANGED <<build, client, pc, wire>>

\* _sender.join() returns however the sender ended.
Joined ==
  /\ engine = "closing" /\ pc \in {"done", "failed"} /\ engine' = "closed"
  /\ UNCHANGED <<build, client, event, sender>>

(***************************************************************************)
(* The sender.                                                              *)
(***************************************************************************)

Woken ==
  /\ pc = "waiting" /\ event /\ ~die /\ pc' = "sleeping"
  /\ UNCHANGED <<build, client, event, die, wire, engine>>

Publish ==
  /\ pc = "sleeping" /\ event' = FALSE /\ wire' = build
  /\ pc' = IF die THEN "done" ELSE "waiting"
  /\ UNCHANGED <<build, client, die, engine>>

\* Mutant of LastSend.
LastSendForgotten ==
  /\ pc = "waiting" /\ event /\ die /\ pc' = "done"
  /\ UNCHANGED <<build, client, event, die, wire, engine>>

LastSend ==
  /\ pc = "waiting" /\ event /\ die /\ wire' = build /\ pc' = "done"
  /\ UNCHANGED <<build, client, event, die, engine>>

\* A send raises: the greenlet dies, nobody looks at its exception.
SendFails ==
  /\ pc' = "failed" /\ UNCHANGED <<build, client, die, wire, engine>>
  /\ \/ pc = "sleeping" /\ event' = FALSE
     \/ pc = "waiting" /\ event /\ die /\ UNCHANGED event

StepCalls ==
  \/ \E x \in Spaces : NewStepStream(x) \/ NewMergeStep(x) \/ RefuseMergeStep(x)
  \/ \E s \in DOMAIN streams :
       \/ MarkRunning(s) \/ Note(s) \/ CloseStep(s)
       \/ \E l \in LogNames : NewLogStream(s, l)
       \/ \E o \in Outcomes : SetStepStatus(s, o)
EngineCalls == CloseEngine \/ Joined \/ \E o \in Outcomes : WriteResult(o)
SenderSteps == Woken \/ Publish \/ LastSend \/ SendFails

Next == StepCalls \/ EngineCalls \/ SenderSteps
Spec == Init /\ [][Next]_vars

\* The hub runs a greenlet whose event is set or whose sleep is over, and
\* returns from a join of a greenlet that ended.
Fairness == WF_vars(SenderSteps) /\ WF_vars(Joined)
LiveSpec == Spec /\ Fairness

(***************************************************************************)
(* Properties.                                                              *)
(***************************************************************************)

TypeOK ==
  /\ build \in Build /\ wire \in Build
  /\ streams \in Seq({"open", "closed", "none"}) /\ Len(streams) = Len(build.steps)
  /\ created \subseteq Url
  /\ event \in BOOLEAN /\ die \in BOOLEAN
  /\ pc \in {"waiting", "sleeping", "done", "failed"}
  /\ engine \in {"open", "closing", "closed"}

\* No log of the build and no build.proto stream of a sub-build has the name of
\* another one, whatever steps share a prefix and whatever the recipe calls its
\* logs ("need to deduplicate log streams as logdog sees them", luci.py:168-169).
LogsAreDistinct ==
  \A s, t \in DOMAIN build.steps :
    LET S == build.steps[s]  T == build.steps[t] IN
    /\ \A i \in DOMAIN S.logs, j \in DOMAIN T.logs : S.logs[i] = T.logs[j] => s = t /\ i = j
    /\ \A i \in DOMAIN S.logs : S.logs[i] # T.merge
    /\ S.merge = T.merge => s = t \/ S.merge = NoUrl

\* Up to its status, which close() announces.
Shown(s) ==
  /\ s \in DOMAIN wire.steps
  /\ \/ wire.steps[s] = build.steps[s]
     \/ /\ streams[s] = "open"
        /\ wire.steps[s] = [build.steps[s] EXCEPT !.status = wire.steps[s].status]

\* The sender never goes to sleep on a change: while it waits and the event is
\* clear, the reader has seen all of the build, except a status that was set on
\* a step not closed yet and a step whose stream was refused.
NothingLost ==
  pc = "waiting" /\ ~event =>
    /\ wire.status = build.status /\ wire.notes = build.notes
    /\ \A s \in DOMAIN streams : streams[s] # "none" => Shown(s)

Rank(status) == CASE status = "SCHEDULED" -> 0 [] status = "STARTED" -> 1 [] OTHER -> 2

StepAhead(old, new) ==
  /\ new.space = old.space /\ new.merge = old.merge
  /\ \A i \in DOMAIN old.logs : i \in DOMAIN new.logs /\ new.logs[i] = old.logs[i]
  /\ old.status # "SCHEDULED" => new.status # "SCHEDULED"
  /\ old.status \in Ended => new.status = old.status
  /\ old.over => new = old

Ahead(old, new) ==
  /\ old.status # "STARTED" => new.status = old.status
  /\ old.notes <= new.notes
  /\ \A s \in DOMAIN old.steps :
       s \in DOMAIN new.steps /\ StepAhead(old.steps[s], new.steps[s])

\* A later message takes nothing back: it has the steps of an earlier one with
\* their logs, and no step or build that ended runs again or ends otherwise.
NeverBackwards == [][Ahead(wire, wire')]_vars

\* The stream is the register the engine expects (luci.py:451, "make sure all
\* build updates are sent to logdog"; current_build_proto, luci.py:501-507).
Register == INSTANCE BuildRegister WITH
  current <- build, published <- wire,
  status <- IF engine = "closed" THEN "closed" ELSE IF pc = "failed" THEN "broken" ELSE "open"
RegisterSpec == Register!Spec

\* A step that is over is shown to the reader, unless a send failed.
OverIsShown ==
  \A s \in 1..MaxSteps :
    (s \in DOMAIN streams /\ streams[s] = "closed")
      ~> (pc = "failed" \/ (s \in DOMAIN wire.steps /\ wire.steps[s].over))

\* close() returns.
CloseReturns == engine = "closing" ~> engine = "closed"

\* "One last send before exiting to make sure all build updates are sent to
\* logdog" (luci.py:451-452): a send that raised before ended the greenlet.
LastSendIsMade == engine = "closed" => wire = build
=============================================================================
