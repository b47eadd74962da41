--------------------------- MODULE AttemptLifecycle ---------------------------
(***************************************************************************)
(* How a stage attempt is kept alive and ended:                             *)
(*   turboci/utils/client/lifecycle.py  execute_stage, AttemptLifecycleManager *)
(*   turboci/utils/client/state.py      State, the client's view of the attempt *)
(*   turboci/utils/client/clients.py    Sync._execute, the retries           *)
(*   turboci/utils/client/errors.py     which errors are retried             *)
(*                                                                          *)
(* Two threads, the worker and the heartbeater, share the client.  An action *)
(* is what a thread does between two points where the other one can see the  *)
(* difference: an assignment, a call of a threading.Event, a section under   *)
(* State._state_mu, a request.  The orchestrator is external: it answers,    *)
(* refuses or loses requests, and cancels or gives up the attempt.           *)
(***************************************************************************)
EXTENDS Integers

CONSTANTS
  BodyRequests,    \* what the body of the `with` writes
  HeartbeatStates, \* the states for which the execution policy wants heartbeats
  MaxErrors,       \* max_consecutive_unexpected_errors
  MaxRetries,      \* Retry.max_retries
  MaxVersion       \* bound: how often the orchestrator changes the attempt

Final    == {"COMPLETE", "INCOMPLETE"}
Attempt  == {"PENDING", "SCHEDULED", "RUNNING", "CANCELLING", "TEARING_DOWN"} \cup Final

ASSUME LifecycleParameters ==
  /\ BodyRequests \subseteq {"WRITE", "RUNNING", "TEARING_DOWN"} \cup Final
  /\ HeartbeatStates \subseteq Attempt \ (Final \cup {"PENDING"})
  /\ MaxErrors \in Nat \ {0} /\ MaxRetries \in Nat /\ MaxVersion \in Nat \ {0}

Threads == {"worker", "heartbeater"}
None == -2            \* Python's None
MinusInfinity == -1   \* float("-inf")

VARIABLES
  srv,        \* the attempt: its state, its version, and heartbeat_by (0 if unset)
  latest,     \* State._latest_attempt_state; version 0 before the first response
  mu,         \* State._state_mu: "free" or the thread that holds it
  registered, \* _on_state_change is among the callbacks of the client
  observed,   \* _observed_heartbeat_by
  target,     \* _target_heartbeat_by: None, or the heartbeat_by it was computed from
  due,        \* the time that target stands for has passed
  event,      \* _target_heartbeat_by_changed is set
  errors,     \* opts.consecutive_unexpected_errors
  pc,         \* where each thread is
  rpc,        \* the request each thread is making
  read,       \* target_time, which the heartbeater waits for
  failing,    \* the worker leaves the `with` by an exception
  streak,     \* history: unexpected errors of the heartbeater since its last success
  rested      \* history: min_delay_sec has passed since the last heartbeat was sent

client == <<latest, mu, registered, observed, target, due, event>>
history == <<streak, rested>>
vars == <<srv, client, errors, pc, rpc, read, failing, history>>

Request == {"none", "WRITE", "HEARTBEAT", "SCHEDULED", "RUNNING", "TEARING_DOWN"} \cup Final
State   == [st : Attempt \cup {"UNKNOWN"}, ver : 0..MaxVersion, hb : 0..MaxVersion]
Unknown == [st |-> "UNKNOWN", ver |-> 0, hb |-> 0]

(* "sent"   the request is on its way, "answered" its response is            *)
(* "notify", "assign", "signal"  the thread is in the callback, holding mu   *)
(* "ok", or an exception: "retryable", "permanent", "unexpected"             *)
Callback == {"notify", "assign", "signal"}
Failures == {"retryable", "permanent", "unexpected"}
Phase    == {"idle", "sent", "answered", "ok"} \cup Callback \cup Failures
Idle     == [ph |-> "idle", req |-> "none", tries |-> 0, rsp |-> Unknown]

Sent(req) == [ph |-> "sent", req |-> req, tries |-> 0, rsp |-> Unknown]

Unregistering == {"discard", "disarm", "wake"}
WorkerPC == {"claim", "enter", "spawn", "body", "join", "leave", "final", "done", "failed"}
              \cup Unregistering
HeartbeaterPC == {"off", "top", "read", "wait", "ping", "ended"} \cup Unregistering

Init ==
  /\ srv = [st |-> "PENDING", ver |-> 1, hb |-> 0]
  /\ latest = Unknown /\ mu = "free" /\ registered = FALSE
  /\ observed = MinusInfinity /\ target = MinusInfinity /\ due = TRUE /\ event = FALSE
  /\ errors = 0 /\ failing = FALSE
  /\ pc = [t \in Threads |-> IF t = "worker" THEN "claim" ELSE "off"]
  /\ \E to \in {"SCHEDULED", "RUNNING"} :
       rpc = [t \in Threads |-> IF t = "worker" THEN Sent(to) ELSE Idle]
  /\ read = None /\ streak = 0 /\ rested = TRUE

Goto(t, place) == pc' = [pc EXCEPT ![t] = place]
Phased(t, ph)  == rpc' = [rpc EXCEPT ![t].ph = ph]

-------------------------------------------------------------------------------
(* The orchestrator.  A request may be a retry of one it has served.           *)

Legal(from, to) ==
  CASE to = "SCHEDULED"      -> from \in {"PENDING", "SCHEDULED"}
    [] to = "RUNNING"         -> from \in {"PENDING", "SCHEDULED", "RUNNING"}
    [] to = "TEARING_DOWN"    -> from \in {"RUNNING", "CANCELLING"}
    [] to \in Final           -> from \notin Final
    [] to = "HEARTBEAT"       -> from \notin Final
    [] OTHER                  -> to = "WRITE"

(* The attempt after a write of its executor, which counts as a heartbeat and   *)
(* may be a transition; "WRITE" is a write of other nodes only.                *)
Written(req) ==
  LET st == IF req = "HEARTBEAT" THEN srv.st ELSE req
  IN  IF req = "WRITE" THEN srv ELSE
      [st |-> st, ver |-> srv.ver + 1,
       hb |-> IF \/ st \in HeartbeatStates
                 \/ st = "CANCELLING" /\ srv.hb # 0
                THEN srv.ver + 1 ELSE 0]

Answer(t) ==
  /\ rpc[t].ph = "sent" /\ srv.ver < MaxVersion
  /\ Legal(srv.st, rpc[t].req)
  /\ srv' = Written(rpc[t].req)
  /\ rpc' = [rpc EXCEPT ![t].ph = "answered", ![t].rsp = srv']
  /\ UNCHANGED <<client, errors, pc, read, failing, history>>

Refuse(t) ==
  /\ rpc[t].ph = "sent"
  /\ Phased(t, "permanent")
  /\ UNCHANGED <<srv, client, errors, pc, read, failing, history>>

(* The stage is cancelled, or a timeout ends the attempt.                      *)
OrchestratorActs ==
  /\ srv.ver < MaxVersion
  /\ \/ /\ srv.st \in {"SCHEDULED", "RUNNING"}
        /\ srv' = [srv EXCEPT !.st = "CANCELLING", !.ver = @ + 1]
     \/ /\ srv.st \notin Final
        /\ srv' = [st |-> "INCOMPLETE", ver |-> srv.ver + 1, hb |-> 0]
  /\ UNCHANGED <<client, errors, pc, rpc, read, failing, history>>

TimePasses ==
  /\ ~due \/ ~rested
  /\ due' = TRUE /\ rested' = TRUE
  /\ UNCHANGED <<srv, latest, mu, registered, observed, target, event, errors, pc, rpc,
                 read, failing, streak>>

-------------------------------------------------------------------------------
(* Sync._execute: the request is retried while the error is a retryable one.   *)

Fail(t) ==
  /\ rpc[t].ph \in {"sent", "answered"}
  /\ IF rpc[t].tries < MaxRetries
       THEN rpc' = [rpc EXCEPT ![t].ph = "sent", ![t].tries = @ + 1]
       ELSE Phased(t, "retryable")
  /\ UNCHANGED <<srv, client, errors, pc, read, failing, history>>

(* Anything but an RPCError, from the transport or from another hook.          *)
Break(t) ==
  /\ rpc[t].ph \in {"sent", "answered"}
  /\ Phased(t, "unexpected")
  /\ UNCHANGED <<srv, client, errors, pc, read, failing, history>>

(* _process_response_current_attempt_state, up to its call of the callbacks.   *)
IsNewer(rsp) == rsp.ver > latest.ver

ObserveTransitions(t) ==
  /\ rpc[t].ph = "answered" /\ mu = "free"
  /\ latest' = IF IsNewer(rpc[t].rsp) THEN rpc[t].rsp ELSE latest
  /\ IF IsNewer(rpc[t].rsp) /\ registered /\ rpc[t].rsp.st # latest.st
       THEN mu' = t /\ Phased(t, "notify")
       ELSE Phased(t, "ok") /\ UNCHANGED mu
  /\ UNCHANGED <<srv, registered, observed, target, due, event, errors, pc, read, failing,
                 history>>

Observe(t) ==
  /\ rpc[t].ph = "answered" /\ mu = "free"
  /\ latest' = IF IsNewer(rpc[t].rsp) THEN rpc[t].rsp ELSE latest
  /\ IF IsNewer(rpc[t].rsp) /\ registered
       THEN mu' = t /\ Phased(t, "notify")
       ELSE Phased(t, "ok") /\ UNCHANGED mu
  /\ UNCHANGED <<srv, registered, observed, target, due, event, errors, pc, read, failing,
                 history>>

(* LifecycleManagerCore._on_state_change, in three steps.                      *)
CheckTarget(t) ==
  /\ rpc[t].ph = "notify"
  /\ IF target # None /\ rpc[t].rsp.hb > observed
       THEN /\ observed' = rpc[t].rsp.hb
            /\ Phased(t, "assign")
            /\ UNCHANGED mu
       ELSE /\ Phased(t, "ok")
            /\ mu' = "free"
            /\ UNCHANGED observed
  /\ UNCHANGED <<srv, latest, registered, target, due, event, errors, pc, read, failing,
                 history>>

(* calculate_delay is at least min_delay_sec, or None without a heartbeat_by.  *)
SetTarget(t) ==
  /\ rpc[t].ph = "assign"
  /\ target' = IF rpc[t].rsp.hb = 0 THEN None ELSE rpc[t].rsp.hb
  /\ due' = FALSE
  /\ Phased(t, "signal")
  /\ UNCHANGED <<srv, latest, mu, registered, observed, event, errors, pc, read, failing,
                 history>>

SignalTargetNot(t) ==
  /\ rpc[t].ph = "signal"
  /\ mu' = "free"
  /\ Phased(t, "ok")
  /\ UNCHANGED <<srv, latest, registered, observed, target, due, event, errors, pc, read,
                 failing, history>>

SignalTarget(t) ==
  /\ rpc[t].ph = "signal"
  /\ event' = TRUE /\ mu' = "free"
  /\ Phased(t, "ok")
  /\ UNCHANGED <<srv, latest, registered, observed, target, due, errors, pc, read, failing,
                 history>>

(* LifecycleManagerCore._unregister, called by either thread, in three steps.  *)
DiscardUnlocked(t) ==
  /\ pc[t] = "discard"
  /\ registered' = FALSE
  /\ Goto(t, "disarm")
  /\ UNCHANGED <<srv, latest, mu, observed, target, due, event, errors, rpc, read, failing,
                 history>>

Discard(t) ==
  /\ pc[t] = "discard" /\ mu = "free"
  /\ registered' = FALSE
  /\ Goto(t, "disarm")
  /\ UNCHANGED <<srv, latest, mu, observed, target, due, event, errors, rpc, read, failing,
                 history>>

DisarmNot(t) ==
  /\ pc[t] = "disarm"
  /\ Goto(t, "wake")
  /\ UNCHANGED <<srv, latest, mu, registered, observed, target, due, event, errors, rpc,
                 read, failing, history>>

Disarm(t) ==
  /\ pc[t] = "disarm"
  /\ target' = None
  /\ Goto(t, "wake")
  /\ UNCHANGED <<srv, latest, mu, registered, observed, due, event, errors, rpc, read,
                 failing, history>>

Wake(t) ==
  /\ pc[t] = "wake"
  /\ event' = TRUE
  /\ Goto(t, IF t = "worker" THEN "join" ELSE "top")
  /\ UNCHANGED <<srv, latest, mu, registered, observed, target, due, errors, rpc, read,
                 failing, history>>

-------------------------------------------------------------------------------
(* The heartbeater, AttemptLifecycleManager._loop.                             *)
H == "heartbeater"

ClearNot ==
  /\ pc[H] = "top"
  /\ Goto(H, "read")
  /\ UNCHANGED <<srv, client, errors, rpc, read, failing, history>>

Clear ==
  /\ pc[H] = "top"
  /\ event' = FALSE
  /\ Goto(H, "read")
  /\ UNCHANGED <<srv, latest, mu, registered, observed, target, due, errors, rpc, read,
                 failing, history>>

ReadTarget ==
  /\ pc[H] = "read"
  /\ read' = target
  /\ Goto(H, IF target = None THEN "ended" ELSE "wait")
  /\ UNCHANGED <<srv, client, errors, rpc, failing, history>>

EventFired ==
  /\ pc[H] = "wait" /\ event
  /\ Goto(H, "top")
  /\ UNCHANGED <<srv, client, errors, rpc, read, failing, history>>

(* wait() times out; a time that is not the target any more is not tracked.    *)
WaitTimesOut ==
  /\ pc[H] = "wait" /\ ~event /\ (due \/ read # target)
  /\ Goto(H, "ping")
  /\ rpc' = [rpc EXCEPT ![H] = Sent("HEARTBEAT")]
  /\ rested' = FALSE
  /\ UNCHANGED <<srv, client, errors, read, failing, streak>>

Pinged ==
  /\ pc[H] = "ping" /\ rpc[H].ph = "ok"
  /\ Goto(H, "top")
  /\ rpc' = [rpc EXCEPT ![H] = Idle]
  /\ streak' = 0
  /\ UNCHANGED <<srv, client, errors, read, failing, rested>>

TooManyErrors(n) == n >= MaxErrors

(* _handle_loop_error.                                                         *)
HandleLoopError ==
  /\ pc[H] = "ping" /\ rpc[H].ph \in Failures
  /\ LET unexpected == rpc[H].ph = "unexpected"
         n == IF unexpected THEN errors + 1 ELSE 0
         stop == rpc[H].ph = "permanent" \/ (unexpected /\ TooManyErrors(n))
     IN  /\ errors' = n
         /\ Goto(H, IF stop THEN "discard" ELSE "top")
         /\ streak' = IF unexpected THEN streak + 1 ELSE 0
  /\ rpc' = [rpc EXCEPT ![H] = Idle]
  /\ UNCHANGED <<srv, client, read, failing, rested>>

-------------------------------------------------------------------------------
(* The worker.                                                                 *)
W == "worker"

(* execute_stage returns a manager, or raises.                                 *)
Claimed ==
  /\ pc[W] = "claim" /\ rpc[W].ph \in {"ok"} \cup Failures
  /\ Goto(W, IF rpc[W].ph = "ok" THEN "enter" ELSE "failed")
  /\ rpc' = [rpc EXCEPT ![W] = Idle]
  /\ UNCHANGED <<srv, client, errors, read, failing, history>>

(* __enter__: _register, which runs the callback at once.                      *)
Register ==
  /\ pc[W] = "enter" /\ mu = "free"
  /\ registered' = TRUE
  /\ Goto(W, "spawn")
  /\ IF latest.ver > 0
       THEN /\ mu' = W
            /\ rpc' = [rpc EXCEPT ![W].ph = "notify", ![W].rsp = latest]
       ELSE Phased(W, "ok") /\ UNCHANGED mu
  /\ UNCHANGED <<srv, latest, observed, target, due, event, errors, read, failing, history>>

Spawn ==
  /\ pc[W] = "spawn" /\ rpc[W].ph = "ok"
  /\ pc' = [pc EXCEPT ![W] = "body", ![H] = IF target = None THEN "off" ELSE "top"]
  /\ rpc' = [rpc EXCEPT ![W] = Idle]
  /\ UNCHANGED <<srv, client, errors, read, failing, history>>

(* The body of the `with` writes: start_tearing_down, another transition of the *)
(* attempt, or nodes of its own.                                               *)
BodyCalls ==
  /\ pc[W] = "body" /\ rpc[W].ph = "idle"
  /\ \E req \in BodyRequests :
       rpc' = [rpc EXCEPT ![W] = Sent(req)]
  /\ UNCHANGED <<srv, client, errors, pc, read, failing, history>>

(* The call returns, or its exception is caught in the body.                   *)
BodyGoesOn ==
  /\ pc[W] = "body" /\ rpc[W].ph \in {"ok"} \cup Failures
  /\ rpc' = [rpc EXCEPT ![W] = Idle]
  /\ UNCHANGED <<srv, client, errors, pc, read, failing, history>>

(* __exit__, with or without an exception, starts with _unregister.            *)
LeaveBody ==
  /\ pc[W] = "body"
  /\ \/ rpc[W].ph = "idle" /\ failing' \in BOOLEAN
     \/ rpc[W].ph \in Failures /\ failing' = TRUE
  /\ Goto(W, "discard")
  /\ rpc' = [rpc EXCEPT ![W] = Idle]
  /\ UNCHANGED <<srv, client, errors, read, history>>

(* join(exit_timeout_sec) returns, because the thread has ended or in vain.    *)
Joined ==
  /\ pc[W] = "join"
  /\ Goto(W, "leave")
  /\ UNCHANGED <<srv, client, errors, rpc, read, failing, history>>

NeedsTransitionIfRunning(st) == st \in {"SCHEDULED", "RUNNING"}
NeedsTransition(st) == st \notin Final

(* _get_exit_transition_request and its _ping; transition_on_exit is TRUE.     *)
Leave ==
  /\ pc[W] = "leave" /\ mu = "free"
  /\ IF NeedsTransition(latest.st)
       THEN /\ Goto(W, "final")
            /\ rpc' = [rpc EXCEPT ![W] =
                         Sent(IF failing THEN "INCOMPLETE" ELSE "COMPLETE")]
       ELSE /\ Goto(W, "done")
            /\ UNCHANGED rpc
  /\ UNCHANGED <<srv, client, errors, read, failing, history>>

(* The exception of the last ping is only logged.                              *)
Left ==
  /\ pc[W] = "final" /\ rpc[W].ph \in {"ok"} \cup Failures
  /\ Goto(W, "done")
  /\ UNCHANGED <<srv, client, errors, rpc, read, failing, history>>

-------------------------------------------------------------------------------
(* Nothing is left to run.                                                     *)
Terminated ==
  /\ pc[W] \in {"done", "failed"} /\ pc[H] \in {"off", "ended"}
  /\ UNCHANGED vars

Transport(t) == Answer(t) \/ Refuse(t) \/ Fail(t) \/ Break(t)
Client(t) ==
  \/ Observe(t) \/ CheckTarget(t) \/ SetTarget(t) \/ SignalTarget(t)
  \/ Discard(t) \/ Disarm(t) \/ Wake(t)
Heartbeater ==
  Clear \/ ReadTarget \/ EventFired \/ WaitTimesOut \/ Pinged \/ HandleLoopError
Worker == Claimed \/ Register \/ Spawn \/ Joined \/ Leave \/ Left
Next ==
  \/ \E t \in Threads : Transport(t) \/ Client(t)
  \/ Heartbeater \/ Worker \/ BodyCalls \/ BodyGoesOn \/ LeaveBody
  \/ OrchestratorActs \/ TimePasses \/ Terminated

Spec == Init /\ [][Next]_vars

(* A request ends within ping_timeout_sec, threads run, time passes; how long  *)
(* the body goes on is up to it.                                               *)
LiveSpec ==
  /\ Spec
  /\ \A t \in Threads : WF_vars(Transport(t)) /\ WF_vars(Client(t))
  /\ WF_vars(Heartbeater) /\ WF_vars(Worker) /\ WF_vars(TimePasses)
-------------------------------------------------------------------------------
TypeOK ==
  /\ srv \in State /\ latest \in State
  /\ mu \in {"free"} \cup Threads /\ registered \in BOOLEAN
  /\ observed \in {MinusInfinity} \cup 0..MaxVersion
  /\ target \in {None, MinusInfinity} \cup 1..MaxVersion
  /\ read \in {None, MinusInfinity} \cup 1..MaxVersion
  /\ due \in BOOLEAN /\ event \in BOOLEAN /\ failing \in BOOLEAN /\ rested \in BOOLEAN
  /\ errors \in 0..MaxErrors /\ streak \in Nat
  /\ pc \in [Threads -> WorkerPC \cup HeartbeaterPC]
  /\ pc[W] \in WorkerPC /\ pc[H] \in HeartbeaterPC
  /\ rpc \in [Threads -> [ph : Phase, req : Request, tries : 0..MaxRetries, rsp : State]]

(* No wake-up is lost: a heartbeater that waits, and has not been told of a     *)
(* change, waits for the present target, unless a thread is about to tell it.   *)
(* clear() before the target is read is what makes it so.                       *)
WaitsForTheTarget ==
  pc[H] = "wait" /\ ~event =>
    \/ read = target
    \/ \E t \in Threads : rpc[t].ph = "signal" \/ pc[t] = "wake"

(* Whatever the order in which the responses of the two threads come in, the    *)
(* target is the deadline of the newest state that had one.                     *)
TargetIsNewest ==
  registered /\ mu = "free" /\ target # None /\ latest.ver > 0 =>
    target = observed /\ observed >= latest.hb

(* When the worker has left the `with`, the attempt is over, unless the last    *)
(* request failed: the client's view of the attempt, though it may be old, is   *)
(* enough to decide whether a last transition is needed.                        *)
AttemptIsEnded ==
  pc[W] = "done" => srv.st \in Final \/ rpc[W].ph \in Failures

(* "Once this is None, it never becomes a float again" (_target_heartbeat_by).  *)
NoneIsFinal == [][target = None => target' = None]_target

(* A late response never replaces the client's view by an older one.            *)
LatestNeverGoesBack == [][latest'.ver > latest.ver]_latest

(* A heartbeater stops after the `with`, whatever the requests come to.         *)
HeartbeaterEnds == (pc[W] = "leave") ~> (pc[H] \in {"off", "ended"})

(* A heartbeater that waits sends a heartbeat, or is told to stop.              *)
HeartbeatsGoOn == (pc[H] = "wait") ~> (pc[H] = "ping" \/ target = None)

(* HeartbeatOptions: "Maximum consecutive unretriably errors before stopping    *)
(* the heartbeat loop and shutting down."                                       *)
StopsOnlyOnConsecutive ==
  [][pc[H] = "ping" /\ rpc[H].ph = "unexpected" /\ pc'[H] = "discard"
       => streak' >= MaxErrors]_vars

(* HeartbeatOptions: "Minimum delay (in seconds) between heartbeats to prevent  *)
(* tight loops / orchestrator spam."                                            *)
MinDelayKept == [][pc[H] # "ping" /\ pc'[H] = "ping" => rested]_vars
===============================================================================
