------------------------ MODULE AttemptLifecycleProofs ------------------------
(***************************************************************************)
(* Proofs about AttemptLifecycle, for every policy, every limit on errors    *)
(* and retries, and every number of versions.                               *)
(***************************************************************************)
EXTENDS AttemptLifecycle, TLAPS

(* State._state_mu is held by the thread that runs the callback, which only a  *)
(* registered manager has; without a manager the target may be dropped.        *)
LockAgrees ==
  /\ \A t \in Threads : rpc[t].ph \in Callback <=> mu = t
  /\ mu # "free" => registered
  /\ \A t \in Threads : pc[t] \in {"disarm", "wake"} => ~registered
  /\ \A t \in Threads : pc[t] = "wake" => target = None

(* What the callback has done so far, from where it is.                        *)
CallbackAgrees ==
  /\ \A t \in Threads :
       /\ rpc[t].ph \in Callback => latest = rpc[t].rsp
       /\ rpc[t].ph = "assign" => target # None /\ observed = latest.hb
       /\ rpc[t].ph = "signal" /\ target # None => observed = latest.hb
  /\ (\A t \in Threads : rpc[t].ph # "assign") /\ target # None => target = observed

(* The loop of the heartbeater has no way back once it has been told to stop.  *)
ErrorsAgree ==
  /\ pc[H] = "off" => errors = 0
  /\ errors = MaxErrors =>
       \/ pc[H] \in {"discard", "disarm", "wake"}
       \/ pc[H] \in {"top", "read", "ended"} /\ target = None

(* What the client knows to be over is over, and so is what it ended itself.   *)
EndAgrees ==
  /\ latest.st \in Final => srv.st \in Final
  /\ \A t \in Threads :
       /\ rpc[t].rsp.st \in Final => srv.st \in Final
       /\ rpc[t].ph \in {"answered", "ok"} \cup Callback /\ rpc[t].req \in Final
            => srv.st \in Final
  /\ pc[W] = "final" => rpc[W].req \in Final

(* A thread makes requests in some places only.                                *)
CallsAgree ==
  /\ pc[W] \in {"enter", "discard", "disarm", "wake", "join", "leave"} =>
       rpc[W].ph = "idle"
  /\ pc[W] = "enter" => rpc[W].req = "none"
  /\ pc[H] # "ping" => rpc[H].ph = "idle"
  /\ pc[W] \in {"claim", "enter", "spawn"} => pc[H] = "off"

IInv ==
  /\ TypeOK /\ LockAgrees /\ CallbackAgrees /\ ErrorsAgree /\ EndAgrees /\ CallsAgree
  /\ WaitsForTheTarget /\ TargetIsNewest /\ AttemptIsEnded

USE DEF Threads, None, MinusInfinity, Final, Callback, Failures, H, W

(* The invariant holds before execute_stage makes its request.                *)
LEMMA IInvInit == Init => IInv
<1> SUFFICES ASSUME Init PROVE IInv
  OBVIOUS
<1> USE LifecycleParameters DEF Init, Idle, Sent, Unknown
<1>1. TypeOK
  <2>1. /\ srv \in State /\ latest \in State
    BY DEF State, Attempt
  <2>2. rpc \in [Threads -> [ph : Phase, req : Request, tries : 0..MaxRetries, rsp : State]]
    BY DEF State, Attempt, Phase, Request
  <2>3. /\ pc \in [Threads -> WorkerPC \cup HeartbeaterPC]
        /\ pc[W] \in WorkerPC /\ pc[H] \in HeartbeaterPC
    BY DEF WorkerPC, HeartbeaterPC
  <2>4. /\ observed \in {MinusInfinity} \cup 0..MaxVersion
        /\ target \in {None, MinusInfinity} \cup 1..MaxVersion
        /\ read \in {None, MinusInfinity} \cup 1..MaxVersion
    OBVIOUS
  <2>5. mu \in {"free"} \cup Threads /\ errors \in 0..MaxErrors /\ streak \in Nat
    OBVIOUS
  <2>6. /\ registered \in BOOLEAN /\ due \in BOOLEAN /\ event \in BOOLEAN
        /\ failing \in BOOLEAN /\ rested \in BOOLEAN
    BY Zenon
  <2>7. QED
    BY ONLY <2>1, <2>2, <2>3, <2>4, <2>5, <2>6 DEF TypeOK
<1>2. LockAgrees /\ CallbackAgrees /\ ErrorsAgree /\ EndAgrees /\ CallsAgree
  BY DEF LockAgrees, CallbackAgrees, ErrorsAgree, EndAgrees, CallsAgree
<1>3. WaitsForTheTarget /\ TargetIsNewest /\ AttemptIsEnded
  BY DEF WaitsForTheTarget, TargetIsNewest, AttemptIsEnded
<1>4. QED
  BY <1>1, <1>2, <1>3 DEF IInv

Rpc == [ph : Phase, req : Request, tries : 0..MaxRetries, rsp : State]

(* Each action keeps the types.                                                *)
LEMMA TypeOKStep == TypeOK /\ ErrorsAgree /\ [Next]_vars => TypeOK'
<1> SUFFICES ASSUME TypeOK, ErrorsAgree, [Next]_vars PROVE TypeOK'
  OBVIOUS
<1> USE LifecycleParameters DEF TypeOK, Goto, Phased, client, history, Unregistering
<1>1. ASSUME NEW t \in Threads, Transport(t) PROVE TypeOK'
  <2>1. CASE Answer(t)
    <3>1. srv' \in State
      BY <2>1 DEF Answer, Written, Legal, State, Attempt
    <3>2. rpc' \in [Threads -> Rpc]
      BY <2>1, <3>1 DEF Answer, Phase, Rpc
    <3>3. QED
      BY <2>1, <3>1, <3>2 DEF Answer, Rpc
  <2>2. CASE Refuse(t)
    BY <2>2 DEF Refuse, Phase
  <2>3. CASE Fail(t)
    <3>1. rpc[t].tries < MaxRetries => rpc[t].tries + 1 \in 0..MaxRetries
      OBVIOUS
    <3>2. rpc' \in [Threads -> Rpc]
      BY <2>3, <3>1 DEF Fail, Phase, Rpc
    <3>3. QED
      BY <2>3, <3>2 DEF Fail, Rpc
  <2>4. CASE Break(t)
    BY <2>4 DEF Break, Phase
  <2>5. QED
    BY <1>1, <2>1, <2>2, <2>3, <2>4 DEF Transport
<1>2. ASSUME NEW t \in Threads, Client(t) PROVE TypeOK'
  <2>1. CASE Observe(t)
    BY <2>1 DEF Observe, Phase
  <2>2. CASE CheckTarget(t)
    BY <2>2 DEF CheckTarget, Phase, State
  <2>3. CASE SetTarget(t)
    <3>1. rpc[t].rsp.hb \in 0..MaxVersion
      BY DEF State
    <3>2. target' \in {None} \cup 1..MaxVersion
      BY <2>3, <3>1 DEF SetTarget
    <3>3. rpc' \in [Threads -> Rpc]
      BY <2>3 DEF SetTarget, Phase, Rpc
    <3>4. QED
      BY <2>3, <3>2, <3>3 DEF SetTarget, Rpc
  <2>4. CASE SignalTarget(t)
    BY <2>4 DEF SignalTarget, Phase
  <2>5. CASE Discard(t) \/ Disarm(t)
    <3>1. /\ pc' \in [Threads -> WorkerPC \cup HeartbeaterPC]
          /\ pc'[W] \in WorkerPC /\ pc'[H] \in HeartbeaterPC
      BY <2>5 DEF Discard, Disarm, WorkerPC, HeartbeaterPC
    <3>2. QED
      BY <2>5, <3>1 DEF Discard, Disarm
  <2>6. CASE Wake(t)
    BY <2>6 DEF Wake, WorkerPC, HeartbeaterPC
  <2>7. QED
    BY <1>2, <2>1, <2>2, <2>3, <2>4, <2>5, <2>6 DEF Client
<1>3. CASE Heartbeater
  <2>1. CASE Clear
    BY <2>1, ZenonT(30) DEF Clear, HeartbeaterPC
  <2>2. CASE ReadTarget
    BY <2>2 DEF ReadTarget, HeartbeaterPC
  <2>3. CASE EventFired
    BY <2>3 DEF EventFired, HeartbeaterPC
  <2>4. CASE WaitTimesOut
    <3>1. Sent("HEARTBEAT") \in Rpc
      BY DEF Sent, Unknown, Phase, Request, State, Rpc
    <3>2. QED
      BY <2>4, <3>1 DEF WaitTimesOut, HeartbeaterPC, Rpc
  <2>5. CASE Pinged
    BY <2>5 DEF Pinged, HeartbeaterPC, Idle, Unknown, Phase, Request, State
  <2>6. CASE HandleLoopError
    BY <2>6 DEF HandleLoopError, TooManyErrors, ErrorsAgree, HeartbeaterPC, Idle, Unknown,
                Phase, Request, State
  <2>7. QED
    BY <1>3, <2>1, <2>2, <2>3, <2>4, <2>5, <2>6 DEF Heartbeater
<1>4. CASE Worker \/ BodyCalls \/ BodyGoesOn \/ LeaveBody
  <2>1. CASE Claimed \/ BodyGoesOn \/ LeaveBody
    <3>1. Idle \in Rpc
      BY DEF Idle, Unknown, Phase, Request, State, Rpc
    <3>2. rpc' \in [Threads -> Rpc]
      BY <2>1, <3>1 DEF Claimed, BodyGoesOn, LeaveBody, Rpc
    <3>3. QED
      <4>1. CASE Claimed \/ BodyGoesOn
        BY <3>2, <4>1 DEF Claimed, BodyGoesOn, WorkerPC, Rpc
      <4>2. CASE LeaveBody
        <5>1. failing' \in BOOLEAN
          BY <4>2, Zenon DEF LeaveBody
        <5>2. /\ pc' \in [Threads -> WorkerPC \cup HeartbeaterPC]
              /\ pc'[W] \in WorkerPC /\ pc'[H] \in HeartbeaterPC
          BY <4>2 DEF LeaveBody, WorkerPC
        <5>3. QED
          BY <3>2, <4>2, <5>1, <5>2 DEF LeaveBody, Rpc
      <4>3. QED
        BY <2>1, <4>1, <4>2
  <2>2. CASE Register
    BY <2>2 DEF Register, WorkerPC, Phase
  <2>3. CASE Spawn
    BY <2>3 DEF Spawn, WorkerPC, HeartbeaterPC, Idle, Unknown, Phase, Request, State
  <2>4. CASE BodyCalls
    BY <2>4 DEF BodyCalls, Sent, Unknown, Phase, Request, State
  <2>5. CASE Joined \/ Left
    BY <2>5 DEF Joined, Left, WorkerPC
  <2>6. CASE Leave
    <3>1. \A req \in Final : Sent(req) \in Rpc
      BY DEF Sent, Unknown, Phase, Request, State, Rpc
    <3>2. rpc' \in [Threads -> Rpc]
      BY <2>6, <3>1 DEF Leave, Rpc
    <3>3. QED
      BY <2>6, <3>2 DEF Leave, WorkerPC, Rpc
  <2>7. QED
    BY <1>4, <2>1, <2>2, <2>3, <2>4, <2>5, <2>6 DEF Worker
<1>5. CASE OrchestratorActs
  <2>1. srv' \in State
    <3>1. CASE srv' = [srv EXCEPT !.st = "CANCELLING", !.ver = @ + 1]
      <4>1. srv.ver + 1 \in 0..MaxVersion
        BY <1>5 DEF OrchestratorActs, State
      <4>2. QED
        BY <3>1, <4>1 DEF State, Attempt
    <3>2. CASE srv' = [st |-> "INCOMPLETE", ver |-> srv.ver + 1, hb |-> 0]
      BY <1>5, <3>2 DEF OrchestratorActs, State, Attempt
    <3>3. QED
      BY <1>5, <3>1, <3>2 DEF OrchestratorActs
  <2>2. QED
    BY <1>5, <2>1 DEF OrchestratorActs
<1>6. CASE TimePasses \/ UNCHANGED vars
  BY <1>6 DEF TimePasses, vars
<1>7. QED
  BY <1>1, <1>2, <1>3, <1>4, <1>5, <1>6 DEF Next, Terminated

(* The lock is held by the thread that runs the callback, in every step.      *)
LEMMA LockStep == IInv /\ [Next]_vars => LockAgrees'
<1> SUFFICES ASSUME IInv, [Next]_vars PROVE LockAgrees'
  OBVIOUS
<1> USE LifecycleParameters DEF IInv, TypeOK, Goto, Phased, client, history, Unregistering, LockAgrees, CallsAgree
<1>1. ASSUME NEW t \in Threads, Transport(t) PROVE LockAgrees'
  <2>1. CASE Answer(t)
    BY <2>1 DEF Answer, Written, Legal
  <2>2. CASE Refuse(t)
    BY <2>2 DEF Refuse
  <2>3. CASE Fail(t)
    BY <2>3 DEF Fail
  <2>4. CASE Break(t)
    BY <2>4 DEF Break
  <2>5. QED
    BY <1>1, <2>1, <2>2, <2>3, <2>4 DEF Transport
<1>2. ASSUME NEW t \in Threads, Client(t) PROVE LockAgrees'
  <2>1. CASE Observe(t)
    BY <2>1 DEF Observe, IsNewer
  <2>2. CASE CheckTarget(t)
    BY <2>2 DEF CheckTarget, State
  <2>3. CASE SetTarget(t)
    BY <2>3 DEF SetTarget
  <2>4. CASE SignalTarget(t)
    BY <2>4 DEF SignalTarget
  <2>5. CASE Discard(t)
    BY <2>5 DEF Discard
  <2>6. CASE Disarm(t)
    BY <2>6 DEF Disarm
  <2>7. CASE Wake(t)
    BY <2>7 DEF Wake
  <2>8. QED
    BY <1>2, <2>1, <2>2, <2>3, <2>4, <2>5, <2>6, <2>7 DEF Client
<1>3. CASE Heartbeater
  <2>1. CASE Clear
    BY <2>1 DEF Clear
  <2>2. CASE ReadTarget
    BY <2>2 DEF ReadTarget
  <2>3. CASE EventFired
    BY <2>3 DEF EventFired
  <2>4. CASE WaitTimesOut
    BY <2>4 DEF WaitTimesOut, Sent
  <2>5. CASE Pinged
    BY <2>5 DEF Pinged, Idle
  <2>6. CASE HandleLoopError
    BY <2>6 DEF HandleLoopError, Idle, TooManyErrors
  <2>7. QED
    BY <1>3, <2>1, <2>2, <2>3, <2>4, <2>5, <2>6 DEF Heartbeater
<1>4. CASE Worker
  <2>1. CASE Claimed
    BY <2>1 DEF Claimed, Idle
  <2>2. CASE Register
    BY <2>2 DEF Register
  <2>3. CASE Spawn
    BY <2>3 DEF Spawn, Idle
  <2>4. CASE Joined
    BY <2>4 DEF Joined
  <2>5. CASE Leave
    BY <2>5 DEF Leave, Sent, NeedsTransition
  <2>6. CASE Left
    BY <2>6 DEF Left
  <2>7. QED
    BY <1>4, <2>1, <2>2, <2>3, <2>4, <2>5, <2>6 DEF Worker
<1>5. CASE BodyCalls
  BY <1>5 DEF BodyCalls, Sent
<1>6. CASE BodyGoesOn
  BY <1>6 DEF BodyGoesOn, Idle
<1>7. CASE LeaveBody
  BY <1>7 DEF LeaveBody, Idle
<1>8. CASE OrchestratorActs
  BY <1>8 DEF OrchestratorActs
<1>9. CASE TimePasses \/ UNCHANGED vars
  BY <1>9 DEF TimePasses, vars
<1>10. QED
  BY <1>1, <1>2, <1>3, <1>4, <1>5, <1>6, <1>7, <1>8, <1>9 DEF Next, Terminated

(* No step starts a request in a thread that makes one.                       *)
LEMMA CallsStep == IInv /\ [Next]_vars => CallsAgree'
<1> SUFFICES ASSUME IInv, [Next]_vars PROVE CallsAgree'
  OBVIOUS
<1> USE LifecycleParameters DEF IInv, TypeOK, Goto, Phased, client, history, Unregistering, CallsAgree
<1>1. ASSUME NEW t \in Threads, Transport(t) PROVE CallsAgree'
  <2>1. CASE Answer(t)
    BY <2>1 DEF Answer, Written, Legal
  <2>2. CASE Refuse(t)
    BY <2>2 DEF Refuse
  <2>3. CASE Fail(t)
    BY <2>3 DEF Fail
  <2>4. CASE Break(t)
    BY <2>4 DEF Break
  <2>5. QED
    BY <1>1, <2>1, <2>2, <2>3, <2>4 DEF Transport
<1>2. ASSUME NEW t \in Threads, Client(t) PROVE CallsAgree'
  <2>1. CASE Observe(t)
    BY <2>1 DEF Observe, IsNewer
  <2>2. CASE CheckTarget(t)
    BY <2>2 DEF CheckTarget, State
  <2>3. CASE SetTarget(t)
    BY <2>3 DEF SetTarget
  <2>4. CASE SignalTarget(t)
    BY <2>4 DEF SignalTarget
  <2>5. CASE Discard(t)
    BY <2>5 DEF Discard
  <2>6. CASE Disarm(t)
    BY <2>6 DEF Disarm
  <2>7. CASE Wake(t)
    BY <2>7 DEF Wake
  <2>8. QED
    BY <1>2, <2>1, <2>2, <2>3, <2>4, <2>5, <2>6, <2>7 DEF Client
<1>3. CASE Heartbeater
  <2>1. CASE Clear
    BY <2>1 DEF Clear
  <2>2. CASE ReadTarget
    BY <2>2 DEF ReadTarget
  <2>3. CASE EventFired
    BY <2>3 DEF EventFired
  <2>4. CASE WaitTimesOut
    BY <2>4 DEF WaitTimesOut, Sent
  <2>5. CASE Pinged
    BY <2>5 DEF Pinged, Idle
  <2>6. CASE HandleLoopError
    BY <2>6 DEF HandleLoopError, Idle, TooManyErrors
  <2>7. QED
    BY <1>3, <2>1, <2>2, <2>3, <2>4, <2>5, <2>6 DEF Heartbeater
<1>4. CASE Worker
  <2>1. CASE Claimed
    BY <2>1 DEF Claimed, Idle
  <2>2. CASE Register
    BY <2>2 DEF Register
  <2>3. CASE Spawn
    BY <2>3 DEF Spawn, Idle
  <2>4. CASE Joined
    BY <2>4 DEF Joined
  <2>5. CASE Leave
    BY <2>5 DEF Leave, Sent, NeedsTransition
  <2>6. CASE Left
    BY <2>6 DEF Left
  <2>7. QED
    BY <1>4, <2>1, <2>2, <2>3, <2>4, <2>5, <2>6 DEF Worker
<1>5. CASE BodyCalls
  BY <1>5 DEF BodyCalls, Sent
<1>6. CASE BodyGoesOn
  BY <1>6 DEF BodyGoesOn, Idle
<1>7. CASE LeaveBody
  BY <1>7 DEF LeaveBody, Idle
<1>8. CASE OrchestratorActs
  BY <1>8 DEF OrchestratorActs
<1>9. CASE TimePasses \/ UNCHANGED vars
  BY <1>9 DEF TimePasses, vars
<1>10. QED
  BY <1>1, <1>2, <1>3, <1>4, <1>5, <1>6, <1>7, <1>8, <1>9 DEF Next, Terminated

(* Every step of the callback does its part; the others do not disturb it.    *)
LEMMA CallbackStep == IInv /\ [Next]_vars => CallbackAgrees'
<1> SUFFICES ASSUME IInv, [Next]_vars PROVE CallbackAgrees'
  OBVIOUS
<1> USE LifecycleParameters DEF IInv, TypeOK, Goto, Phased, client, history, Unregistering, CallbackAgrees, LockAgrees, CallsAgree, TargetIsNewest
<1>1. ASSUME NEW t \in Threads, Transport(t) PROVE CallbackAgrees'
  <2>1. CASE Answer(t)
    BY <2>1 DEF Answer, Written, Legal
  <2>2. CASE Refuse(t)
    BY <2>2 DEF Refuse
  <2>3. CASE Fail(t)
    BY <2>3 DEF Fail
  <2>4. CASE Break(t)
    BY <2>4 DEF Break
  <2>5. QED
    BY <1>1, <2>1, <2>2, <2>3, <2>4 DEF Transport
<1>2. ASSUME NEW t \in Threads, Client(t) PROVE CallbackAgrees'
  <2>1. CASE Observe(t)
    BY <2>1 DEF Observe, IsNewer
  <2>2. CASE CheckTarget(t)
    BY <2>2 DEF CheckTarget, State
  <2>3. CASE SetTarget(t)
    BY <2>3 DEF SetTarget
  <2>4. CASE SignalTarget(t)
    BY <2>4 DEF SignalTarget
  <2>5. CASE Discard(t)
    BY <2>5 DEF Discard
  <2>6. CASE Disarm(t)
    BY <2>6 DEF Disarm
  <2>7. CASE Wake(t)
    BY <2>7 DEF Wake
  <2>8. QED
    BY <1>2, <2>1, <2>2, <2>3, <2>4, <2>5, <2>6, <2>7 DEF Client
<1>3. CASE Heartbeater
  <2>1. CASE Clear
    BY <2>1 DEF Clear
  <2>2. CASE ReadTarget
    BY <2>2 DEF ReadTarget
  <2>3. CASE EventFired
    BY <2>3 DEF EventFired
  <2>4. CASE WaitTimesOut
    BY <2>4 DEF WaitTimesOut, Sent
  <2>5. CASE Pinged
    BY <2>5 DEF Pinged, Idle
  <2>6. CASE HandleLoopError
    BY <2>6 DEF HandleLoopError, Idle, TooManyErrors
  <2>7. QED
    BY <1>3, <2>1, <2>2, <2>3, <2>4, <2>5, <2>6 DEF Heartbeater
<1>4. CASE Worker
  <2>1. CASE Claimed
    BY <2>1 DEF Claimed, Idle
  <2>2. CASE Register
    BY <2>2 DEF Register
  <2>3. CASE Spawn
    BY <2>3 DEF Spawn, Idle
  <2>4. CASE Joined
    BY <2>4 DEF Joined
  <2>5. CASE Leave
    BY <2>5 DEF Leave, Sent, NeedsTransition
  <2>6. CASE Left
    BY <2>6 DEF Left
  <2>7. QED
    BY <1>4, <2>1, <2>2, <2>3, <2>4, <2>5, <2>6 DEF Worker
<1>5. CASE BodyCalls
  BY <1>5 DEF BodyCalls, Sent
<1>6. CASE BodyGoesOn
  BY <1>6 DEF BodyGoesOn, Idle
<1>7. CASE LeaveBody
  BY <1>7 DEF LeaveBody, Idle
<1>8. CASE OrchestratorActs
  BY <1>8 DEF OrchestratorActs
<1>9. CASE TimePasses \/ UNCHANGED vars
  BY <1>9 DEF TimePasses, vars
<1>10. QED
  BY <1>1, <1>2, <1>3, <1>4, <1>5, <1>6, <1>7, <1>8, <1>9 DEF Next, Terminated

(* A response, a callback and __enter__ leave the target the newest deadline. *)
LEMMA NewestStep == IInv /\ [Next]_vars => TargetIsNewest'
<1> SUFFICES ASSUME IInv, [Next]_vars PROVE TargetIsNewest'
  OBVIOUS
<1> USE LifecycleParameters DEF IInv, TypeOK, Goto, Phased, client, history, Unregistering, TargetIsNewest, LockAgrees, CallbackAgrees, CallsAgree
<1>1. ASSUME NEW t \in Threads, Transport(t) PROVE TargetIsNewest'
  <2>1. CASE Answer(t)
    BY <2>1 DEF Answer, Written, Legal
  <2>2. CASE Refuse(t)
    BY <2>2 DEF Refuse
  <2>3. CASE Fail(t)
    BY <2>3 DEF Fail
  <2>4. CASE Break(t)
    BY <2>4 DEF Break
  <2>5. QED
    BY <1>1, <2>1, <2>2, <2>3, <2>4 DEF Transport
<1>2. ASSUME NEW t \in Threads, Client(t) PROVE TargetIsNewest'
  <2>1. CASE Observe(t)
    BY <2>1 DEF Observe, IsNewer
  <2>2. CASE CheckTarget(t)
    BY <2>2 DEF CheckTarget, State
  <2>3. CASE SetTarget(t)
    BY <2>3 DEF SetTarget
  <2>4. CASE SignalTarget(t)
    BY <2>4 DEF SignalTarget
  <2>5. CASE Discard(t)
    BY <2>5 DEF Discard
  <2>6. CASE Disarm(t)
    BY <2>6 DEF Disarm
  <2>7. CASE Wake(t)
    BY <2>7 DEF Wake
  <2>8. QED
    BY <1>2, <2>1, <2>2, <2>3, <2>4, <2>5, <2>6, <2>7 DEF Client
<1>3. CASE Heartbeater
  <2>1. CASE Clear
    BY <2>1 DEF Clear
  <2>2. CASE ReadTarget
    BY <2>2 DEF ReadTarget
  <2>3. CASE EventFired
    BY <2>3 DEF EventFired
  <2>4. CASE WaitTimesOut
    BY <2>4 DEF WaitTimesOut, Sent
  <2>5. CASE Pinged
    BY <2>5 DEF Pinged, Idle
  <2>6. CASE HandleLoopError
    BY <2>6 DEF HandleLoopError, Idle, TooManyErrors
  <2>7. QED
    BY <1>3, <2>1, <2>2, <2>3, <2>4, <2>5, <2>6 DEF Heartbeater
<1>4. CASE Worker
  <2>1. CASE Claimed
    BY <2>1 DEF Claimed, Idle
  <2>2. CASE Register
    BY <2>2 DEF Register
  <2>3. CASE Spawn
    BY <2>3 DEF Spawn, Idle
  <2>4. CASE Joined
    BY <2>4 DEF Joined
  <2>5. CASE Leave
    BY <2>5 DEF Leave, Sent, NeedsTransition
  <2>6. CASE Left
    BY <2>6 DEF Left
  <2>7. QED
    BY <1>4, <2>1, <2>2, <2>3, <2>4, <2>5, <2>6 DEF Worker
<1>5. CASE BodyCalls
  BY <1>5 DEF BodyCalls, Sent
<1>6. CASE BodyGoesOn
  BY <1>6 DEF BodyGoesOn, Idle
<1>7. CASE LeaveBody
  BY <1>7 DEF LeaveBody, Idle
<1>8. CASE OrchestratorActs
  BY <1>8 DEF OrchestratorActs
<1>9. CASE TimePasses \/ UNCHANGED vars
  BY <1>9 DEF TimePasses, vars
<1>10. QED
  BY <1>1, <1>2, <1>3, <1>4, <1>5, <1>6, <1>7, <1>8, <1>9 DEF Next, Terminated

(* Whoever changes the target has yet to set the event, or has set it.        *)
LEMMA WaitsStep == IInv /\ [Next]_vars => WaitsForTheTarget'
<1> SUFFICES ASSUME IInv, [Next]_vars PROVE WaitsForTheTarget'
  OBVIOUS
<1> USE LifecycleParameters DEF IInv, TypeOK, Goto, Phased, client, history, Unregistering, WaitsForTheTarget, LockAgrees, CallbackAgrees, CallsAgree
<1>1. ASSUME NEW t \in Threads, Transport(t) PROVE WaitsForTheTarget'
  <2>1. CASE Answer(t)
    BY <2>1 DEF Answer, Written, Legal
  <2>2. CASE Refuse(t)
    BY <2>2 DEF Refuse
  <2>3. CASE Fail(t)
    BY <2>3 DEF Fail
  <2>4. CASE Break(t)
    BY <2>4 DEF Break
  <2>5. QED
    BY <1>1, <2>1, <2>2, <2>3, <2>4 DEF Transport
<1>2. ASSUME NEW t \in Threads, Client(t) PROVE WaitsForTheTarget'
  <2>1. CASE Observe(t)
    BY <2>1 DEF Observe, IsNewer
  <2>2. CASE CheckTarget(t)
    BY <2>2 DEF CheckTarget, State
  <2>3. CASE SetTarget(t)
    BY <2>3 DEF SetTarget
  <2>4. CASE SignalTarget(t)
    BY <2>4 DEF SignalTarget
  <2>5. CASE Discard(t)
    BY <2>5 DEF Discard
  <2>6. CASE Disarm(t)
    BY <2>6 DEF Disarm
  <2>7. CASE Wake(t)
    BY <2>7 DEF Wake
  <2>8. QED
    BY <1>2, <2>1, <2>2, <2>3, <2>4, <2>5, <2>6, <2>7 DEF Client
<1>3. CASE Heartbeater
  <2>1. CASE Clear
    BY <2>1 DEF Clear
  <2>2. CASE ReadTarget
    BY <2>2 DEF ReadTarget
  <2>3. CASE EventFired
    BY <2>3 DEF EventFired
  <2>4. CASE WaitTimesOut
    BY <2>4 DEF WaitTimesOut, Sent
  <2>5. CASE Pinged
    BY <2>5 DEF Pinged, Idle
  <2>6. CASE HandleLoopError
    BY <2>6 DEF HandleLoopError, Idle, TooManyErrors
  <2>7. QED
    BY <1>3, <2>1, <2>2, <2>3, <2>4, <2>5, <2>6 DEF Heartbeater
<1>4. CASE Worker
  <2>1. CASE Claimed
    BY <2>1 DEF Claimed, Idle
  <2>2. CASE Register
    BY <2>2 DEF Register
  <2>3. CASE Spawn
    BY <2>3 DEF Spawn, Idle
  <2>4. CASE Joined
    BY <2>4 DEF Joined
  <2>5. CASE Leave
    BY <2>5 DEF Leave, Sent, NeedsTransition
  <2>6. CASE Left
    BY <2>6 DEF Left
  <2>7. QED
    BY <1>4, <2>1, <2>2, <2>3, <2>4, <2>5, <2>6 DEF Worker
<1>5. CASE BodyCalls
  BY <1>5 DEF BodyCalls, Sent
<1>6. CASE BodyGoesOn
  BY <1>6 DEF BodyGoesOn, Idle
<1>7. CASE LeaveBody
  BY <1>7 DEF LeaveBody, Idle
<1>8. CASE OrchestratorActs
  BY <1>8 DEF OrchestratorActs
<1>9. CASE TimePasses \/ UNCHANGED vars
  BY <1>9 DEF TimePasses, vars
<1>10. QED
  BY <1>1, <1>2, <1>3, <1>4, <1>5, <1>6, <1>7, <1>8, <1>9 DEF Next, Terminated

(* A heartbeater with too many errors does not get to its next request.       *)
LEMMA ErrorsStep == IInv /\ [Next]_vars => ErrorsAgree'
<1> SUFFICES ASSUME IInv, [Next]_vars PROVE ErrorsAgree'
  OBVIOUS
<1> USE LifecycleParameters DEF IInv, TypeOK, Goto, Phased, client, history, Unregistering, ErrorsAgree, LockAgrees, CallbackAgrees, CallsAgree
<1>1. ASSUME NEW t \in Threads, Transport(t) PROVE ErrorsAgree'
  <2>1. CASE Answer(t)
    BY <2>1 DEF Answer, Written, Legal
  <2>2. CASE Refuse(t)
    BY <2>2 DEF Refuse
  <2>3. CASE Fail(t)
    BY <2>3 DEF Fail
  <2>4. CASE Break(t)
    BY <2>4 DEF Break
  <2>5. QED
    BY <1>1, <2>1, <2>2, <2>3, <2>4 DEF Transport
<1>2. ASSUME NEW t \in Threads, Client(t) PROVE ErrorsAgree'
  <2>1. CASE Observe(t)
    BY <2>1 DEF Observe, IsNewer
  <2>2. CASE CheckTarget(t)
    BY <2>2 DEF CheckTarget, State
  <2>3. CASE SetTarget(t)
    BY <2>3 DEF SetTarget
  <2>4. CASE SignalTarget(t)
    BY <2>4 DEF SignalTarget
  <2>5. CASE Discard(t)
    BY <2>5 DEF Discard
  <2>6. CASE Disarm(t)
    BY <2>6 DEF Disarm
  <2>7. CASE Wake(t)
    BY <2>7 DEF Wake
  <2>8. QED
    BY <1>2, <2>1, <2>2, <2>3, <2>4, <2>5, <2>6, <2>7 DEF Client
<1>3. CASE Heartbeater
  <2>1. CASE Clear
    BY <2>1 DEF Clear
  <2>2. CASE ReadTarget
    BY <2>2 DEF ReadTarget
  <2>3. CASE EventFired
    BY <2>3 DEF EventFired
  <2>4. CASE WaitTimesOut
    BY <2>4 DEF WaitTimesOut, Sent
  <2>5. CASE Pinged
    BY <2>5 DEF Pinged, Idle
  <2>6. CASE HandleLoopError
    BY <2>6 DEF HandleLoopError, Idle, TooManyErrors
  <2>7. QED
    BY <1>3, <2>1, <2>2, <2>3, <2>4, <2>5, <2>6 DEF Heartbeater
<1>4. CASE Worker
  <2>1. CASE Claimed
    BY <2>1 DEF Claimed, Idle
  <2>2. CASE Register
    BY <2>2 DEF Register
  <2>3. CASE Spawn
    BY <2>3 DEF Spawn, Idle
  <2>4. CASE Joined
    BY <2>4 DEF Joined
  <2>5. CASE Leave
    BY <2>5 DEF Leave, Sent, NeedsTransition
  <2>6. CASE Left
    BY <2>6 DEF Left
  <2>7. QED
    BY <1>4, <2>1, <2>2, <2>3, <2>4, <2>5, <2>6 DEF Worker
<1>5. CASE BodyCalls
  BY <1>5 DEF BodyCalls, Sent
<1>6. CASE BodyGoesOn
  BY <1>6 DEF BodyGoesOn, Idle
<1>7. CASE LeaveBody
  BY <1>7 DEF LeaveBody, Idle
<1>8. CASE OrchestratorActs
  BY <1>8 DEF OrchestratorActs
<1>9. CASE TimePasses \/ UNCHANGED vars
  BY <1>9 DEF TimePasses, vars
<1>10. QED
  BY <1>1, <1>2, <1>3, <1>4, <1>5, <1>6, <1>7, <1>8, <1>9 DEF Next, Terminated

(* What is known to be over stays over.                                       *)
LEMMA EndStep == IInv /\ [Next]_vars => EndAgrees'
<1> SUFFICES ASSUME IInv, [Next]_vars PROVE EndAgrees'
  OBVIOUS
<1> USE LifecycleParameters DEF IInv, TypeOK, Goto, Phased, client, history, Unregistering, EndAgrees, CallsAgree, LockAgrees, CallbackAgrees
<1>1. ASSUME NEW t \in Threads, Transport(t) PROVE EndAgrees'
  <2>1. CASE Answer(t)
    BY <2>1 DEF Answer, Written, Legal
  <2>2. CASE Refuse(t)
    BY <2>2 DEF Refuse
  <2>3. CASE Fail(t)
    BY <2>3 DEF Fail
  <2>4. CASE Break(t)
    BY <2>4 DEF Break
  <2>5. QED
    BY <1>1, <2>1, <2>2, <2>3, <2>4 DEF Transport
<1>2. ASSUME NEW t \in Threads, Client(t) PROVE EndAgrees'
  <2>1. CASE Observe(t)
    BY <2>1 DEF Observe, IsNewer
  <2>2. CASE CheckTarget(t)
    BY <2>2 DEF CheckTarget, State
  <2>3. CASE SetTarget(t)
    BY <2>3 DEF SetTarget
  <2>4. CASE SignalTarget(t)
    BY <2>4 DEF SignalTarget
  <2>5. CASE Discard(t)
    BY <2>5 DEF Discard
  <2>6. CASE Disarm(t)
    BY <2>6 DEF Disarm
  <2>7. CASE Wake(t)
    BY <2>7 DEF Wake
  <2>8. QED
    BY <1>2, <2>1, <2>2, <2>3, <2>4, <2>5, <2>6, <2>7 DEF Client
<1>3. CASE Heartbeater
  <2>1. CASE Clear
    BY <2>1 DEF Clear
  <2>2. CASE ReadTarget
    BY <2>2 DEF ReadTarget
  <2>3. CASE EventFired
    BY <2>3 DEF EventFired
  <2>4. CASE WaitTimesOut
    BY <2>4 DEF WaitTimesOut, Sent, Unknown
  <2>5. CASE Pinged
    BY <2>5 DEF Pinged, Idle, Unknown
  <2>6. CASE HandleLoopError
    BY <2>6 DEF HandleLoopError, Idle, TooManyErrors, Unknown
  <2>7. QED
    BY <1>3, <2>1, <2>2, <2>3, <2>4, <2>5, <2>6 DEF Heartbeater
<1>4. CASE Worker
  <2>1. CASE Claimed
    BY <2>1 DEF Claimed, Idle, Unknown
  <2>2. CASE Register
    BY <2>2 DEF Register
  <2>3. CASE Spawn
    BY <2>3 DEF Spawn, Idle, Unknown
  <2>4. CASE Joined
    BY <2>4 DEF Joined
  <2>5. CASE Leave
    BY <2>5 DEF Leave, Sent, NeedsTransition, Unknown
  <2>6. CASE Left
    BY <2>6 DEF Left
  <2>7. QED
    BY <1>4, <2>1, <2>2, <2>3, <2>4, <2>5, <2>6 DEF Worker
<1>5. CASE BodyCalls
  BY <1>5 DEF BodyCalls, Sent, Unknown
<1>6. CASE BodyGoesOn
  BY <1>6 DEF BodyGoesOn, Idle, Unknown
<1>7. CASE LeaveBody
  BY <1>7 DEF LeaveBody, Idle, Unknown
<1>8. CASE OrchestratorActs
  BY <1>8 DEF OrchestratorActs
<1>9. CASE TimePasses \/ UNCHANGED vars
  BY <1>9 DEF TimePasses, vars
<1>10. QED
  BY <1>1, <1>2, <1>3, <1>4, <1>5, <1>6, <1>7, <1>8, <1>9 DEF Next, Terminated

(* The worker is done when the attempt is over, or a request has failed.      *)
LEMMA EndedStep == IInv /\ [Next]_vars => AttemptIsEnded'
<1> SUFFICES ASSUME IInv, [Next]_vars PROVE AttemptIsEnded'
  OBVIOUS
<1> USE LifecycleParameters DEF IInv, TypeOK, Goto, Phased, client, history, Unregistering, AttemptIsEnded, EndAgrees, CallsAgree
<1>1. ASSUME NEW t \in Threads, Transport(t) PROVE AttemptIsEnded'
  <2>1. CASE Answer(t)
    BY <2>1 DEF Answer, Written, Legal
  <2>2. CASE Refuse(t)
    BY <2>2 DEF Refuse
  <2>3. CASE Fail(t)
    BY <2>3 DEF Fail
  <2>4. CASE Break(t)
    BY <2>4 DEF Break
  <2>5. QED
    BY <1>1, <2>1, <2>2, <2>3, <2>4 DEF Transport
<1>2. ASSUME NEW t \in Threads, Client(t) PROVE AttemptIsEnded'
  <2>1. CASE Observe(t)
    BY <2>1 DEF Observe, IsNewer
  <2>2. CASE CheckTarget(t)
    BY <2>2 DEF CheckTarget, State
  <2>3. CASE SetTarget(t)
    BY <2>3 DEF SetTarget
  <2>4. CASE SignalTarget(t)
    BY <2>4 DEF SignalTarget
  <2>5. CASE Discard(t)
    BY <2>5 DEF Discard
  <2>6. CASE Disarm(t)
    BY <2>6 DEF Disarm
  <2>7. CASE Wake(t)
    BY <2>7 DEF Wake
  <2>8. QED
    BY <1>2, <2>1, <2>2, <2>3, <2>4, <2>5, <2>6, <2>7 DEF Client
<1>3. CASE Heartbeater
  <2>1. CASE Clear
    BY <2>1 DEF Clear
  <2>2. CASE ReadTarget
    BY <2>2 DEF ReadTarget
  <2>3. CASE EventFired
    BY <2>3 DEF EventFired
  <2>4. CASE WaitTimesOut
    BY <2>4 DEF WaitTimesOut, Sent, Unknown
  <2>5. CASE Pinged
    BY <2>5 DEF Pinged, Idle, Unknown
  <2>6. CASE HandleLoopError
    BY <2>6 DEF HandleLoopError, Idle, TooManyErrors, Unknown
  <2>7. QED
    BY <1>3, <2>1, <2>2, <2>3, <2>4, <2>5, <2>6 DEF Heartbeater
<1>4. CASE Worker
  <2>1. CASE Claimed
    BY <2>1 DEF Claimed, Idle, Unknown
  <2>2. CASE Register
    BY <2>2 DEF Register
  <2>3. CASE Spawn
    BY <2>3 DEF Spawn, Idle, Unknown
  <2>4. CASE Joined
    BY <2>4 DEF Joined
  <2>5. CASE Leave
    BY <2>5 DEF Leave, Sent, NeedsTransition, Unknown
  <2>6. CASE Left
    BY <2>6 DEF Left
  <2>7. QED
    BY <1>4, <2>1, <2>2, <2>3, <2>4, <2>5, <2>6 DEF Worker
<1>5. CASE BodyCalls
  BY <1>5 DEF BodyCalls, Sent, Unknown
<1>6. CASE BodyGoesOn
  BY <1>6 DEF BodyGoesOn, Idle, Unknown
<1>7. CASE LeaveBody
  BY <1>7 DEF LeaveBody, Idle, Unknown
<1>8. CASE OrchestratorActs
  BY <1>8 DEF OrchestratorActs
<1>9. CASE TimePasses \/ UNCHANGED vars
  BY <1>9 DEF TimePasses, vars
<1>10. QED
  BY <1>1, <1>2, <1>3, <1>4, <1>5, <1>6, <1>7, <1>8, <1>9 DEF Next, Terminated

-------------------------------------------------------------------------------
(* The invariant of the proofs holds in every reachable state.                 *)
THEOREM Inductive == Spec => []IInv
<1>1. IInv /\ [Next]_vars => IInv'
  <2> SUFFICES ASSUME IInv, [Next]_vars PROVE IInv'
    OBVIOUS
  <2>1. TypeOK'
    BY TypeOKStep DEF IInv
  <2>2. LockAgrees' /\ CallbackAgrees' /\ ErrorsAgree' /\ EndAgrees' /\ CallsAgree'
    BY LockStep, CallbackStep, ErrorsStep, EndStep, CallsStep
  <2>3. WaitsForTheTarget' /\ TargetIsNewest' /\ AttemptIsEnded'
    BY WaitsStep, NewestStep, EndedStep
  <2>4. QED
    BY <2>1, <2>2, <2>3 DEF IInv
<1>2. QED
  BY <1>1, IInvInit, PTL DEF Spec

(* The types of the model's state hold in every reachable state.               *)
THEOREM LifecycleTypes == Spec => []TypeOK
<1>1. IInv => TypeOK
  BY DEF IInv
<1>2. QED
  BY <1>1, Inductive, PTL

(* No change of the target is missed by a heartbeater that waits.              *)
THEOREM NoLostWakeup == Spec => []WaitsForTheTarget
<1>1. IInv => WaitsForTheTarget
  BY DEF IInv
<1>2. QED
  BY <1>1, Inductive, PTL

(* The target follows the newest state the client has seen, in whatever order  *)
(* the responses of the two threads are processed.                             *)
THEOREM NewestTarget == Spec => []TargetIsNewest
<1>1. IInv => TargetIsNewest
  BY DEF IInv
<1>2. QED
  BY <1>1, Inductive, PTL

(* A worker that has left the `with` leaves an attempt that is over, unless    *)
(* its last request failed.                                                    *)
THEOREM EndedAttempt == Spec => []AttemptIsEnded
<1>1. IInv => AttemptIsEnded
  BY DEF IInv
<1>2. QED
  BY <1>1, Inductive, PTL

(* Once the target is None it never becomes a time again: _unregister takes    *)
(* the callback away, under the lock that a running callback holds, before it  *)
(* assigns None.                                                               *)
THEOREM NoneStays == Spec => NoneIsFinal
<1>1. IInv /\ [Next]_vars => (target = None => target' = None)
  <2> SUFFICES ASSUME IInv, [Next]_vars, target = None PROVE target' = None
    OBVIOUS
  <2> USE DEF client, history
  <2>1. ASSUME NEW t \in Threads, Transport(t) \/ Client(t) PROVE target' = None
    <3>1. CASE SetTarget(t)
      BY <3>1 DEF SetTarget, IInv, CallbackAgrees
    <3>2. CASE Transport(t)
      BY <3>2 DEF Transport, Answer, Refuse, Fail, Break
    <3>3. CASE Client(t) /\ ~SetTarget(t)
      BY <3>3 DEF Client, Observe, CheckTarget, SignalTarget, Discard, Disarm, Wake
    <3>4. QED
      BY <2>1, <3>1, <3>2, <3>3
  <2>2. CASE Heartbeater
    BY <2>2 DEF Heartbeater, Clear, ReadTarget, EventFired, WaitTimesOut, Pinged,
                HandleLoopError
  <2>3. CASE Worker
    BY <2>3 DEF Worker, Claimed, Register, Spawn, Joined, Leave, Left
  <2>4. CASE BodyCalls \/ BodyGoesOn \/ LeaveBody \/ OrchestratorActs \/ TimePasses
               \/ UNCHANGED vars
    BY <2>4 DEF BodyCalls, BodyGoesOn, LeaveBody, OrchestratorActs, TimePasses, vars
  <2>5. QED
    BY <2>1, <2>2, <2>3, <2>4 DEF Next, Terminated
<1>2. QED
  BY <1>1, Inductive, PTL DEF Spec, NoneIsFinal

(* The client's view of the attempt only becomes newer.                        *)
THEOREM LatestIsMonotone == Spec => LatestNeverGoesBack
<1>1. [Next]_vars => [latest'.ver > latest.ver]_latest
  <2> SUFFICES ASSUME [Next]_vars PROVE [latest'.ver > latest.ver]_latest
    OBVIOUS
  <2> USE DEF client, history
  <2>1. ASSUME NEW t \in Threads, Transport(t) \/ Client(t)
        PROVE  [latest'.ver > latest.ver]_latest
    <3>1. CASE Observe(t)
      BY <3>1 DEF Observe, IsNewer
    <3>2. CASE Transport(t)
      BY <3>2 DEF Transport, Answer, Refuse, Fail, Break
    <3>3. CASE Client(t) /\ ~Observe(t)
      BY <3>3 DEF Client, CheckTarget, SetTarget, SignalTarget, Discard, Disarm, Wake
    <3>4. QED
      BY <2>1, <3>1, <3>2, <3>3
  <2>2. CASE Heartbeater
    BY <2>2 DEF Heartbeater, Clear, ReadTarget, EventFired, WaitTimesOut, Pinged,
                HandleLoopError
  <2>3. CASE Worker
    BY <2>3 DEF Worker, Claimed, Register, Spawn, Joined, Leave, Left
  <2>4. CASE BodyCalls \/ BodyGoesOn \/ LeaveBody \/ OrchestratorActs \/ TimePasses
               \/ UNCHANGED vars
    BY <2>4 DEF BodyCalls, BodyGoesOn, LeaveBody, OrchestratorActs, TimePasses, vars
  <2>5. QED
    BY <2>1, <2>2, <2>3, <2>4 DEF Next, Terminated
<1>2. QED
  BY <1>1, PTL DEF Spec, LatestNeverGoesBack
-------------------------------------------------------------------------------
(* The heartbeater gives up after MaxErrors unexpected errors in a row, if not *)
(* before: a client that goes on has seen fewer.  This is the half of the      *)
(* doc of max_consecutive_unexpected_errors that the code keeps; see           *)
(* StopsOnlyOnConsecutive for the other.                                       *)
StopsInTime == target # None /\ pc[H] \in {"top", "read", "wait", "ping"} => streak < MaxErrors

(* A thread waits for State._state_mu.                                         *)
WaitsForMu(t) ==
  \/ rpc[t].ph = "answered" \/ pc[t] = "discard"
  \/ t = W /\ pc[t] \in {"enter", "leave"}

(* A thread has a step of its own to make, or its request will end.            *)
CanMove(t) ==
  \/ rpc[t].ph \in {"sent"} \cup Callback
  \/ WaitsForMu(t) /\ mu = "free"
  \/ pc[t] \in {"disarm", "wake", "join", "top", "read"}
  \/ pc[t] \in {"claim", "body", "final", "ping"} /\ rpc[t].ph \in {"ok"} \cup Failures
  \/ pc[t] = "spawn" /\ rpc[t].ph = "ok"
  \/ pc[t] = "body" /\ rpc[t].ph = "idle"
  \/ pc[t] = "wait" /\ (event \/ due \/ read # target)

(* No thread is stuck: it can move, or waits for a mutex whose holder can, or  *)
(* is a heartbeater that waits for its time to come.                           *)
NoThreadIsStuck ==
  \A t \in Threads : pc[t] \notin {"done", "failed", "off", "ended"} =>
    \/ CanMove(t)
    \/ WaitsForMu(t) /\ mu \in Threads \ {t} /\ CanMove(mu)
    \/ pc[t] = "wait" /\ ~due

(* A thread that has made a request has one.                                   *)
CallsGoOn ==
  /\ pc[W] \in {"claim", "final"} => rpc[W].ph # "idle"
  /\ pc[H] = "ping" => rpc[H].ph # "idle"
  /\ pc[W] = "spawn" => rpc[W].ph \in Callback \cup {"ok"}

(* __exit__ has assigned None before it joins the heartbeater.                 *)
AfterTheBody == pc[W] \in {"join", "leave", "final", "done"} => target = None

(* errors is not reset by a success, so it is at least the length of the row.  *)
GoingOn == CallsGoOn /\ AfterTheBody /\ streak <= errors

(* Each action keeps it.                                                       *)
LEMMA GoingOnStep == IInv /\ GoingOn /\ [Next]_vars => GoingOn'
<1> SUFFICES ASSUME IInv, GoingOn, [Next]_vars PROVE GoingOn'
  OBVIOUS
<1> USE LifecycleParameters DEF IInv, TypeOK, Goto, Phased, client, history, Unregistering, ErrorsAgree, GoingOn, CallsGoOn, AfterTheBody, LockAgrees, CallbackAgrees, CallsAgree
<1>1. ASSUME NEW t \in Threads, Transport(t) PROVE GoingOn'
  <2>1. CASE Answer(t)
    BY <2>1 DEF Answer, Written, Legal
  <2>2. CASE Refuse(t)
    BY <2>2 DEF Refuse
  <2>3. CASE Fail(t)
    BY <2>3 DEF Fail
  <2>4. CASE Break(t)
    BY <2>4 DEF Break
  <2>5. QED
    BY <1>1, <2>1, <2>2, <2>3, <2>4 DEF Transport
<1>2. ASSUME NEW t \in Threads, Client(t) PROVE GoingOn'
  <2>1. CASE Observe(t)
    BY <2>1 DEF Observe, IsNewer
  <2>2. CASE CheckTarget(t)
    BY <2>2 DEF CheckTarget, State
  <2>3. CASE SetTarget(t)
    BY <2>3 DEF SetTarget
  <2>4. CASE SignalTarget(t)
    BY <2>4 DEF SignalTarget
  <2>5. CASE Discard(t)
    BY <2>5 DEF Discard
  <2>6. CASE Disarm(t)
    BY <2>6 DEF Disarm
  <2>7. CASE Wake(t)
    BY <2>7 DEF Wake
  <2>8. QED
    BY <1>2, <2>1, <2>2, <2>3, <2>4, <2>5, <2>6, <2>7 DEF Client
<1>3. CASE Heartbeater
  <2>1. CASE Clear
    BY <2>1 DEF Clear
  <2>2. CASE ReadTarget
    BY <2>2 DEF ReadTarget
  <2>3. CASE EventFired
    BY <2>3 DEF EventFired
  <2>4. CASE WaitTimesOut
    BY <2>4 DEF WaitTimesOut, Sent
  <2>5. CASE Pinged
    BY <2>5 DEF Pinged, Idle
  <2>6. CASE HandleLoopError
    BY <2>6 DEF HandleLoopError, Idle, TooManyErrors
  <2>7. QED
    BY <1>3, <2>1, <2>2, <2>3, <2>4, <2>5, <2>6 DEF Heartbeater
<1>4. CASE Worker
  <2>1. CASE Claimed
    BY <2>1 DEF Claimed, Idle
  <2>2. CASE Register
    BY <2>2 DEF Register
  <2>3. CASE Spawn
    BY <2>3 DEF Spawn, Idle
  <2>4. CASE Joined
    BY <2>4 DEF Joined
  <2>5. CASE Leave
    BY <2>5 DEF Leave, Sent, NeedsTransition
  <2>6. CASE Left
    BY <2>6 DEF Left
  <2>7. QED
    BY <1>4, <2>1, <2>2, <2>3, <2>4, <2>5, <2>6 DEF Worker
<1>5. CASE BodyCalls
  BY <1>5 DEF BodyCalls, Sent
<1>6. CASE BodyGoesOn
  BY <1>6 DEF BodyGoesOn, Idle
<1>7. CASE LeaveBody
  BY <1>7 DEF LeaveBody, Idle
<1>8. CASE OrchestratorActs
  BY <1>8 DEF OrchestratorActs
<1>9. CASE TimePasses \/ UNCHANGED vars
  BY <1>9 DEF TimePasses, vars
<1>10. QED
  BY <1>1, <1>2, <1>3, <1>4, <1>5, <1>6, <1>7, <1>8, <1>9 DEF Next, Terminated

(* It holds in every reachable state.                                          *)
LEMMA GoingOnHolds == Spec => [](IInv /\ GoingOn)
<1>1. Init => GoingOn
  BY DEF Init, GoingOn, CallsGoOn, AfterTheBody, Idle, Sent
<1>2. QED
  BY <1>1, GoingOnStep, Inductive, PTL DEF Spec

(* A heartbeater gives up in time (_handle_loop_error).                         *)
THEOREM ErrorsStopInTime == Spec => []StopsInTime
<1>1. IInv /\ GoingOn => StopsInTime
  BY LifecycleParameters DEF IInv, GoingOn, StopsInTime, ErrorsAgree, TypeOK
<1>2. QED
  BY <1>1, GoingOnHolds, PTL

(* The worker and the heartbeater never wait for each other.                   *)
THEOREM NoDeadlock == Spec => []NoThreadIsStuck
<1>1. ASSUME IInv, GoingOn, NEW t \in Threads, pc[t] \notin {"done", "failed", "off", "ended"}
      PROVE  \/ CanMove(t)
             \/ WaitsForMu(t) /\ mu \in Threads \ {t} /\ CanMove(mu)
             \/ pc[t] = "wait" /\ ~due
  <2>1. /\ rpc[t].ph \in Phase /\ mu \in {"free"} \cup Threads
        /\ t = W => pc[t] \in WorkerPC
        /\ t = H => pc[t] \in HeartbeaterPC
    BY <1>1 DEF IInv, TypeOK
  <2>2. \A u \in Threads : rpc[u].ph \in Callback <=> mu = u
    BY <1>1 DEF IInv, LockAgrees
  <2>3. CASE WaitsForMu(t)
    <3>1. rpc[t].ph \notin Callback
      BY <1>1, <2>3 DEF WaitsForMu, IInv, CallsAgree
    <3>2. CASE mu = "free"
      BY <2>3, <3>2 DEF CanMove
    <3>3. CASE mu # "free"
      <4>1. mu \in Threads \ {t} /\ rpc[mu].ph \in Callback
        BY <2>1, <2>2, <3>1, <3>3
      <4>2. CanMove(mu)
        BY <4>1 DEF CanMove
      <4>3. QED
        BY <2>3, <4>1, <4>2
    <3>4. QED
      BY <3>2, <3>3
  <2>4. CASE ~WaitsForMu(t) /\ t = W
    BY <1>1, <2>1, <2>4 DEF CanMove, WaitsForMu, GoingOn, CallsGoOn, IInv, CallsAgree, Phase,
                            WorkerPC, Unregistering
  <2>5. CASE ~WaitsForMu(t) /\ t = H
    BY <1>1, <2>1, <2>5 DEF CanMove, WaitsForMu, GoingOn, CallsGoOn, IInv, CallsAgree, Phase,
                            HeartbeaterPC, Unregistering
  <2>6. QED
    BY <2>3, <2>4, <2>5
<1>2. IInv /\ GoingOn => NoThreadIsStuck
  BY <1>1 DEF NoThreadIsStuck
<1>3. QED
  BY <1>2, GoingOnHolds, PTL

(* How far a heartbeater is from its end once the target is None.              *)
PhaseLeft(r) ==
  CASE r.ph = "sent" -> 2 * (MaxRetries - r.tries) + 6
    [] r.ph = "answered" -> 2 * (MaxRetries - r.tries) + 5
    [] r.ph = "notify" -> 4 [] r.ph = "assign" -> 3 [] r.ph = "signal" -> 2
    [] OTHER -> 1
LoopLeft ==
  CASE pc[H] = "wait" -> 2 * MaxRetries + 12
    [] pc[H] = "ping" -> PhaseLeft(rpc[H]) + 5
    [] pc[H] = "discard" -> 5 [] pc[H] = "disarm" -> 4 [] pc[H] = "wake" -> 3
    [] pc[H] = "top" -> 2 [] pc[H] = "read" -> 1
    [] OTHER -> 0

(* Once the target is None, all a heartbeater does brings it nearer to its end. *)
HeartbeaterWindsDown ==
  [][target = None /\ <<pc[H], rpc[H]>>' # <<pc[H], rpc[H]>>
       => LoopLeft' \in Nat /\ LoopLeft' < LoopLeft]_vars

(* The call of a thread that pings: where it is, and how near to its end.      *)
LEMMA PhasesLeft ==
  ASSUME TypeOK, NEW ph \in Phase, NEW k \in 0..MaxRetries, NEW r, r.ph = ph, r.tries = k
  PROVE  /\ PhaseLeft(r) \in 1..(2 * MaxRetries + 6)
         /\ ph = "sent" => PhaseLeft(r) = 2 * (MaxRetries - k) + 6
         /\ ph = "answered" => PhaseLeft(r) = 2 * (MaxRetries - k) + 5
         /\ ph = "notify" => PhaseLeft(r) = 4
         /\ ph = "assign" => PhaseLeft(r) = 3
         /\ ph = "signal" => PhaseLeft(r) = 2
         /\ ph \in {"idle", "ok"} \cup Failures => PhaseLeft(r) = 1
BY LifecycleParameters DEF PhaseLeft, Phase

(* A call only comes nearer to its end.                                        *)
LEMMA CallWindsDown ==
  ASSUME TypeOK, CallsAgree, TypeOK', NEW t \in Threads,
         \/ Transport(t)
         \/ Observe(t) \/ CheckTarget(t) \/ SetTarget(t) \/ SignalTarget(t)
  PROVE  /\ pc' = pc /\ \A u \in Threads \ {t} : rpc'[u] = rpc[u]
         /\ PhaseLeft(rpc'[t]) < PhaseLeft(rpc[t])
         /\ rpc[t].ph # "idle"
<1> DEFINE r == rpc[t]
           q == rpc'[t]
<1>1. /\ r \in Rpc /\ q \in Rpc /\ rpc \in [Threads -> Rpc]
  BY DEF TypeOK, Rpc
<1>2. /\ r.ph \in Phase /\ r.tries \in 0..MaxRetries /\ q.ph \in Phase /\ q.tries \in 0..MaxRetries
  BY <1>1 DEF Rpc
<1>3. /\ pc' = pc /\ \A u \in Threads \ {t} : rpc'[u] = rpc[u]
      /\ \/ r.ph = "sent" /\ q.ph \in {"answered"} \cup Failures /\ q.tries = r.tries
         \/ r.ph \in {"sent", "answered"} /\ q.ph = "sent" /\ q.tries = r.tries + 1
         \/ r.ph = "answered" /\ q.ph \in {"notify", "ok"} \cup Failures
         \/ r.ph = "notify" /\ q.ph \in {"assign", "ok"}
         \/ r.ph = "assign" /\ q.ph = "signal"
         \/ r.ph = "signal" /\ q.ph = "ok"
  <2> USE <1>1 DEF Rpc, Phased
  <2>1. CASE Answer(t)
    BY <2>1 DEF Answer
  <2>2. CASE Refuse(t)
    BY <2>2 DEF Refuse
  <2>3. CASE Fail(t)
    BY <2>3 DEF Fail
  <2>4. CASE Break(t)
    BY <2>4 DEF Break
  <2>5. CASE Observe(t)
    BY <2>5 DEF Observe
  <2>6. CASE CheckTarget(t)
    BY <2>6 DEF CheckTarget
  <2>7. CASE SetTarget(t)
    BY <2>7 DEF SetTarget
  <2>8. CASE SignalTarget(t)
    BY <2>8 DEF SignalTarget
  <2>9. QED
    BY <2>1, <2>2, <2>3, <2>4, <2>5, <2>6, <2>7, <2>8 DEF Transport
<1> HIDE DEF r, q
<1> DEFINE P(x) ==
         /\ PhaseLeft(x) \in 1..(2 * MaxRetries + 6)
         /\ x.ph = "sent" => PhaseLeft(x) = 2 * (MaxRetries - x.tries) + 6
         /\ x.ph = "answered" => PhaseLeft(x) = 2 * (MaxRetries - x.tries) + 5
         /\ x.ph = "notify" => PhaseLeft(x) = 4
         /\ x.ph = "assign" => PhaseLeft(x) = 3
         /\ x.ph = "signal" => PhaseLeft(x) = 2
         /\ x.ph \in {"idle", "ok"} \cup Failures => PhaseLeft(x) = 1
<1>4. P(r) /\ P(q)
  BY <1>2, PhasesLeft
<1>5. PhaseLeft(q) < PhaseLeft(r) /\ r.ph # "idle"
  BY <1>2, <1>3, <1>4, LifecycleParameters
<1>6. QED
  BY <1>3, <1>5 DEF r, q

(* With the target None a heartbeater's loop runs out, whatever its requests   *)
(* come to; together with NoDeadlock this is what HeartbeaterEnds rests on.    *)
THEOREM LoopRunsOut == Spec => HeartbeaterWindsDown
<1>1. ASSUME TypeOK, TypeOK', CallsAgree, [Next]_vars, target = None,
             <<pc[H], rpc[H]>>' # <<pc[H], rpc[H]>>
      PROVE  LoopLeft' \in Nat /\ LoopLeft' < LoopLeft
  <2>1. /\ rpc \in [Threads -> Rpc] /\ rpc' \in [Threads -> Rpc]
        /\ pc \in [Threads -> WorkerPC \cup HeartbeaterPC]
        /\ pc[H] \in HeartbeaterPC /\ pc'[H] \in HeartbeaterPC
    BY <1>1 DEF TypeOK, Rpc
  <2>2. /\ PhaseLeft(rpc[H]) \in 1..(2 * MaxRetries + 6)
        /\ PhaseLeft(rpc'[H]) \in 1..(2 * MaxRetries + 6)
    <3>1. /\ rpc[H].ph \in Phase /\ rpc[H].tries \in 0..MaxRetries
          /\ rpc'[H].ph \in Phase /\ rpc'[H].tries \in 0..MaxRetries
      BY <2>1 DEF Rpc
    <3>2. QED
      BY <1>1, <3>1, PhasesLeft
  <2>3. ASSUME NEW t \in Threads,
               \/ Transport(t)
               \/ Observe(t) \/ CheckTarget(t) \/ SetTarget(t) \/ SignalTarget(t)
        PROVE  LoopLeft' \in Nat /\ LoopLeft' < LoopLeft
    <3>1. /\ pc' = pc /\ \A u \in Threads \ {t} : rpc'[u] = rpc[u]
          /\ PhaseLeft(rpc'[t]) < PhaseLeft(rpc[t])
          /\ rpc[t].ph # "idle"
      BY <1>1, <2>3, CallWindsDown
    <3>2. t = H
      BY <1>1, <3>1
    <3>3. pc[H] = "ping" /\ pc'[H] = "ping"
      BY <1>1, <3>1, <3>2 DEF CallsAgree
    <3>4. LoopLeft = PhaseLeft(rpc[H]) + 5 /\ LoopLeft' = PhaseLeft(rpc'[H]) + 5
      BY <3>3 DEF LoopLeft
    <3>5. QED
      BY <2>2, <3>1, <3>2, <3>4, LifecycleParameters
  <2>4. ASSUME \/ pc[H] = "wait" /\ pc'[H] \in {"top", "ping"}
               \/ pc[H] = "ping" /\ pc'[H] \in {"top", "discard"}
               \/ pc[H] = "discard" /\ pc'[H] = "disarm"
               \/ pc[H] = "disarm" /\ pc'[H] = "wake"
               \/ pc[H] = "wake" /\ pc'[H] = "top"
               \/ pc[H] = "top" /\ pc'[H] = "read"
               \/ pc[H] = "read" /\ pc'[H] = "ended"
        PROVE  LoopLeft' \in Nat /\ LoopLeft' < LoopLeft
    BY <2>2, <2>4, LifecycleParameters DEF LoopLeft
  <2>5. ASSUME NEW t \in Threads, Discard(t) \/ Disarm(t) \/ Wake(t)
        PROVE  LoopLeft' \in Nat /\ LoopLeft' < LoopLeft
    <3>1. t = H
      BY <1>1, <2>1, <2>5 DEF Discard, Disarm, Wake, Goto
    <3>2. QED
      BY <2>1, <2>4, <2>5, <3>1 DEF Discard, Disarm, Wake, Goto
  <2>6. CASE Heartbeater
    BY <1>1, <2>1, <2>4, <2>6 DEF Heartbeater, Clear, ReadTarget, EventFired, WaitTimesOut,
                                  Pinged, HandleLoopError, Goto
  <2>7. CASE \/ Worker \/ BodyCalls \/ BodyGoesOn \/ LeaveBody \/ OrchestratorActs \/ TimePasses
             \/ UNCHANGED vars
    <3>1. pc'[H] = pc[H] /\ rpc'[H] = rpc[H]
      <4>1. CASE Spawn
        BY <1>1, <2>1, <4>1 DEF Spawn, CallsAgree
      <4>2. CASE \/ Claimed \/ Register \/ Joined \/ Leave \/ Left
        BY <2>1, <4>2 DEF Claimed, Register, Joined, Leave, Left, Goto, Phased
      <4>3. CASE \/ BodyCalls \/ BodyGoesOn \/ LeaveBody \/ OrchestratorActs \/ TimePasses
                 \/ UNCHANGED vars
        BY <2>1, <4>3 DEF BodyCalls, BodyGoesOn, LeaveBody, OrchestratorActs, TimePasses,
                          Goto, vars
      <4>4. QED
        BY <2>7, <4>1, <4>2, <4>3 DEF Worker
    <3>2. QED
      BY <1>1, <3>1
  <2>8. QED
    BY <1>1, <2>3, <2>5, <2>6, <2>7 DEF Next, Terminated, Client
<1>2. IInv /\ IInv' /\ [Next]_vars =>
        [target = None /\ <<pc[H], rpc[H]>>' # <<pc[H], rpc[H]>>
           => LoopLeft' \in Nat /\ LoopLeft' < LoopLeft]_vars
  BY <1>1 DEF IInv
<1>3. QED
  BY <1>2, Inductive, PTL DEF Spec, HeartbeaterWindsDown
===============================================================================
