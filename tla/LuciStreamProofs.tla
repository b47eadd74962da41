--------------------------- MODULE LuciStreamProofs ---------------------------
(***************************************************************************)
(* Proofs about LuciStream, for every number of steps, logs and changes.    *)
(***************************************************************************)
EXTENDS LuciStream, FiniteSetTheorems, SequenceTheorems, TLAPS

(***************************************************************************)
(* The inductive invariant.                                                 *)
(***************************************************************************)

NamesAreRecorded ==
  \A s \in DOMAIN build.steps :
    /\ \A i \in DOMAIN build.steps[s].logs : build.steps[s].logs[i] \in created
    /\ build.steps[s].merge \in created \cup {NoUrl}

OverIsClosed == \A s \in DOMAIN streams : build.steps[s].over => streams[s] = "closed"

SenderAgrees ==
  /\ die <=> engine # "open"
  /\ pc = "done" => die /\ wire = build
  /\ pc = "sleeping" => event
  /\ engine = "closed" => pc \in {"done", "failed"}

IInv ==
  /\ TypeOK /\ NamesAreRecorded /\ NoUrl \notin created /\ LogsAreDistinct
  /\ OverIsClosed /\ SenderAgrees /\ NothingLost /\ Ahead(wire, build)

(***************************************************************************)
(* What the actions do to the build.                                        *)
(***************************************************************************)

\* A step of an open stream becomes new: what MarkRunning, NewLogStream,
\* SetStepStatus and CloseStep have in common.
Revised(s, new) ==
  LET old == build.steps[s] IN
  /\ Open(s) /\ SetStep(s, new) /\ UNCHANGED <<sender, engine>>
  /\ ~old.over /\ StepAhead(old, new)
  /\ \/ new.logs = old.logs /\ created' = created
     \/ \E url \in Url \ created : /\ url # NoUrl /\ created' = created \cup {url}
                                  /\ new.logs = Append(old.logs, url)
  /\ \/ streams' = streams /\ ~new.over
     \/ streams' = [streams EXCEPT ![s] = "closed"]
  /\ \/ Send
     \/ /\ event' = event /\ streams' = streams
        /\ new = [old EXCEPT !.status = new.status]

\* A step is added: what the three ways of opening a stream have in common.
Added(new, stream) ==
  /\ AddStep(new, stream)
  /\ new.status = "SCHEDULED" /\ new.logs = <<>> /\ ~new.over
  /\ \/ stream = "open" /\ Send
     \/ stream = "none" /\ event' = event
  /\ \/ new.merge = NoUrl /\ created' = created
     \/ new.merge \in Url \ (created \cup {NoUrl}) /\ created' = created \cup {new.merge}

\* SetStep changes one step of the build and nothing else.
LEMMA SetStepFacts ==
  ASSUME TypeOK, NEW s \in DOMAIN streams, NEW new \in Step, SetStep(s, new)
  PROVE  /\ build' \in Build
         /\ DOMAIN build'.steps = DOMAIN build.steps /\ Len(build'.steps) = Len(build.steps)
         /\ build'.steps[s] = new
         /\ \A t \in DOMAIN build.steps : t # s => build'.steps[t] = build.steps[t]
         /\ build'.status = build.status /\ build'.notes = build.notes
<1> DEFINE old == build.steps  upd == [build.steps EXCEPT ![s] = new]
<1>1. build \in Build /\ old \in Seq(Step)
  BY DEF TypeOK, Build
<1>2. s \in DOMAIN old
  BY <1>1 DEF TypeOK
<1>3. build' = [steps |-> upd, status |-> build.status, notes |-> build.notes]
  BY <1>1 DEF SetStep, Build
<1>4. /\ upd \in Seq(Step) /\ DOMAIN upd = DOMAIN old /\ Len(upd) = Len(old)
      /\ upd[s] = new /\ \A t \in DOMAIN old : t # s => upd[t] = old[t]
  BY <1>1, <1>2
<1> QED
  BY <1>1, <1>3, <1>4 DEF Build

\* AddStep puts a step at the end of the build.
LEMMA AddStepFacts ==
  ASSUME TypeOK, NEW new \in Step, NEW stream \in {"open", "closed", "none"},
         AddStep(new, stream)
  PROVE  /\ build' \in Build /\ streams' \in Seq({"open", "closed", "none"})
         /\ Len(streams') = Len(streams) + 1 /\ Len(build'.steps) = Len(build.steps) + 1
         /\ DOMAIN build'.steps = DOMAIN build.steps \cup {Len(streams) + 1}
         /\ DOMAIN streams' = DOMAIN streams \cup {Len(streams) + 1}
         /\ DOMAIN streams = DOMAIN build.steps /\ Len(streams) + 1 \notin DOMAIN streams
         /\ build'.steps[Len(streams) + 1] = new /\ streams'[Len(streams) + 1] = stream
         /\ \A t \in DOMAIN streams :
              build'.steps[t] = build.steps[t] /\ streams'[t] = streams[t]
         /\ build'.status = build.status /\ build'.notes = build.notes
<1> DEFINE old == build.steps  more == Append(build.steps, new)
<1>1. build \in Build /\ old \in Seq(Step) /\ Len(streams) = Len(old)
      /\ streams \in Seq({"open", "closed", "none"})
  BY DEF TypeOK, Build
<1>2. build' = [steps |-> more, status |-> build.status, notes |-> build.notes]
  BY <1>1 DEF AddStep, Build
<1>3. streams' = Append(streams, stream)
  BY DEF AddStep
<1>4. /\ more \in Seq(Step) /\ Len(more) = Len(old) + 1
      /\ DOMAIN more = DOMAIN old \cup {Len(streams) + 1}
      /\ more[Len(streams) + 1] = new
      /\ \A t \in DOMAIN old : more[t] = old[t]
  BY <1>1
<1>5. /\ streams' \in Seq({"open", "closed", "none"}) /\ Len(streams') = Len(streams) + 1
      /\ DOMAIN streams' = DOMAIN streams \cup {Len(streams) + 1}
      /\ streams'[Len(streams) + 1] = stream
      /\ \A t \in DOMAIN streams : streams'[t] = streams[t]
      /\ Len(streams) + 1 \notin DOMAIN streams
      /\ DOMAIN streams = DOMAIN old
  BY <1>1, <1>3
<1> QED
  BY <1>1, <1>2, <1>4, <1>5 DEF Build

\* A new step is well formed.
LEMMA NewStepType ==
  ASSUME NEW space \in Spaces, NEW merge \in Url
  PROVE  NewStep(space, merge) \in Step
BY DEF NewStep, Step

\* A record of a prefix and a name is a stream's name, and not NoUrl.
LEMMA UrlRecord ==
  ASSUME NEW space \in Seq(Tokens), NEW log \in LogName
  PROVE  /\ [space |-> space, log |-> log] \in Url
         /\ space # <<>> => [space |-> space, log |-> log] # NoUrl
<1>1. [space |-> space, log |-> log].space = space /\ NoUrl.space = <<>>
  BY DEF NoUrl
<1> QED
  BY <1>1 DEF Url

\* The names of streams are names.
LEMMA UrlTypes ==
  /\ NoUrl \in Url
  /\ \A space \in Spaces : MergeUrl(space) \in Url /\ MergeUrl(space) # NoUrl
  /\ \A space \in Spaces, l \in LogNames, k \in Nat :
       LET url == Flat([space |-> space, log |-> l], k)
       IN  url \in Url /\ url # NoUrl
<1>0. ASSUME NEW name \in Tokens, NEW numbers \in Seq(Nat)
      PROVE  [name |-> name, numbers |-> numbers] \in LogName
  BY DEF LogName
<1>1. NoUrl \in Url
  <2>1. <<>> \in Seq(Tokens) /\ <<>> \in Seq(Nat)
    BY EmptySeq
  <2>3. "" \in Tokens
    BY StreamParameters
  <2>2. [name |-> "", numbers |-> <<>>] \in LogName
    BY <2>1, <2>3, <1>0
  <2> QED  BY <2>1, <2>2, UrlRecord DEF NoUrl
<1>2. ASSUME NEW space \in Spaces  PROVE MergeUrl(space) \in Url /\ MergeUrl(space) # NoUrl
  <2>1. space \in Seq(Tokens)
    BY <1>2, StreamParameters
  <2>6. "u" \in Tokens
    BY StreamParameters
  <2>2. Append(space, "u") \in Seq(Tokens) /\ Append(space, "u") # <<>>
    BY <2>1, <2>6, AppendProperties
  <2>4. <<>> \in Seq(Nat) /\ "build.proto" \in Tokens
    BY EmptySeq, StreamParameters
  <2>5. [name |-> "build.proto", numbers |-> <<>>] \in LogName
    BY <2>4, <1>0
  <2> QED  BY <2>2, <2>5, UrlRecord DEF MergeUrl
<1>3. ASSUME NEW space \in Spaces, NEW l \in LogNames, NEW k \in Nat
      PROVE  LET url == Flat([space |-> space, log |-> l], k)
             IN  url \in Url /\ url # NoUrl
  <2>1. space \in Seq(Tokens) /\ space # <<>> /\ l \in LogName
    BY <1>3, StreamParameters DEF LogName
  <2>2. CASE k = 0
    BY <2>1, <2>2, UrlRecord DEF Flat
  <2>3. CASE k # 0
    <3>1. k - 1 \in Nat
      BY <2>3
    <3>2. Append(l.numbers, k - 1) \in Seq(Nat) /\ l.name \in Tokens
      BY <2>1, <3>1 DEF LogName
    <3>3. Flat([space |-> space, log |-> l], k)
            = [space |-> space, log |-> [name |-> l.name, numbers |-> Append(l.numbers, k - 1)]]
      BY <2>1, <2>3 DEF Flat, LogName
    <3>4. [name |-> l.name, numbers |-> Append(l.numbers, k - 1)] \in LogName
      BY <3>2, <1>0
    <3> QED  BY <2>1, <3>3, <3>4, UrlRecord
  <2> QED  BY <2>2, <2>3
<1> QED
  BY <1>1, <1>2, <1>3

\* The calls on a step's stream revise the step.
LEMMA Revisions ==
  ASSUME TypeOK, OverIsClosed, NoUrl \notin created, NEW s \in DOMAIN streams,
         \/ MarkRunning(s) \/ CloseStep(s)
         \/ \E l \in LogNames : NewLogStream(s, l)
         \/ \E o \in Outcomes : SetStepStatus(s, o)
  PROVE  \E new \in Step : Revised(s, new)
<1> DEFINE old == build.steps[s]
<1>1. old \in Step
  BY DEF TypeOK, Build
<1>2. Open(s) /\ ~old.over
  BY DEF MarkRunning, CloseStep, NewLogStream, SetStepStatus, Open, OverIsClosed
<1>3. old = [space |-> old.space, status |-> old.status, logs |-> old.logs,
             merge |-> old.merge, over |-> old.over]
      /\ old.space \in Spaces /\ old.logs \in Seq(Url) /\ old.merge \in Url /\ ~old.over
  BY <1>1, <1>2 DEF Step
<1>4. CASE MarkRunning(s)
  <2> DEFINE new == [old EXCEPT !.status = "STARTED"]
  <2>1. new \in Step /\ StepAhead(old, new) /\ new.logs = old.logs /\ ~new.over
    BY <1>3, <1>1, <1>4 DEF Step, StepAhead, Ended, MarkRunning
  <2>2. SetStep(s, new) /\ Send /\ UNCHANGED <<client, sender, engine>>
    BY <1>4 DEF MarkRunning
  <2>3. Revised(s, new)
    BY <2>1, <2>2, <1>2 DEF Revised, client
  <2> QED  BY <2>1, <2>3
<1>5. CASE CloseStep(s)
  <2> DEFINE new == [old EXCEPT !.status = IF @ = "STARTED" THEN "SUCCESS" ELSE @, !.over = TRUE]
  <2>1. new \in Step /\ StepAhead(old, new) /\ new.logs = old.logs
    BY <1>3, <1>1, <1>5 DEF Step, StepAhead, Ended, CloseStep
  <2>2. SetStep(s, new) /\ Send /\ UNCHANGED <<created, sender, engine>>
        /\ streams' = [streams EXCEPT ![s] = "closed"]
    BY <1>5 DEF CloseStep
  <2>3. Revised(s, new)
    BY <2>1, <2>2, <1>2 DEF Revised
  <2> QED  BY <2>1, <2>3
<1>6. CASE \E o \in Outcomes : SetStepStatus(s, o)
  <2>1. PICK o \in Outcomes : SetStepStatus(s, o)
    BY <1>6
  <2> DEFINE new == [old EXCEPT !.status = o]
  <2>2. o \in Ended
    BY StreamParameters
  <2>3. new \in Step /\ StepAhead(old, new) /\ new.logs = old.logs /\ ~new.over
        /\ new = [old EXCEPT !.status = new.status]
    BY <1>3, <1>1, <2>1, <2>2 DEF Step, StepAhead, Ended, SetStepStatus
  <2>4. SetStep(s, new) /\ UNCHANGED <<client, event, sender, engine>>
    BY <2>1 DEF SetStepStatus
  <2>5. Revised(s, new)
    BY <2>3, <2>4, <1>2 DEF Revised, client
  <2> QED  BY <2>3, <2>5
<1>7. CASE \E l \in LogNames : NewLogStream(s, l)
  <2>1. PICK l \in LogNames : NewLogStream(s, l)
    BY <1>7
  <2>2. PICK k \in 0..Cardinality(created) :
          LET url == Flat([space |-> old.space, log |-> l], k) IN
          /\ FirstFree([space |-> old.space, log |-> l], k)
          /\ created' = created \cup {url}
          /\ SetStep(s, [old EXCEPT !.logs = Append(@, url)])
    BY <2>1 DEF NewLogStream
  <2> DEFINE url == Flat([space |-> old.space, log |-> l], k)
             new == [old EXCEPT !.logs = Append(@, url)]
  <2>3. url \in Url /\ url # NoUrl
    <3>1. k \in Nat
      BY <2>2
    <3> QED  BY <3>1, <1>3, UrlTypes
  <2>4. url \notin created
    BY <2>2 DEF FirstFree
  <2> HIDE DEF url
  <2>5. Append(old.logs, url) \in Seq(Url)
        /\ \A i \in DOMAIN old.logs : i \in DOMAIN Append(old.logs, url)
                                     /\ Append(old.logs, url)[i] = old.logs[i]
    BY <1>3, <2>3
  <2>6. new \in Step /\ StepAhead(old, new) /\ new.logs = Append(old.logs, url) /\ ~new.over
    BY <1>3, <1>1, <2>5 DEF Step, StepAhead
  <2>7. created' = created \cup {url} /\ SetStep(s, new)
    BY <2>2 DEF url
  <2>8. Send /\ UNCHANGED <<streams, sender, engine>>
    BY <2>1 DEF NewLogStream
  <2>9. Revised(s, new)
    BY <2>3, <2>4, <2>6, <2>7, <2>8, <1>2 DEF Revised
  <2> QED  BY <2>6, <2>9
<1> QED
  BY <1>4, <1>5, <1>6, <1>7

\* The three ways of opening a stream add a step.
LEMMA Additions ==
  ASSUME NoUrl \notin created, NEW x \in Spaces,
         NewStepStream(x) \/ NewMergeStep(x) \/ RefuseMergeStep(x)
  PROVE  \E new \in Step, stream \in {"open", "none"} : Added(new, stream)
<1> DEFINE new(m) == NewStep(x, m)
<1>1. ASSUME NEW m \in Url
      PROVE  /\ new(m) \in Step /\ new(m).status = "SCHEDULED" /\ new(m).logs = <<>>
             /\ ~new(m).over /\ new(m).merge = m
  BY NewStepType DEF NewStep
<1>2. NoUrl \in Url /\ MergeUrl(x) \in Url /\ MergeUrl(x) # NoUrl
  BY UrlTypes
<1>3. CASE NewStepStream(x)
  <2>1. Added(new(NoUrl), "open")
    BY <1>1, <1>2, <1>3 DEF Added, NewStepStream
  <2> QED  BY <2>1, <1>1, <1>2
<1>4. CASE NewMergeStep(x)
  <2>1. Added(new(MergeUrl(x)), "open")
    BY <1>1, <1>2, <1>4 DEF Added, NewMergeStep
  <2> QED  BY <2>1, <1>1, <1>2
<1>5. CASE RefuseMergeStep(x)
  <2>1. Added(new(NoUrl), "none")
    BY <1>1, <1>2, <1>5 DEF Added, RefuseMergeStep
  <2> QED  BY <2>1, <1>1, <1>2
<1> QED
  BY <1>3, <1>4, <1>5

(***************************************************************************)
(* The steps of the specification, sorted by what they change.              *)
(***************************************************************************)

\* What a step of the specification is.
Kinds ==
  \/ \E s \in DOMAIN streams, new \in Step : Revised(s, new)
  \/ \E new \in Step, stream \in {"open", "none"} : Added(new, stream)
  \/ \E s \in DOMAIN streams : Note(s)
  \/ \E o \in Outcomes : WriteResult(o)
  \/ CloseEngine \/ Joined \/ Woken \/ Publish \/ LastSend \/ SendFails
  \/ UNCHANGED vars

\* Every step of the specification is of one of these kinds.
LEMMA EveryKind ==
  ASSUME TypeOK, OverIsClosed, NoUrl \notin created, [Next]_vars
  PROVE  Kinds
<1>1. CASE \E x \in Spaces : NewStepStream(x) \/ NewMergeStep(x) \/ RefuseMergeStep(x)
  BY <1>1, Additions DEF Kinds
<1>2. ASSUME NEW s \in DOMAIN streams,
             \/ MarkRunning(s) \/ CloseStep(s)
             \/ \E l \in LogNames : NewLogStream(s, l)
             \/ \E o \in Outcomes : SetStepStatus(s, o)
      PROVE  Kinds
  BY <1>2, Revisions DEF Kinds
<1>3. CASE \E s \in DOMAIN streams : Note(s)
  BY <1>3 DEF Kinds
<1>4. CASE EngineCalls \/ SenderSteps \/ UNCHANGED vars
  BY <1>4 DEF Kinds, EngineCalls, SenderSteps
<1> QED
  BY <1>1, <1>2, <1>3, <1>4 DEF Next, StepCalls

\* What a call on the rest of the build changes.
LEMMA RestFacts ==
  ASSUME TypeOK
  PROVE  /\ \A s \in DOMAIN streams : Note(s) =>
              /\ build' \in Build /\ build'.steps = build.steps
              /\ build'.status = build.status /\ build'.notes = build.notes + 1
         /\ \A o \in Outcomes : WriteResult(o) =>
              /\ build' \in Build /\ build'.steps = build.steps
              /\ build.status = "STARTED" /\ build'.status = o /\ build'.notes = build.notes
<1>1. build \in Build
  BY DEF TypeOK
<1>2. ASSUME NEW s \in DOMAIN streams, Note(s)
      PROVE  /\ build' \in Build /\ build'.steps = build.steps
             /\ build'.status = build.status /\ build'.notes = build.notes + 1
  BY <1>1, <1>2 DEF Note, Build
<1>3. ASSUME NEW o \in Outcomes, WriteResult(o)
      PROVE  /\ build' \in Build /\ build'.steps = build.steps
             /\ build.status = "STARTED" /\ build'.status = o /\ build'.notes = build.notes
  BY <1>1, <1>3, StreamParameters DEF WriteResult, Running, Build
<1> QED
  BY <1>2, <1>3

\* The types are kept.
LEMMA TypePreserved ==
  ASSUME TypeOK, Kinds
  PROVE  TypeOK'
<1>0. /\ build \in Build /\ wire \in Build
      /\ streams \in Seq({"open", "closed", "none"}) /\ Len(streams) = Len(build.steps)
      /\ created \subseteq Url /\ event \in BOOLEAN /\ die \in BOOLEAN
      /\ pc \in {"waiting", "sleeping", "done", "failed"}
      /\ engine \in {"open", "closing", "closed"}
  BY DEF TypeOK
<1>1. ASSUME NEW s \in DOMAIN streams, NEW new \in Step, Revised(s, new)
      PROVE  TypeOK'
  <2>1. build' \in Build /\ Len(build'.steps) = Len(build.steps)
    BY <1>1, SetStepFacts DEF Revised
  <2>2. streams' \in Seq({"open", "closed", "none"}) /\ Len(streams') = Len(streams)
    BY <1>0, <1>1 DEF Revised
  <2>3. created' \subseteq Url /\ event' \in BOOLEAN
    BY <1>0, <1>1 DEF Revised, Send
  <2>4. UNCHANGED <<die, pc, wire, engine>>
    BY <1>1 DEF Revised, sender
  <2> QED  BY <1>0, <2>1, <2>2, <2>3, <2>4 DEF TypeOK
<1>2. ASSUME NEW new \in Step, NEW stream \in {"open", "none"}, Added(new, stream)
      PROVE  TypeOK'
  <2>1. /\ build' \in Build /\ streams' \in Seq({"open", "closed", "none"})
        /\ Len(streams') = Len(build'.steps)
    BY <1>0, <1>2, AddStepFacts DEF Added
  <2>3. created' \subseteq Url /\ event' \in BOOLEAN
    BY <1>0, <1>2 DEF Added, Send
  <2>4. UNCHANGED <<die, pc, wire, engine>>
    BY <1>2 DEF Added, AddStep, sender
  <2> QED  BY <1>0, <2>1, <2>3, <2>4 DEF TypeOK
<1>3. CASE \E s \in DOMAIN streams : Note(s)
  BY <1>0, <1>3, RestFacts DEF TypeOK, Note, Send, client, sender
<1>4. CASE \E o \in Outcomes : WriteResult(o)
  BY <1>0, <1>4, RestFacts DEF TypeOK, WriteResult, Send, client, sender
<1>5. CASE CloseEngine \/ Joined \/ Woken \/ Publish \/ LastSend \/ SendFails
  BY <1>0, <1>5 DEF TypeOK, CloseEngine, Joined, Woken, Publish, LastSend, SendFails, Send,
                    client, sender
<1>6. CASE UNCHANGED vars
  BY <1>0, <1>6 DEF TypeOK, vars, client, sender
<1> QED
  BY <1>1, <1>2, <1>3, <1>4, <1>5, <1>6 DEF Kinds

NamesInv == NamesAreRecorded /\ NoUrl \notin created /\ LogsAreDistinct

\* Names are kept by a step that leaves the steps of the build and created alone.
LEMMA NamesFrame ==
  ASSUME NamesInv, build'.steps = build.steps, created' = created
  PROVE  NamesInv'
BY DEF NamesInv, NamesAreRecorded, LogsAreDistinct

\* The names of a revised step stay apart.
LEMMA NamesRevised ==
  ASSUME TypeOK, NamesInv, NEW s \in DOMAIN streams, NEW new \in Step, Revised(s, new)
  PROVE  NamesInv'
<1> DEFINE old == build.steps
<1>1. /\ DOMAIN build'.steps = DOMAIN old /\ build'.steps[s] = new
      /\ \A t \in DOMAIN old : t # s => build'.steps[t] = old[t]
  BY SetStepFacts DEF Revised
<1>2. s \in DOMAIN old /\ old[s] \in Step
  BY DEF TypeOK, Build
<1>3. \A t \in DOMAIN old : build'.steps[t].merge = old[t].merge
  BY <1>1 DEF Revised, StepAhead
<1>4. CASE new.logs = old[s].logs /\ created' = created
  <2>1. \A t \in DOMAIN old : build'.steps[t].logs = old[t].logs
    BY <1>1, <1>4
  <2> QED  BY <1>1, <1>3, <1>4, <2>1 DEF NamesInv, NamesAreRecorded, LogsAreDistinct
<1>5. ASSUME NEW url \in Url \ created, url # NoUrl, created' = created \cup {url},
             new.logs = Append(old[s].logs, url)
      PROVE  NamesInv'
  <2> DEFINE next == Len(old[s].logs) + 1
  <2>1. old[s].logs \in Seq(Url)
    BY <1>2 DEF Step
  <2>2. /\ DOMAIN new.logs = DOMAIN old[s].logs \cup {next} /\ next \notin DOMAIN old[s].logs
        /\ new.logs[next] = url
        /\ \A i \in DOMAIN old[s].logs : new.logs[i] = old[s].logs[i]
    <3> DEFINE logs == old[s].logs
    <3>1. url \in Url /\ new.logs = Append(logs, url)
      BY <1>5
    <3> HIDE DEF logs
    <3>2. logs \in Seq(Url)
      BY <2>1 DEF logs
    <3>3. /\ DOMAIN Append(logs, url) = DOMAIN logs \cup {Len(logs) + 1}
          /\ Len(logs) + 1 \notin DOMAIN logs /\ Append(logs, url)[Len(logs) + 1] = url
          /\ \A i \in DOMAIN logs : Append(logs, url)[i] = logs[i]
      BY <3>1, <3>2
    <3> QED  BY <3>1, <3>3 DEF logs
  <2> HIDE DEF next
  <2>3. \A t \in DOMAIN old : \A i \in DOMAIN build'.steps[t].logs :
          \/ i \in DOMAIN old[t].logs /\ build'.steps[t].logs[i] = old[t].logs[i]
          \/ t = s /\ i = next /\ build'.steps[t].logs[i] = url
    BY <1>1, <2>2
  <2>4. /\ \A t \in DOMAIN old : /\ old[t].merge # url
                               /\ \A i \in DOMAIN old[t].logs : old[t].logs[i] # url
    BY <1>5 DEF NamesInv, NamesAreRecorded
  <2>5. NamesAreRecorded' /\ NoUrl \notin created'
    BY <1>1, <1>3, <1>5, <2>3 DEF NamesInv, NamesAreRecorded
  <2>6. LogsAreDistinct'
    <3> SUFFICES ASSUME NEW t \in DOMAIN old, NEW u \in DOMAIN old
                 PROVE  /\ \A i \in DOMAIN build'.steps[t].logs, j \in DOMAIN build'.steps[u].logs :
                             build'.steps[t].logs[i] = build'.steps[u].logs[j] => t = u /\ i = j
                        /\ \A i \in DOMAIN build'.steps[t].logs :
                             build'.steps[t].logs[i] # build'.steps[u].merge
                        /\ build'.steps[t].merge = build'.steps[u].merge =>
                             t = u \/ build'.steps[t].merge = NoUrl
      BY <1>1 DEF LogsAreDistinct
    <3>1. ASSUME NEW i \in DOMAIN build'.steps[t].logs, NEW j \in DOMAIN build'.steps[u].logs,
                 build'.steps[t].logs[i] = build'.steps[u].logs[j]
          PROVE  t = u /\ i = j
      BY <2>3, <2>4, <3>1 DEF NamesInv, LogsAreDistinct
    <3>2. ASSUME NEW i \in DOMAIN build'.steps[t].logs
          PROVE  build'.steps[t].logs[i] # build'.steps[u].merge
      BY <1>3, <2>3, <2>4 DEF NamesInv, LogsAreDistinct
    <3>3. build'.steps[t].merge = build'.steps[u].merge =>
            t = u \/ build'.steps[t].merge = NoUrl
      BY <1>3 DEF NamesInv, LogsAreDistinct
    <3> QED  BY <3>1, <3>2, <3>3
  <2> QED  BY <2>5, <2>6 DEF NamesInv
<1> QED
  BY <1>4, <1>5 DEF Revised

\* The names of a new step are new.
LEMMA NamesAdded ==
  ASSUME TypeOK, NamesInv, NEW new \in Step, NEW stream \in {"open", "none"},
         Added(new, stream)
  PROVE  NamesInv'
<1> DEFINE old == build.steps  last == Len(streams) + 1
<1>1. /\ DOMAIN build'.steps = DOMAIN old \cup {last} /\ last \notin DOMAIN old
      /\ build'.steps[last] = new /\ \A t \in DOMAIN old : build'.steps[t] = old[t]
  BY AddStepFacts DEF Added
<1> HIDE DEF last
<1>2. DOMAIN new.logs = {}
  BY DEF Added
<1>3. CASE new.merge = NoUrl /\ created' = created
  <2>1. NamesAreRecorded' /\ NoUrl \notin created'
    BY <1>1, <1>2, <1>3 DEF NamesInv, NamesAreRecorded
  <2>2. \A t \in DOMAIN old : \A i \in DOMAIN old[t].logs : old[t].logs[i] # NoUrl
    BY DEF NamesInv, NamesAreRecorded
  <2>3. LogsAreDistinct'
    BY <1>1, <1>2, <1>3, <2>2 DEF NamesInv, LogsAreDistinct
  <2> QED  BY <2>1, <2>3 DEF NamesInv
<1>4. CASE new.merge \in Url \ (created \cup {NoUrl}) /\ created' = created \cup {new.merge}
  <2>1. NamesAreRecorded' /\ NoUrl \notin created'
    BY <1>1, <1>2, <1>4 DEF NamesInv, NamesAreRecorded
  <2>2. \A t \in DOMAIN old : /\ old[t].merge # new.merge
                           /\ \A i \in DOMAIN old[t].logs : old[t].logs[i] # new.merge
    BY <1>4 DEF NamesInv, NamesAreRecorded
  <2>3. LogsAreDistinct'
    BY <1>1, <1>2, <1>4, <2>2 DEF NamesInv, LogsAreDistinct
  <2> QED  BY <2>1, <2>3 DEF NamesInv
<1> QED
  BY <1>3, <1>4 DEF Added

\* Names stay apart.
LEMMA NamesPreserved ==
  ASSUME TypeOK, NamesInv, Kinds
  PROVE  NamesInv'
<1>1. CASE \E s \in DOMAIN streams, new \in Step : Revised(s, new)
  BY <1>1, NamesRevised
<1>2. CASE \E new \in Step, stream \in {"open", "none"} : Added(new, stream)
  BY <1>2, NamesAdded
<1>3. CASE \/ \E s \in DOMAIN streams : Note(s)
           \/ \E o \in Outcomes : WriteResult(o)
  BY <1>3, RestFacts, NamesFrame DEF Note, WriteResult, client
<1>4. CASE \/ CloseEngine \/ Joined \/ Woken \/ Publish \/ LastSend \/ SendFails
           \/ UNCHANGED vars
  BY <1>4, NamesFrame DEF CloseEngine, Joined, Woken, Publish, LastSend, SendFails, vars, client
<1> QED
  BY <1>1, <1>2, <1>3, <1>4 DEF Kinds

\* A step that is over has a closed stream.
LEMMA OverPreserved ==
  ASSUME TypeOK, OverIsClosed, Kinds
  PROVE  OverIsClosed'
<1>0. DOMAIN streams = DOMAIN build.steps /\ streams \in Seq({"open", "closed", "none"})
  BY DEF TypeOK, Build
<1>1. ASSUME NEW s \in DOMAIN streams, NEW new \in Step, Revised(s, new)
      PROVE  OverIsClosed'
  <2>1. /\ build'.steps[s] = new
        /\ \A t \in DOMAIN streams : t # s => build'.steps[t] = build.steps[t]
    BY <1>0, <1>1, SetStepFacts DEF Revised
  <2>2. CASE streams' = streams /\ ~new.over
    BY <2>1, <2>2 DEF OverIsClosed
  <2>3. CASE streams' = [streams EXCEPT ![s] = "closed"]
    <3>1. /\ DOMAIN streams' = DOMAIN streams /\ streams'[s] = "closed"
          /\ \A t \in DOMAIN streams : t # s => streams'[t] = streams[t]
      BY <1>0, <2>3
    <3> QED  BY <2>1, <3>1 DEF OverIsClosed
  <2> QED  BY <1>1, <2>2, <2>3 DEF Revised
<1>2. ASSUME NEW new \in Step, NEW stream \in {"open", "none"}, Added(new, stream)
      PROVE  OverIsClosed'
  <2> DEFINE last == Len(streams) + 1
  <2>1. /\ DOMAIN streams' = DOMAIN streams \cup {last} /\ build'.steps[last] = new
        /\ \A t \in DOMAIN streams : build'.steps[t] = build.steps[t] /\ streams'[t] = streams[t]
    BY <1>2, AddStepFacts DEF Added
  <2>2. ~new.over
    BY <1>2 DEF Added
  <2> QED  BY <2>1, <2>2 DEF OverIsClosed
<1>3. CASE \/ \E s \in DOMAIN streams : Note(s)
           \/ \E o \in Outcomes : WriteResult(o)
  BY <1>3, RestFacts DEF Note, WriteResult, client, OverIsClosed
<1>4. CASE \/ CloseEngine \/ Joined \/ Woken \/ Publish \/ LastSend \/ SendFails
           \/ UNCHANGED vars
  BY <1>4 DEF CloseEngine, Joined, Woken, Publish, LastSend, SendFails, vars, client, OverIsClosed
<1> QED
  BY <1>1, <1>2, <1>3, <1>4 DEF Kinds

\* The build does not change once the stream engine is being closed.
LEMMA SenderPreserved ==
  ASSUME TypeOK, SenderAgrees, Kinds
  PROVE  SenderAgrees'
<1>1. CASE \/ \E s \in DOMAIN streams, new \in Step : Revised(s, new)
           \/ \E new \in Step, stream \in {"open", "none"} : Added(new, stream)
           \/ \E s \in DOMAIN streams : Note(s)
           \/ \E o \in Outcomes : WriteResult(o)
  <2>1. engine = "open" /\ UNCHANGED <<die, pc, wire, engine>>
    BY <1>1 DEF Revised, Added, AddStep, Note, WriteResult, Open, Running, sender
  <2>2. event' = TRUE \/ event' = event
    BY <1>1 DEF Revised, Added, Note, WriteResult, Send
  <2> QED  BY <2>1, <2>2 DEF SenderAgrees
<1>2. CASE CloseEngine
  BY <1>2 DEF CloseEngine, SenderAgrees, Send, client
<1>3. CASE Joined
  BY <1>3 DEF Joined, SenderAgrees, sender
<1>4. CASE Woken \/ Publish \/ LastSend \/ SendFails
  BY <1>4 DEF Woken, Publish, LastSend, SendFails, SenderAgrees, client
<1>5. CASE UNCHANGED vars
  BY <1>5 DEF vars, sender, SenderAgrees
<1> QED
  BY <1>1, <1>2, <1>3, <1>4, <1>5 DEF Kinds

(***************************************************************************)
(* Order of the messages.                                                   *)
(***************************************************************************)

\* Being ahead is reflexive and transitive.
LEMMA AheadOrder ==
  /\ \A b \in Build : Ahead(b, b)
  /\ \A b, c, d \in Build : Ahead(b, c) /\ Ahead(c, d) => Ahead(b, d)
<1>1. ASSUME NEW b \in Build  PROVE Ahead(b, b)
  BY DEF Ahead, StepAhead, Build
<1>2. ASSUME NEW b \in Build, NEW c \in Build, NEW d \in Build, Ahead(b, c), Ahead(c, d)
      PROVE  Ahead(b, d)
  <2>1. b.notes <= d.notes /\ (b.status # "STARTED" => d.status = b.status)
    BY <1>2 DEF Ahead, Build
  <2>2. ASSUME NEW s \in DOMAIN b.steps
        PROVE  s \in DOMAIN d.steps /\ StepAhead(b.steps[s], d.steps[s])
    <3>1. /\ s \in DOMAIN c.steps /\ s \in DOMAIN d.steps
          /\ StepAhead(b.steps[s], c.steps[s]) /\ StepAhead(c.steps[s], d.steps[s])
      BY <1>2 DEF Ahead
    <3> QED  BY <3>1 DEF StepAhead
  <2> QED  BY <2>1, <2>2 DEF Ahead
<1> QED
  BY <1>1, <1>2

\* The build only goes ahead.
LEMMA BuildGoesAhead ==
  ASSUME TypeOK, Kinds
  PROVE  Ahead(build, build')
<1>0. build \in Build /\ DOMAIN streams = DOMAIN build.steps
  BY DEF TypeOK, Build
<1>1. ASSUME NEW s \in DOMAIN streams, NEW new \in Step, Revised(s, new)
      PROVE  Ahead(build, build')
  <2>1. /\ DOMAIN build'.steps = DOMAIN build.steps /\ build'.steps[s] = new
        /\ \A t \in DOMAIN build.steps : t # s => build'.steps[t] = build.steps[t]
        /\ build'.status = build.status /\ build'.notes = build.notes
    BY <1>1, SetStepFacts DEF Revised
  <2>2. StepAhead(build.steps[s], new)
    BY <1>1 DEF Revised
  <2>3. \A t \in DOMAIN build.steps : StepAhead(build.steps[t], build'.steps[t])
    BY <2>1, <2>2 DEF StepAhead
  <2> QED  BY <1>0, <2>1, <2>3 DEF Ahead, Build
<1>2. ASSUME NEW new \in Step, NEW stream \in {"open", "none"}, Added(new, stream)
      PROVE  Ahead(build, build')
  <2>1. /\ DOMAIN build.steps \subseteq DOMAIN build'.steps
        /\ \A t \in DOMAIN build.steps : build'.steps[t] = build.steps[t]
        /\ build'.status = build.status /\ build'.notes = build.notes
    BY <1>0, <1>2, AddStepFacts DEF Added
  <2>2. \A t \in DOMAIN build.steps : StepAhead(build.steps[t], build'.steps[t])
    BY <2>1 DEF StepAhead
  <2> QED  BY <1>0, <2>1, <2>2 DEF Ahead, Build
<1>3. CASE \/ \E s \in DOMAIN streams : Note(s)
           \/ \E o \in Outcomes : WriteResult(o)
  <2>1. /\ build'.steps = build.steps /\ build'.notes >= build.notes
        /\ build.status # "STARTED" => build'.status = build.status
    BY <1>0, <1>3, RestFacts DEF Build
  <2> QED  BY <1>0, <2>1 DEF Ahead, StepAhead, Build
<1>4. CASE \/ CloseEngine \/ Joined \/ Woken \/ Publish \/ LastSend \/ SendFails
           \/ UNCHANGED vars
  BY <1>0, <1>4, AheadOrder DEF CloseEngine, Joined, Woken, Publish, LastSend, SendFails, vars
<1> QED
  BY <1>1, <1>2, <1>3, <1>4 DEF Kinds

\* A message is the build at the time it is sent.
LEMMA Messages ==
  ASSUME Kinds
  PROVE  \/ wire' = wire
         \/ wire' = build /\ build' = build
<1>1. CASE Publish \/ LastSend
  BY <1>1 DEF Publish, LastSend
<1>2. CASE ~(Publish \/ LastSend)
  BY <1>2 DEF Kinds, Revised, Added, AddStep, Note, WriteResult, CloseEngine, Joined, Woken,
              SendFails, vars, sender
<1> QED
  BY <1>1, <1>2

\* The build is ahead of the last message.
LEMMA AheadPreserved ==
  ASSUME TypeOK, TypeOK', Kinds, Ahead(wire, build)
  PROVE  Ahead(wire, build)' /\ Ahead(wire, wire')
<1>1. build \in Build /\ wire \in Build /\ build' \in Build
  BY DEF TypeOK
<1>2. CASE wire' = wire
  BY <1>1, <1>2, BuildGoesAhead, AheadOrder
<1>3. CASE wire' = build /\ build' = build
  BY <1>1, <1>3, AheadOrder
<1> QED
  BY <1>2, <1>3, Messages

(***************************************************************************)
(* No change is forgotten.                                                  *)
(***************************************************************************)

\* A status that is set without a signal leaves the reader up to date otherwise.
LEMMA LostRevised ==
  ASSUME TypeOK, NothingLost, NEW s \in DOMAIN streams, NEW new \in Step, Revised(s, new)
  PROVE  NothingLost'
<1>1. CASE Send
  BY <1>1 DEF Send, NothingLost
<1>2. CASE event' = event /\ streams' = streams /\ new = [build.steps[s] EXCEPT !.status = new.status]
  <2> SUFFICES ASSUME pc = "waiting", ~event
               PROVE  /\ wire.status = build'.status /\ wire.notes = build'.notes
                      /\ \A t \in DOMAIN streams : streams[t] # "none" => Shown(t)'
    BY <1>2 DEF NothingLost, Revised, sender
  <2>1. /\ build'.steps[s] = new /\ DOMAIN streams = DOMAIN build.steps
        /\ \A t \in DOMAIN build.steps : t # s => build'.steps[t] = build.steps[t]
        /\ build'.status = build.status /\ build'.notes = build.notes
    BY SetStepFacts DEF Revised, TypeOK, Build
  <2>2. wire' = wire /\ streams[s] = "open" /\ build.steps[s] \in Step
    BY DEF Revised, Open, sender, TypeOK, Build
  <2>3. /\ wire.status = build.status /\ wire.notes = build.notes
        /\ \A t \in DOMAIN streams : streams[t] # "none" => Shown(t)
    BY DEF NothingLost
  <2>4. ASSUME NEW t \in DOMAIN streams, streams[t] # "none", t # s  PROVE Shown(t)'
    BY <1>2, <2>1, <2>2, <2>3, <2>4 DEF Shown
  <2>5. Shown(s)'
    <3> DEFINE old == build.steps[s]  seen == wire.steps[s]
    <3>1. s \in DOMAIN wire.steps /\ (seen = old \/ seen = [old EXCEPT !.status = seen.status])
      BY <2>2, <2>3 DEF Shown
    <3>2. old \in Step
      BY <2>2
    <3> HIDE DEF old, seen
    <3>3. new = [old EXCEPT !.status = new.status]
      BY <1>2 DEF old
    <3>4. seen = [new EXCEPT !.status = seen.status]
      BY <3>1, <3>2, <3>3 DEF Step
    <3> QED  BY <1>2, <2>1, <2>2, <3>1, <3>4 DEF Shown, seen
  <2> QED  BY <2>1, <2>3, <2>4, <2>5
<1> QED
  BY <1>1, <1>2 DEF Revised

\* While the sender waits and the event is clear the reader is up to date.
LEMMA LostPreserved ==
  ASSUME TypeOK, NothingLost, SenderAgrees, Kinds
  PROVE  NothingLost'
<1>0. DOMAIN streams = DOMAIN build.steps
  BY DEF TypeOK, Build
<1>1. CASE \E s \in DOMAIN streams, new \in Step : Revised(s, new)
  BY <1>1, LostRevised
<1>2. ASSUME NEW new \in Step, NEW stream \in {"open", "none"}, Added(new, stream)
      PROVE  NothingLost'
  <2>1. CASE Send
    BY <2>1 DEF Send, NothingLost
  <2>2. CASE stream = "none" /\ event' = event
    <3> DEFINE last == Len(streams) + 1
    <3>1. /\ DOMAIN streams' = DOMAIN streams \cup {last} /\ streams'[last] = stream
          /\ \A t \in DOMAIN streams : build'.steps[t] = build.steps[t] /\ streams'[t] = streams[t]
          /\ build'.status = build.status /\ build'.notes = build.notes
      BY <1>2, AddStepFacts DEF Added
    <3>2. UNCHANGED <<pc, wire>>
      BY <1>2 DEF Added, AddStep, sender
    <3> HIDE DEF last
    <3> QED  BY <2>2, <3>1, <3>2 DEF NothingLost, Shown
  <2> QED  BY <1>2, <2>1, <2>2 DEF Added
<1>3. CASE \/ \E s \in DOMAIN streams : Note(s)
           \/ \E o \in Outcomes : WriteResult(o)
           \/ CloseEngine
  BY <1>3 DEF Note, WriteResult, CloseEngine, Send, NothingLost
<1>4. CASE Publish
  BY <1>0, <1>4 DEF Publish, NothingLost, Shown, client
<1>5. CASE Woken \/ LastSend \/ SendFails
  BY <1>5 DEF Woken, LastSend, SendFails, NothingLost
<1>6. CASE Joined \/ UNCHANGED vars
  BY <1>6 DEF Joined, vars, client, sender, NothingLost, Shown
<1> QED
  BY <1>1, <1>2, <1>3, <1>4, <1>5, <1>6 DEF Kinds

(***************************************************************************)
(* The theorems.                                                            *)
(***************************************************************************)

\* The invariant holds of the empty build.
LEMMA InitIInv == Init => IInv
<1> SUFFICES ASSUME Init  PROVE IInv
  OBVIOUS
<1>1. Fresh \in Build /\ DOMAIN Fresh.steps = {} /\ Len(Fresh.steps) = 0
  <2>1. <<>> \in Seq(Step) /\ Len(<<>>) = 0
    BY EmptySeq
  <2> QED  BY <2>1 DEF Fresh, Build
<1>2. build = Fresh /\ wire = Fresh /\ streams = <<>> /\ created = {} /\ DOMAIN streams = {}
      /\ event = FALSE /\ die = FALSE /\ pc = "waiting" /\ engine = "open"
  BY DEF Init
<1>3. streams \in Seq({"open", "closed", "none"}) /\ Len(streams) = 0
  BY <1>2, EmptySeq
<1>4. TypeOK
  BY <1>1, <1>2, <1>3 DEF TypeOK
<1>5. NamesAreRecorded /\ NoUrl \notin created /\ LogsAreDistinct /\ OverIsClosed
  BY <1>1, <1>2 DEF NamesAreRecorded, LogsAreDistinct, OverIsClosed
<1>6. SenderAgrees /\ NothingLost
  BY <1>2 DEF SenderAgrees, NothingLost
<1>7. Ahead(wire, build)
  BY <1>1, <1>2, AheadOrder
<1> QED
  BY <1>4, <1>5, <1>6, <1>7 DEF IInv

\* The invariant is inductive.
LEMMA NextIInv == IInv /\ [Next]_vars => IInv'
<1> SUFFICES ASSUME IInv, [Next]_vars  PROVE IInv'
  OBVIOUS
<1>1. Kinds
  BY EveryKind DEF IInv
<1>2. TypeOK'
  BY <1>1, TypePreserved DEF IInv
<1>3. NamesInv'
  BY <1>1, NamesPreserved DEF IInv, NamesInv
<1>4. OverIsClosed' /\ SenderAgrees' /\ NothingLost'
  BY <1>1, OverPreserved, SenderPreserved, LostPreserved DEF IInv
<1>5. Ahead(wire, build)'
  BY <1>1, <1>2, AheadPreserved DEF IInv
<1> QED
  BY <1>2, <1>3, <1>4, <1>5 DEF IInv, NamesInv

\* The invariant holds in every state.
THEOREM Inductive == Spec => []IInv
BY InitIInv, NextIInv, PTL DEF Spec

\* The variables of the stream keep their types.
THEOREM StreamTypes == Spec => []TypeOK
<1>1. IInv => TypeOK
  BY DEF IInv
<1> QED
  BY <1>1, Inductive, PTL

\* However many steps share a prefix and whatever logs are called, no two
\* streams of a build have the same name (_new_log_stream, luci.py:237).
THEOREM DistinctNames == Spec => []LogsAreDistinct
<1>1. IInv => LogsAreDistinct
  BY DEF IInv
<1> QED
  BY <1>1, Inductive, PTL

\* The sender never waits while there is something the reader has not seen
\* (the loop of _send_fn, luci.py:434).
THEOREM NoUpdateIsLost == Spec => []NothingLost
<1>1. IInv => NothingLost
  BY DEF IInv
<1> QED
  BY <1>1, Inductive, PTL

\* No message takes back what an earlier one said of a step or of the build.
THEOREM OnlyForward == Spec => NeverBackwards
<1>1. IInv /\ [Next]_vars => [Ahead(wire, wire')]_vars
  <2> SUFFICES ASSUME IInv, [Next]_vars  PROVE Ahead(wire, wire')
    OBVIOUS
  <2>1. Kinds
    BY EveryKind DEF IInv
  <2> QED  BY <2>1, TypePreserved, AheadPreserved DEF IInv
<1> QED
  BY <1>1, Inductive, PTL DEF Spec, NeverBackwards

\* The stream is a register: it shows values the build has had, in their order,
\* and has shown the last one when it closes, unless a send failed.
THEOREM ImplementsRegister == Spec => RegisterSpec
<1>1. Init => Register!Init
  BY DEF Init, Register!Init
<1>2. IInv /\ [Next]_vars => [Register!Next]_(Register!vars)
  <2> SUFFICES ASSUME IInv, [Next]_vars  PROVE [Register!Next]_(Register!vars)
    OBVIOUS
  <2>0. SenderAgrees /\ TypeOK
    BY DEF IInv
  <2>1. Kinds
    BY EveryKind DEF IInv
  <2> USE DEF Register!Next, Register!vars
  <2>2. CASE \/ \E s \in DOMAIN streams, new \in Step : Revised(s, new)
             \/ \E new \in Step, stream \in {"open", "none"} : Added(new, stream)
             \/ \E s \in DOMAIN streams : Note(s)
             \/ \E o \in Outcomes : WriteResult(o)
    <3>1. engine = "open" /\ UNCHANGED <<pc, wire, engine>>
      BY <2>2 DEF Revised, Added, AddStep, Note, WriteResult, Open, Running, sender
    <3> QED  BY <3>1 DEF Register!Change, Register!ChangeUnseen
  <2>3. CASE CloseEngine
    BY <2>3 DEF CloseEngine
  <2>4. CASE Joined
    BY <2>0, <2>4 DEF Joined, SenderAgrees, sender, Register!Close
  <2>5. CASE Woken
    BY <2>5 DEF Woken
  <2>6. CASE Publish \/ LastSend
    <3>1. /\ engine # "closed" /\ pc # "failed" /\ engine' = engine /\ pc' # "failed"
          /\ wire' = build /\ build' = build
      BY <2>0, <2>6 DEF Publish, LastSend, SenderAgrees
    <3> QED  BY <3>1 DEF Register!Publish
  <2>7. CASE SendFails
    BY <2>0, <2>7 DEF SendFails, Register!Break, TypeOK, SenderAgrees
  <2>8. CASE UNCHANGED vars
    BY <2>8 DEF vars, sender
  <2> QED  BY <2>1, <2>2, <2>3, <2>4, <2>5, <2>6, <2>7, <2>8 DEF Kinds
<1> QED
  BY <1>1, <1>2, Inductive, PTL DEF Spec, RegisterSpec, Register!Spec
-----------------------------------------------------------------------------

\* close() returns with all of the build sent, unless a send failed: the comment
\* of luci.py:451-452 is true of every other run.
THEOREM LastSendUnlessFailed == Spec => [](pc # "failed" => LastSendIsMade)
<1>1. IInv => (pc # "failed" => LastSendIsMade)
  BY DEF IInv, SenderAgrees, LastSendIsMade
<1> QED
  BY <1>1, Inductive, PTL

\* The sender is about to send: nothing but itself keeps it from doing so.
CanSend == pc = "sleeping" \/ (pc = "waiting" /\ event)

\* Until a send fails, the sender is about to send, or is done, when the engine
\* is closing; and a step whose stream is closed has been shown as it is, or the
\* sender is about to send.
SenderGoesOn ==
  pc # "failed" =>
    /\ engine = "closing" => pc = "done" \/ CanSend
    /\ \A s \in DOMAIN streams : streams[s] = "closed" =>
         CanSend \/ (s \in DOMAIN wire.steps /\ wire.steps[s] = build.steps[s])

\* The event that close() sets is seen: nobody clears it without sending.
ClosingIsAnnounced == engine = "closing" /\ pc = "waiting" => event

\* The sender never stops for good while something is to be shown: the part of
\* CloseReturns and OverIsShown that is not fairness.
THEOREM SenderNeverStuck == Spec => []SenderGoesOn
<1>1. Init => ClosingIsAnnounced
  BY DEF Init, ClosingIsAnnounced
<1>2. IInv /\ ClosingIsAnnounced /\ [Next]_vars => ClosingIsAnnounced'
  <2> SUFFICES ASSUME IInv, ClosingIsAnnounced, [Next]_vars  PROVE ClosingIsAnnounced'
    OBVIOUS
  <2>0. SenderAgrees
    BY DEF IInv
  <2>1. Kinds
    BY EveryKind DEF IInv
  <2>2. CASE \/ \E s \in DOMAIN streams, new \in Step : Revised(s, new)
             \/ \E new \in Step, stream \in {"open", "none"} : Added(new, stream)
             \/ \E s \in DOMAIN streams : Note(s)
             \/ \E o \in Outcomes : WriteResult(o)
    <3>1. engine' = "open"
      BY <2>2 DEF Revised, Added, AddStep, Note, WriteResult, Open, Running
    <3> QED  BY <3>1 DEF ClosingIsAnnounced
  <2>3. CASE CloseEngine \/ Joined
    BY <2>3 DEF CloseEngine, Joined, Send, ClosingIsAnnounced
  <2>4. CASE Woken \/ Publish \/ LastSend \/ SendFails
    BY <2>0, <2>4 DEF Woken, Publish, LastSend, SendFails, SenderAgrees, ClosingIsAnnounced
  <2>5. CASE UNCHANGED vars
    BY <2>5 DEF vars, sender, ClosingIsAnnounced
  <2> QED  BY <2>1, <2>2, <2>3, <2>4, <2>5 DEF Kinds
<1>3. IInv /\ ClosingIsAnnounced => SenderGoesOn
  <2> SUFFICES ASSUME IInv, ClosingIsAnnounced, pc # "failed"
               PROVE  /\ engine = "closing" => pc = "done" \/ CanSend
                      /\ \A s \in DOMAIN streams : streams[s] = "closed" =>
                           CanSend \/ (s \in DOMAIN wire.steps /\ wire.steps[s] = build.steps[s])
    BY DEF SenderGoesOn
  <2>1. pc \in {"waiting", "sleeping", "done"} /\ DOMAIN streams = DOMAIN build.steps
    BY DEF IInv, TypeOK, Build
  <2>2. CASE CanSend
    BY <2>2
  <2>3. CASE pc = "done"
    BY <2>1, <2>3 DEF IInv, SenderAgrees
  <2>4. CASE pc = "waiting" /\ ~event
    BY <2>4 DEF IInv, NothingLost, Shown, ClosingIsAnnounced
  <2> QED  BY <2>1, <2>2, <2>3, <2>4 DEF CanSend
<1> QED
  BY <1>1, <1>2, <1>3, Inductive, PTL DEF Spec
=============================================================================
