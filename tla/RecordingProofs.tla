--------------------------- MODULE RecordingProofs --------------------------
(***************************************************************************)
(* Theorems about Recording, for any number of requests, recordings, steps *)
(* and sessions.                                                           *)
(***************************************************************************)
EXTENDS Recording, FiniteSetTheorems, WellFoundedInduction, TLAPS

RecordingNext == MetricsNext \/ DemoNext \/ SessionNext

-----------------------------------------------------------------------------
(* Sessions *)

SessionsType == sessions \in Seq(SessionRecord) /\ current \in 0 .. Len(sessions)

SessionInv == SessionsType /\ SessionsBounded

\* Only the sessions' own handlers touch the sessions.
LEMMA OthersKeepSessions ==
  MetricsNext \/ DemoNext => UNCHANGED sessionVars
<1>1. MetricsNext => UNCHANGED sessionVars
  BY DEF MetricsNext, Time, Write, Query, Prune, sessionVars
<1>2. DemoNext => UNCHANGED sessionVars
  BY DEF DemoNext, AskRecord, StartRecord, AskStep, LogStep, RefuseStep, FinishRecord,
         Awaits, sessionVars
<1>3. QED
  BY <1>1, <1>2

\* Ending a session marks it and no other, and keeps the table a table.
LEMMA EndedType ==
  ASSUME NEW ss \in Seq(SessionRecord), NEW n \in 0 .. Len(ss)
  PROVE  /\ Ended(ss, n) \in Seq(SessionRecord) /\ Len(Ended(ss, n)) = Len(ss)
         /\ \A i \in 1 .. Len(ss) :
               /\ Ended(ss, n)[i].ended = (ss[i].ended \/ i = n)
               /\ Ended(ss, n)[i].events = ss[i].events
<1>. \A i \in 1 .. Len(ss) : ss[i] \in SessionRecord
  OBVIOUS
<1>. \A rec \in SessionRecord : rec.ended \in BOOLEAN
  BY DEF SessionRecord
<1>1. CASE n = 0
  <2>1. Ended(ss, n) = ss /\ \A i \in 1 .. Len(ss) : i # n
    BY <1>1 DEF Ended
  <2>2. QED
    BY <2>1
<1>2. CASE n # 0
  <2>1. n \in 1 .. Len(ss) /\ ss[n] \in SessionRecord
    BY <1>2
  <2>2. [ss[n] EXCEPT !.ended = TRUE] \in SessionRecord
    BY <2>1 DEF SessionRecord
  <2>3. Ended(ss, n) = [ss EXCEPT ![n] = [ss[n] EXCEPT !.ended = TRUE]]
    BY <1>2 DEF Ended
  <2>4. Ended(ss, n) \in Seq(SessionRecord) /\ Len(Ended(ss, n)) = Len(ss)
    BY <2>1, <2>2, <2>3
  <2>5. \A i \in 1 .. Len(ss) : i # n => Ended(ss, n)[i] = ss[i]
    BY <2>1, <2>3
  <2>6. Ended(ss, n)[n].ended = TRUE /\ Ended(ss, n)[n].events = ss[n].events
    BY <2>1, <2>3 DEF SessionRecord
  <2>7. QED
    BY <2>4, <2>5, <2>6
<1>3. QED
  BY <1>1, <1>2

\* A session that starts ends the one before it, and only it is without an end.
LEMMA StartSessionKeeps ==
  ASSUME SessionInv, StartSession
  PROVE  SessionInv'
<1>. DEFINE ended == Ended(sessions, current)
            new == [ended |-> FALSE, events |-> {}]
<1>1. /\ ended \in Seq(SessionRecord) /\ Len(ended) = Len(sessions)
      /\ \A i \in 1 .. Len(sessions) :
            /\ ended[i].ended = (sessions[i].ended \/ i = current)
            /\ ended[i].events = sessions[i].events
  BY EndedType DEF SessionInv, SessionsType
<1>2. new \in SessionRecord
  BY DEF SessionRecord
<1>3. sessions' = Append(ended, new) /\ current' = Len(sessions) + 1
  BY DEF StartSession
<1>. HIDE DEF ended, new
<1>4. /\ sessions' \in Seq(SessionRecord) /\ Len(sessions') = Len(sessions) + 1
      /\ \A i \in 1 .. Len(sessions) : sessions'[i] = ended[i]
      /\ sessions'[Len(sessions) + 1] = new
  BY <1>1, <1>2, <1>3 DEF SessionInv, SessionsType
<1>5. SessionsType'
  BY <1>3, <1>4 DEF SessionInv, SessionsType
<1>6. ASSUME NEW i \in 1 .. Len(sessions)
      PROVE  sessions'[i].ended = TRUE /\ "after" \notin sessions'[i].events
  <2>1. sessions[i].ended = (i # current) /\ "after" \notin sessions[i].events
    BY DEF SessionInv, SessionsType, SessionsBounded
  <2>2. QED
    BY <1>1, <1>4, <2>1
<1>7. new.ended = FALSE /\ "after" \notin new.events
  BY DEF new
<1>8. SessionsBounded'
  <2>1. \A i \in 1 .. Len(sessions) : (i # current') = TRUE
    BY <1>3, <1>4 DEF SessionInv, SessionsType
  <2>2. (Len(sessions) + 1 # current') = FALSE
    BY <1>3
  <2>3. DOMAIN sessions' = 1 .. Len(sessions) + 1
    BY <1>4 DEF SessionInv, SessionsType
  <2>4. ASSUME NEW i \in 1 .. Len(sessions) + 1
        PROVE  sessions'[i].ended = (i # current') /\ "after" \notin sessions'[i].events
    <3>1. i \in 1 .. Len(sessions) \/ i = Len(sessions) + 1
      BY DEF SessionInv, SessionsType
    <3>2. QED
      BY <3>1, <2>1, <2>2, <1>4, <1>6, <1>7
  <2>5. QED
    BY <2>3, <2>4 DEF SessionsBounded
<1>9. QED
  BY <1>5, <1>8 DEF SessionInv

\* After a stop every session has its end.
LEMMA StopSessionKeeps ==
  ASSUME SessionInv, StopSession
  PROVE  SessionInv'
<1>1. /\ sessions' \in Seq(SessionRecord) /\ Len(sessions') = Len(sessions)
      /\ \A i \in 1 .. Len(sessions) :
            /\ sessions'[i].ended = (sessions[i].ended \/ i = current)
            /\ sessions'[i].events = sessions[i].events
  BY EndedType DEF SessionInv, SessionsType, StopSession
<1>2. current' = 0
  BY DEF StopSession
<1>3. SessionsType'
  BY <1>1, <1>2 DEF SessionInv, SessionsType
<1>4. DOMAIN sessions' = 1 .. Len(sessions) /\ DOMAIN sessions = 1 .. Len(sessions)
  BY <1>1 DEF SessionInv, SessionsType
<1>5. ASSUME NEW i \in 1 .. Len(sessions)
      PROVE  sessions'[i].ended = (i # current') /\ "after" \notin sessions'[i].events
  <2>1. sessions[i].ended = (i # current) /\ "after" \notin sessions[i].events
    BY <1>4 DEF SessionInv, SessionsBounded
  <2>2. (i # current') = TRUE
    BY <1>2
  <2>3. (sessions[i].ended \/ i = current) = TRUE
    BY <2>1
  <2>4. QED
    BY <1>1, <2>1, <2>2, <2>3
<1>6. QED
  BY <1>3, <1>4, <1>5 DEF SessionInv, SessionsBounded

\* An event whose body arrives late goes to the session active then, which has
\* no end, or to none.
LEMMA AddEventKeeps ==
  ASSUME SessionInv, NEW q \in Requests, AddEvent(q)
  PROVE  SessionInv'
<1>1. CASE current = 0
  BY <1>1 DEF AddEvent, EventSession, SessionInv, SessionsType, SessionsBounded
<1>2. CASE current # 0
  <2>1. current \in 1 .. Len(sessions) /\ sessions[current] \in SessionRecord
    BY <1>2 DEF SessionInv, SessionsType
  <2>2. ~sessions[current].ended
    BY <2>1 DEF SessionInv, SessionsType, SessionsBounded, SessionRecord
  <2>. DEFINE new == [sessions[current] EXCEPT !.events = @ \cup {"inside"}]
  <2>3. new \in SessionRecord /\ new.ended = sessions[current].ended
        /\ new.events = sessions[current].events \cup {"inside"}
    BY <2>1 DEF SessionRecord
  <2>4. sessions' = [sessions EXCEPT ![current] = new] /\ current' = current
    BY <1>2, <2>2 DEF AddEvent, EventSession
  <2>. HIDE DEF new
  <2>5. SessionsType'
    BY <2>1, <2>3, <2>4 DEF SessionInv, SessionsType
  <2>6. SessionsBounded'
    BY <2>1, <2>3, <2>4 DEF SessionInv, SessionsType, SessionsBounded
  <2>7. QED
    BY <2>5, <2>6 DEF SessionInv
<1>3. QED
  BY <1>1, <1>2

(***************************************************************************)
(* A replay bundle is sound, for any number of sessions and requests: the  *)
(* only session without an end is the active one and no event follows its  *)
(* session's end, whatever was awaited in between (sessions.py).           *)
(***************************************************************************)
THEOREM SessionsSound == RecordingSpec => []SessionsBounded
<1>1. RecordingInit => SessionInv
  BY DEF RecordingInit, SessionInv, SessionsType, SessionsBounded
<1>2. SessionInv /\ [RecordingNext]_recordingVars => SessionInv'
  <2>1. SUFFICES ASSUME SessionInv, [RecordingNext]_recordingVars PROVE SessionInv'
    OBVIOUS
  <2>2. CASE UNCHANGED sessionVars
    BY <2>1, <2>2 DEF sessionVars, SessionInv, SessionsType, SessionsBounded
  <2>3. CASE SessionNext
    <3>1. ASSUME NEW q \in Requests, AskEvent(q) PROVE UNCHANGED sessionVars
      BY <3>1 DEF AskEvent, Awaits
    <3>2. QED
      BY <2>1, <2>2, <2>3, <3>1, StartSessionKeeps, StopSessionKeeps, AddEventKeeps
         DEF SessionNext
  <2>4. QED
    BY <2>1, <2>2, <2>3, OthersKeepSessions DEF RecordingNext, recordingVars
<1>3. SessionInv => SessionsBounded
  BY DEF SessionInv
<1>4. QED
  BY <1>1, <1>2, <1>3, PTL DEF RecordingSpec, RecordingNext

-----------------------------------------------------------------------------
(* Demonstrations *)

\* The instance for which the documents' claim holds: no request overlaps another.
OneRequest == \A p, q \in Requests : p = q

StepRecord == [frame: Nat, prompt: Nat, checked: Nat, by: Requests]
LoggerRecord == [made: Nat, prompt: Nat, steps: Seq(StepRecord)]

\* The steps of a recording carry its prompt and are numbered from 0.
Numbered(d) ==
  \A i \in 1 .. Len(d.steps) : d.steps[i].frame = i - 1 /\ d.steps[i].prompt = d.made

\* A request's first step in a recording may have been sent to an earlier one.
Strays(d) ==
  /\ \A i \in 1 .. Len(d.steps) :
        d.steps[i].checked <= d.made /\ (OneRequest => d.steps[i].checked = d.made)
  /\ \A i, j \in 1 .. Len(d.steps) :
        i < j /\ d.steps[i].by = d.steps[j].by => d.steps[j].checked = d.made

\* A step whose body is awaited was sent to this recording or to an earlier one,
\* of which its request has logged nothing here.
InFlight ==
  \A q \in Requests : awaits[q].what = "step" =>
    /\ awaits[q].sid \in Nat /\ awaits[q].sid <= logger.made
    /\ OneRequest => awaits[q].sid = logger.made
    /\ \A i \in 1 .. Len(logger.steps) :
          logger.steps[i].by = q => awaits[q].sid = logger.made

\* An active recorder numbers its steps under its own prompt.
DemoInv ==
  /\ logger \in LoggerRecord /\ Strays(logger)
  /\ active => Numbered(logger) /\ logger.prompt = logger.made
  /\ \A d \in datasets : d \in LoggerRecord /\ Numbered(d) /\ Strays(d)
  /\ DOMAIN awaits = Requests /\ InFlight

\* Only the recorder's own handlers touch the recorder, or await a step.
LEMMA OthersKeepDemos ==
  /\ MetricsNext \/ SessionNext => UNCHANGED demoVars
  /\ DemoInv /\ (MetricsNext \/ SessionNext) =>
       /\ DOMAIN awaits' = Requests
       /\ \A q \in Requests : awaits'[q].what = "step" => awaits'[q] = awaits[q]
<1>1. MetricsNext => UNCHANGED demoVars /\ UNCHANGED awaits
  BY DEF MetricsNext, Time, Write, Query, Prune, demoVars
<1>2. SessionNext => UNCHANGED demoVars
  BY DEF SessionNext, StartSession, StopSession, AskEvent, AddEvent, Awaits, Resumes, demoVars
<1>3. ASSUME DemoInv, SessionNext
      PROVE  /\ DOMAIN awaits' = Requests
             /\ \A q \in Requests : awaits'[q].what = "step" => awaits'[q] = awaits[q]
  <2>1. DOMAIN awaits = Requests
    BY <1>3 DEF DemoInv
  <2>2. CASE UNCHANGED awaits
    BY <2>1, <2>2
  <2>3. CASE \E q \in Requests : awaits' = [awaits EXCEPT ![q] = [what |-> "event", sid |-> current]]
                               \/ awaits' = [awaits EXCEPT ![q] = Nothing]
    BY <2>1, <2>3 DEF Nothing
  <2>4. QED
    BY <1>3, <2>2, <2>3 DEF SessionNext, StartSession, StopSession, AskEvent, AddEvent, Awaits, Resumes
<1>4. QED
  BY <1>1, <1>2, <1>3 DEF DemoInv

\* What is awaited may end or turn into anything but a step.
LEMMA FewerInFlight ==
  ASSUME InFlight, UNCHANGED demoVars, DOMAIN awaits' = Requests,
         \A q \in Requests : awaits'[q].what = "step" => awaits'[q] = awaits[q]
  PROVE  InFlight'
BY DEF InFlight, demoVars

\* A step logged on an active recorder continues its recording.
LEMMA LogStepKeeps ==
  ASSUME DemoInv, NEW q \in Requests, LogStep(q)
  PROVE  DemoInv'
<1>. DEFINE step == [frame |-> Len(logger.steps), prompt |-> logger.prompt,
                     checked |-> awaits[q].sid, by |-> q]
            new == [logger EXCEPT !.steps = Append(@, step)]
            n == Len(logger.steps)
<1>1. /\ logger.steps \in Seq(StepRecord) /\ n \in Nat
      /\ logger.made \in Nat /\ logger.prompt \in Nat
  BY DEF DemoInv, LoggerRecord
<1>2. /\ awaits[q].what = "step" /\ awaits[q].sid \in Nat /\ awaits[q].sid <= logger.made
      /\ OneRequest => awaits[q].sid = logger.made
      /\ \A i \in 1 .. n : logger.steps[i].by = q => awaits[q].sid = logger.made
  BY DEF LogStep, Resumes, DemoInv, InFlight
<1>3. step \in StepRecord /\ step.frame = n /\ step.prompt = logger.prompt
      /\ step.checked = awaits[q].sid /\ step.by = q
  BY <1>1, <1>2 DEF StepRecord
<1>4. logger' = new /\ UNCHANGED <<active, datasets>> /\ awaits' = [awaits EXCEPT ![q] = Nothing]
  BY DEF LogStep, Resumes
<1>. HIDE DEF step
<1>5. /\ Append(logger.steps, step) \in Seq(StepRecord)
      /\ Len(Append(logger.steps, step)) = n + 1
      /\ \A i \in 1 .. n : Append(logger.steps, step)[i] = logger.steps[i]
      /\ Append(logger.steps, step)[n + 1] = step
  BY <1>1, <1>3
<1>6. new \in LoggerRecord /\ new.made = logger.made /\ new.prompt = logger.prompt
      /\ new.steps = Append(logger.steps, step)
  BY <1>5 DEF DemoInv, LoggerRecord
<1>. HIDE DEF new, n
<1>7. /\ Len(new.steps) = n + 1 /\ new.steps[n + 1] = step
      /\ \A i \in 1 .. n : new.steps[i] = logger.steps[i]
      /\ \A i \in 1 .. n + 1 : i \in 1 .. n \/ i = n + 1
  BY <1>1, <1>5, <1>6
<1>8. ASSUME active PROVE Numbered(new) /\ new.prompt = new.made
  <2>1. Numbered(logger) /\ logger.prompt = logger.made
    BY <1>8 DEF DemoInv
  <2>2. \A i \in 1 .. n : logger.steps[i].frame = i - 1 /\ logger.steps[i].prompt = logger.made
    BY <2>1 DEF Numbered, n
  <2>3. step.frame = (n + 1) - 1 /\ step.prompt = logger.made
    BY <1>1, <1>3, <2>1
  <2>4. ASSUME NEW i \in 1 .. n + 1
        PROVE  new.steps[i].frame = i - 1 /\ new.steps[i].prompt = logger.made
    BY <1>7, <2>2, <2>3
  <2>5. QED
    BY <1>6, <1>7, <2>1, <2>4 DEF Numbered
<1>9. Strays(new)
  <2>1. \A i \in 1 .. n : logger.steps[i].checked <= logger.made
                          /\ (OneRequest => logger.steps[i].checked = logger.made)
    BY DEF DemoInv, Strays, n
  <2>2. \A i, j \in 1 .. n : i < j /\ logger.steps[i].by = logger.steps[j].by =>
                               logger.steps[j].checked = logger.made
    BY DEF DemoInv, Strays, n
  <2>3. \A i \in 1 .. n + 1 : new.steps[i].checked <= logger.made
                              /\ (OneRequest => new.steps[i].checked = logger.made)
    BY <1>2, <1>3, <1>7, <2>1
  <2>4. ASSUME NEW i \in 1 .. n + 1, NEW j \in 1 .. n + 1, i < j,
               new.steps[i].by = new.steps[j].by
        PROVE  new.steps[j].checked = logger.made
    <3>1. i \in 1 .. n
      BY <1>1, <2>4
    <3>2. CASE j \in 1 .. n
      BY <1>7, <2>2, <2>4, <3>1, <3>2
    <3>3. CASE j = n + 1
      BY <1>2, <1>3, <1>7, <2>4, <3>1, <3>3
    <3>4. QED
      BY <1>7, <3>2, <3>3
  <2>5. QED
    BY <1>6, <1>7, <2>3, <2>4 DEF Strays
<1>10. DOMAIN awaits' = Requests /\ InFlight'
  <2>1. DOMAIN awaits = Requests
    BY DEF DemoInv
  <2>2. /\ DOMAIN awaits' = Requests
        /\ \A p \in Requests : awaits'[p].what = "step" => p # q /\ awaits'[p] = awaits[p]
    BY <1>4, <2>1 DEF Nothing
  <2>3. ASSUME NEW p \in Requests, awaits'[p].what = "step"
        PROVE  /\ awaits[p].sid \in Nat /\ awaits[p].sid <= logger.made
               /\ OneRequest => awaits[p].sid = logger.made
               /\ \A i \in 1 .. n : logger.steps[i].by = p => awaits[p].sid = logger.made
    BY <2>2, <2>3 DEF DemoInv, InFlight, n
  <2>4. ASSUME NEW p \in Requests, awaits'[p].what = "step", NEW i \in 1 .. n + 1,
               new.steps[i].by = p
        PROVE  awaits[p].sid = logger.made
    <3>1. i # n + 1
      BY <1>3, <1>7, <2>2, <2>4
    <3>2. i \in 1 .. n /\ logger.steps[i].by = p
      BY <1>7, <2>4, <3>1
    <3>3. QED
      BY <2>3, <2>4, <3>2
  <2>5. InFlight'
    BY <1>4, <1>6, <1>7, <2>2, <2>3, <2>4 DEF InFlight
  <2>6. QED
    BY <2>2, <2>5
<1>11. QED
  BY <1>4, <1>6, <1>8, <1>9, <1>10 DEF DemoInv

\* A recording that starts is empty, and takes its own prompt.
LEMMA StartRecordKeeps ==
  ASSUME DemoInv, NEW q \in Requests, StartRecord(q)
  PROVE  DemoInv'
<1>1. logger.made \in Nat /\ logger.made + 1 \in Nat /\ logger.made <= logger.made + 1
  BY DEF DemoInv, LoggerRecord
<1>2. NewLogger(logger.made + 1) \in LoggerRecord
  BY <1>1 DEF NewLogger, LoggerRecord
<1>3. Numbered(NewLogger(logger.made + 1)) /\ Strays(NewLogger(logger.made + 1))
  BY DEF Numbered, Strays, NewLogger
<1>4. logger' = NewLogger(logger.made + 1) /\ UNCHANGED datasets
      /\ awaits[q].what = "record" /\ awaits' = [awaits EXCEPT ![q] = Nothing]
  BY DEF StartRecord, StartedLogger, Resumes
<1>5. logger'.prompt = logger'.made /\ logger'.made = logger.made + 1 /\ logger'.steps = <<>>
  BY <1>4 DEF NewLogger
<1>6. DOMAIN awaits' = Requests
      /\ \A p \in Requests : awaits'[p].what = "step" => p # q /\ awaits'[p] = awaits[p]
  BY <1>4 DEF DemoInv, Nothing
<1>7. InFlight'
  <2>1. ASSUME NEW p \in Requests, awaits'[p].what = "step"
        PROVE  awaits[p].sid \in Nat /\ awaits[p].sid <= logger.made + 1 /\ ~OneRequest
    <3>1. awaits[p].sid \in Nat /\ awaits[p].sid <= logger.made /\ p # q
      BY <1>6, <2>1 DEF DemoInv, InFlight
    <3>2. QED
      BY <1>1, <3>1 DEF OneRequest
  <2>2. QED
    BY <1>5, <1>6, <2>1 DEF InFlight
<1>8. QED
  BY <1>2, <1>3, <1>4, <1>5, <1>6, <1>7 DEF DemoInv

\* What is written is the recording that was active.
LEMMA FinishRecordKeeps ==
  ASSUME DemoInv, FinishRecord
  PROVE  DemoInv'
<1>1. active /\ ~active' /\ logger' = [logger EXCEPT !.prompt = 0] /\ UNCHANGED awaits
      /\ datasets' \subseteq datasets \cup {logger}
  BY DEF FinishRecord
<1>2. logger' \in LoggerRecord /\ logger'.made = logger.made /\ logger'.steps = logger.steps
  BY <1>1 DEF DemoInv, LoggerRecord
<1>3. Strays(logger')
  BY <1>2 DEF DemoInv, Strays
<1>4. InFlight'
  BY <1>1, <1>2 DEF DemoInv, InFlight
<1>5. \A d \in datasets' : d \in LoggerRecord /\ Numbered(d) /\ Strays(d)
  BY <1>1 DEF DemoInv
<1>6. QED
  BY <1>1, <1>2, <1>3, <1>4, <1>5 DEF DemoInv

\* A request that asks for a step sends it to the recording that is active.
LEMMA AsksKeep ==
  ASSUME DemoInv, NEW q \in Requests, AskRecord(q) \/ AskStep(q) \/ RefuseStep(q)
  PROVE  DemoInv'
<1>1. UNCHANGED demoVars
  BY DEF AskRecord, AskStep, RefuseStep, Awaits
<1>2. CASE AskStep(q)
  <2>1. awaits' = [awaits EXCEPT ![q] = [what |-> "step", sid |-> logger.made]]
    BY <1>2 DEF AskStep, Awaits
  <2>2. /\ DOMAIN awaits' = Requests /\ awaits'[q].sid = logger.made
        /\ \A p \in Requests : p # q => awaits'[p] = awaits[p]
    BY <2>1 DEF DemoInv
  <2>3. logger.made \in Nat
    BY DEF DemoInv, LoggerRecord
  <2>4. InFlight'
    BY <1>1, <2>2, <2>3 DEF DemoInv, InFlight, demoVars
  <2>5. QED
    BY <1>1, <2>2, <2>4 DEF DemoInv, demoVars
<1>3. CASE AskRecord(q) \/ RefuseStep(q)
  <2>1. \E new \in {Nothing, [what |-> "record", sid |-> 0]} : awaits' = [awaits EXCEPT ![q] = new]
    BY <1>3 DEF AskRecord, RefuseStep, Awaits, Resumes
  <2>2. /\ DOMAIN awaits' = Requests
        /\ \A p \in Requests : awaits'[p].what = "step" => awaits'[p] = awaits[p]
    BY <2>1 DEF DemoInv, Nothing
  <2>3. InFlight'
    BY <1>1, <2>2, FewerInFlight DEF DemoInv
  <2>4. QED
    BY <1>1, <2>2, <2>3 DEF DemoInv, demoVars
<1>4. QED
  BY <1>2, <1>3

\* Every step of the recording services keeps it.
LEMMA DemoKept == RecordingSpec => []DemoInv
<1>1. RecordingInit => DemoInv
  <2>1. NewLogger(0) \in LoggerRecord /\ Strays(NewLogger(0))
    BY DEF NewLogger, LoggerRecord, Strays
  <2>2. QED
    BY <2>1 DEF RecordingInit, DemoInv, InFlight, Nothing
<1>2. DemoInv /\ [RecordingNext]_recordingVars => DemoInv'
  <2>1. SUFFICES ASSUME DemoInv, [RecordingNext]_recordingVars PROVE DemoInv'
    OBVIOUS
  <2>2. CASE UNCHANGED recordingVars
    BY <2>1, <2>2 DEF recordingVars, demoVars, DemoInv, InFlight
  <2>3. CASE DemoNext
    BY <2>1, <2>3, LogStepKeeps, StartRecordKeeps, FinishRecordKeeps, AsksKeep DEF DemoNext
  <2>4. CASE MetricsNext \/ SessionNext
    <3>1. /\ UNCHANGED demoVars /\ DOMAIN awaits' = Requests
          /\ \A q \in Requests : awaits'[q].what = "step" => awaits'[q] = awaits[q]
      BY <2>1, <2>4, OthersKeepDemos
    <3>2. InFlight'
      BY <2>1, <3>1, FewerInFlight DEF DemoInv
    <3>3. QED
      BY <2>1, <3>1, <3>2 DEF DemoInv, demoVars
  <2>5. QED
    BY <2>1, <2>2, <2>3, <2>4 DEF RecordingNext
<1>3. QED
  BY <1>1, <1>2, PTL DEF RecordingSpec, RecordingNext

(***************************************************************************)
(* However many steps are in flight when recordings are finalised and      *)
(* started over, what strays into a dataset is at most one step of each    *)
(* request, sent before the recording began; the rest is the recording's   *)
(* own, numbered from 0 under its own prompt (routes_record.py).           *)
(***************************************************************************)
THEOREM StraysAreLate == RecordingSpec => []OnlyLateStepsStray
<1>1. DemoInv => OnlyLateStepsStray
  <2>1. ASSUME NEW d \in LoggerRecord PROVE DOMAIN d.steps = 1 .. Len(d.steps)
    BY DEF LoggerRecord
  <2>2. QED
    BY <2>1 DEF DemoInv, OnlyLateStepsStray, Numbered, Strays
<1>2. QED
  BY <1>1, DemoKept, PTL

(***************************************************************************)
(* The documents' claim, a dataset is one demonstration, holds of a client *)
(* that waits for each answer before its next request, for any number of   *)
(* recordings and steps.                                                   *)
(***************************************************************************)
THEOREM DemonstrationsWhole ==
  ASSUME OneRequest PROVE RecordingSpec => []DatasetsWhole
<1>1. DemoInv => DatasetsWhole
  <2>1. ASSUME NEW d \in LoggerRecord PROVE DOMAIN d.steps = 1 .. Len(d.steps)
    BY DEF LoggerRecord
  <2>2. QED
    BY OneRequest, <2>1 DEF DemoInv, DatasetsWhole, Strays
<1>2. QED
  BY <1>1, DemoKept, PTL

-----------------------------------------------------------------------------
(* Telemetry *)

Fates == {"kept", "lost", "pruned"}
Became(w, what) == {i \in DOMAIN w : w[i] = what}

\* A table of some of the first n snapshots, in their order.
Table(t, n) ==
  /\ t \in [DOMAIN t -> Row] /\ DOMAIN t \subseteq 1 .. n
  /\ \A j, k \in DOMAIN t : j < k => t[j].id < t[k].id
  /\ \A k \in DOMAIN t : k <= t[k].id /\ t[k].id <= n

\* The snapshots that follow the n-th.
Batch(b, n) == b \in Seq(Row) /\ \A i \in 1 .. Len(b) : b[i].id = n + i

\* A table, a batch not in it yet, what became of each snapshot, and the number
\* of failures agree.
Agree(t, b, w, f) ==
  /\ w \in Seq(Fates) /\ f \in Nat /\ Len(b) <= Len(w)
  /\ Table(t, Len(w) - Len(b)) /\ Batch(b, Len(w) - Len(b))
  /\ Became(w, "kept") = Ids(t) \cup Ids(b)
  /\ Cardinality(Became(w, "lost")) <= FlushSize * f

MetricsInv == Agree(rows, buf, fate, failures) /\ Len(buf) < FlushSize /\ now \in 0 .. MaxClock

\* A set of bounded numbers that is not empty has a least and a greatest one.
LEMMA LeastIsOne ==
  ASSUME NEW S \in SUBSET Nat, S # {}
  PROVE  \E m \in S : \A k \in S : m <= k
<1>1. PICK m \in S : \A k \in S : <<k, m>> \notin OpToRel(<, Nat)
  BY WFMin, NatLessThanWellFounded, Zenon
<1>2. \A k \in S : ~(k < m)
  BY <1>1, Zenon DEF OpToRel
<1>3. QED
  BY <1>2

\* A bounded set of numbers that is not empty has a greatest.
LEMMA GreatestIsOne ==
  ASSUME NEW n \in Nat, NEW S \in SUBSET (0 .. n), S # {}
  PROVE  Max(S) \in S /\ \A k \in S : k <= Max(S)
<1>. DEFINE Rest == {n - x : x \in S}
<1>1. Rest \in SUBSET Nat /\ Rest # {}
  <2>1. \A x \in S : n - x \in Nat
    OBVIOUS
  <2>2. QED
    BY <2>1
<1>2. PICK m \in Rest : \A k \in Rest : m <= k
  <2>. HIDE DEF Rest
  <2>1. QED
    BY <1>1, LeastIsOne
<1>3. PICK x \in S : m = n - x
  BY <1>2
<1>4. ASSUME NEW y \in S PROVE x >= y
  <2>1. n - y \in Rest /\ x \in Nat /\ y \in Nat
    OBVIOUS
  <2>2. n - x <= n - y
    BY <1>2, <1>3, <2>1
  <2>3. QED
    BY <2>1, <2>2
<1>5. Max(S) \in S /\ \A y \in S : Max(S) >= y
  BY <1>4, Zenon DEF Max
<1>6. QED
  BY <1>5

\* New rowids are above every one in the table.
LEMMA LastRowidIs ==
  ASSUME NEW n \in Nat, Table(rows, n)
  PROVE  /\ LastRowid \in 0 .. n
         /\ \A k \in DOMAIN rows : k <= LastRowid
         /\ LastRowid = 0 \/ LastRowid \in DOMAIN rows
<1>1. {0} \cup DOMAIN rows \in SUBSET (0 .. n) /\ 0 \in {0} \cup DOMAIN rows
  BY DEF Table
<1>2. LastRowid \in {0} \cup DOMAIN rows /\ \A k \in {0} \cup DOMAIN rows : k <= LastRowid
  BY <1>1, GreatestIsOne DEF LastRowid
<1>3. QED
  BY <1>1, <1>2

\* An insert keeps the rows there are and adds the batch after them.
LEMMA InsertedIs ==
  ASSUME NEW n \in Nat, Table(rows, n), NEW b, Batch(b, n)
  PROVE  /\ Table(Inserted(b), n + Len(b))
         /\ Ids(Inserted(b)) = Ids(rows) \cup Ids(b)
         /\ \A k \in DOMAIN rows : k \in DOMAIN Inserted(b) /\ Inserted(b)[k] = rows[k]
<1>. DEFINE t == Inserted(b)
            last == LastRowid
            new == last + 1 .. last + Len(b)
<1>1. last \in 0 .. n /\ \A k \in DOMAIN rows : k <= last
  BY LastRowidIs
<1>2. last = 0 \/ last \in DOMAIN rows
  BY LastRowidIs
<1>3. Len(b) \in Nat /\ \A i \in 1 .. Len(b) : b[i] \in Row /\ b[i].id = n + i
  BY DEF Batch
<1>4. DOMAIN t = DOMAIN rows \cup new
  BY DEF Inserted
<1>5. \A k \in DOMAIN rows : k \in 1 .. n /\ k \notin new
  BY <1>1 DEF Table
<1>6. \A k \in DOMAIN rows : t[k] = rows[k]
  BY DEF Inserted
<1>. HIDE DEF last
<1>7. \A k \in new : k - last \in 1 .. Len(b) /\ t[k] = b[k - last]
  BY <1>1, <1>3, <1>5 DEF Inserted, last
<1>. HIDE DEF t, new
<1>8. \A k \in DOMAIN t : t[k] \in Row
  BY <1>3, <1>4, <1>6, <1>7 DEF Table
<1>9. t = [k \in DOMAIN t |-> t[k]]
  BY DEF t, Inserted
<1>10. t \in [DOMAIN t -> Row]
  BY <1>8, <1>9
<1>11. \A k \in new : k \in Nat /\ last < k /\ k <= last + Len(b)
                      /\ t[k].id = n + (k - last)
  <2>1. \A k \in new : k \in Nat /\ last < k /\ k <= last + Len(b)
    BY <1>1, <1>3 DEF new
  <2>2. \A i \in 1 .. Len(b) : b[i].id = n + i
    BY <1>3
  <2>3. ASSUME NEW k \in new PROVE t[k].id = n + (k - last)
    <3>1. k - last \in 1 .. Len(b) /\ t[k] = b[k - last]
      BY <1>7
    <3>2. QED
      BY <2>2, <3>1
  <2>4. QED
    BY <2>1, <2>3
<1>12. \A k \in DOMAIN rows : k \in Nat /\ rows[k].id \in Nat /\ k <= rows[k].id /\ rows[k].id <= n
  BY DEF Table, Row
<1>13. \A j, k \in DOMAIN t : j < k => t[j].id < t[k].id
  <2>1. SUFFICES ASSUME NEW j \in DOMAIN t, NEW k \in DOMAIN t, j < k
                 PROVE  t[j].id < t[k].id
    OBVIOUS
  <2>2. CASE j \in DOMAIN rows /\ k \in DOMAIN rows
    BY <2>1, <2>2, <1>6 DEF Table
  <2>3. CASE j \in DOMAIN rows /\ k \in new
    BY <2>3, <1>1, <1>6, <1>11, <1>12
  <2>4. CASE j \in new /\ k \in DOMAIN rows
    BY <2>1, <2>4, <1>1, <1>11, <1>12
  <2>5. CASE j \in new /\ k \in new
    BY <2>1, <2>5, <1>1, <1>11
  <2>6. QED
    BY <1>4, <2>2, <2>3, <2>4, <2>5
<1>14. \A k \in DOMAIN t : k \in 1 .. n + Len(b) /\ k <= t[k].id /\ t[k].id <= n + Len(b)
  <2>1. \A k \in DOMAIN rows : k \in 1 .. n + Len(b) /\ k <= t[k].id /\ t[k].id <= n + Len(b)
    BY <1>3, <1>5, <1>6, <1>12
  <2>2. \A k \in new : k \in 1 .. n + Len(b) /\ k <= t[k].id /\ t[k].id <= n + Len(b)
    BY <1>1, <1>3, <1>11
  <2>3. QED
    BY <1>4, <2>1, <2>2
<1>15. Table(t, n + Len(b))
  BY <1>10, <1>13, <1>14 DEF Table
<1>16. Ids(t) = Ids(rows) \cup Ids(b)
  <2>1. DOMAIN b = 1 .. Len(b)
    BY DEF Batch
  <2>2. \A i \in 1 .. Len(b) : last + i \in new /\ t[last + i] = b[i]
    <3>1. \A i \in 1 .. Len(b) : last + i \in new /\ (last + i) - last = i
      BY <1>1, <1>3 DEF new
    <3>2. QED
      BY <3>1, <1>7
  <2>3. Ids(t) \subseteq Ids(rows) \cup Ids(b)
    BY <1>4, <1>6, <1>7, <2>1 DEF Ids
  <2>4. Ids(rows) \subseteq Ids(t)
    BY <1>4, <1>6 DEF Ids
  <2>5. Ids(b) \subseteq Ids(t)
    BY <1>4, <2>1, <2>2 DEF Ids
  <2>6. QED
    BY <2>3, <2>4, <2>5
<1>17. QED
  BY <1>4, <1>6, <1>15, <1>16 DEF t

\* What a batch holds, and a bound that is raised.
LEMMA IdsAre ==
  ASSUME NEW n \in Nat, NEW b, Batch(b, n)
  PROVE  Ids(b) = n + 1 .. n + Len(b)
<1>1. b \in Seq(Row) /\ Len(b) \in Nat /\ DOMAIN b = 1 .. Len(b)
  BY DEF Batch
<1>2. \A i \in 1 .. Len(b) : b[i].id = n + i
  BY DEF Batch
<1>3. Ids(b) \subseteq n + 1 .. n + Len(b)
  BY <1>1, <1>2 DEF Ids
<1>4. ASSUME NEW x \in n + 1 .. n + Len(b) PROVE x \in Ids(b)
  <2>1. x - n \in 1 .. Len(b) /\ n + (x - n) = x
    BY <1>1
  <2>2. b[x - n].id = x
    BY <1>2, <2>1
  <2>3. QED
    BY <1>1, <2>1, <2>2 DEF Ids
<1>5. QED
  BY <1>3, <1>4

\* A table of the first writes is one of more writes.
LEMMA Wider ==
  ASSUME NEW t, NEW n \in Nat, NEW m \in Nat, n <= m, Table(t, n)
  PROVE  Table(t, m)
<1>1. 1 .. n \subseteq 1 .. m
  OBVIOUS
<1>2. \A k \in DOMAIN t : t[k].id \in Nat
  BY DEF Table, Row
<1>3. QED
  BY <1>1, <1>2 DEF Table

\* A snapshot that is buffered is kept so far.
LEMMA AppendAgrees ==
  ASSUME NEW t, NEW b, NEW w, NEW f, Agree(t, b, w, f), Len(w) < MaxWrites,
         NEW ts \in 0 .. MaxClock
  PROVE  Agree(t, Append(b, [id |-> Len(w) + 1, ts |-> ts]), Append(w, "kept"), f)
<1>. DEFINE row == [id |-> Len(w) + 1, ts |-> ts]
            b1 == Append(b, row)
            w1 == Append(w, "kept")
<1>1. b \in Seq(Row) /\ w \in Seq(Fates) /\ Len(w) \in Nat /\ Len(b) \in Nat /\ Len(b) <= Len(w)
  BY DEF Agree, Batch
<1>2. row \in Row /\ row.id = Len(w) + 1
  BY RecordingAssumption, <1>1 DEF Row
<1>. HIDE DEF row
<1>3. b1 \in Seq(Row) /\ Len(b1) = Len(b) + 1 /\ b1[Len(b) + 1] = row
      /\ \A i \in 1 .. Len(b) : b1[i] = b[i]
  BY <1>1, <1>2
<1>4. w1 \in Seq(Fates) /\ Len(w1) = Len(w) + 1 /\ w1[Len(w) + 1] = "kept"
      /\ \A i \in 1 .. Len(w) : w1[i] = w[i]
  BY <1>1 DEF Fates
<1>5. DOMAIN w = 1 .. Len(w) /\ DOMAIN w1 = 1 .. Len(w) + 1
      /\ DOMAIN b = 1 .. Len(b) /\ DOMAIN b1 = 1 .. Len(b) + 1
  BY <1>1, <1>3, <1>4
<1>. HIDE DEF b1, w1
<1>6. Len(w1) - Len(b1) = Len(w) - Len(b) /\ Len(b1) <= Len(w1)
  BY <1>1, <1>3, <1>4
<1>7. Became(w1, "kept") = Became(w, "kept") \cup {Len(w) + 1}
  BY <1>1, <1>4, <1>5 DEF Became
<1>8. Became(w1, "lost") = Became(w, "lost")
  BY <1>1, <1>4, <1>5 DEF Became
<1>9. Ids(b1) = Ids(b) \cup {Len(w) + 1}
  <2>1. \A i \in 1 .. Len(b) + 1 : i \in 1 .. Len(b) \/ i = Len(b) + 1
    BY <1>1
  <2>2. Len(b) + 1 \in 1 .. Len(b) + 1 /\ \A i \in 1 .. Len(b) : i \in 1 .. Len(b) + 1
    BY <1>1
  <2>3. QED
    BY <1>2, <1>3, <1>5, <2>1, <2>2 DEF Ids
<1>10. Batch(b1, Len(w) - Len(b))
  <2>1. ASSUME NEW i \in 1 .. Len(b) + 1 PROVE b1[i].id = (Len(w) - Len(b)) + i
    <3>1. CASE i \in 1 .. Len(b)
      BY <3>1, <1>3 DEF Agree, Batch
    <3>2. CASE i = Len(b) + 1
      BY <3>2, <1>1, <1>2, <1>3
    <3>3. QED
      BY <1>1, <3>1, <3>2
  <2>2. QED
    BY <1>3, <2>1 DEF Batch
<1>11. QED
  BY <1>4, <1>6, <1>7, <1>8, <1>9, <1>10 DEF Agree, b1, w1, row

\* What is flushed is kept still.
LEMMA FlushAgrees ==
  ASSUME NEW b, NEW w, NEW f, Agree(rows, b, w, f)
  PROVE  Agree(Inserted(b), <<>>, w, f)
<1>1. Len(w) \in Nat /\ Len(b) \in Nat /\ Len(w) - Len(b) \in Nat
  BY DEF Agree, Batch
<1>2. Table(Inserted(b), (Len(w) - Len(b)) + Len(b))
      /\ Ids(Inserted(b)) = Ids(rows) \cup Ids(b)
  BY <1>1, InsertedIs DEF Agree
<1>3. (Len(w) - Len(b)) + Len(b) = Len(w) /\ Len(w) - 0 = Len(w)
  BY <1>1
<1>4. Len(<<>>) = 0 /\ <<>> \in Seq(Row) /\ Ids(<<>>) = {}
  BY DEF Ids
<1>5. Batch(<<>>, Len(w))
  BY <1>4 DEF Batch
<1>6. Became(w, "kept") = Ids(Inserted(b)) \cup Ids(<<>>)
  BY <1>2, <1>4 DEF Agree
<1>7. QED
  BY <1>1, <1>2, <1>3, <1>4, <1>5, <1>6 DEF Agree

\* A flush that raises loses no more than its batch.
LEMMA RaiseAgrees ==
  ASSUME NEW b, NEW w, NEW f, Agree(rows, b, w, f), Len(b) <= FlushSize,
         NEW n \in 0 .. Len(b) - 1
  PROVE  Agree(Inserted(SubSeq(b, 1, n)), <<>>,
               [i \in DOMAIN w |-> IF i \in Ids(SubSeq(b, n + 1, Len(b))) THEN "lost" ELSE w[i]],
               f + 1)
<1>. DEFINE head == SubSeq(b, 1, n)
            tail == SubSeq(b, n + 1, Len(b))
            w1 == [i \in DOMAIN w |-> IF i \in Ids(tail) THEN "lost" ELSE w[i]]
            from == Len(w) - Len(b)
<1>1. b \in Seq(Row) /\ w \in Seq(Fates) /\ Len(w) \in Nat /\ Len(b) \in Nat /\ from \in Nat
      /\ f \in Nat
  BY DEF Agree, Batch
<1>2. n \in Nat /\ n < Len(b)
  BY <1>1
<1>3. head \in Seq(Row) /\ Len(head) = n /\ \A i \in 1 .. n : head[i] = b[i]
  BY <1>1, <1>2
<1>4. Len(tail) = Len(b) - n /\ tail \in Seq(Row)
      /\ \A i \in 1 .. Len(b) - n : tail[i] = b[n + i]
  BY <1>1, <1>2
<1>. HIDE DEF head, tail
<1>5. \A i \in 1 .. Len(b) : b[i].id = from + i
  BY DEF Agree, Batch
<1>. HIDE DEF from
<1>6. Batch(head, from)
  <2>1. \A i \in 1 .. n : i \in 1 .. Len(b)
    BY <1>1, <1>2
  <2>2. \A i \in 1 .. n : head[i].id = from + i
    BY <1>3, <1>5, <2>1
  <2>3. QED
    BY <1>3, <2>2 DEF Batch
<1>7. Table(rows, from)
  BY DEF Agree, from
<1>8. Table(Inserted(head), from + n) /\ Ids(Inserted(head)) = Ids(rows) \cup Ids(head)
  BY <1>1, <1>3, <1>6, <1>7, InsertedIs
<1>9. from + n <= Len(w) /\ from + Len(b) = Len(w)
  BY <1>1, <1>2 DEF from
<1>10. Table(Inserted(head), Len(w))
  BY <1>1, <1>2, <1>8, <1>9, Wider
<1>11. Ids(head) = from + 1 .. from + n
  BY <1>1, <1>3, <1>6, IdsAre
<1>12. Ids(tail) = from + n + 1 .. Len(w)
  <2>1. ASSUME NEW i \in 1 .. Len(b) - n PROVE tail[i].id = (from + n) + i
    <3>1. n + i \in 1 .. Len(b) /\ from + (n + i) = (from + n) + i
      BY <1>1, <1>2
    <3>2. b[n + i].id = from + (n + i) /\ tail[i] = b[n + i]
      BY <3>1, <1>4, <1>5
    <3>3. QED
      BY <3>1, <3>2
  <2>2. Batch(tail, from + n)
    BY <1>4, <2>1 DEF Batch
  <2>3. from + n \in Nat /\ (from + n) + Len(tail) = Len(w)
    <3>1. Len(tail) = Len(b) - n
      BY <1>4
    <3>2. from \in Nat /\ n \in Nat /\ Len(b) \in Nat /\ from + Len(b) = Len(w)
      BY <1>1, <1>2, <1>9
    <3>. HIDE DEF w1
    <3>3. from + n \in Nat /\ (from + n) + (Len(b) - n) = from + Len(b)
      BY ONLY <3>2
    <3>4. from + n \in Nat /\ (from + n) + (Len(b) - n) = Len(w)
      BY <3>2, <3>3
    <3>5. QED
      BY <3>1, <3>4
  <2>4. Ids(tail) = (from + n) + 1 .. (from + n) + Len(tail)
    BY <2>2, <2>3, IdsAre
  <2>5. QED
    BY <2>3, <2>4
<1>13. Ids(b) = from + 1 .. Len(w)
  BY <1>1, <1>5, <1>9, IdsAre DEF Batch
<1>14. w1 \in Seq(Fates) /\ Len(w1) = Len(w)
  <2>1. ASSUME NEW s \in Seq(Fates), NEW G
        PROVE  /\ [i \in DOMAIN s |-> IF i \in G THEN "lost" ELSE s[i]] \in Seq(Fates)
               /\ Len([i \in DOMAIN s |-> IF i \in G THEN "lost" ELSE s[i]]) = Len(s)
    <3>1. \A i \in DOMAIN s : s[i] \in Fates /\ "lost" \in Fates
      BY ONLY <2>1 DEF Fates
    <3>2. DOMAIN s = 1 .. Len(s) /\ Len(s) \in Nat
      BY ONLY <2>1
    <3>. DEFINE t == [i \in DOMAIN s |-> IF i \in G THEN "lost" ELSE s[i]]
    <3>3. t \in [1 .. Len(s) -> Fates]
      BY <3>1, <3>2
    <3>4. QED
      BY <3>2, <3>3
  <2>2. QED
    BY <1>1, <2>1
<1>15. DOMAIN w = 1 .. Len(w)
  BY <1>1
<1>16. Became(w, "kept") = Ids(rows) \cup Ids(b)
  BY DEF Agree
<1>17. \A i \in Ids(rows) : i \in Nat /\ i <= from
  BY <1>7 DEF Table, Ids, Row
<1>18. Became(w1, "kept") = Ids(rows) \cup Ids(head)
  <2>1. \A i \in DOMAIN w : w1[i] = "kept" <=> w[i] = "kept" /\ i \notin Ids(tail)
    OBVIOUS
  <2>2. Became(w1, "kept") = Became(w, "kept") \ Ids(tail)
    BY <2>1 DEF Became
  <2>3. (Ids(rows) \cup (from + 1 .. Len(w))) \ (from + n + 1 .. Len(w))
          = Ids(rows) \cup (from + 1 .. from + n)
    <3>1. Ids(rows) \cap (from + n + 1 .. Len(w)) = {}
      BY <1>1, <1>2, <1>17
    <3>2. from \in Nat /\ n \in Nat /\ Len(w) \in Nat /\ from + n <= Len(w)
      BY <1>1, <1>2, <1>9
    <3>3. (from + 1 .. Len(w)) \ (from + n + 1 .. Len(w)) = from + 1 .. from + n
      BY ONLY <3>2
    <3>4. QED
      BY <3>1, <3>3
  <2>4. QED
    BY <2>2, <2>3, <1>11, <1>12, <1>13, <1>16
<1>19. Cardinality(Became(w1, "lost")) <= FlushSize * (f + 1)
  <2>1. Became(w1, "lost") \subseteq Became(w, "lost") \cup Ids(tail)
    BY DEF Became
  <2>2. IsFiniteSet(Ids(tail)) /\ Cardinality(Ids(tail)) <= FlushSize
    <3>1. IsFiniteSet(from + n + 1 .. Len(w))
          /\ Cardinality(from + n + 1 .. Len(w)) <= Len(b)
      <4>1. from + n + 1 \in Int /\ Len(w) \in Int
        BY <1>1, <1>2
      <4>2. /\ IsFiniteSet(from + n + 1 .. Len(w))
            /\ Cardinality(from + n + 1 .. Len(w))
                 = IF from + n + 1 > Len(w) THEN 0 ELSE Len(w) - (from + n + 1) + 1
        BY <4>1, FS_Interval
      <4>3. QED
        BY <4>2, <1>1, <1>2, <1>9
    <3>2. Cardinality(from + n + 1 .. Len(w)) \in Nat
      BY <3>1, FS_CardinalityType
    <3>3. QED
      BY RecordingAssumption, <1>1, <1>12, <3>1, <3>2
  <2>3. IsFiniteSet(Became(w, "lost"))
    <3>1. Became(w, "lost") \in SUBSET (1 .. Len(w)) /\ IsFiniteSet(1 .. Len(w))
      BY <1>1, <1>15, FS_Interval DEF Became
    <3>2. QED
      BY <3>1, FS_Subset
  <2>4. Cardinality(Became(w, "lost")) <= FlushSize * f /\ Cardinality(Became(w, "lost")) \in Nat
    BY <2>3, FS_CardinalityType DEF Agree
  <2>5. Cardinality(Ids(tail)) \in Nat
    BY <2>2, FS_CardinalityType
  <2>6. Cardinality(Became(w1, "lost"))
          <= Cardinality(Became(w, "lost")) + Cardinality(Ids(tail))
        /\ Cardinality(Became(w1, "lost")) \in Nat
    <3>1. IsFiniteSet(Became(w, "lost") \cup Ids(tail))
          /\ Cardinality(Became(w, "lost") \cup Ids(tail))
               = Cardinality(Became(w, "lost")) + Cardinality(Ids(tail))
                 - Cardinality(Became(w, "lost") \cap Ids(tail))
      BY <2>2, <2>3, FS_Union
    <3>2. IsFiniteSet(Became(w, "lost") \cap Ids(tail))
          /\ Cardinality(Became(w, "lost") \cap Ids(tail)) \in Nat
      BY <2>3, FS_Intersection, FS_CardinalityType
    <3>3. IsFiniteSet(Became(w1, "lost"))
          /\ Cardinality(Became(w1, "lost"))
               <= Cardinality(Became(w, "lost") \cup Ids(tail))
      BY <2>1, <3>1, FS_Subset
    <3>4. Cardinality(Became(w1, "lost")) \in Nat
      BY <3>3, FS_CardinalityType
    <3>. HIDE DEF w1
    <3>5. QED
      BY <2>4, <2>5, <3>1, <3>2, <3>3, <3>4
  <2>7. FlushSize * (f + 1) = FlushSize * f + FlushSize /\ FlushSize * f \in Nat
    BY RecordingAssumption, <1>1
  <2>. HIDE DEF w1
  <2>8. \A x, y, z, u, v \in Int : x <= y + z /\ y <= u /\ z <= v => x <= u + v
    BY ONLY SMT
  <2>9. FlushSize \in Nat
    BY RecordingAssumption
  <2>10. Cardinality(Became(w1, "lost")) <= FlushSize * f + FlushSize
    BY ONLY <2>2, <2>4, <2>5, <2>6, <2>7, <2>8, <2>9
  <2>11. QED
    BY ONLY <2>7, <2>10
<1>20. Len(<<>>) = 0 /\ <<>> \in Seq(Row) /\ Ids(<<>>) = {}
  BY DEF Ids
<1>21. Batch(<<>>, Len(w1))
  BY <1>20 DEF Batch
<1>. HIDE DEF w1
<1>22. Len(w1) - 0 = Len(w1) /\ 0 <= Len(w1) /\ f + 1 \in Nat
  BY <1>1, <1>14
<1>23. Became(w1, "kept") = Ids(Inserted(head)) \cup Ids(<<>>)
  BY <1>8, <1>18, <1>20
<1>24. Agree(Inserted(head), <<>>, w1, f + 1)
  BY <1>10, <1>14, <1>19, <1>20, <1>21, <1>22, <1>23 DEF Agree
<1>25. QED
  BY <1>24 DEF w1, head, tail

\* What retention deletes was kept until then, and nothing else changes.
LEMMA PruneAgrees ==
  ASSUME NEW t, NEW w, NEW f, Agree(t, <<>>, w, f), NEW left \in SUBSET DOMAIN t
  PROVE  Agree(Restrict(t, left), <<>>,
               [i \in DOMAIN w |-> IF i \in {t[k].id : k \in DOMAIN t \ left}
                                   THEN "pruned" ELSE w[i]], f)
<1>. DEFINE gone == {t[k].id : k \in DOMAIN t \ left}
            w1 == [i \in DOMAIN w |-> IF i \in gone THEN "pruned" ELSE w[i]]
            t1 == Restrict(t, left)
<1>1. Len(<<>>) = 0 /\ <<>> \in Seq(Row) /\ Ids(<<>>) = {}
  BY DEF Ids
<1>2. w \in Seq(Fates) /\ Len(w) \in Nat /\ Len(w) - 0 = Len(w) /\ DOMAIN w = 1 .. Len(w)
  BY DEF Agree
<1>3. Table(t, Len(w)) /\ Became(w, "kept") = Ids(t)
  BY <1>1, <1>2 DEF Agree
<1>4. DOMAIN t1 = left /\ t1 = [k \in left |-> t[k]] /\ \A k \in left : t1[k] = t[k]
  BY DEF Restrict
<1>. HIDE DEF t1
<1>5. Table(t1, Len(w))
  <2>1. t1 \in [left -> Row]
    BY <1>3, <1>4 DEF Table
  <2>2. QED
    BY <1>3, <1>4, <2>1 DEF Table
<1>6. Ids(t1) = Ids(t) \ gone
  <2>1. \A j, k \in DOMAIN t : t[j].id = t[k].id => j = k
    BY <1>3, SMTT(30) DEF Table, Row
  <2>2. QED
    BY <1>4, <2>1 DEF Ids
<1>7. w1 \in Seq(Fates) /\ Len(w1) = Len(w) /\ DOMAIN w1 = DOMAIN w
  BY <1>2 DEF Fates
<1>8. gone \subseteq Became(w, "kept")
  BY <1>3 DEF Ids
<1>. HIDE DEF gone
<1>9. Became(w1, "kept") = Became(w, "kept") \ gone
  BY <1>7 DEF Became
<1>10. Became(w1, "lost") = Became(w, "lost")
  BY <1>7, <1>8 DEF Became
<1>. HIDE DEF w1
<1>11. Became(w1, "kept") = Ids(t1) \cup Ids(<<>>)
  BY <1>1, <1>3, <1>6, <1>9
<1>12. Batch(<<>>, Len(w1))
  BY <1>1 DEF Batch
<1>13. Cardinality(Became(w1, "lost")) <= FlushSize * f /\ f \in Nat
  BY <1>10 DEF Agree
<1>14. Agree(t1, <<>>, w1, f)
  BY <1>1, <1>2, <1>5, <1>7, <1>11, <1>12, <1>13 DEF Agree
<1>15. QED
  BY <1>14 DEF t1, w1, gone

\* Whatever flushes, a batch no longer than a buffer may be, leaves them agreed.
LEMMA FlushesAgree ==
  ASSUME NEW b, NEW w, Agree(rows, b, w, failures), Len(b) <= FlushSize,
         (Flush(b) /\ fate' = w) \/ FlushRaises(b, w)
  PROVE  Agree(rows', buf', fate', failures') /\ Len(buf') < FlushSize
<1>1. Len(<<>>) = 0 /\ 0 < FlushSize
  BY RecordingAssumption
<1>2. CASE Flush(b) /\ fate' = w
  <2>1. buf' = <<>> /\ rows' = Inserted(b) /\ failures' = failures /\ fate' = w
    BY <1>2 DEF Flush
  <2>2. QED
    BY <1>1, <2>1, FlushAgrees
<1>3. CASE FlushRaises(b, w)
  <2>1. PICK n \in 0 .. Len(b) - 1 :
          /\ buf' = <<>>
          /\ rows' = Inserted(SubSeq(b, 1, n))
          /\ fate' = [i \in DOMAIN w |->
               IF i \in Ids(SubSeq(b, n + 1, Len(b))) THEN "lost" ELSE w[i]]
    BY <1>3 DEF FlushRaises
  <2>2. failures' = failures + 1
    BY <1>3 DEF FlushRaises
  <2>3. QED
    BY <1>1, <2>1, <2>2, RaiseAgrees
<1>4. QED
  BY <1>2, <1>3

\* A snapshot accepted: one more write in the buffer, flushed or not.
LEMMA WriteAgrees ==
  ASSUME MetricsInv, NEW ts \in 0 .. MaxClock, Write(ts)
  PROVE  MetricsInv'
<1>. DEFINE b == Append(buf, [id |-> Len(fate) + 1, ts |-> ts])
            w == Append(fate, "kept")
<1>1. Agree(rows, b, w, failures)
  BY AppendAgrees DEF MetricsInv, Write
<1>2. Len(b) = Len(buf) + 1 /\ Len(buf) \in Nat
  BY DEF MetricsInv, Agree, Batch
<1>3. now' = now
  BY DEF Write
<1>4. CASE Len(b) < FlushSize
  <2>1. buf' = b /\ fate' = w /\ UNCHANGED <<rows, failures>>
    BY <1>4 DEF Write
  <2>. HIDE DEF b, w
  <2>2. QED
    BY <1>1, <1>3, <1>4, <2>1 DEF MetricsInv
<1>5. CASE ~(Len(b) < FlushSize)
  <2>1. (Flush(b) /\ fate' = w) \/ FlushRaises(b, w)
    BY <1>5 DEF Write
  <2>2. Len(b) <= FlushSize
    BY RecordingAssumption, <1>2 DEF MetricsInv
  <2>. HIDE DEF b, w
  <2>3. QED
    BY <1>1, <1>3, <2>1, <2>2, FlushesAgree DEF MetricsInv
<1>6. QED
  BY <1>4, <1>5

\* prune() flushes, and deletes some of what is then in the table.
LEMMA PruneIs ==
  ASSUME Prune
  PROVE  LET all == Inserted(buf)
             young == {k \in DOMAIN all : all[k].ts + MaxAge >= now}
             left == DropOldest(all, young)
         IN /\ buf' = <<>> /\ UNCHANGED <<now, failures>>
            /\ left \subseteq young /\ young \subseteq DOMAIN all
            /\ rows' = Restrict(all, left)
            /\ fate' = [i \in DOMAIN fate |->
                          IF i \in {all[k].id : k \in DOMAIN all \ left}
                          THEN "pruned" ELSE fate[i]]
  BY DEF Prune, DropOldest, Fate

\* Retention flushes, then deletes; what it deletes is marked so.
LEMMA PruneKeeps ==
  ASSUME MetricsInv, Prune
  PROVE  MetricsInv'
<1>1. Agree(Inserted(buf), <<>>, fate, failures)
  BY FlushAgrees DEF MetricsInv
<1>. DEFINE all == Inserted(buf)
            left == DropOldest(all, {k \in DOMAIN all : all[k].ts + MaxAge >= now})
<1>2. /\ buf' = <<>> /\ UNCHANGED <<now, failures>>
      /\ left \in SUBSET DOMAIN all
      /\ rows' = Restrict(all, left)
      /\ fate' = [i \in DOMAIN fate |->
                    IF i \in {all[k].id : k \in DOMAIN all \ left}
                    THEN "pruned" ELSE fate[i]]
  BY PruneIs
<1>. HIDE DEF all, left
<1>3. Agree(all, <<>>, fate, failures)
  BY <1>1 DEF all
<1>4. Agree(rows', buf', fate', failures')
  BY <1>2, <1>3, PruneAgrees
<1>5. Len(buf') < FlushSize
  BY RecordingAssumption, <1>2
<1>6. QED
  BY <1>2, <1>4, <1>5 DEF MetricsInv

\* Only the store's own calls touch the store.
LEMMA OthersKeepMetrics == DemoNext \/ SessionNext => UNCHANGED metricVars
<1>1. DemoNext => UNCHANGED metricVars
  BY DEF DemoNext, AskRecord, StartRecord, AskStep, LogStep, RefuseStep, FinishRecord, Awaits
<1>2. SessionNext => UNCHANGED metricVars
  BY DEF SessionNext, StartSession, StopSession, AskEvent, AddEvent, Awaits
<1>3. QED
  BY <1>1, <1>2

\* Every step keeps the rows, the buffer and the fates in agreement.
LEMMA MetricsStep == MetricsInv /\ [RecordingNext]_recordingVars => MetricsInv'
<1>1. SUFFICES ASSUME MetricsInv, [RecordingNext]_recordingVars PROVE MetricsInv'
  OBVIOUS
<1>2. CASE UNCHANGED metricVars
  BY <1>1, <1>2 DEF metricVars, MetricsInv
<1>3. CASE Time
  <2>1. now' \in 0 .. MaxClock /\ UNCHANGED <<buf, rows, fate, failures>>
    BY RecordingAssumption, <1>1, <1>3 DEF Time, MetricsInv
  <2>2. QED
    BY <1>1, <2>1 DEF MetricsInv
<1>4. ASSUME NEW ts \in 0 .. MaxClock, Write(ts) PROVE MetricsInv'
  BY <1>1, <1>4, WriteAgrees
<1>5. CASE Query
  <2>1. (Flush(buf) /\ fate' = fate) \/ FlushRaises(buf, fate)
    BY <1>5 DEF Query
  <2>2. Agree(rows, buf, fate, failures) /\ Len(buf) <= FlushSize /\ now' = now
    BY RecordingAssumption, <1>1, <1>5 DEF MetricsInv, Agree, Batch, Query
  <2>3. Agree(rows', buf', fate', failures') /\ Len(buf') < FlushSize
    BY <2>1, <2>2, FlushesAgree
  <2>4. QED
    BY <1>1, <2>2, <2>3 DEF MetricsInv
<1>6. CASE Prune
  BY <1>1, <1>6, PruneKeeps
<1>7. CASE MetricsNext
  BY <1>3, <1>4, <1>5, <1>6, <1>7 DEF MetricsNext
<1>8. MetricsNext \/ DemoNext \/ SessionNext \/ UNCHANGED metricVars
  BY <1>1 DEF RecordingNext, recordingVars
<1>9. QED
  BY <1>2, <1>7, <1>8, OthersKeepMetrics

\* An empty store, an empty buffer and no writes agree.
LEMMA MetricsStart == RecordingInit => MetricsInv
<1>1. SUFFICES ASSUME RecordingInit PROVE MetricsInv
  OBVIOUS
<1>2. now = 0 /\ buf = <<>> /\ rows = <<>> /\ fate = <<>> /\ failures = 0
  BY <1>1 DEF RecordingInit
<1>3. Len(<<>>) = 0 /\ DOMAIN <<>> = {} /\ <<>> \in [{} -> Row]
      /\ <<>> \in Seq(Row) /\ <<>> \in Seq(Fates)
  OBVIOUS
<1>4. Ids(<<>>) = {} /\ Became(<<>>, "kept") = {} /\ Became(<<>>, "lost") = {}
  BY DEF Ids, Became
<1>5. Cardinality(Became(<<>>, "lost")) = 0
  BY <1>4, FS_EmptySet
<1>6. Table(<<>>, 0) /\ Batch(<<>>, 0)
  BY <1>3 DEF Table, Batch
<1>7. 0 <= FlushSize * 0 /\ 0 < FlushSize /\ 0 \in 0 .. MaxClock
  BY RecordingAssumption
<1>8. Agree(<<>>, <<>>, <<>>, 0)
  BY <1>3, <1>4, <1>5, <1>6, <1>7 DEF Agree
<1>9. QED
  BY <1>2, <1>3, <1>7, <1>8 DEF MetricsInv

(***************************************************************************)
(* No snapshot is lost but by a flush that raised, at most a buffer each   *)
(* time, and none is kept twice or out of order, whatever is written,      *)
(* read and pruned in between (metrics.py write, _flush, prune).           *)
(***************************************************************************)
THEOREM SnapshotsAreKept == RecordingSpec => []SnapshotsKept
<1>1. MetricsInv => SnapshotsKept
  <2>1. SUFFICES ASSUME MetricsInv PROVE SnapshotsKept
    OBVIOUS
  <2>2. DOMAIN buf = 1 .. Len(buf)
    BY <2>1 DEF MetricsInv, Agree, Batch
  <2>3. QED
    BY <2>1, <2>2 DEF MetricsInv, Agree, Table, Batch, Became, SnapshotsKept
<1>2. QED
  BY <1>1, MetricsStart, MetricsStep, PTL DEF RecordingSpec, RecordingNext

-----------------------------------------------------------------------------
(* Retention *)

\* ORDER BY ts ASC is an order: who is listed before one listed before another
\* is listed before that one too.
LEMMA BeforeIsOrder ==
  ASSUME NEW t, NEW n \in Nat, Table(t, n), NEW keys \in SUBSET DOMAIN t,
         NEW j \in keys, NEW k \in keys
  PROVE  /\ IsFiniteSet(Before(t, keys, k)) /\ Cardinality(Before(t, keys, k)) \in Nat
         /\ k \notin Before(t, keys, k)
         /\ j \in Before(t, keys, k) =>
              Cardinality(Before(t, keys, j)) < Cardinality(Before(t, keys, k))
         /\ j # k => j \in Before(t, keys, k) \/ k \in Before(t, keys, j)
<1>1. \A x \in keys : x \in Nat /\ t[x].ts \in Nat
  BY DEF Table, Row
<1>2. IsFiniteSet(1 .. n) /\ keys \subseteq 1 .. n
  <2>1. 1 \in Int /\ n \in Int
    OBVIOUS
  <2>2. IsFiniteSet(1 .. n)
    BY <2>1, FS_Interval
  <2>3. QED
    BY <2>2 DEF Table
<1>3. \A x \in keys : IsFiniteSet(Before(t, keys, x)) /\ Cardinality(Before(t, keys, x)) \in Nat
  <2>1. \A x \in keys : Before(t, keys, x) \in SUBSET (1 .. n)
    BY <1>2 DEF Before
  <2>2. QED
    BY <1>2, <2>1, FS_Subset, FS_CardinalityType
<1>4. k \notin Before(t, keys, k) /\ j \notin Before(t, keys, j)
  BY <1>1 DEF Before
<1>5. ASSUME j \in Before(t, keys, k)
      PROVE  Cardinality(Before(t, keys, j)) < Cardinality(Before(t, keys, k))
  <2>1. Before(t, keys, j) \subseteq Before(t, keys, k)
    BY <1>1, <1>5 DEF Before
  <2>2. Before(t, keys, j) # Before(t, keys, k)
    BY <1>4, <1>5
  <2>3. Cardinality(Before(t, keys, j)) <= Cardinality(Before(t, keys, k))
        /\ Cardinality(Before(t, keys, j)) # Cardinality(Before(t, keys, k))
    BY <1>3, <2>1, <2>2, FS_Subset
  <2>4. QED
    BY <1>3, <2>3
<1>6. j # k => j \in Before(t, keys, k) \/ k \in Before(t, keys, j)
  BY <1>1 DEF Before
<1>7. QED
  BY <1>3, <1>4, <1>5, <1>6

\* DELETE ... LIMIT excess leaves at most MAX_ROWS rows, the newest ones.
LEMMA NewestStay ==
  ASSUME NEW t, NEW n \in Nat, Table(t, n), NEW keys \in SUBSET DOMAIN t
  PROVE  /\ Cardinality(DropOldest(t, keys)) <= MaxRows
         /\ \A k \in DropOldest(t, keys), d \in keys \ DropOldest(t, keys) :
               t[d].ts <= t[k].ts
<1>. DEFINE left == DropOldest(t, keys)
            Rank(k) == Cardinality(Before(t, keys, k))
            total == Cardinality(keys)
<1>1. IsFiniteSet(keys) /\ total \in Nat
  <2>1. 1 \in Int /\ n \in Int
    OBVIOUS
  <2>2. IsFiniteSet(1 .. n)
    BY <2>1, FS_Interval
  <2>3. keys \in SUBSET (1 .. n)
    BY DEF Table
  <2>4. QED
    BY <2>2, <2>3, FS_Subset, FS_CardinalityType
<1>2. \A k \in keys : k \in left <=> Rank(k) + MaxRows >= total
  BY DEF DropOldest
<1>3. left \subseteq keys
  BY DEF DropOldest
<1>4. \A k \in keys : IsFiniteSet(Before(t, keys, k)) /\ Rank(k) \in Nat
                      /\ Before(t, keys, k) \subseteq keys
  <2>1. \A k \in keys : IsFiniteSet(Before(t, keys, k)) /\ Rank(k) \in Nat
    BY BeforeIsOrder
  <2>2. \A k \in keys : Before(t, keys, k) \subseteq keys
    BY DEF Before
  <2>3. QED
    BY <2>1, <2>2
<1>5. \A j, k \in keys : j \in Before(t, keys, k) => Rank(j) < Rank(k)
  BY BeforeIsOrder
<1>6. \A k \in keys, d \in keys : t[k].ts < t[d].ts => k \in Before(t, keys, d)
  BY DEF Before
<1>7. MaxRows \in Nat
  BY RecordingAssumption
<1>. HIDE DEF left, Rank, total
<1>8. Cardinality(left) <= MaxRows
  <2>1. CASE left = {}
    BY <2>1, <1>7, FS_EmptySet
  <2>2. CASE left # {}
    <3>. DEFINE Ranks == {Rank(k) : k \in left}
    <3>1. Ranks \in SUBSET Nat /\ Ranks # {}
      BY <2>2, <1>3, <1>4
    <3>2. PICK m \in Ranks : \A r \in Ranks : m <= r
      <4>. HIDE DEF Ranks
      <4>1. QED
        BY <3>1, LeastIsOne
    <3>3. PICK k \in left : m = Rank(k)
      BY <3>2
    <3>4. \A j \in left : ~(Rank(j) < Rank(k))
      <4>1. ASSUME NEW j \in left PROVE ~(Rank(j) < Rank(k))
        <5>1. Rank(k) <= Rank(j) /\ Rank(j) \in Nat /\ Rank(k) \in Nat
          BY <1>3, <1>4, <3>2, <3>3
        <5>2. QED
          BY <5>1
      <4>2. QED
        BY <4>1
    <3>. DEFINE earlier == Before(t, keys, k)
    <3>5. k \in keys /\ IsFiniteSet(earlier) /\ earlier \subseteq keys
          /\ Cardinality(earlier) = Rank(k)
      BY <1>3, <1>4 DEF Rank
    <3>6. left \subseteq keys \ earlier
      BY <1>3, <1>5, <3>4, <3>5
    <3>. HIDE DEF earlier
    <3>7. IsFiniteSet(keys \ earlier)
          /\ Cardinality(keys \ earlier) = total - Cardinality(keys \cap earlier)
      BY <1>1, <3>5, FS_Difference DEF total
    <3>8. Cardinality(keys \cap earlier) = Rank(k)
      <4>1. keys \cap earlier = earlier
        BY <3>5
      <4>2. QED
        BY <3>5, <4>1
    <3>9. Cardinality(left) <= Cardinality(keys \ earlier) /\ IsFiniteSet(left)
      BY <3>6, <3>7, FS_Subset
    <3>10. Cardinality(left) \in Nat
      BY <3>9, FS_CardinalityType
    <3>11. Rank(k) + MaxRows >= total /\ Rank(k) \in Nat
      BY <1>2, <1>4, <3>5
    <3>12. QED
      BY <1>1, <1>7, <3>7, <3>8, <3>9, <3>10, <3>11
  <2>3. QED
    BY <2>1, <2>2
<1>9. ASSUME NEW k \in left, NEW d \in keys \ left PROVE t[d].ts <= t[k].ts
  <2>1. k \in keys /\ d \in keys /\ Rank(k) \in Nat /\ Rank(d) \in Nat
    BY <1>3, <1>4
  <2>2. Rank(k) + MaxRows >= total /\ ~(Rank(d) + MaxRows >= total)
    BY <1>2, <2>1
  <2>3. ~(Rank(k) < Rank(d))
    BY <1>1, <1>7, <2>1, <2>2
  <2>4. ~(t[k].ts < t[d].ts)
    BY <1>5, <1>6, <2>1, <2>3
  <2>5. t[k].ts \in Nat /\ t[d].ts \in Nat
    BY <2>1 DEF Table, Row
  <2>6. QED
    BY <2>4, <2>5
<1>10. QED
  BY <1>8, <1>9 DEF left

\* An insert deletes nothing.
LEMMA InsertKeepsIds == \A b : Ids(rows) \subseteq Ids(Inserted(b))
<1>1. ASSUME NEW b, NEW k \in DOMAIN rows
      PROVE  k \in DOMAIN Inserted(b) /\ Inserted(b)[k] = rows[k]
  BY DEF Inserted
<1>2. QED
  BY <1>1 DEF Ids

\* No step but retention's takes a row away.
LEMMA OnlyPruneDeletes ==
  ASSUME [RecordingNext]_recordingVars, ~Prune
  PROVE  Ids(rows) \subseteq Ids(rows')
<1>1. CASE rows' = rows
  BY <1>1
<1>2. ASSUME NEW b, rows' = Inserted(b) PROVE Ids(rows) \subseteq Ids(rows')
  BY <1>2, InsertKeepsIds
<1>3. ASSUME NEW b, NEW w, Flush(b) \/ FlushRaises(b, w) PROVE \E c : rows' = Inserted(c)
  BY <1>3 DEF Flush, FlushRaises
<1>4. CASE MetricsNext
  <2>1. CASE Time
    BY <2>1, <1>1 DEF Time
  <2>2. ASSUME NEW ts \in 0 .. MaxClock, Write(ts) PROVE rows' = rows \/ \E c : rows' = Inserted(c)
    BY <2>2, <1>3 DEF Write
  <2>3. CASE Query
    BY <2>3, <1>2, <1>3 DEF Query
  <2>4. QED
    BY <1>1, <1>2, <1>4, <2>1, <2>2, <2>3 DEF MetricsNext
<1>5. UNCHANGED metricVars => rows' = rows
  BY DEF metricVars
<1>6. MetricsNext \/ DemoNext \/ SessionNext \/ UNCHANGED metricVars
  BY DEF RecordingNext, recordingVars
<1>7. QED
  BY <1>1, <1>4, <1>5, <1>6, OthersKeepMetrics

(***************************************************************************)
(* Retention deletes the oldest first and leaves at most MAX_ROWS rows     *)
(* within MAX_AGE_DAYS, whatever the order and the stamps of what came in, *)
(* and nothing else deletes (metrics.py prune).                            *)
(***************************************************************************)
THEOREM OldestGoFirst == RecordingSpec => RetentionKeepsNewest
<1>. DEFINE Gone == {k \in DOMAIN rows : rows[k].id \notin Ids(rows')}
            Kept == /\ Cardinality(DOMAIN rows') <= MaxRows /\ buf' = <<>>
                    /\ \A k \in DOMAIN rows' :
                          /\ rows'[k].ts + MaxAge >= now
                          /\ \A d \in Gone : rows[d].ts <= rows'[k].ts
<1>1. MetricsInv /\ [RecordingNext]_recordingVars => [Gone # {} => Kept]_recordingVars
  <2>1. SUFFICES ASSUME MetricsInv, [RecordingNext]_recordingVars, Gone # {} PROVE Kept
    BY DEF recordingVars
  <2>2. Prune
    <3>1. ~(Ids(rows) \subseteq Ids(rows'))
      BY <2>1 DEF Ids
    <3>2. QED
      BY <2>1, <3>1, OnlyPruneDeletes
  <2>. DEFINE all == Inserted(buf)
              young == {k \in DOMAIN all : all[k].ts + MaxAge >= now}
              left == DropOldest(all, young)
  <2>3. buf' = <<>> /\ rows' = Restrict(all, left) /\ left \subseteq young
        /\ young \subseteq DOMAIN all
    BY <2>2, PruneIs
  <2>4. \A k \in young : all[k].ts + MaxAge >= now
    OBVIOUS
  <2>5. \A k \in DOMAIN all \ young : ~(all[k].ts + MaxAge >= now)
    OBVIOUS
  <2>6. \A k \in DOMAIN rows : k \in DOMAIN all /\ all[k] = rows[k]
    BY DEF Inserted
  <2>7. PICK n \in Nat : Table(all, n)
    <3>1. Agree(all, <<>>, fate, failures)
      BY <2>1, FlushAgrees DEF MetricsInv
    <3>2. Len(fate) \in Nat /\ Len(<<>>) = 0 /\ Len(fate) - 0 = Len(fate)
      BY <3>1 DEF Agree
    <3>3. QED
      BY <3>1, <3>2 DEF Agree
  <2>8. Cardinality(left) <= MaxRows
        /\ \A k \in left, d \in young \ left : all[d].ts <= all[k].ts
    BY <2>3, <2>7, NewestStay
  <2>9. \A k \in DOMAIN all : all[k].ts \in Nat
    BY <2>7 DEF Table, Row
  <2>10. now \in Nat /\ MaxAge \in Nat
    BY RecordingAssumption, <2>1 DEF MetricsInv
  <2>. HIDE DEF all, young, left
  <2>11. DOMAIN rows' = left /\ \A k \in left : rows'[k] = all[k]
    BY <2>3 DEF Restrict
  <2>12. ASSUME NEW d \in Gone PROVE d \in DOMAIN all /\ d \notin left /\ all[d] = rows[d]
    <3>1. d \in left => rows[d].id \in Ids(rows')
      BY <2>6, <2>11 DEF Ids
    <3>2. QED
      BY <2>6, <3>1
  <2>13. ASSUME NEW k \in left, NEW d \in Gone PROVE rows[d].ts <= all[k].ts
    <3>1. CASE d \in young
      BY <3>1, <2>8, <2>12
    <3>2. CASE d \notin young
      <4>1. ~(all[d].ts + MaxAge >= now) /\ all[k].ts + MaxAge >= now
        BY <3>2, <2>3, <2>4, <2>5, <2>12
      <4>2. all[d].ts \in Nat /\ all[k].ts \in Nat /\ all[d] = rows[d]
        BY <2>3, <2>9, <2>12
      <4>3. QED
        BY <2>10, <4>1, <4>2
    <3>3. QED
      BY <3>1, <3>2
  <2>14. QED
    BY <2>3, <2>4, <2>8, <2>11, <2>13
<1>2. QED
  BY <1>1, MetricsStart, MetricsStep, PTL
     DEF RecordingSpec, RecordingNext, RetentionKeepsNewest

-----------------------------------------------------------------------------
(* Type correctness *)

\* The requests whose record is still to come.
Recorders == {q \in Requests : awaits[q].what = "record"}

\* The recordings made and those asked for stay within their bound.
HandlersInv ==
  /\ active \in BOOLEAN /\ logger \in Logger /\ datasets \subseteq Logger
  /\ awaits \in [Requests -> AwaitRecord]
  /\ sessions \in Seq(SessionRecord) /\ current \in 0 .. Len(sessions)
  /\ Len(sessions) <= MaxStarts
  /\ Made <= MaxStarts

\* The recorders counted towards the bound are finitely many.
LEMMA RecordersFinite ==
  /\ IsFiniteSet(Recorders) /\ Cardinality(Recorders) \in Nat
  /\ Made = logger.made + Cardinality(Recorders)
<1>1. Recorders \in SUBSET Requests /\ IsFiniteSet(Requests)
  BY RecordingAssumption DEF Recorders
<1>2. QED
  BY <1>1, FS_Subset, FS_CardinalityType DEF Recorders, Made

\* A handler that begins or ends an await changes what is asked for by one.
LEMMA RecordersChange ==
  ASSUME awaits \in [Requests -> AwaitRecord], NEW q \in Requests, NEW new \in AwaitRecord,
         awaits' = [awaits EXCEPT ![q] = new]
  PROVE  /\ awaits' \in [Requests -> AwaitRecord]
         /\ Recorders' = IF new.what = "record" THEN Recorders \cup {q} ELSE Recorders \ {q}
         /\ Cardinality(Recorders') <= Cardinality(Recorders) + 1
         /\ new.what # "record" => Cardinality(Recorders') <= Cardinality(Recorders)
         /\ new.what # "record" /\ awaits[q].what = "record" =>
              Cardinality(Recorders') = Cardinality(Recorders) - 1
         /\ Cardinality(Recorders') \in Nat
<1>1. awaits' \in [Requests -> AwaitRecord]
      /\ \A p \in Requests : awaits'[p] = IF p = q THEN new ELSE awaits[p]
  OBVIOUS
<1>2. Recorders' = {p \in Requests : awaits'[p].what = "record"}
  BY DEF Recorders
<1>3. Recorders' = IF new.what = "record" THEN Recorders \cup {q} ELSE Recorders \ {q}
  BY <1>1, <1>2 DEF Recorders
<1>4. q \in Recorders <=> awaits[q].what = "record"
  BY DEF Recorders
<1>5. /\ IsFiniteSet(Recorders \cup {q})
      /\ Cardinality(Recorders \cup {q}) =
           IF q \in Recorders THEN Cardinality(Recorders) ELSE Cardinality(Recorders) + 1
  BY RecordersFinite, FS_AddElement
<1>6. /\ IsFiniteSet(Recorders \ {q})
      /\ Cardinality(Recorders \ {q}) =
           IF q \in Recorders THEN Cardinality(Recorders) - 1 ELSE Cardinality(Recorders)
  BY RecordersFinite, FS_RemoveElement
<1>7. Cardinality(Recorders \cup {q}) \in Nat /\ Cardinality(Recorders \ {q}) \in Nat
  BY <1>5, <1>6, FS_CardinalityType
<1>8. Cardinality(Recorders) \in Nat
  BY RecordersFinite
<1>9. CASE new.what = "record"
  <2>1. Cardinality(Recorders') = Cardinality(Recorders \cup {q})
    BY <1>3, <1>9, Zenon
  <2>2. QED
    BY <2>1, <1>1, <1>3, <1>5, <1>7, <1>8, <1>9
<1>10. CASE new.what # "record"
  <2>1. Cardinality(Recorders') = Cardinality(Recorders \ {q})
    BY <1>3, <1>10, Zenon
  <2>2. QED
    BY <2>1, <1>1, <1>3, <1>4, <1>6, <1>7, <1>8, <1>10
<1>11. QED
  BY <1>9, <1>10

\* A step of the demonstration logger keeps the handlers' invariant.
LEMMA DemoTyped ==
  ASSUME HandlersInv, DemoNext
  PROVE  HandlersInv'
<1>1. Made' = logger'.made + Cardinality(Recorders') /\ Made = logger.made + Cardinality(Recorders)
      /\ Cardinality(Recorders) \in Nat
  <2>1. Made' = logger'.made + Cardinality(Recorders')
    BY DEF Made, Recorders
  <2>2. QED
    BY <2>1, RecordersFinite
<1>2. logger.made \in 0 .. MaxStarts /\ logger.prompt \in 0 .. MaxStarts /\ logger.steps \in Seq(Step)
      /\ active \in BOOLEAN /\ logger \in Logger
  BY DEF HandlersInv, Logger
<1>3. MaxStarts \in Nat /\ Made <= MaxStarts /\ awaits \in [Requests -> AwaitRecord]
  BY RecordingAssumption DEF HandlersInv
<1>4. UNCHANGED sessionVars
  BY DEF DemoNext, AskRecord, StartRecord, AskStep, LogStep, RefuseStep, FinishRecord,
         Awaits, sessionVars
<1>5. Nothing \in AwaitRecord /\ Nothing.what = "nothing"
  BY <1>3 DEF Nothing, AwaitRecord
<1>6. \A what \in {"record", "step"}, sid \in 0 .. MaxStarts :
        /\ [what |-> what, sid |-> sid] \in AwaitRecord
        /\ [what |-> what, sid |-> sid].what = what
  BY DEF AwaitRecord
<1>7. ASSUME NEW q \in Requests, AskRecord(q) PROVE HandlersInv'
  <2>1. awaits' = [awaits EXCEPT ![q] = [what |-> "record", sid |-> 0]]
        /\ UNCHANGED demoVars /\ Made < MaxStarts /\ 0 \in 0 .. MaxStarts
    BY <1>3, <1>7 DEF AskRecord, Awaits
  <2>2. awaits' \in [Requests -> AwaitRecord]
        /\ Cardinality(Recorders') <= Cardinality(Recorders) + 1
        /\ Cardinality(Recorders') \in Nat
    BY <1>3, <1>6, <2>1, RecordersChange
  <2>3. Made' <= MaxStarts
    BY <1>1, <1>2, <1>3, <2>1, <2>2 DEF demoVars
  <2>4. QED
    BY <1>4, <2>1, <2>2, <2>3 DEF HandlersInv, demoVars, sessionVars
<1>8. ASSUME NEW q \in Requests, StartRecord(q) PROVE HandlersInv'
  <2>1. awaits' = [awaits EXCEPT ![q] = Nothing] /\ awaits[q].what = "record"
        /\ active' = TRUE /\ logger' = NewLogger(logger.made + 1) /\ datasets' = datasets
    BY <1>8 DEF StartRecord, Resumes, StartedLogger
  <2>2. awaits' \in [Requests -> AwaitRecord]
        /\ Cardinality(Recorders') = Cardinality(Recorders) - 1
        /\ Cardinality(Recorders') \in Nat
    BY <1>3, <1>5, <2>1, RecordersChange
  <2>3. logger'.made = logger.made + 1
    BY <2>1 DEF NewLogger
  <2>4. Made' <= MaxStarts /\ logger.made + 1 \in 0 .. MaxStarts
    BY <1>1, <1>2, <1>3, <2>2, <2>3, SMTT(30)
  <2>5. logger' \in Logger
    <3>1. <<>> \in Seq(Step)
      OBVIOUS
    <3>2. QED
      BY <2>1, <2>4, <3>1 DEF NewLogger, Logger
  <2>6. QED
    BY <1>4, <2>1, <2>2, <2>4, <2>5 DEF HandlersInv, sessionVars
<1>9. ASSUME NEW q \in Requests, AskStep(q) PROVE HandlersInv'
  <2>1. awaits' = [awaits EXCEPT ![q] = [what |-> "step", sid |-> logger.made]]
        /\ UNCHANGED demoVars
    BY <1>9 DEF AskStep, Awaits
  <2>2. awaits' \in [Requests -> AwaitRecord]
        /\ Cardinality(Recorders') <= Cardinality(Recorders)
        /\ Cardinality(Recorders') \in Nat
    BY <1>2, <1>3, <1>6, <2>1, RecordersChange
  <2>3. Made' <= MaxStarts
    BY <1>1, <1>2, <1>3, <2>1, <2>2 DEF demoVars
  <2>4. QED
    BY <1>4, <2>1, <2>2, <2>3 DEF HandlersInv, demoVars, sessionVars
<1>10. ASSUME NEW q \in Requests, LogStep(q) PROVE HandlersInv'
  <2>. DEFINE step == [frame |-> Len(logger.steps), prompt |-> logger.prompt,
                       checked |-> awaits[q].sid, by |-> q]
  <2>1. awaits' = [awaits EXCEPT ![q] = Nothing] /\ UNCHANGED <<active, datasets>>
        /\ logger' = [logger EXCEPT !.steps = Append(@, step)]
    BY <1>10 DEF LogStep, Resumes
  <2>2. awaits' \in [Requests -> AwaitRecord]
        /\ Cardinality(Recorders') <= Cardinality(Recorders)
        /\ Cardinality(Recorders') \in Nat
    BY <1>3, <1>5, <2>1, RecordersChange
  <2>3. step \in Step
    <3>1. awaits[q].sid \in 0 .. MaxStarts
      BY <1>3 DEF AwaitRecord
    <3>2. QED
      BY <1>2, <3>1 DEF Step
  <2>. HIDE DEF step
  <2>4. Append(logger.steps, step) \in Seq(Step)
    BY <1>2, <2>3
  <2>5. logger' \in Logger /\ logger'.made = logger.made
    BY <1>2, <2>1, <2>4 DEF Logger
  <2>6. Made' <= MaxStarts
    BY <1>1, <1>2, <1>3, <2>2, <2>5
  <2>7. QED
    BY <1>4, <2>1, <2>2, <2>5, <2>6 DEF HandlersInv, sessionVars
<1>11. ASSUME NEW q \in Requests, RefuseStep(q) PROVE HandlersInv'
  <2>1. awaits' = [awaits EXCEPT ![q] = Nothing] /\ UNCHANGED demoVars
    BY <1>11 DEF RefuseStep, Resumes
  <2>2. awaits' \in [Requests -> AwaitRecord]
        /\ Cardinality(Recorders') <= Cardinality(Recorders)
        /\ Cardinality(Recorders') \in Nat
    BY <1>3, <1>5, <2>1, RecordersChange
  <2>3. Made' <= MaxStarts
    BY <1>1, <1>2, <1>3, <2>1, <2>2 DEF demoVars
  <2>4. QED
    BY <1>4, <2>1, <2>2, <2>3 DEF HandlersInv, demoVars, sessionVars
<1>12. CASE FinishRecord
  <2>1. active' = FALSE /\ logger' = [logger EXCEPT !.prompt = 0] /\ UNCHANGED awaits
        /\ datasets' \in {datasets, datasets \cup {logger}}
    BY <1>12 DEF FinishRecord
  <2>2. logger' \in Logger /\ logger'.made = logger.made
    BY <1>2, <1>3, <2>1 DEF Logger
  <2>3. datasets' \subseteq Logger
    BY <1>2, <2>1 DEF HandlersInv
  <2>4. Recorders' = Recorders
    BY <2>1 DEF Recorders
  <2>5. Made' = Made
    BY <1>1, <2>2, <2>4
  <2>6. QED
    BY <1>3, <1>4, <2>1, <2>2, <2>3, <2>5 DEF HandlersInv, sessionVars
<1>13. QED
  BY <1>7, <1>8, <1>9, <1>10, <1>11, <1>12 DEF DemoNext

\* A step of the sessions keeps the handlers' invariant.
LEMMA SessionTyped ==
  ASSUME HandlersInv, SessionNext
  PROVE  HandlersInv'
<1>1. /\ sessions \in Seq(SessionRecord) /\ current \in 0 .. Len(sessions)
      /\ Len(sessions) \in Nat /\ awaits \in [Requests -> AwaitRecord]
      /\ MaxStarts \in Nat
  BY RecordingAssumption DEF HandlersInv
<1>2. UNCHANGED demoVars
  BY OthersKeepDemos
<1>3. ASSUME awaits' = awaits PROVE Made' = Made
  BY <1>2, <1>3 DEF Made, demoVars
<1>4. CASE StartSession
  <2>. DEFINE new == [ended |-> FALSE, events |-> {}]
  <2>1. sessions' = Append(Ended(sessions, current), new)
        /\ current' = Len(sessions) + 1 /\ Len(sessions) < MaxStarts /\ awaits' = awaits
    BY <1>4 DEF StartSession
  <2>2. new \in SessionRecord
    BY DEF SessionRecord
  <2>3. Ended(sessions, current) \in Seq(SessionRecord)
        /\ Len(Ended(sessions, current)) = Len(sessions)
    BY <1>1, EndedType
  <2>. HIDE DEF new
  <2>4. sessions' \in Seq(SessionRecord) /\ Len(sessions') = Len(sessions) + 1
    BY <2>1, <2>2, <2>3
  <2>5. QED
    BY <1>1, <1>2, <1>3, <2>1, <2>4 DEF HandlersInv, demoVars
<1>5. CASE StopSession
  <2>1. sessions' = Ended(sessions, current) /\ current' = 0 /\ awaits' = awaits
    BY <1>5 DEF StopSession
  <2>2. sessions' \in Seq(SessionRecord) /\ Len(sessions') = Len(sessions)
    BY <1>1, <2>1, EndedType
  <2>3. QED
    BY <1>1, <1>2, <1>3, <2>1, <2>2 DEF HandlersInv, demoVars
<1>6. ASSUME NEW q \in Requests, NEW new \in AwaitRecord, new.what # "record",
             awaits' = [awaits EXCEPT ![q] = new]
      PROVE  awaits' \in [Requests -> AwaitRecord] /\ Made' <= MaxStarts
  <2>1. awaits' \in [Requests -> AwaitRecord]
        /\ Cardinality(Recorders') <= Cardinality(Recorders)
        /\ Cardinality(Recorders') \in Nat
    BY <1>1, <1>6, RecordersChange
  <2>2. Made' = logger.made + Cardinality(Recorders')
    BY <1>2 DEF Made, Recorders, demoVars
  <2>3. Made = logger.made + Cardinality(Recorders) /\ Cardinality(Recorders) \in Nat
    BY RecordersFinite
  <2>4. logger.made \in Nat /\ Made <= MaxStarts
    BY DEF HandlersInv, Logger
  <2>5. QED
    BY <1>1, <2>1, <2>2, <2>3, <2>4, SMTT(30)
<1>7. ASSUME NEW q \in Requests, AskEvent(q) PROVE HandlersInv'
  <2>. DEFINE new == [what |-> "event", sid |-> current]
  <2>1. awaits' = [awaits EXCEPT ![q] = new] /\ UNCHANGED sessionVars
    BY <1>7 DEF AskEvent, Awaits
  <2>2. new \in AwaitRecord /\ new.what # "record"
    BY RecordingAssumption DEF HandlersInv, AwaitRecord
  <2>. HIDE DEF new
  <2>3. QED
    BY <1>2, <1>6, <2>1, <2>2 DEF HandlersInv, demoVars, sessionVars
<1>8. ASSUME NEW q \in Requests, AddEvent(q) PROVE HandlersInv'
  <2>. DEFINE word == IF sessions[current].ended THEN "after" ELSE "inside"
              new == [sessions[current] EXCEPT !.events = @ \cup {word}]
  <2>1. awaits' = [awaits EXCEPT ![q] = Nothing] /\ current' = current
        /\ sessions' = IF current = 0 THEN sessions
                       ELSE [sessions EXCEPT ![current] = new]
    BY <1>8 DEF AddEvent, EventSession, Resumes
  <2>2. Nothing \in AwaitRecord /\ Nothing.what # "record"
    BY <1>1 DEF Nothing, AwaitRecord
  <2>3. ASSUME current # 0 PROVE current \in 1 .. Len(sessions) /\ new \in SessionRecord
    <3>1. current \in 1 .. Len(sessions)
      BY <1>1, <2>3
    <3>2. sessions[current] \in SessionRecord
      BY <1>1, <3>1
    <3>3. QED
      BY <3>1, <3>2 DEF SessionRecord
  <2>. HIDE DEF new
  <2>4. sessions' \in Seq(SessionRecord) /\ Len(sessions') = Len(sessions)
    BY <1>1, <2>1, <2>3
  <2>5. awaits' \in [Requests -> AwaitRecord] /\ Made' <= MaxStarts
    BY <1>6, <2>1, <2>2
  <2>6. QED
    BY <1>1, <1>2, <2>1, <2>4, <2>5 DEF HandlersInv, demoVars
<1>9. QED
  BY <1>4, <1>5, <1>7, <1>8 DEF SessionNext

\* Every variable of the recording services keeps its type.
LEMMA RecordingTyped == RecordingSpec => []RecordingTypeOK
<1>1. RecordingInit => HandlersInv
  <2>1. SUFFICES ASSUME RecordingInit PROVE HandlersInv
    OBVIOUS
  <2>2. <<>> \in Seq(Step) /\ <<>> \in Seq(SessionRecord) /\ Len(<<>>) = 0 /\ MaxStarts \in Nat
    BY RecordingAssumption
  <2>3. NewLogger(0) \in Logger /\ NewLogger(0).made = 0
    BY <2>2 DEF NewLogger, Logger
  <2>4. Nothing \in AwaitRecord /\ Nothing.what # "record"
    BY <2>2 DEF Nothing, AwaitRecord
  <2>5. awaits = [q \in Requests |-> Nothing] /\ logger = NewLogger(0) /\ datasets = {}
        /\ active = FALSE /\ sessions = <<>> /\ current = 0
    BY <2>1 DEF RecordingInit
  <2>6. awaits \in [Requests -> AwaitRecord] /\ Recorders = {}
    BY <2>4, <2>5 DEF Recorders
  <2>7. Cardinality(Recorders) = 0
    BY <2>6, FS_EmptySet
  <2>8. Made <= MaxStarts
    BY <2>2, <2>3, <2>5, <2>7, RecordersFinite
  <2>9. current \in 0 .. Len(sessions) /\ Len(sessions) <= MaxStarts
        /\ sessions \in Seq(SessionRecord)
    BY <2>2, <2>5
  <2>10. QED
    BY <2>3, <2>5, <2>6, <2>8, <2>9 DEF HandlersInv
<1>2. HandlersInv /\ [RecordingNext]_recordingVars => HandlersInv'
  <2>1. SUFFICES ASSUME HandlersInv, [RecordingNext]_recordingVars PROVE HandlersInv'
    OBVIOUS
  <2>2. ASSUME UNCHANGED <<demoVars, awaits, sessionVars>> PROVE HandlersInv'
    <3>1. Made' = Made
      BY <2>2 DEF Made, demoVars
    <3>2. QED
      BY <2>1, <2>2, <3>1 DEF HandlersInv, demoVars, sessionVars
  <2>3. MetricsNext => UNCHANGED <<demoVars, awaits, sessionVars>>
    BY DEF MetricsNext, Time, Write, Query, Prune
  <2>4. UNCHANGED recordingVars => UNCHANGED <<demoVars, awaits, sessionVars>>
    BY DEF recordingVars
  <2>5. QED
    BY <2>1, <2>2, <2>3, <2>4, DemoTyped, SessionTyped DEF RecordingNext
<1>3. MetricsInv /\ HandlersInv => RecordingTypeOK
  <2>1. SUFFICES ASSUME MetricsInv, HandlersInv PROVE RecordingTypeOK
    OBVIOUS
  <2>2. Len(fate) - Len(buf) <= Len(fate) /\ Len(fate) \in Nat /\ Len(fate) - Len(buf) \in Nat
    BY <2>1 DEF MetricsInv, Agree, Batch
  <2>3. Table(rows, Len(fate))
    BY <2>1, <2>2, Wider DEF MetricsInv, Agree
  <2>4. QED
    BY <2>1, <2>3 DEF MetricsInv, Agree, Batch, Table, HandlersInv, RecordingTypeOK, Fates
<1>4. QED
  BY <1>1, <1>2, <1>3, MetricsStart, MetricsStep, PTL DEF RecordingSpec, RecordingNext
=============================================================================
