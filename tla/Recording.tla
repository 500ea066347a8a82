----------------------------- MODULE Recording ------------------------------
(***************************************************************************)
(* What Mission Control keeps: the telemetry store (pibot/mc/metrics.py),  *)
(* demonstration recordings (routes_record.py over ml/episode_logger.py)   *)
(* and sessions (sessions.py, routes_sessions.py).  A handler is suspended *)
(* only while it awaits the body of its request, so what it checked before *)
(* may be stale after; every database call blocks the loop.                *)
(***************************************************************************)
EXTENDS Naturals, Sequences, SequencesExt, FiniteSets, FiniteSetsExt

CONSTANTS
  FlushSize,   \* flush_size
  MaxRows,     \* MAX_ROWS
  MaxAge,      \* MAX_AGE_DAYS
  Requests,    \* requests whose body may be awaited at once
  MaxClock,    \* bound: the clock, and the stamps of snapshots
  MaxWrites,   \* bound: snapshots
  MaxStarts,   \* bound: recordings, and sessions
  MaxSteps,    \* bound: steps of a recording
  MaxFailures  \* bound: flushes that raise

ASSUME RecordingAssumption ==
  /\ {MaxRows, MaxAge, MaxClock, MaxWrites, MaxStarts, MaxSteps, MaxFailures} \subseteq Nat
  /\ FlushSize \in Nat \ {0}
  /\ IsFiniteSet(Requests)

VARIABLES
  now,      \* the clock of retention
  buf,      \* _buf
  rows,     \* the table telemetry: the row of each rowid
  fate,     \* history: what became of each snapshot, in order of writing
  failures, \* history: flushes that raised
  active,   \* DemoRecorderState.active
  logger,   \* its EpisodeLogger: the recording's number, its prompt, its steps
  datasets, \* what write_fn has been given
  awaits,   \* the handlers that await a body, see AwaitRecord
  sessions, \* the table sessions, with the fate of each one's events
  current   \* _active_id, 0 for None

metricVars == <<now, buf, rows, fate, failures>>
demoVars == <<active, logger, datasets>>
sessionVars == <<sessions, current>>
recordingVars == <<metricVars, demoVars, awaits, sessionVars>>

Row == [id: 1 .. MaxWrites, ts: 0 .. MaxClock]

\* A step is stamped with its episode, its frame and the logger's prompt, ""
\* being 0; prompts are the numbers of the recordings.  History: the recording
\* that was active when its request was checked, and the request.
Step == [frame: Nat, prompt: 0 .. MaxStarts, checked: 0 .. MaxStarts, by: Requests]
Logger == [made: 0 .. MaxStarts, prompt: 0 .. MaxStarts, steps: Seq(Step)]

\* sid is the recording or session that was active when the handler checked.
AwaitRecord == [what: {"nothing", "record", "step", "event"}, sid: 0 .. MaxStarts]

SessionRecord == [ended: BOOLEAN, events: SUBSET {"inside", "after"}]

RecordingTypeOK ==
  /\ now \in 0 .. MaxClock
  /\ buf \in Seq(Row) /\ fate \in Seq({"kept", "lost", "pruned"})
  /\ DOMAIN rows \subseteq 1 .. Len(fate) /\ rows \in [DOMAIN rows -> Row]
  /\ failures \in Nat
  /\ active \in BOOLEAN /\ logger \in Logger /\ datasets \subseteq Logger
  /\ awaits \in [Requests -> AwaitRecord]
  /\ sessions \in Seq(SessionRecord) /\ current \in 0 .. Len(sessions)

NewLogger(n) == [made |-> n, prompt |-> n, steps |-> <<>>]
Nothing == [what |-> "nothing", sid |-> 0]

RecordingInit ==
  /\ now = 0 /\ buf = <<>> /\ rows = <<>> /\ fate = <<>> /\ failures = 0
  /\ active = FALSE /\ logger = NewLogger(0) /\ datasets = {}
  /\ awaits = [q \in Requests |-> Nothing]
  /\ sessions = <<>> /\ current = 0

-----------------------------------------------------------------------------
(* The telemetry store. *)

Time ==
  /\ now < MaxClock
  /\ now' = now + 1
  /\ UNCHANGED <<buf, rows, fate, failures, demoVars, awaits, sessionVars>>

Fate(gone, what) ==
  [i \in DOMAIN fate |-> IF i \in gone THEN what ELSE fate[i]]

Ids(s) == {s[i].id : i \in DOMAIN s}

\* A rowid is one above the highest in the table.
LastRowid == Max({0} \cup DOMAIN rows)

Inserted(b) ==
  [k \in DOMAIN rows \cup (LastRowid + 1 .. LastRowid + Len(b)) |->
     IF k \in DOMAIN rows THEN rows[k] ELSE b[k - LastRowid]]

FlushKeepsBuffer(b) == buf' = b /\ rows' = Inserted(b) /\ UNCHANGED failures

\* _flush: the buffer is emptied before the insert.
Flush(b) == buf' = <<>> /\ rows' = Inserted(b) /\ UNCHANGED failures

\* The insert raises on some row: those before it stay in the transaction,
\* which the next commit ends, and the batch is no longer in the buffer.
FlushRaises(b, written) ==
  /\ b # <<>>
  /\ \E n \in 0 .. Len(b) - 1 :
        /\ buf' = <<>>
        /\ rows' = Inserted(SubSeq(b, 1, n))
        /\ fate' = [i \in DOMAIN written |->
             IF i \in Ids(SubSeq(b, n + 1, Len(b))) THEN "lost" ELSE written[i]]
  /\ failures' = failures + 1

\* A snapshot is stamped by the robot, whose clock is not ours.
Write(ts) ==
  LET b == Append(buf, [id |-> Len(fate) + 1, ts |-> ts])
      written == Append(fate, "kept")
  IN /\ Len(fate) < MaxWrites
     /\ IF Len(b) < FlushSize
        THEN buf' = b /\ fate' = written /\ UNCHANGED <<rows, failures>>
        ELSE \/ Flush(b) /\ fate' = written
             \/ failures < MaxFailures /\ FlushRaises(b, written)
     /\ UNCHANGED <<now, demoVars, awaits, sessionVars>>

\* flush, query, export, count and close begin with _flush and only read then.
Query ==
  /\ buf # <<>>
  /\ \/ Flush(buf) /\ UNCHANGED fate
     \/ failures < MaxFailures /\ FlushRaises(buf, fate)
  /\ UNCHANGED <<now, demoVars, awaits, sessionVars>>

\* The rowids of `table` among `keys` that ORDER BY ts ASC lists before k.
Before(table, keys, k) ==
  {o \in keys : table[o].ts < table[k].ts \/ (table[o].ts = table[k].ts /\ o < k)}

DropNewest(table, keys) == {k \in keys : Cardinality(Before(table, keys, k)) < MaxRows}

\* DELETE the excess.
DropOldest(table, keys) ==
  {k \in keys : Cardinality(Before(table, keys, k)) + MaxRows >= Cardinality(keys)}

Prune ==
  LET all == Inserted(buf)
      young == {k \in DOMAIN all : all[k].ts + MaxAge >= now}
      left == DropOldest(all, young)
  IN /\ buf # <<>> \/ left # DOMAIN all
     /\ buf' = <<>>
     /\ rows' = Restrict(all, left)
     /\ fate' = Fate({all[k].id : k \in DOMAIN all \ left}, "pruned")
     /\ UNCHANGED <<now, failures, demoVars, awaits, sessionVars>>

-----------------------------------------------------------------------------
(* Demonstrations. *)

Awaits(q, what, sid) ==
  /\ awaits[q] = Nothing
  /\ awaits' = [awaits EXCEPT ![q] = [what |-> what, sid |-> sid]]
  /\ UNCHANGED <<metricVars, demoVars, sessionVars>>

Resumes(q, what) ==
  /\ awaits[q].what = what
  /\ awaits' = [awaits EXCEPT ![q] = Nothing]

Made == logger.made + Cardinality({q \in Requests : awaits[q].what = "record"})

AskRecord(q) == ~active /\ Made < MaxStarts /\ Awaits(q, "record", 0)

SameLogger == [logger EXCEPT !.made = @ + 1, !.prompt = logger.made + 1]

\* A new EpisodeLogger, its episode 0 started under the prompt.
StartedLogger == NewLogger(logger.made + 1)

\* Two starts may both have found the recorder free.
StartRecord(q) ==
  /\ Resumes(q, "record")
  /\ active' = TRUE
  /\ logger' = StartedLogger
  /\ UNCHANGED <<datasets, metricVars, sessionVars>>

AskStep(q) == active /\ Awaits(q, "step", logger.made)

\* EpisodeLogger.on_step, on whichever logger is there now.
LogStep(q) ==
  /\ Resumes(q, "step") /\ Len(logger.steps) < MaxSteps
  /\ logger' = [logger EXCEPT !.steps = Append(@,
                  [frame |-> Len(@), prompt |-> logger.prompt,
                   checked |-> awaits[q].sid, by |-> q])]
  /\ UNCHANGED <<active, datasets, metricVars, sessionVars>>

\* The body is refused (no action).
RefuseStep(q) ==
  /\ Resumes(q, "step") \/ Resumes(q, "record")
  /\ UNCHANGED <<metricVars, demoVars, sessionVars>>

\* write_fn has the episodes as they are now, or raises and they are lost.
FinishRecord ==
  /\ active
  /\ active' = FALSE
  /\ logger' = [logger EXCEPT !.prompt = 0]
  /\ datasets' \in {datasets, datasets \cup {logger}}
  /\ UNCHANGED <<metricVars, awaits, sessionVars>>

-----------------------------------------------------------------------------
(* Sessions. *)

Ended(ss, n) == IF n = 0 THEN ss ELSE [ss EXCEPT ![n].ended = TRUE]

\* start(): an active session is stopped first.
StartSession ==
  /\ Len(sessions) < MaxStarts
  /\ sessions' = Append(Ended(sessions, current), [ended |-> FALSE, events |-> {}])
  /\ current' = Len(sessions) + 1
  /\ UNCHANGED <<metricVars, demoVars, awaits>>

StopSession ==
  /\ current # 0
  /\ sessions' = Ended(sessions, current)
  /\ current' = 0
  /\ UNCHANGED <<metricVars, demoVars, awaits>>

AskEvent(q) == current # 0 /\ Awaits(q, "event", current)

CheckedSession(q) == awaits[q].sid

\* add_event() is given no id: the session that is active now, if any.
EventSession(q) == current

AddEvent(q) ==
  LET n == EventSession(q) IN
  /\ Resumes(q, "event")
  /\ sessions' = IF n = 0 THEN sessions
                 ELSE [sessions EXCEPT ![n].events = @ \cup
                         {IF sessions[n].ended THEN "after" ELSE "inside"}]
  /\ UNCHANGED <<current, metricVars, demoVars>>

-----------------------------------------------------------------------------
MetricsNext == Time \/ (\E ts \in 0 .. MaxClock : Write(ts)) \/ Query \/ Prune

DemoNext ==
  \/ \E q \in Requests :
        AskRecord(q) \/ StartRecord(q) \/ AskStep(q) \/ LogStep(q) \/ RefuseStep(q)
  \/ FinishRecord

SessionNext ==
  StartSession \/ StopSession \/ \E q \in Requests : AskEvent(q) \/ AddEvent(q)

RecordingSpec ==
  RecordingInit /\ [][MetricsNext \/ DemoNext \/ SessionNext]_recordingVars

-----------------------------------------------------------------------------
(***************************************************************************)
(* Every snapshot written is, exactly once and in order of arrival, in the *)
(* table or in the buffer, unless retention deleted it or the flush that   *)
(* had taken it raised; each failure costs at most one buffer (metrics.py  *)
(* write, _flush and everything that flushes first).                       *)
(***************************************************************************)
SnapshotsKept ==
  LET handed == Len(fate) - Len(buf) IN  \* those the table was given
  /\ {i \in DOMAIN fate : fate[i] = "kept"} = Ids(rows) \cup Ids(buf)
  /\ \A j, k \in DOMAIN rows : j < k => rows[j].id < rows[k].id
  /\ \A k \in DOMAIN rows : rows[k].id <= handed
  /\ \A i \in DOMAIN buf : buf[i].id = handed + i
  /\ Len(buf) < FlushSize
  /\ Cardinality({i \in DOMAIN fate : fate[i] = "lost"}) <= FlushSize * failures

(***************************************************************************)
(* Retention deletes the oldest first, by the robot's stamps: whatever the *)
(* order snapshots came in, no row that stays is older than one deleted,   *)
(* what stays is within both caps, and nothing else deletes (prune).       *)
(***************************************************************************)
RetentionKeepsNewest ==
  [][LET gone == {k \in DOMAIN rows : rows[k].id \notin Ids(rows')} IN
     gone # {} =>
       /\ Cardinality(DOMAIN rows') <= MaxRows /\ buf' = <<>>
       /\ \A k \in DOMAIN rows' :
             /\ rows'[k].ts + MaxAge >= now
             /\ \A d \in gone : rows[d].ts <= rows'[k].ts
    ]_recordingVars

(***************************************************************************)
(* A dataset is one demonstration: every step in it was sent to its        *)
(* recording.  episode_logger.py:4 says so ("one episode per recorded run, *)
(* tagged with the task prompt"); the code keeps it for one request at a   *)
(* time only, since handle_post_step does not look again after its body.   *)
(***************************************************************************)
DatasetsWhole ==
  \A d \in datasets : \A i \in DOMAIN d.steps : d.steps[i].checked = d.made

(***************************************************************************)
(* What a dataset may hold of other demonstrations: its steps carry its    *)
(* own prompt and are numbered from 0, none is of a later recording, and a *)
(* step of an earlier one was in flight when this one began, so that its   *)
(* request strays once and what it sends after is of this recording        *)
(* (routes_record.py).                                                     *)
(***************************************************************************)
OnlyLateStepsStray ==
  \A d \in datasets :
    /\ \A i \in DOMAIN d.steps :
          /\ d.steps[i].frame = i - 1 /\ d.steps[i].prompt = d.made
          /\ d.steps[i].checked <= d.made
    /\ \A i, j \in DOMAIN d.steps :
          i < j /\ d.steps[i].by = d.steps[j].by => d.steps[j].checked = d.made

(***************************************************************************)
(* A replay bundle is sound: the only session without an end is the active *)
(* one, and every event of a session happened before its end, also when    *)
(* the session ended while the event's body was awaited.                   *)
(***************************************************************************)
SessionsBounded ==
  \A n \in DOMAIN sessions :
     sessions[n].ended = (n # current) /\ "after" \notin sessions[n].events
=============================================================================
