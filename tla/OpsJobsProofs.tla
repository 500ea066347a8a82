---------------------------- MODULE OpsJobsProofs ---------------------------
(***************************************************************************)
(* OpsJobs implements OpsJobSpec, for any jobs, requests and log sockets   *)
(* and without a bound on lines or confirmations.                          *)
(***************************************************************************)
EXTENDS OpsJobs, TLAPS

USE OpsAssumption

\* Adding a line to a log, or a confirmation to the history, keeps them lists.
LEMMA AppendType ==
  ASSUME NEW S, NEW s \in Seq(S), NEW x \in S
  PROVE  Append(s, x) \in Seq(S)
  OBVIOUS

\* An element of a list, at a place it has.
LEMMA ElementType ==
  ASSUME NEW S, NEW s \in Seq(S), NEW n \in Nat, n < Len(s)
  PROVE  s[n + 1] \in S
  OBVIOUS

-----------------------------------------------------------------------------
(* Type correctness *)

\* The record of a job with one of its fields changed.
LEMMA RecordType ==
  ASSUME NEW rec \in JobRecord
  PROVE  /\ \A st \in Statuses : [rec EXCEPT !.status = st] \in JobRecord
         /\ \A st \in Statuses, b \in BOOLEAN :
               [rec EXCEPT !.cancel = b, !.status = st] \in JobRecord
         /\ \A b \in BOOLEAN : [rec EXCEPT !.confirmed = TRUE, !.guard = b] \in JobRecord
         /\ \A st \in Statuses, lines \in Seq(Handlers) :
               [rec EXCEPT !.status = st, !.log = lines] \in JobRecord
  BY DEF JobRecord

\* A line logged, or a status set, leaves the jobs in their type.
LEMMA LogType ==
  ASSUME OpsTypeOK, NEW h \in Handlers
  PROVE  /\ task[h].job \in Jobs
         /\ Log(h) \in [Jobs -> JobRecord]
         /\ \A st \in Statuses :
               /\ Set(task[h].job, st) \in [Jobs -> JobRecord]
               /\ [Log(h) EXCEPT ![task[h].job].status = st] \in [Jobs -> JobRecord]
<1>. DEFINE j == task[h].job
<1>1. j \in Jobs /\ job[j] \in JobRecord
  BY DEF OpsTypeOK, TaskRecord
<1>2. Append(job[j].log, h) \in Seq(Handlers)
  BY <1>1, AppendType DEF JobRecord
<1>3. [job[j] EXCEPT !.log = Append(@, h)] \in JobRecord
  BY <1>1, <1>2 DEF JobRecord
<1>4. Log(h) \in [Jobs -> JobRecord]
  BY <1>1, <1>3 DEF Log, OpsTypeOK
<1>5. ASSUME NEW st \in Statuses
      PROVE  /\ [job[j] EXCEPT !.status = st] \in JobRecord
             /\ [Log(h)[j] EXCEPT !.status = st] \in JobRecord
  BY <1>1, <1>4, RecordType
<1>6. ASSUME NEW st \in Statuses
      PROVE  /\ Set(j, st) \in [Jobs -> JobRecord]
             /\ [Log(h) EXCEPT ![j].status = st] \in [Jobs -> JobRecord]
  BY <1>1, <1>4, <1>5 DEF Set, OpsTypeOK
<1>7. QED
  BY <1>1, <1>4, <1>6

\* A handler goes on with a job, or returns.
LEMMA TaskType ==
  ASSUME OpsTypeOK, NEW h \in Handlers, NEW j \in Jobs,
         NEW at \in {"idle", "preview", "run", "left"}, Does(h, at, j)
  PROVE  task' \in [Handlers -> TaskRecord]
  BY DEF OpsTypeOK, Does, TaskRecord

\* A step of a command's output leaves every variable in its type.
LEMMA CommandStepType ==
  ASSUME OpsTypeOK, NEW h \in Handlers, CommandStep(h)
  PROVE  OpsTypeOK'
<1>1. job' \in [Jobs -> JobRecord]
  <2>1. {"awaiting-confirm", "cancelled", "done", "error"} \subseteq Statuses
    BY DEF Statuses
  <2>2. /\ job \in [Jobs -> JobRecord]
        /\ Log(h) \in [Jobs -> JobRecord]
        /\ Set(task[h].job, "awaiting-confirm") \in [Jobs -> JobRecord]
        /\ Set(task[h].job, "cancelled") \in [Jobs -> JobRecord]
        /\ Set(task[h].job, "done") \in [Jobs -> JobRecord]
        /\ [Log(h) EXCEPT ![task[h].job].status = "error"] \in [Jobs -> JobRecord]
    BY <2>1, LogType DEF OpsTypeOK
  <2>3. QED
    BY <2>2 DEF CommandStep, PreviewLine, PreviewEnds, PreviewFails, RunLine,
                RunSeesCancel, RunEnds, RunFails, LeftCommandEnds
<1>2. task' \in [Handlers -> TaskRecord]
  <2>1. \/ UNCHANGED task
        \/ Does(h, "left", task[h].job)
        \/ Does(h, "idle", task[h].job)
    BY DEF CommandStep, PreviewLine, PreviewEnds, PreviewFails, RunLine,
           RunSeesCancel, RunEnds, RunFails, LeftCommandEnds, Returns
  <2>2. task[h].job \in Jobs
    BY LogType
  <2>3. QED
    BY <2>1, <2>2, TaskType DEF OpsTypeOK
<1>3. UNCHANGED <<reader, runs>>
  BY DEF CommandStep, PreviewLine, PreviewEnds, PreviewFails, RunLine,
         RunSeesCancel, RunEnds, RunFails, LeftCommandEnds
<1>4. QED
  BY <1>1, <1>2, <1>3 DEF OpsTypeOK

\* So does a confirmation.
LEMMA ConfirmType ==
  ASSUME OpsTypeOK, NEW h \in Handlers, NEW j \in Jobs, NEW g \in BOOLEAN,
         ConfirmAndRun(h, j, g)
  PROVE  OpsTypeOK'
<1>. DEFINE guard == job[j].guard \/ g
            confirmed == [job[j] EXCEPT !.confirmed = TRUE, !.guard = guard]
            started == [confirmed EXCEPT !.status = "running", !.log = <<>>]
<1>1. confirmed \in JobRecord
  <2>1. job[j] \in JobRecord /\ guard \in BOOLEAN
    BY DEF OpsTypeOK, JobRecord
  <2>2. QED
    BY <2>1, RecordType
<1>2. started \in JobRecord
  <2>1. "running" \in Statuses /\ <<>> \in Seq(Handlers)
    BY DEF Statuses
  <2>2. QED
    BY <1>1, <2>1, RecordType
<1>3. job' = [job EXCEPT ![j] = confirmed] \/ job' = [job EXCEPT ![j] = started]
  BY DEF ConfirmAndRun
<1>4. job' \in [Jobs -> JobRecord]
  BY <1>1, <1>2, <1>3 DEF OpsTypeOK
<1>5. runs' \in Seq(Handlers)
  BY AppendType DEF ConfirmAndRun, OpsTypeOK
<1>6. task' \in [Handlers -> TaskRecord]
  <2>1. UNCHANGED task \/ Does(h, "run", j)
    BY DEF ConfirmAndRun
  <2>2. QED
    BY <2>1, TaskType DEF OpsTypeOK
<1>7. reader' \in [Readers -> ReaderRecord]
  <2>1. \A r \in Readers : [reader[r] EXCEPT !.fresh = FALSE] \in ReaderRecord
    BY DEF OpsTypeOK, ReaderRecord
  <2>2. UNCHANGED reader \/ Unseats(j)
    BY DEF ConfirmAndRun
  <2>3. QED
    BY <2>1, <2>2 DEF OpsTypeOK, Unseats
<1>8. QED
  BY <1>4, <1>5, <1>6, <1>7 DEF OpsTypeOK

\* So does a step of a log socket.
LEMMA ReaderType ==
  ASSUME OpsTypeOK, NEW r \in Readers, ReaderStep(r) \/ \E j \in Jobs : OpenLog(r, j)
  PROVE  OpsTypeOK' /\ UNCHANGED <<job, task, runs>>
<1>1. reader[r] \in ReaderRecord /\ \A n \in Readers : reader[n] \in ReaderRecord
  BY DEF OpsTypeOK
<1>2. PICK new \in ReaderRecord : reader' = [reader EXCEPT ![r] = new]
  <2>1. CASE ReadLine(r)
    <3>1. job[reader[r].job].log \in Seq(Handlers) /\ reader[r].cursor \in Nat
          /\ reader[r].got \in Seq(Handlers)
      BY <1>1 DEF ReaderRecord, OpsTypeOK, JobRecord
    <3>. DEFINE line == job[reader[r].job].log[reader[r].cursor + 1]
    <3>2. PICK got \in Seq(Handlers) : got = Append(reader[r].got, line)
      BY <2>1, <3>1, ElementType, AppendType DEF ReadLine, Unread, Reader
    <3>3. [reader[r] EXCEPT !.cursor = reader[r].cursor + 1, !.got = got] \in ReaderRecord
      <4>1. reader[r].cursor + 1 \in Nat
        BY <3>1
      <4>2. QED
        BY <1>1, <4>1 DEF ReaderRecord
    <3>4. reader' = [reader EXCEPT ![r] =
                       [reader[r] EXCEPT !.cursor = reader[r].cursor + 1, !.got = got]]
      BY <2>1, <3>2 DEF ReadLine, Reader, OpsTypeOK, ReaderRecord
    <3>5. QED
      BY <3>3, <3>4
  <2>2. CASE SeesEnd(r)
    <3>1. [reader[r] EXCEPT !.at = "drain"] \in ReaderRecord
      BY <1>1 DEF ReaderRecord
    <3>2. QED
      BY <2>2, <3>1 DEF SeesEnd
  <2>3. CASE CloseLog(r)
    <3>1. [reader[r] EXCEPT !.at = "ended"] \in ReaderRecord
      BY <1>1 DEF ReaderRecord
    <3>2. QED
      BY <2>3, <3>1 DEF CloseLog
  <2>4. ASSUME NEW j \in Jobs, OpenLog(r, j)
        PROVE  \E new \in ReaderRecord : reader' = [reader EXCEPT ![r] = new]
    <3>1. [reader[r] EXCEPT !.at = "stream", !.job = j] \in ReaderRecord
      BY <1>1 DEF ReaderRecord
    <3>2. reader' = [reader EXCEPT ![r] = [reader[r] EXCEPT !.at = "stream", !.job = j]]
      BY <2>4 DEF OpenLog, OpsTypeOK, ReaderRecord
    <3>3. QED
      BY <3>1, <3>2
  <2>5. QED
    BY <2>1, <2>2, <2>3, <2>4 DEF ReaderStep
<1>3. UNCHANGED <<job, task, runs>>
  BY DEF ReaderStep, ReadLine, SeesEnd, CloseLog, OpenLog
<1>4. QED
  BY <1>2, <1>3 DEF OpsTypeOK

\* The other requests of clients.
LEMMA RequestType ==
  ASSUME OpsTypeOK, NEW j \in Jobs,
         Cancel(j) \/ \E h \in Handlers : CreateAndPreview(h, j)
  PROVE  OpsTypeOK'
<1>1. CASE Cancel(j)
  <2>1. PICK st \in Statuses :
          job' = [job EXCEPT ![j] = [job[j] EXCEPT !.cancel = TRUE, !.status = st]]
    BY <1>1 DEF Cancel, OpsTypeOK, JobRecord, Statuses
  <2>2. [job[j] EXCEPT !.cancel = TRUE, !.status = st] \in JobRecord
    BY RecordType DEF OpsTypeOK
  <2>3. UNCHANGED <<task, reader, runs>>
    BY <1>1 DEF Cancel
  <2>4. job' \in [Jobs -> JobRecord]
    BY <2>1, <2>2 DEF OpsTypeOK
  <2>5. QED
    BY <2>3, <2>4 DEF OpsTypeOK
<1>2. ASSUME NEW h \in Handlers, CreateAndPreview(h, j)
      PROVE  OpsTypeOK'
  <2>1. [job[j] EXCEPT !.status = "preview"] \in JobRecord
    BY RecordType DEF OpsTypeOK, Statuses
  <2>2. job' \in [Jobs -> JobRecord]
    BY <1>2, <2>1 DEF CreateAndPreview, Set, OpsTypeOK
  <2>3. task' \in [Handlers -> TaskRecord]
    BY <1>2, TaskType DEF CreateAndPreview
  <2>4. QED
    BY <1>2, <2>2, <2>3 DEF CreateAndPreview, OpsTypeOK
<1>3. QED
  BY <1>1, <1>2

-----------------------------------------------------------------------------
(* What each step does to the status of the jobs and to the handlers       *)

\* Job `j` takes status `st`; consents and guards stay, and so do other jobs.
Becomes(j, st) ==
  \A k \in Jobs :
     /\ job'[k].confirmed = job[k].confirmed /\ job'[k].guard = job[k].guard
     /\ job'[k].status = IF k = j THEN st ELSE job[k].status

\* Handler `h` goes to `at` with job `j`.
Puts(h, at, j) ==
  \A k \in Handlers :
     /\ task'[k].at = IF k = h THEN at ELSE task[k].at
     /\ task'[k].job = IF k = h THEN j ELSE task[k].job

\* Setting a status, with or without a line logged, changes nothing else.
LEMMA SetEffect ==
  ASSUME OpsTypeOK, NEW h \in Handlers, NEW st \in Statuses
  PROVE  /\ job' = Log(h) => Becomes(task[h].job, job[task[h].job].status)
         /\ job' = Set(task[h].job, st) => Becomes(task[h].job, st)
         /\ job' = [Log(h) EXCEPT ![task[h].job].status = st] => Becomes(task[h].job, st)
         /\ job' = job => Becomes(task[h].job, job[task[h].job].status)
<1>1. /\ task[h].job \in Jobs
      /\ job \in [Jobs -> JobRecord] /\ \A k \in Jobs : job[k] \in JobRecord
  BY LogType DEF OpsTypeOK
<1>2. ASSUME job' = Log(h)
      PROVE  Becomes(task[h].job, job[task[h].job].status)
  BY <1>1, <1>2 DEF Log, Becomes, JobRecord
<1>3. ASSUME job' = Set(task[h].job, st)
      PROVE  Becomes(task[h].job, st)
  BY <1>1, <1>3 DEF Set, Becomes, JobRecord
<1>4. ASSUME job' = [Log(h) EXCEPT ![task[h].job].status = st]
      PROVE  Becomes(task[h].job, st)
  BY <1>1, <1>4 DEF Log, Becomes, JobRecord
<1>5. ASSUME job' = job
      PROVE  Becomes(task[h].job, job[task[h].job].status)
  BY <1>1, <1>5 DEF Becomes
<1>6. QED
  BY <1>2, <1>3, <1>4, <1>5

\* A handler that goes on leaves the others where they are.
LEMMA DoesEffect ==
  ASSUME OpsTypeOK, NEW h \in Handlers
  PROVE  /\ \A at, j : Does(h, at, j) => Puts(h, at, j)
         /\ Returns(h) => Puts(h, "idle", task[h].job)
         /\ task' = task => Puts(h, task[h].at, task[h].job)
<1>1. ASSUME NEW at, NEW j, Does(h, at, j)
      PROVE  Puts(h, at, j)
  BY <1>1 DEF Does, Puts, OpsTypeOK, TaskRecord
<1>2. ASSUME task' = task
      PROVE  Puts(h, task[h].at, task[h].job)
  BY <1>2 DEF Puts
<1>3. QED
  BY <1>1, <1>2 DEF Returns

\* A step of a command's output.
CommandEffect(h, j) ==
  \/ Puts(h, task[h].at, j) /\ Becomes(j, job[j].status)
  \/ task[h].at = "preview" /\ Puts(h, "idle", j) /\ Becomes(j, "awaiting-confirm")
  \/ task[h].at = "preview" /\ Puts(h, "idle", j) /\ Becomes(j, job[j].status)
  \/ task[h].at = "run" /\ Puts(h, "left", j) /\ Becomes(j, "cancelled")
  \/ task[h].at = "run" /\ Puts(h, "idle", j) /\ Becomes(j, "done")
  \/ task[h].at = "run" /\ Puts(h, "idle", j) /\ Becomes(j, "error")
  \/ task[h].at = "left" /\ Puts(h, "idle", j) /\ Becomes(j, job[j].status)

\* Each of its steps takes the handler and its job on together.
LEMMA CommandDoes ==
  ASSUME OpsTypeOK, NEW h \in Handlers, CommandStep(h)
  PROVE  CommandEffect(h, task[h].job)
<1>. DEFINE j == task[h].job
<1>1. {"awaiting-confirm", "cancelled", "done", "error"} \subseteq Statuses
  BY DEF Statuses
<1>2. /\ job' = Log(h) \/ job' = job => Becomes(j, job[j].status)
      /\ \A st \in {"awaiting-confirm", "cancelled", "done", "error"} :
           /\ job' = Set(j, st) => Becomes(j, st)
           /\ job' = [Log(h) EXCEPT ![j].status = st] => Becomes(j, st)
  BY <1>1, SetEffect
<1>3. /\ Does(h, "left", j) => Puts(h, "left", j)
      /\ Returns(h) => Puts(h, "idle", j)
      /\ task' = task => Puts(h, task[h].at, j)
  BY DoesEffect
<1>4. CASE PreviewLine(h) \/ RunLine(h)
  BY <1>2, <1>3, <1>4 DEF PreviewLine, RunLine, CommandEffect
<1>5. CASE PreviewEnds(h)
  BY <1>2, <1>3, <1>5 DEF PreviewEnds, CommandEffect
<1>6. CASE PreviewFails(h)
  BY <1>2, <1>3, <1>6 DEF PreviewFails, CommandEffect
<1>7. CASE RunSeesCancel(h)
  BY <1>2, <1>3, <1>7 DEF RunSeesCancel, CommandEffect
<1>8. CASE RunEnds(h)
  BY <1>2, <1>3, <1>8 DEF RunEnds, CommandEffect
<1>9. CASE RunFails(h)
  BY <1>2, <1>3, <1>9 DEF RunFails, CommandEffect
<1>10. CASE LeftCommandEnds(h)
  BY <1>2, <1>3, <1>10 DEF LeftCommandEnds, CommandEffect
<1>11. QED
  BY <1>4, <1>5, <1>6, <1>7, <1>8, <1>9, <1>10 DEF CommandStep

\* A cancel ends a job that runs and changes no other.
LEMMA CancelDoes ==
  ASSUME OpsTypeOK, NEW j \in Jobs, Cancel(j)
  PROVE  /\ Becomes(j, IF job[j].status = "running" THEN "cancelled" ELSE job[j].status)
         /\ task' = task
  BY DEF Cancel, OpsTypeOK, JobRecord, Becomes

\* A new job is previewed by a handler that was free.
LEMMA CreateDoes ==
  ASSUME OpsTypeOK, NEW j \in Jobs, NEW h \in Handlers, CreateAndPreview(h, j)
  PROVE  /\ job[j].status = "none" /\ task[h].at = "idle"
         /\ Becomes(j, "preview") /\ Puts(h, "preview", j)
<1>1. Puts(h, "preview", j)
  BY DoesEffect DEF CreateAndPreview
<1>2. QED
  BY <1>1 DEF CreateAndPreview, AtRest, Exists, Set, Becomes, OpsTypeOK, JobRecord

\* A confirmation is recorded; the command starts when the guard allows it.
Confirms(j, g) ==
  \A k \in Jobs :
     /\ job'[k].confirmed = IF k = j THEN TRUE ELSE job[k].confirmed
     /\ job'[k].guard = IF k = j THEN job[j].guard \/ g ELSE job[k].guard

\* The command starts exactly when the guard has passed.
LEMMA ConfirmDoes ==
  ASSUME OpsTypeOK, NEW j \in Jobs, NEW h \in Handlers, NEW g \in BOOLEAN,
         ConfirmAndRun(h, j, g)
  PROVE  /\ Confirms(j, g) /\ task[h].at = "idle"
         /\ \/ /\ ~MayRun(j, job[j].guard \/ g)
               /\ \A k \in Jobs : job'[k].status = job[k].status
               /\ task' = task
            \/ /\ MayRun(j, job[j].guard \/ g)
               /\ \A k \in Jobs : job'[k].status = IF k = j THEN "running" ELSE job[k].status
               /\ Puts(h, "run", j)
<1>. DEFINE guard == job[j].guard \/ g
<1>1. job \in [Jobs -> JobRecord] /\ \A k \in Jobs : job[k] \in JobRecord
  BY DEF OpsTypeOK
<1>2. task[h].at = "idle"
  BY DEF ConfirmAndRun, AtRest
<1>3. CASE job' = [job EXCEPT ![j] = [job[j] EXCEPT !.confirmed = TRUE, !.guard = guard]]
           /\ ~MayRun(j, guard) /\ task' = task
  BY <1>1, <1>2, <1>3 DEF JobRecord, Confirms
<1>4. CASE job' = [job EXCEPT ![j] = [[job[j] EXCEPT !.confirmed = TRUE, !.guard = guard]
                                       EXCEPT !.status = "running", !.log = <<>>]]
           /\ MayRun(j, guard) /\ Does(h, "run", j)
  <2>1. Puts(h, "run", j)
    BY <1>4, DoesEffect
  <2>2. Confirms(j, g) /\ \A k \in Jobs : job'[k].status = IF k = j THEN "running" ELSE job[k].status
    BY <1>1, <1>4 DEF JobRecord, Confirms
  <2>3. QED
    BY <1>2, <1>4, <2>1, <2>2
<1>5. QED
  BY <1>3, <1>4 DEF ConfirmAndRun

-----------------------------------------------------------------------------
(* The invariant behind the refinement                                     *)

\* A job shown as running has a handler whose command is at work.
RunningIsRun ==
  \A j \in Jobs : job[j].status = "running" =>
     \E h \in Handlers : task[h].at = "run" /\ task[h].job = j

OpsInv == OpsTypeOK /\ RunningIsRun

\* A handler that leaves "run" settles its job; nobody else can set a job that
\* is not being run to running.
LEMMA RunningKept ==
  ASSUME OpsInv, [OpsNext]_opsVars
  PROVE  RunningIsRun'
<1>. USE DEF OpsInv
<1>1. ASSUME NEW h \in Handlers, CommandStep(h)
      PROVE  RunningIsRun'
  <2>1. CommandEffect(h, task[h].job) /\ task[h].job \in Jobs
    BY <1>1, CommandDoes, LogType
  <2>2. QED
    BY <2>1 DEF CommandEffect, Becomes, Puts, RunningIsRun
<1>2. ASSUME NEW j \in Jobs, Cancel(j)
      PROVE  RunningIsRun'
  BY <1>2, CancelDoes DEF Becomes, RunningIsRun
<1>3. ASSUME NEW j \in Jobs, NEW h \in Handlers, CreateAndPreview(h, j)
      PROVE  RunningIsRun'
  BY <1>3, CreateDoes DEF Becomes, Puts, RunningIsRun
<1>4. ASSUME NEW j \in Jobs, NEW h \in Handlers, NEW g \in BOOLEAN, ConfirmAndRun(h, j, g)
      PROVE  RunningIsRun'
  BY <1>4, ConfirmDoes DEF Puts, RunningIsRun
<1>5. ASSUME NEW r \in Readers, ReaderStep(r) \/ \E j \in Jobs : OpenLog(r, j)
      PROVE  RunningIsRun'
  BY <1>5, ReaderType DEF RunningIsRun
<1>6. CASE UNCHANGED opsVars
  BY <1>6 DEF opsVars, RunningIsRun
<1>7. QED
  BY <1>1, <1>2, <1>3, <1>4, <1>5, <1>6 DEF OpsNext, Request

\* Every variable of the jobs keeps its type, for any jobs and handlers, and a
\* job is shown as running only while one of its handlers runs its command.
THEOREM OpsCorrect == OpsSpec => []OpsInv
<1>1. OpsInit => OpsInv
  <2>1. SUFFICES ASSUME OpsInit PROVE OpsInv
    OBVIOUS
  <2>2. job \in [Jobs -> JobRecord]
    BY <2>1 DEF OpsInit, JobRecord, Statuses
  <2>3. task \in [Handlers -> TaskRecord] /\ reader \in [Readers -> ReaderRecord]
    <3>1. AnyJob \in Jobs
      BY DEF AnyJob
    <3>2. <<>> \in Seq(Handlers) /\ 0 \in Nat
      OBVIOUS
    <3>3. [at |-> "idle", job |-> AnyJob] \in TaskRecord
      BY <3>1 DEF TaskRecord
    <3>4. [at |-> "closed", job |-> AnyJob, got |-> <<>>, cursor |-> 0, fresh |-> TRUE]
            \in ReaderRecord
      BY <3>1, <3>2 DEF ReaderRecord
    <3>5. QED
      BY <2>1, <3>3, <3>4 DEF OpsInit
  <2>4. runs \in Seq(Handlers)
    BY <2>1 DEF OpsInit
  <2>5. RunningIsRun
    BY <2>1 DEF OpsInit, RunningIsRun
  <2>6. QED
    BY <2>2, <2>3, <2>4, <2>5 DEF OpsInv, OpsTypeOK
<1>2. OpsInv /\ [OpsNext]_opsVars => OpsInv'
  <2>1. SUFFICES ASSUME OpsInv, [OpsNext]_opsVars PROVE OpsTypeOK'
    BY RunningKept DEF OpsInv
  <2>2. CASE UNCHANGED opsVars
    BY <2>1, <2>2 DEF opsVars, OpsInv, OpsTypeOK
  <2>3. CASE OpsNext
    BY <2>1, <2>3, CommandStepType, ConfirmType, ReaderType, RequestType
       DEF OpsNext, Request, OpsInv
  <2>4. QED
    BY <2>1, <2>2, <2>3
<1>3. QED
  BY <1>1, <1>2, PTL DEF OpsSpec

-----------------------------------------------------------------------------
(* The log sockets                                                         *)

Unconfirmed == {"none", "queued", "preview", "awaiting-confirm"}
MayLog(h, j) == task[h].at \in {"preview", "run"} /\ task[h].job = j

\* The job was confirmed; if that was the only confirmation and nobody
\* cancels, its handler has logged its last line.
Finished(j) ==
  /\ runs # <<>>
  /\ Len(runs) = 1 /\ ~job[j].cancel => ~MayLog(runs[1], j)

\* Before a confirmation no command runs and no job is over.
RunsKnown ==
  /\ \A h \in Handlers : task[h].at \in {"run", "left"} =>
        runs # <<>> /\ (Len(runs) = 1 => runs[1] = h)
  /\ \A j \in Jobs : runs = <<>> => job[j].status \in Unconfirmed

\* A job that is over was cancelled or has had its run.
OverIsOver ==
  \A j \in Jobs :
     /\ job[j].status = "cancelled" => job[j].cancel
     /\ job[j].status \in {"done", "error"} => Finished(j)

Prefix(s, t) == Len(s) <= Len(t) /\ \A i \in 1 .. Len(s) : s[i] = t[i]

\* What one socket has sent of the log of its job.
SocketSound(rd, log) ==
  /\ rd.at = "closed" => rd.cursor = 0 /\ rd.got = <<>>
  /\ rd.fresh => Len(rd.got) = rd.cursor /\ Prefix(rd.got, log)

\* A socket that has seen the end misses no line still to come.
SocketDone(rd, j) ==
  /\ rd.at # "closed" => Exists(j)
  /\ rd.at \in {"drain", "ended"} => Finished(j)
  /\ rd.at = "ended" /\ rd.fresh /\ Len(runs) = 1 /\ ~job[j].cancel =>
        \A i \in DOMAIN job[j].log : i > rd.cursor => job[j].log[i] # runs[1]

SocketsSound ==
  \A r \in Readers : /\ SocketSound(reader[r], job[reader[r].job].log)
                     /\ SocketDone(reader[r], reader[r].job)

StreamInv == RunsKnown /\ OverIsOver /\ SocketsSound

-----------------------------------------------------------------------------
(* What each step does to the logs *)

\* A step of handler `h` logs at most one line, for its job, and only while
\* its command may; it moves its handler on.
Logs(h) ==
  /\ \A k \in Jobs :
       /\ job'[k].cancel = job[k].cancel
       /\ \/ job'[k].log = job[k].log
          \/ MayLog(h, k) /\ job'[k].log = Append(job[k].log, h)
  /\ runs' = runs /\ reader' = reader

\* A handler stays, returns or leaves its command behind.
Onward(k) ==
  /\ task'[k].job = task[k].job
  /\ \/ task'[k].at = task[k].at
     \/ task'[k].at = "idle"
     \/ task[k].at = "run" /\ task'[k].at = "left"

\* A step of a command logs so.
LEMMA CommandLogs ==
  ASSUME OpsTypeOK, NEW h \in Handlers, CommandStep(h)
  PROVE  /\ Logs(h)
         /\ \A k \in Jobs : job'[k].status # job[k].status =>
               \/ job'[k].status = "awaiting-confirm"
               \/ job'[k].status \in {"done", "error"} /\ task[h].at = "run" /\ task'[h].at = "idle"
               \/ job'[k].status = "cancelled" /\ job[k].cancel
         /\ \A k \in Handlers : Onward(k)
<1>. DEFINE j == task[h].job
<1>1. /\ j \in Jobs /\ job \in [Jobs -> JobRecord] /\ \A k \in Jobs : job[k] \in JobRecord
      /\ task \in [Handlers -> TaskRecord]
  BY LogType DEF OpsTypeOK
<1>2. runs' = runs /\ reader' = reader
  BY DEF CommandStep, PreviewLine, PreviewEnds, PreviewFails, RunLine,
         RunSeesCancel, RunEnds, RunFails, LeftCommandEnds
<1>3. \A st : job' = Set(j, st) =>
        \A k \in Jobs : /\ job'[k].cancel = job[k].cancel /\ job'[k].log = job[k].log
                        /\ job'[k].status = IF k = j THEN st ELSE job[k].status
  BY <1>1 DEF Set, JobRecord
<1>4. job' = Log(h) =>
        \A k \in Jobs : /\ job'[k].cancel = job[k].cancel /\ job'[k].status = job[k].status
                        /\ job'[k].log = IF k = j THEN Append(job[k].log, h) ELSE job[k].log
  BY <1>1 DEF Log, JobRecord
<1>5. job' = [Log(h) EXCEPT ![j].status = "error"] =>
        \A k \in Jobs : /\ job'[k].cancel = job[k].cancel
                        /\ job'[k].status = IF k = j THEN "error" ELSE job[k].status
                        /\ job'[k].log = IF k = j THEN Append(job[k].log, h) ELSE job[k].log
  BY <1>1 DEF Log, JobRecord
<1>6. /\ Does(h, "left", j) => Puts(h, "left", j)
      /\ Returns(h) => Puts(h, "idle", j)
  BY DoesEffect
<1>7. CASE PreviewLine(h) \/ RunLine(h)
  <2>1. MayLog(h, j) /\ job' = Log(h) /\ task' = task
    BY <1>7 DEF PreviewLine, RunLine, MayLog
  <2>2. QED
    BY <1>2, <1>4, <2>1 DEF Logs, Onward
<1>8. CASE PreviewEnds(h)
  BY <1>1, <1>2, <1>3, <1>6, <1>8 DEF PreviewEnds, Logs, Puts, Onward
<1>9. CASE PreviewFails(h) \/ LeftCommandEnds(h)
  BY <1>1, <1>2, <1>6, <1>9 DEF PreviewFails, LeftCommandEnds, Logs, Puts, Onward
<1>10. CASE RunSeesCancel(h)
  BY <1>1, <1>2, <1>3, <1>6, <1>10 DEF RunSeesCancel, Logs, Puts, Onward
<1>11. CASE RunEnds(h)
  BY <1>1, <1>2, <1>3, <1>6, <1>11 DEF RunEnds, Logs, Puts, Onward
<1>12. CASE RunFails(h)
  <2>1. MayLog(h, j)
    BY <1>12 DEF RunFails, MayLog
  <2>2. QED
    BY <1>1, <1>2, <1>5, <1>6, <1>12, <2>1 DEF RunFails, Logs, Puts, Onward
<1>13. QED
  BY <1>7, <1>8, <1>9, <1>10, <1>11, <1>12 DEF CommandStep

\* A list with a line more still starts with what was read of it.
LEMMA PrefixGrows ==
  ASSUME NEW S, NEW s \in Seq(S), NEW t \in Seq(S), NEW x \in S, Prefix(s, t)
  PROVE  Prefix(s, Append(t, x))
  BY DEF Prefix

\* A line read is the next of the log.
LEMMA PrefixRead ==
  ASSUME NEW S, NEW s \in Seq(S), NEW t \in Seq(S), Prefix(s, t), Len(s) < Len(t)
  PROVE  Prefix(Append(s, t[Len(s) + 1]), t)
<1>1. t[Len(s) + 1] \in S
  BY ElementType
<1>2. QED
  BY <1>1 DEF Prefix

\* What is read so is a prefix, and holds the same lines up to its end.
LEMMA PrefixIs ==
  ASSUME NEW S, NEW s \in Seq(S), NEW t \in Seq(S), Prefix(s, t)
  PROVE  /\ IsPrefix(s, t)
         /\ \A x : (\A i \in DOMAIN t : i > Len(s) => t[i] # x) => LinesOf(x, s) = LinesOf(x, t)
<1>1. /\ Len(s) \in Nat /\ Len(t) \in Nat /\ Len(s) <= Len(t)
      /\ \A i \in 1 .. Len(s) : s[i] = t[i] /\ s[i] \in S
      /\ DOMAIN s = 1 .. Len(s) /\ DOMAIN t = 1 .. Len(t)
  BY DEF Prefix
<1>2. SubSeq(s, 1, Len(s)) = SubSeq(t, 1, Len(s))
  BY <1>1
<1>3. QED
  BY <1>1, <1>2 DEF IsPrefix, LinesOf

\* A confirmation starts the log over or leaves it, and cancels nothing.
LEMMA ConfirmLogs ==
  ASSUME OpsTypeOK, NEW j \in Jobs, NEW h \in Handlers, NEW g \in BOOLEAN,
         ConfirmAndRun(h, j, g)
  PROVE  /\ runs' = Append(runs, h) /\ Exists(j)
         /\ \A k \in Jobs : job'[k].cancel = job[k].cancel
         /\ \/ reader' = reader /\ \A k \in Jobs : job'[k].log = job[k].log
            \/ Unseats(j) /\ \A k \in Jobs : job'[k].log = IF k = j THEN <<>> ELSE job[k].log
<1>. DEFINE guard == job[j].guard \/ g
<1>1. job \in [Jobs -> JobRecord] /\ \A k \in Jobs : job[k] \in JobRecord
  BY DEF OpsTypeOK
<1>2. CASE job' = [job EXCEPT ![j] = [job[j] EXCEPT !.confirmed = TRUE, !.guard = guard]]
           /\ reader' = reader
  BY <1>1, <1>2 DEF JobRecord, ConfirmAndRun
<1>3. CASE job' = [job EXCEPT ![j] = [[job[j] EXCEPT !.confirmed = TRUE, !.guard = guard]
                                       EXCEPT !.status = "running", !.log = <<>>]]
           /\ Unseats(j)
  BY <1>1, <1>3 DEF JobRecord, ConfirmAndRun
<1>4. QED
  BY <1>2, <1>3 DEF ConfirmAndRun

\* A cancel, and a new job, log nothing.
LEMMA OthersLogNothing ==
  ASSUME OpsTypeOK, NEW j \in Jobs
  PROVE  /\ Cancel(j) => /\ \A k \in Jobs : job'[k].log = job[k].log
                         /\ \A k \in Jobs : job'[k].cancel = (k = j \/ job[k].cancel)
                         /\ runs' = runs /\ reader' = reader
         /\ \A h \in Handlers : CreateAndPreview(h, j) =>
              /\ \A k \in Jobs : job'[k].log = job[k].log /\ job'[k].cancel = job[k].cancel
              /\ runs' = runs /\ reader' = reader
<1>1. job \in [Jobs -> JobRecord] /\ \A k \in Jobs : job[k] \in JobRecord
  BY DEF OpsTypeOK
<1>2. ASSUME Cancel(j)
      PROVE  \A k \in Jobs : /\ job'[k].log = job[k].log
                             /\ job'[k].cancel = (k = j \/ job[k].cancel)
  <2>1. PICK st : job' = [job EXCEPT ![j] = [job[j] EXCEPT !.cancel = TRUE, !.status = st]]
    BY <1>1, <1>2 DEF Cancel, JobRecord
  <2>2. QED
    BY <1>1, <2>1 DEF JobRecord
<1>3. ASSUME NEW h \in Handlers, CreateAndPreview(h, j)
      PROVE  \A k \in Jobs : job'[k].log = job[k].log /\ job'[k].cancel = job[k].cancel
  BY <1>1, <1>3 DEF CreateAndPreview, Set, JobRecord
<1>4. QED
  BY <1>2, <1>3 DEF Cancel, CreateAndPreview

-----------------------------------------------------------------------------
(* Each step keeps what the sockets rely on *)

\* The fields of a socket, of a job and the history are what they are.
LEMMA Known ==
  ASSUME OpsTypeOK
  PROVE  /\ \A r \in Readers : /\ reader[r].job \in Jobs /\ reader[r].got \in Seq(Handlers)
                               /\ reader[r].cursor \in Nat /\ reader[r].fresh \in BOOLEAN
         /\ \A k \in Jobs : /\ job[k].log \in Seq(Handlers) /\ job[k].cancel \in BOOLEAN
                            /\ job[k].status \in Statuses
         /\ runs \in Seq(Handlers)
         /\ Len(runs) = 1 => runs # <<>> /\ runs[1] \in Handlers
         /\ runs # <<>> => Len(runs) \in Nat /\ Len(runs) >= 1
<1>1. runs \in Seq(Handlers)
  BY DEF OpsTypeOK
<1>2. ASSUME Len(runs) = 1 PROVE runs # <<>> /\ runs[1] \in Handlers
  <2>1. runs[0 + 1] \in Handlers
    BY <1>1, <1>2, ElementType
  <2>2. Len(<<>>) = 0
    OBVIOUS
  <2>3. QED
    BY <1>2, <2>1, <2>2
<1>3. runs # <<>> => Len(runs) \in Nat /\ Len(runs) >= 1
  BY <1>1
<1>4. QED
  BY <1>1, <1>2, <1>3 DEF OpsTypeOK, ReaderRecord, JobRecord

\* A line more is one of a command that may log: no socket that has ended
\* relied on its silence.
LEMMA LineKeepsSockets ==
  ASSUME OpsTypeOK, NEW h \in Handlers, Logs(h), SocketsSound,
         \A k \in Jobs : Exists(k) => Exists(k)',
         \A k \in Jobs : Finished(k) => Finished(k)'
  PROVE  SocketsSound'
<1>. SUFFICES ASSUME NEW r \in Readers
     PROVE  /\ SocketSound(reader[r], job'[reader[r].job].log)
            /\ SocketDone(reader[r], reader[r].job)'
  BY DEF SocketsSound, Logs
<1>. DEFINE rd == reader[r]
            k == rd.job
<1>1. /\ k \in Jobs /\ rd.got \in Seq(Handlers) /\ rd.cursor \in Nat
      /\ job[k].log \in Seq(Handlers)
  BY Known
<1>2. SocketSound(rd, job[k].log) /\ SocketDone(rd, k) /\ reader' = reader /\ runs' = runs
  BY DEF SocketsSound, Logs
<1>3. SocketSound(rd, job'[k].log)
  <2>1. Prefix(rd.got, job[k].log) => Prefix(rd.got, Append(job[k].log, h))
    BY <1>1, PrefixGrows
  <2>2. job'[k].log = job[k].log \/ job'[k].log = Append(job[k].log, h)
    BY <1>1 DEF Logs
  <2>3. QED
    BY <1>2, <2>1, <2>2 DEF SocketSound
<1>4. /\ rd.at # "closed" => Exists(k)'
      /\ rd.at \in {"drain", "ended"} => Finished(k)'
  BY <1>1, <1>2 DEF SocketDone
<1>5. ASSUME rd.at = "ended", rd.fresh, Len(runs) = 1, ~job'[k].cancel,
             NEW i \in DOMAIN job'[k].log, i > rd.cursor
      PROVE  job'[k].log[i] # runs[1]
  <2>1. job'[k].cancel = job[k].cancel
    BY <1>1 DEF Logs
  <2>2. \A n \in DOMAIN job[k].log : n > rd.cursor => job[k].log[n] # runs[1]
    BY <1>2, <1>5, <2>1 DEF SocketDone
  <2>3. CASE job'[k].log = job[k].log
    BY <1>5, <2>2, <2>3
  <2>4. CASE MayLog(h, k) /\ job'[k].log = Append(job[k].log, h)
    <3>1. h # runs[1]
      BY <1>2, <1>5, <2>1, <2>4 DEF SocketDone, Finished
    <3>2. \/ i \in DOMAIN job[k].log /\ job'[k].log[i] = job[k].log[i]
          \/ job'[k].log[i] = h
      <4>. DEFINE log == job[k].log
      <4>1. log \in Seq(Handlers) /\ i \in DOMAIN Append(log, h) /\ job'[k].log = Append(log, h)
        BY <1>1, <1>5, <2>4
      <4>. HIDE DEF log
      <4>2. (i \in DOMAIN log /\ Append(log, h)[i] = log[i]) \/ Append(log, h)[i] = h
        BY <4>1
      <4>3. QED
        BY <4>1, <4>2 DEF log
    <3>3. QED
      BY <1>5, <2>2, <3>1, <3>2
  <2>5. QED
    BY <1>1, <2>3, <2>4 DEF Logs
<1>6. SocketDone(rd, k)'
  BY <1>2, <1>4, <1>5 DEF SocketDone
<1>7. QED
  BY <1>3, <1>6

\* A step of a command's output.
LEMMA CommandKeeps ==
  ASSUME OpsTypeOK, StreamInv, NEW h \in Handlers, CommandStep(h)
  PROVE  StreamInv'
<1>1. /\ Logs(h) /\ \A k \in Handlers : Onward(k)
      /\ \A k \in Jobs : job'[k].status # job[k].status =>
               \/ job'[k].status = "awaiting-confirm"
               \/ job'[k].status \in {"done", "error"} /\ task[h].at = "run" /\ task'[h].at = "idle"
               \/ job'[k].status = "cancelled" /\ job[k].cancel
  BY CommandLogs
<1>2. /\ runs' = runs /\ RunsKnown /\ OverIsOver
      /\ \A k \in Jobs : job'[k].cancel = job[k].cancel
  BY <1>1 DEF Logs, StreamInv
<1>3. \A k \in Jobs : Exists(k) => Exists(k)'
  BY <1>1 DEF Exists
<1>4. ASSUME NEW k \in Jobs, Finished(k) PROVE Finished(k)'
  <2>1. \A x \in Handlers : MayLog(x, k)' => MayLog(x, k)
    BY <1>1 DEF Onward, MayLog
  <2>2. Len(runs) = 1 => runs[1] \in Handlers
    BY Known
  <2>3. QED
    BY <1>2, <1>4, <2>1, <2>2 DEF Finished
<1>5. RunsKnown'
  <2>1. \A x \in Handlers : task'[x].at \in {"run", "left"} => task[x].at \in {"run", "left"}
    BY <1>1 DEF Onward
  <2>2. ASSUME NEW k \in Jobs, runs = <<>> PROVE job'[k].status \in Unconfirmed
    <3>1. job[k].status \in Unconfirmed /\ task[h].at # "run"
      BY <1>2, <2>2 DEF RunsKnown
    <3>2. job[k].status # "cancelled"
      BY <3>1 DEF Unconfirmed
    <3>3. CASE CommandEffect(h, task[h].job)
      BY <3>1, <3>3 DEF CommandEffect, Becomes, Unconfirmed
    <3>4. QED
      BY <3>3, CommandDoes
  <2>3. QED
    BY <1>2, <2>1, <2>2 DEF RunsKnown
<1>6. OverIsOver'
  <2>. SUFFICES ASSUME NEW k \in Jobs
       PROVE  /\ job'[k].status = "cancelled" => job'[k].cancel
              /\ job'[k].status \in {"done", "error"} => Finished(k)'
    BY DEF OverIsOver
  <2>1. CASE job'[k].status = job[k].status
    BY <1>2, <1>4, <2>1 DEF OverIsOver
  <2>2. CASE job'[k].status \in {"done", "error"} /\ task[h].at = "run" /\ task'[h].at = "idle"
    <3>1. runs # <<>> /\ (Len(runs) = 1 => runs[1] = h)
      BY <1>2, <2>2 DEF RunsKnown
    <3>2. Finished(k)'
      BY <1>2, <2>2, <3>1 DEF Finished, MayLog
    <3>3. QED
      BY <2>2, <3>2
  <2>3. QED
    BY <1>1, <1>2, <2>1, <2>2
<1>7. SocketsSound'
  BY <1>1, <1>3, <1>4, LineKeepsSockets DEF StreamInv
<1>8. QED
  BY <1>5, <1>6, <1>7 DEF StreamInv

\* A request other than a confirmation creates a job or ends a run.
Opens(k) ==
  \/ job'[k].status = job[k].status
  \/ job[k].status = "none" /\ job'[k].status = "preview"
  \/ job[k].status = "running" /\ job'[k].status = "cancelled" /\ job'[k].cancel

\* A cancel, and a new job, log nothing; a job cancelled promises no line.
LEMMA JobRequestKeeps ==
  ASSUME OpsTypeOK, StreamInv, NEW j \in Jobs,
         Cancel(j) \/ \E h \in Handlers : CreateAndPreview(h, j)
  PROVE  StreamInv'
<1>1. /\ runs' = runs /\ reader' = reader /\ \A k \in Jobs : job'[k].log = job[k].log
      /\ \A k \in Jobs : job[k].cancel => job'[k].cancel
  BY OthersLogNothing
<1>2. \A k \in Jobs : Exists(k) => Exists(k)'
  BY CancelDoes, CreateDoes DEF Exists, Becomes
<1>3. ASSUME NEW k \in Jobs, Exists(k), Finished(k) PROVE Finished(k)'
  <2>1. \A x \in Handlers : MayLog(x, k)' => MayLog(x, k)
    BY <1>3, CancelDoes, CreateDoes DEF MayLog, Puts, Exists
  <2>2. Len(runs) = 1 => runs[1] \in Handlers
    BY Known
  <2>3. QED
    BY <1>1, <1>3, <2>1, <2>2 DEF Finished
<1>4. /\ \A x \in Handlers : task'[x].at \in {"run", "left"} => task[x].at \in {"run", "left"}
      /\ \A k \in Jobs : Opens(k)
  <2>1. CASE Cancel(j)
    <3>1. Becomes(j, IF job[j].status = "running" THEN "cancelled" ELSE job[j].status)
          /\ task' = task /\ job'[j].cancel
      BY <2>1, CancelDoes, OthersLogNothing
    <3>2. QED
      BY <3>1 DEF Becomes, Opens
  <2>2. CASE \E h \in Handlers : CreateAndPreview(h, j)
    BY <2>2, CreateDoes DEF Becomes, Puts, Opens
  <2>3. QED
    BY <2>1, <2>2
<1>5. RunsKnown'
  BY <1>1, <1>4 DEF RunsKnown, StreamInv, Unconfirmed, Opens
<1>6. OverIsOver'
  BY <1>1, <1>3, <1>4 DEF OverIsOver, StreamInv, Exists, Opens
<1>7. SocketsSound'
  <2>. SUFFICES ASSUME NEW r \in Readers PROVE SocketDone(reader[r], reader[r].job)'
    BY <1>1, Known DEF SocketsSound, StreamInv
  <2>1. reader[r].job \in Jobs /\ SocketDone(reader[r], reader[r].job)
    BY Known DEF SocketsSound, StreamInv
  <2>2. QED
    BY <1>1, <1>2, <1>3, <2>1 DEF SocketDone
<1>8. QED
  BY <1>5, <1>6, <1>7 DEF StreamInv

\* A confirmation: the only one of its kind finds no job over and no socket
\* at its end; a log it clears unseats the sockets that have read of it.
LEMMA ConfirmKeeps ==
  ASSUME OpsTypeOK, StreamInv, NEW j \in Jobs, NEW h \in Handlers, NEW g \in BOOLEAN,
         ConfirmAndRun(h, j, g)
  PROVE  StreamInv'
<1>1. /\ runs' = Append(runs, h) /\ Exists(j)
      /\ \A k \in Jobs : job'[k].cancel = job[k].cancel
      /\ \/ reader' = reader /\ \A k \in Jobs : job'[k].log = job[k].log
         \/ Unseats(j) /\ \A k \in Jobs : job'[k].log = IF k = j THEN <<>> ELSE job[k].log
  BY ConfirmLogs
<1>2. /\ runs' # <<>> /\ (Len(runs') = 1 => runs = <<>> /\ runs'[1] = h)
      /\ Len(runs') = 1 <=> runs = <<>>
  <2>1. runs \in Seq(Handlers)
    BY Known
  <2>2. QED
    BY <1>1, <2>1
<1>3. /\ \A k \in Jobs : job'[k].status # job[k].status => job'[k].status = "running"
      /\ \A x \in Handlers : x # h => task'[x].at = task[x].at
  BY ConfirmDoes DEF Puts
<1>4. \A k \in Jobs : Exists(k) => Exists(k)'
  BY <1>3 DEF Exists
<1>5. \A k \in Jobs : runs # <<>> => Finished(k)'
  BY <1>2 DEF Finished
<1>6. RunsKnown'
  BY <1>2, <1>3 DEF RunsKnown, StreamInv
<1>7. OverIsOver'
  <2>. SUFFICES ASSUME NEW k \in Jobs
       PROVE  /\ job'[k].status = "cancelled" => job'[k].cancel
              /\ job'[k].status \in {"done", "error"} => Finished(k)'
    BY DEF OverIsOver
  <2>1. CASE job'[k].status = "running"
    BY <2>1
  <2>2. CASE job'[k].status = job[k].status
    <3>1. job[k].status \in {"done", "error"} => runs # <<>>
      BY DEF RunsKnown, StreamInv, Unconfirmed
    <3>2. QED
      BY <1>1, <1>5, <2>2, <3>1 DEF OverIsOver, StreamInv
  <2>3. QED
    BY <1>3, <2>1, <2>2
<1>8. SocketsSound'
  <2>. SUFFICES ASSUME NEW r \in Readers
       PROVE  /\ SocketSound(reader'[r], job'[reader'[r].job].log)
              /\ SocketDone(reader[r], reader[r].job)'
    BY DEF SocketsSound
  <2>. DEFINE rd == reader[r]
  <2>1. /\ rd \in ReaderRecord /\ rd.job \in Jobs /\ rd.cursor \in Nat
        /\ SocketSound(rd, job[rd.job].log) /\ SocketDone(rd, rd.job)
    BY Known DEF SocketsSound, StreamInv, OpsTypeOK
  <2>2. /\ reader'[r].at = rd.at /\ reader'[r].job = rd.job
        /\ reader'[r].cursor = rd.cursor /\ reader'[r].got = rd.got
        /\ reader'[r].fresh => rd.fresh /\ (job'[rd.job].log = job[rd.job].log \/ rd.cursor = 0)
    <3>1. CASE reader' = reader /\ \A k \in Jobs : job'[k].log = job[k].log
      BY <2>1, <3>1
    <3>2. CASE Unseats(j) /\ \A k \in Jobs : job'[k].log = IF k = j THEN <<>> ELSE job[k].log
      <4>1. CASE rd.job = j /\ rd.cursor > 0
        BY <2>1, <3>2, <4>1 DEF Unseats, ReaderRecord
      <4>2. CASE ~(rd.job = j /\ rd.cursor > 0)
        <5>1. reader'[r] = rd
          BY <3>2, <4>2 DEF Unseats
        <5>2. QED
          BY <2>1, <3>2, <4>2, <5>1
      <4>3. QED
        BY <4>1, <4>2
    <3>3. QED
      BY <1>1, <3>1, <3>2
  <2>3. SocketSound(reader'[r], job'[rd.job].log)
    <3>1. OpsTypeOK'
      BY ConfirmType
    <3>2. job'[rd.job].log \in Seq(Handlers)
      BY <2>1, <3>1 DEF OpsTypeOK, JobRecord
    <3>3. rd.cursor = 0 /\ Len(rd.got) = rd.cursor => Prefix(rd.got, job'[rd.job].log)
      BY <2>1, <3>2 DEF Prefix
    <3>4. QED
      BY <2>1, <2>2, <3>3 DEF SocketSound
  <2>4. /\ rd.at # "closed" => Exists(rd.job)'
        /\ rd.at \in {"drain", "ended"} => runs # <<>> /\ Finished(rd.job)'
    BY <1>4, <1>5, <2>1, <2>2 DEF SocketDone, Finished
  <2>5. SocketDone(reader[r], reader[r].job)'
    BY <1>2, <2>2, <2>4 DEF SocketDone
  <2>6. QED
    BY <2>2, <2>3, <2>5
<1>9. QED
  BY <1>6, <1>7, <1>8 DEF StreamInv

\* A socket starts to drain only when its job is over, and ends only when it
\* has sent the whole log.
LEMMA ReaderKeeps ==
  ASSUME OpsTypeOK, StreamInv, NEW r \in Readers, ReaderStep(r) \/ \E j \in Jobs : OpenLog(r, j)
  PROVE  StreamInv'
<1>1. UNCHANGED <<job, task, runs>>
  BY ReaderType
<1>2. RunsKnown' /\ OverIsOver'
  BY <1>1 DEF RunsKnown, OverIsOver, StreamInv, Finished, MayLog
<1>3. \A n \in Readers : n # r => reader'[n] = reader[n]
  BY DEF OpsTypeOK, ReaderStep, ReadLine, SeesEnd, CloseLog, OpenLog
<1>. DEFINE rd == reader[r]
            new == reader'[r]
<1>4. /\ rd \in ReaderRecord /\ rd.job \in Jobs /\ rd.cursor \in Nat /\ rd.got \in Seq(Handlers)
      /\ SocketSound(rd, job[rd.job].log) /\ SocketDone(rd, rd.job)
      /\ job[rd.job].log \in Seq(Handlers) /\ Len(job[rd.job].log) \in Nat
      /\ reader \in [Readers -> ReaderRecord]
  BY Known DEF SocketsSound, StreamInv, OpsTypeOK
<1>5. SocketSound(new, job[new.job].log) /\ SocketDone(new, new.job)
  <2>1. ASSUME NEW j \in Jobs, OpenLog(r, j)
        PROVE  SocketSound(new, job[new.job].log) /\ SocketDone(new, new.job)
    <3>1. /\ rd.at = "closed" /\ Exists(j) /\ new.at = "stream" /\ new.job = j
          /\ new.cursor = rd.cursor /\ new.got = rd.got /\ new.fresh = rd.fresh
      BY <1>4, <2>1 DEF OpenLog, Reader, ReaderRecord
    <3>2. rd.cursor = 0 /\ rd.got = <<>> /\ Len(<<>>) = 0
      BY <1>4, <3>1 DEF SocketSound
    <3>3. Prefix(<<>>, job[j].log)
      <4>1. job[j].log \in Seq(Handlers)
        BY Known
      <4>2. QED
        BY <3>2, <4>1 DEF Prefix
    <3>4. QED
      BY <3>1, <3>2, <3>3 DEF SocketSound, SocketDone
  <2>2. CASE ReadLine(r)
    <3>. DEFINE log == job[rd.job].log
    <3>1. /\ rd.at \in {"stream", "drain"} /\ rd.cursor < Len(log)
          /\ new.at = rd.at /\ new.job = rd.job /\ new.fresh = rd.fresh
          /\ new.cursor = rd.cursor + 1 /\ new.got = Append(rd.got, log[rd.cursor + 1])
      BY <1>4, <2>2 DEF ReadLine, Streams, Unread, Reader, ReaderRecord
    <3>2. rd.fresh => Len(rd.got) = rd.cursor /\ Prefix(rd.got, log)
      BY <1>4 DEF SocketSound
    <3>3. rd.fresh => Len(new.got) = new.cursor
      BY <1>4, <3>1, <3>2
    <3>4. rd.fresh => Prefix(new.got, log)
      BY <1>4, <3>1, <3>2, PrefixRead
    <3>5. SocketSound(new, log)
      BY <3>1, <3>3, <3>4 DEF SocketSound
    <3>6. SocketDone(new, new.job)
      BY <1>4, <3>1 DEF SocketDone
    <3>7. QED
      BY <3>1, <3>5, <3>6
  <2>3. CASE SeesEnd(r)
    <3>1. /\ rd.at = "stream" /\ job[rd.job].status \notin Live /\ new.at = "drain"
          /\ new.job = rd.job /\ new.fresh = rd.fresh /\ new.cursor = rd.cursor /\ new.got = rd.got
      BY <1>4, <2>3 DEF SeesEnd, Reader, ReaderRecord
    <3>2. Exists(rd.job) /\ job[rd.job].status \in {"done", "error", "cancelled"}
      BY <1>4, <3>1, Known DEF SocketDone, Exists, Statuses, Live
    <3>3. Finished(rd.job)
      <4>1. runs # <<>>
        BY <1>4, <3>2 DEF StreamInv, RunsKnown, Unconfirmed
      <4>2. CASE job[rd.job].status = "cancelled"
        BY <1>4, <4>1, <4>2 DEF StreamInv, OverIsOver, Finished
      <4>3. QED
        BY <1>4, <3>2, <4>2 DEF StreamInv, OverIsOver
    <3>4. QED
      BY <1>4, <3>1, <3>2, <3>3 DEF SocketSound, SocketDone
  <2>4. CASE CloseLog(r)
    <3>1. /\ rd.at = "drain" /\ ~(rd.cursor < Len(job[rd.job].log)) /\ new.at = "ended"
          /\ new.job = rd.job /\ new.fresh = rd.fresh /\ new.cursor = rd.cursor /\ new.got = rd.got
      BY <1>4, <2>4 DEF CloseLog, Unread, Reader, ReaderRecord
    <3>2. \A i \in DOMAIN job[rd.job].log : ~(i > rd.cursor)
      BY <1>4, <3>1
    <3>3. QED
      BY <1>4, <3>1, <3>2 DEF SocketSound, SocketDone
  <2>5. QED
    BY <2>1, <2>2, <2>3, <2>4 DEF ReaderStep
<1>6. \A n \in Readers : /\ SocketSound(reader'[n], job[reader'[n].job].log)
                         /\ SocketDone(reader'[n], reader'[n].job)
  BY <1>3, <1>5 DEF SocketsSound, StreamInv
<1>7. SocketsSound'
  BY <1>1, <1>6 DEF SocketsSound, SocketDone, Exists, Finished, MayLog
<1>8. QED
  BY <1>2, <1>7 DEF StreamInv

(***************************************************************************)
(* A log socket misses nothing, for any jobs, requests and sockets: what   *)
(* it has sent is the start of the log as long as no confirmation cleared  *)
(* that under its cursor, and once it has ended it has sent every line of  *)
(* the only run nobody cancelled (ops.py stream_log).                      *)
(***************************************************************************)
THEOREM StreamsAreComplete == OpsSpec => []StreamComplete
<1>1. OpsInit => StreamInv
  <2>. SUFFICES ASSUME OpsInit PROVE StreamInv
    OBVIOUS
  <2>1. /\ \A j \in Jobs : job[j].status = "none" /\ job[j].log = <<>>
        /\ \A h \in Handlers : task[h].at = "idle"
        /\ \A r \in Readers : reader[r].at = "closed" /\ reader[r].cursor = 0
                              /\ reader[r].got = <<>> /\ reader[r].job \in Jobs
    BY DEF OpsInit, AnyJob
  <2>2. Prefix(<<>>, <<>>) /\ Len(<<>>) = 0
    BY DEF Prefix
  <2>3. QED
    BY <2>1, <2>2 DEF StreamInv, RunsKnown, OverIsOver, SocketsSound, SocketSound, SocketDone, Unconfirmed
<1>2. OpsInv /\ StreamInv /\ [OpsNext]_opsVars => StreamInv'
  <2>1. SUFFICES ASSUME OpsTypeOK, StreamInv, [OpsNext]_opsVars PROVE StreamInv'
    BY DEF OpsInv
  <2>2. CASE UNCHANGED opsVars
    BY <2>1, <2>2 DEF opsVars, StreamInv, RunsKnown, OverIsOver, SocketsSound, SocketDone,
                      Exists, Finished, MayLog
  <2>3. CASE OpsNext
    BY <2>1, <2>3, CommandKeeps, JobRequestKeeps, ConfirmKeeps, ReaderKeeps DEF OpsNext, Request
  <2>4. QED
    BY <2>1, <2>2, <2>3
<1>3. OpsInv /\ StreamInv => StreamComplete
  <2>. SUFFICES ASSUME OpsTypeOK, StreamInv, NEW r \in Readers
       PROVE  /\ reader[r].fresh => IsPrefix(reader[r].got, job[reader[r].job].log)
              /\ reader[r].at = "ended" /\ reader[r].fresh /\ Len(runs) = 1
                 /\ ~job[reader[r].job].cancel
                 => LinesOf(runs[1], reader[r].got) = LinesOf(runs[1], job[reader[r].job].log)
    BY DEF OpsInv, StreamComplete, Reader
  <2>. DEFINE rd == reader[r]
              log == job[rd.job].log
  <2>1. /\ rd.got \in Seq(Handlers) /\ log \in Seq(Handlers)
        /\ SocketSound(rd, log) /\ SocketDone(rd, rd.job)
    BY Known DEF StreamInv, SocketsSound
  <2>2. rd.fresh => Len(rd.got) = rd.cursor /\ Prefix(rd.got, log)
    BY <2>1 DEF SocketSound
  <2>3. rd.fresh => /\ IsPrefix(rd.got, log)
                    /\ \A x : (\A i \in DOMAIN log : i > Len(rd.got) => log[i] # x)
                                => LinesOf(x, rd.got) = LinesOf(x, log)
    BY <2>1, <2>2, PrefixIs
  <2>4. rd.at = "ended" /\ rd.fresh /\ Len(runs) = 1 /\ ~job[rd.job].cancel
          => \A i \in DOMAIN log : i > Len(rd.got) => log[i] # runs[1]
    BY <2>1, <2>2 DEF SocketDone
  <2>5. QED
    BY <2>3, <2>4
<1>4. QED
  BY <1>1, <1>2, <1>3, OpsCorrect, PTL DEF OpsSpec

-----------------------------------------------------------------------------
(* The refinement                                                          *)

\* What OpsJobSpec sees of a job and of the handlers.
Consented == {j \in Jobs : job[j].confirmed /\ (j \in Destructive => job[j].guard)}
AtWork == {<<h, task[h].job>> : h \in {k \in Handlers : task[k].at \in {"run", "left"}}}
Display == [j \in Jobs |-> Shown(j)]

ShownAs(st) ==
  CASE st = "running" -> "running"
    [] st \in {"done", "error", "cancelled"} -> "over"
    [] OTHER -> "pending"

\* A status that changes shows, and neither consent nor guard does.
LEMMA BecomesSeen ==
  ASSUME NEW j \in Jobs, NEW st, Becomes(j, st)
  PROVE  /\ Consented' = Consented
         /\ Display' = [Display EXCEPT ![j] = ShownAs(st)]
         /\ st = job[j].status => Display' = Display
<1>1. Consented' = Consented
  BY DEF Becomes, Consented
<1>2. \A k \in Jobs : Shown(k)' = IF k = j THEN ShownAs(st) ELSE Shown(k)
  BY DEF Becomes, Shown, ShownAs
<1>3. Display' = [Display EXCEPT ![j] = ShownAs(st)]
  BY <1>2 DEF Display
<1>4. ASSUME st = job[j].status PROVE Display' = Display
  <2>1. \A k \in Jobs : Shown(k)' = Shown(k)
    BY <1>4 DEF Becomes, Shown
  <2>2. QED
    BY <2>1 DEF Display
<1>5. QED
  BY <1>1, <1>3, <1>4

\* A handler that goes on takes its command from the ones at work, or adds it.
LEMMA PutsSeen ==
  ASSUME NEW h \in Handlers, NEW at \in {"idle", "preview", "run", "left"}, NEW j,
         Puts(h, at, j)
  PROVE  /\ at \in {"run", "left"} /\ task[h].at \in {"run", "left"} /\ task[h].job = j
              => AtWork' = AtWork
         /\ at \notin {"run", "left"} /\ task[h].at \notin {"run", "left"} => AtWork' = AtWork
         /\ at \notin {"run", "left"} /\ task[h].at \in {"run", "left"} /\ task[h].job = j
              => <<h, j>> \in AtWork /\ AtWork' = AtWork \ {<<h, j>>}
         /\ at \in {"run", "left"} /\ task[h].at \notin {"run", "left"}
              => AtWork' = AtWork \cup {<<h, j>>}
  BY DEF Puts, AtWork

\* A confirmation the guard refuses is no consent; one it allows is.
LEMMA ConfirmsSeen ==
  ASSUME NEW j \in Jobs, NEW g \in BOOLEAN, Confirms(j, g), OpsTypeOK
  PROVE  /\ ~MayRun(j, job[j].guard \/ g) => Consented' = Consented
         /\ MayRun(j, job[j].guard \/ g)
              => Consented' = Consented \cup {j} /\ j \in Consented'
<1>1. \A k \in Jobs : job[k].guard \in BOOLEAN /\ job[k].confirmed \in BOOLEAN
  BY DEF OpsTypeOK, JobRecord
<1>2. ASSUME NEW k \in Jobs, k # j PROVE k \in Consented' <=> k \in Consented
  BY <1>2 DEF Confirms, Consented
<1>3. j \in Consented' <=> MayRun(j, job[j].guard \/ g)
  BY <1>1 DEF Confirms, Consented, MayRun
<1>4. j \in Consented => MayRun(j, job[j].guard \/ g)
  BY <1>1 DEF Consented, MayRun
<1>5. Consented \subseteq Jobs /\ Consented' \subseteq Jobs
  BY DEF Consented
<1>6. QED
  BY <1>2, <1>3, <1>4, <1>5

\* Every step of the runner is a step of the promise, or changes nothing of
\* what the promise is about.
LEMMA StepKept ==
  ASSUME OpsInv, OpsInv', [OpsNext]_opsVars
  PROVE  [Promise!Next]_(Promise!specVars)
<1>. DEFINE Same == Consented' = Consented /\ AtWork' = AtWork /\ Display' = Display
            Step(j) == \/ Promise!Consent(j) \/ Promise!Cancel(j) \/ Promise!Preview(j)
                       \/ \E h \in Handlers : Promise!Begin(h, j) \/ Promise!End(h, j)
<1>1. Same => UNCHANGED Promise!specVars
  BY DEF Promise!specVars, Consented, AtWork, Display
<1>2. Promise!Real
  BY DEF OpsInv, RunningIsRun, Promise!Real, Shown
<1>3. ASSUME NEW j \in Jobs, Step(j) PROVE Promise!Next
  BY <1>2, <1>3 DEF Promise!Next
<1>4. ASSUME NEW j \in Jobs, Consented' = Consented, AtWork' = AtWork,
             Display' = [Display EXCEPT ![j] = "over"]
      PROVE  Step(j)
  BY <1>4 DEF Promise!Cancel, Consented, AtWork, Display
<1>5. ASSUME NEW j \in Jobs, Consented' = Consented, AtWork' = AtWork,
             Display' = [Display EXCEPT ![j] = "pending"]
      PROVE  Step(j)
  BY <1>5 DEF Promise!Preview, Consented, AtWork, Display
<1>6. ASSUME NEW h \in Handlers, NEW j \in Jobs, Consented' = Consented,
             <<h, j>> \in AtWork, AtWork' = AtWork \ {<<h, j>>},
             Display' \in {Display, [Display EXCEPT ![j] = "over"]}
      PROVE  Step(j)
  <2>1. Promise!End(h, j)
    BY <1>6 DEF Promise!End, Consented, AtWork, Display
  <2>2. QED
    BY <2>1
<1>7. ASSUME NEW h \in Handlers, NEW j \in Jobs, j \in Consented',
             Consented' = Consented \cup {j}, AtWork' = AtWork \cup {<<h, j>>},
             Display' = [Display EXCEPT ![j] = "running"]
      PROVE  Step(j)
  <2>1. Promise!Begin(h, j)
    BY <1>7 DEF Promise!Begin, Consented, AtWork, Display
  <2>2. QED
    BY <2>1
<1>. HIDE DEF Step
<1>8. ASSUME NEW h \in Handlers, CommandStep(h)
      PROVE  Same \/ \E j \in Jobs : Step(j)
  <2>. PICK j \in Jobs : j = task[h].job
    BY LogType DEF OpsInv
  <2>1. CommandEffect(h, j)
    BY <1>8, CommandDoes DEF OpsInv
  <2>2. CASE Puts(h, task[h].at, j) /\ Becomes(j, job[j].status)
    <3>1. AtWork' = AtWork
      BY <2>2 DEF Puts, AtWork
    <3>2. QED
      BY <2>2, <3>1, BecomesSeen
  <2>3. CASE task[h].at = "preview" /\ Puts(h, "idle", j) /\ Becomes(j, "awaiting-confirm")
    <3>1. AtWork' = AtWork
      BY <2>3, PutsSeen
    <3>2. Consented' = Consented /\ Display' = [Display EXCEPT ![j] = "pending"]
      BY <2>1, <2>3, BecomesSeen DEF ShownAs
    <3>3. QED
      BY <2>1, <3>1, <3>2, <1>5
  <2>4. CASE task[h].at = "preview" /\ Puts(h, "idle", j) /\ Becomes(j, job[j].status)
    BY <2>1, <2>4, BecomesSeen, PutsSeen
  <2>5. CASE task[h].at = "run" /\ Puts(h, "left", j) /\ Becomes(j, "cancelled")
    <3>1. AtWork' = AtWork
      BY <2>5, PutsSeen
    <3>2. Consented' = Consented /\ Display' = [Display EXCEPT ![j] = "over"]
      BY <2>1, <2>5, BecomesSeen DEF ShownAs
    <3>3. QED
      BY <2>1, <3>1, <3>2, <1>4
  <2>6. CASE task[h].at = "run" /\ Puts(h, "idle", j)
             /\ (Becomes(j, "done") \/ Becomes(j, "error"))
    <3>1. <<h, j>> \in AtWork /\ AtWork' = AtWork \ {<<h, j>>}
      BY <2>6, PutsSeen
    <3>2. Consented' = Consented /\ Display' = [Display EXCEPT ![j] = "over"]
      BY <2>1, <2>6, BecomesSeen DEF ShownAs
    <3>3. QED
      BY <2>1, <3>1, <3>2, <1>6
  <2>7. CASE task[h].at = "left" /\ Puts(h, "idle", j) /\ Becomes(j, job[j].status)
    <3>1. <<h, j>> \in AtWork /\ AtWork' = AtWork \ {<<h, j>>}
      BY <2>7, PutsSeen
    <3>2. Consented' = Consented /\ Display' = Display
      BY <2>1, <2>7, BecomesSeen
    <3>3. QED
      BY <2>1, <3>1, <3>2, <1>6
  <2>8. QED
    BY <2>1, <2>2, <2>3, <2>4, <2>5, <2>6, <2>7 DEF CommandEffect
<1>9. ASSUME NEW j \in Jobs, Cancel(j)
      PROVE  Same \/ Step(j)
  <2>1. AtWork' = AtWork
    BY <1>9, CancelDoes DEF AtWork, OpsInv
  <2>2. CASE job[j].status = "running"
    <3>1. Becomes(j, "cancelled")
      BY <1>9, <2>2, CancelDoes DEF OpsInv
    <3>2. Consented' = Consented /\ Display' = [Display EXCEPT ![j] = "over"]
      BY <3>1, BecomesSeen DEF ShownAs
    <3>3. QED
      BY <2>1, <3>2, <1>4
  <2>3. CASE job[j].status # "running"
    <3>1. Becomes(j, job[j].status)
      BY <1>9, <2>3, CancelDoes DEF OpsInv
    <3>2. QED
      BY <2>1, <3>1, BecomesSeen
  <2>4. QED
    BY <2>2, <2>3
<1>10. ASSUME NEW j \in Jobs, NEW h \in Handlers, CreateAndPreview(h, j)
       PROVE  Same
  <2>1. job[j].status = "none" /\ task[h].at = "idle" /\ Becomes(j, "preview")
        /\ Puts(h, "preview", j)
    BY <1>10, CreateDoes DEF OpsInv
  <2>2. Consented' = Consented
    BY <2>1, BecomesSeen
  <2>3. AtWork' = AtWork
    BY <2>1, PutsSeen
  <2>4. \A k \in Jobs : Shown(k)' = Shown(k)
    BY <2>1 DEF Becomes, Shown
  <2>5. QED
    BY <2>2, <2>3, <2>4 DEF Display
<1>11. ASSUME NEW j \in Jobs, NEW h \in Handlers, NEW g \in BOOLEAN, ConfirmAndRun(h, j, g)
       PROVE  Same \/ Step(j)
  <2>1. Confirms(j, g) /\ task[h].at = "idle" /\ OpsTypeOK
    BY <1>11, ConfirmDoes DEF OpsInv
  <2>2. CASE /\ ~MayRun(j, job[j].guard \/ g)
             /\ \A k \in Jobs : job'[k].status = job[k].status
             /\ task' = task
    <3>1. Consented' = Consented
      BY <2>1, <2>2, ConfirmsSeen
    <3>2. AtWork' = AtWork /\ Display' = Display
      BY <2>2 DEF AtWork, Display, Shown
    <3>3. QED
      BY <3>1, <3>2
  <2>3. CASE /\ MayRun(j, job[j].guard \/ g)
             /\ \A k \in Jobs : job'[k].status = IF k = j THEN "running" ELSE job[k].status
             /\ Puts(h, "run", j)
    <3>1. Consented' = Consented \cup {j} /\ j \in Consented'
      BY <2>1, <2>3, ConfirmsSeen
    <3>2. AtWork' = AtWork \cup {<<h, j>>}
      BY <2>1, <2>3, PutsSeen
    <3>3. \A k \in Jobs : Shown(k)' = IF k = j THEN "running" ELSE Shown(k)
      BY <2>3 DEF Shown
    <3>4. Display' = [Display EXCEPT ![j] = "running"]
      BY <3>3 DEF Display
    <3>5. QED
      BY <3>1, <3>2, <3>4, <1>7
  <2>4. QED
    BY <1>11, <2>1, <2>2, <2>3, ConfirmDoes
<1>12. ASSUME NEW r \in Readers, ReaderStep(r) \/ \E j \in Jobs : OpenLog(r, j)
       PROVE  Same
  <2>1. UNCHANGED <<job, task>>
    BY <1>12, ReaderType DEF OpsInv
  <2>2. QED
    BY <2>1 DEF Consented, AtWork, Display, Shown
<1>13. CASE UNCHANGED opsVars
  BY <1>13, <1>1 DEF opsVars, Consented, AtWork, Display, Shown
<1>14. CASE OpsNext
  <2>1. Same \/ \E j \in Jobs : Step(j)
    <3>1. CASE Request
      BY <3>1, <1>9, <1>10, <1>11, <1>12 DEF Request
    <3>2. CASE \E h \in Handlers : CommandStep(h)
      BY <3>2, <1>8
    <3>3. CASE \E r \in Readers : ReaderStep(r)
      BY <3>3, <1>12
    <3>4. QED
      BY <1>14, <3>1, <3>2, <3>3 DEF OpsNext
  <2>2. QED
    BY <2>1, <1>1, <1>3
<1>15. QED
  BY <1>13, <1>14

(***************************************************************************)
(* The ops runner keeps its promise, for any jobs, requests and sockets:   *)
(* the command of a destructive job starts only once its guard has passed, *)
(* whatever previews, cancels and confirmations of other requests arrive   *)
(* in between, and a job shown as running has a command at work.           *)
(***************************************************************************)
THEOREM OpsImplements == OpsSpec => KeepsPromise
<1>1. OpsInit => Promise!Init
  BY DEF OpsInit, Promise!Init, Shown
<1>2. OpsInv /\ OpsInv' /\ [OpsNext]_opsVars => [Promise!Next]_(Promise!specVars)
  BY StepKept
<1>3. QED
  BY <1>1, <1>2, OpsCorrect, PTL DEF OpsSpec, KeepsPromise, Promise!Spec
=============================================================================
