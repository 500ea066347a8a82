------------------------------ MODULE OpsJobs -------------------------------
(***************************************************************************)
(* Mission Control's ops jobs: pibot/mc/ops.py and routes_ops.py.  Every   *)
(* request is a coroutine on one event loop, so what happens between two   *)
(* awaits is one action; a handler that iterates a command's output is     *)
(* resumed once per line.  Nothing keeps two requests off the same job.    *)
(***************************************************************************)
EXTENDS Naturals, Sequences, SequencesExt

CONSTANTS
  Jobs,         \* the ids handed out by create_job
  Destructive,  \* the jobs whose kind is in DESTRUCTIVE
  Handlers,     \* requests that may be served at once
  Readers,      \* sockets on /api/ops/{id}/log
  MaxLog,       \* bound: lines a log holds
  MaxRuns       \* bound: confirm requests

ASSUME OpsAssumption ==
  /\ Jobs # {}
  /\ Destructive \subseteq Jobs
  /\ MaxLog \in Nat /\ MaxRuns \in Nat

Statuses == {"none", "queued", "preview", "awaiting-confirm", "running",
             "done", "error", "cancelled"}
Live == {"queued", "preview", "running", "awaiting-confirm"}

VARIABLES
  job,     \* each job's record, see JobRecord; status "none" before its POST
  task,    \* what each handler is doing, see TaskRecord
  reader,  \* each log socket, see ReaderRecord
  runs     \* history: the handlers of the confirm requests so far

opsVars == <<job, task, reader, runs>>

\* A line of a log is named by the handler that logged it.
JobRecord == [status: Statuses, confirmed: BOOLEAN, guard: BOOLEAN,
              cancel: BOOLEAN, log: Seq(Handlers)]

\* "left": the handler returned on a cancel and its command still runs.
TaskRecord == [at: {"idle", "preview", "run", "left"}, job: Jobs]

\* got: the lines sent; fresh: the log was not cleared under the cursor.
ReaderRecord == [at: {"closed", "stream", "drain", "ended"}, job: Jobs,
                 got: Seq(Handlers), cursor: Nat, fresh: BOOLEAN]

OpsTypeOK ==
  /\ job \in [Jobs -> JobRecord]
  /\ task \in [Handlers -> TaskRecord]
  /\ reader \in [Readers -> ReaderRecord]
  /\ runs \in Seq(Handlers)

AnyJob == CHOOSE j \in Jobs : TRUE

OpsInit ==
  /\ job = [j \in Jobs |-> [status |-> "none", confirmed |-> FALSE,
              guard |-> FALSE, cancel |-> FALSE, log |-> <<>>]]
  /\ task = [h \in Handlers |-> [at |-> "idle", job |-> AnyJob]]
  /\ reader = [r \in Readers |-> [at |-> "closed", job |-> AnyJob,
                 got |-> <<>>, cursor |-> 0, fresh |-> TRUE]]
  /\ runs = <<>>

-----------------------------------------------------------------------------
Exists(j) == job[j].status # "none"

Set(j, st) == [job EXCEPT ![j].status = st]

AtRest(h) == task[h].at = "idle"

Does(h, at, j) == task' = [task EXCEPT ![h] = [at |-> at, job |-> j]]

Returns(h) == Does(h, "idle", task[h].job)

\* log.clear(): the cursors of open sockets are not moved.
Unseats(j) ==
  reader' = [r \in Readers |->
     IF reader[r].job = j /\ reader[r].cursor > 0
     THEN [reader[r] EXCEPT !.fresh = FALSE] ELSE reader[r]]

\* POST /api/ops/{kind}: create_job, then preview up to its first await.
CreateAndPreview(h, j) ==
  /\ AtRest(h) /\ ~Exists(j)
  /\ job' = Set(j, "preview")
  /\ Does(h, "preview", j)
  /\ UNCHANGED <<reader, runs>>

Log(h) == [job EXCEPT ![task[h].job].log = Append(@, h)]

HasRoom(h) == Len(job[task[h].job].log) < MaxLog

PreviewLine(h) ==
  /\ task[h].at = "preview" /\ HasRoom(h)
  /\ job' = Log(h)
  /\ UNCHANGED <<task, reader, runs>>

\* Whatever happened meanwhile, the job waits for a confirmation again.
PreviewEnds(h) ==
  /\ task[h].at = "preview"
  /\ job' = Set(task[h].job, "awaiting-confirm")
  /\ Returns(h)
  /\ UNCHANGED <<reader, runs>>

\* The dry run cannot be spawned: the request ends with a 500.
PreviewFails(h) ==
  /\ task[h].at = "preview"
  /\ Returns(h)
  /\ UNCHANGED <<job, reader, runs>>

MayRunConfirmed(j, guard) == TRUE

\* OpsRunner._assert_guards
MayRun(j, guard) == j \in Destructive => guard

(***************************************************************************)
(* POST /api/ops/{id}/confirm: confirm() and run() up to the first await.  *)
(* A guard once passed stays passed; confirmed is set in any case, so      *)
(* _assert_guards can only refuse for the guard.                           *)
(***************************************************************************)
ConfirmAndRun(h, j, guardPassed) ==
  LET guard == job[j].guard \/ guardPassed
      confirmed == [job[j] EXCEPT !.confirmed = TRUE, !.guard = guard]
  IN /\ AtRest(h) /\ Exists(j) /\ Len(runs) < MaxRuns
     /\ runs' = Append(runs, h)
     /\ \/ /\ ~MayRun(j, guard)
           /\ job' = [job EXCEPT ![j] = confirmed]
           /\ UNCHANGED <<task, reader>>
        \/ /\ MayRun(j, guard)
           /\ job' = [job EXCEPT ![j] = [confirmed EXCEPT
                         !.status = "running", !.log = <<>>]]
           /\ Does(h, "run", j)
           /\ Unseats(j)

RunLine(h) ==
  /\ task[h].at = "run"
  /\ ~job[task[h].job].cancel /\ HasRoom(h)
  /\ job' = Log(h)
  /\ UNCHANGED <<task, reader, runs>>

\* A cancel is noticed when the command prints its next line.
RunSeesCancel(h) ==
  /\ task[h].at = "run" /\ job[task[h].job].cancel
  /\ job' = Set(task[h].job, "cancelled")
  /\ Does(h, "left", task[h].job)
  /\ UNCHANGED <<reader, runs>>

\* The command's output ends; its exit status is not looked at.
RunEnds(h) ==
  /\ task[h].at = "run"
  /\ job' = Set(task[h].job, "done")
  /\ Returns(h)
  /\ UNCHANGED <<reader, runs>>

RunFails(h) ==
  /\ task[h].at = "run" /\ HasRoom(h)
  /\ job' = [Log(h) EXCEPT ![task[h].job].status = "error"]
  /\ Returns(h)
  /\ UNCHANGED <<reader, runs>>

LeftCommandEnds(h) ==
  /\ task[h].at = "left"
  /\ Returns(h)
  /\ UNCHANGED <<job, reader, runs>>

\* The event stays set: a job cancelled before it runs stops at its first line.
Cancel(j) ==
  /\ Exists(j)
  /\ job' = [job EXCEPT ![j].cancel = TRUE,
               ![j].status = IF @ = "running" THEN "cancelled" ELSE @]
  /\ UNCHANGED <<task, reader, runs>>

-----------------------------------------------------------------------------
Reader(r) == reader[r]
Unread(r) == Reader(r).cursor < Len(job[Reader(r).job].log)
Streams(r) == Reader(r).at \in {"stream", "drain"}

OpenLog(r, j) ==
  /\ Reader(r).at = "closed" /\ Exists(j)
  /\ reader' = [reader EXCEPT ![r].at = "stream", ![r].job = j]
  /\ UNCHANGED <<job, task, runs>>

ReadLine(r) ==
  /\ Streams(r) /\ Unread(r)
  /\ reader' = [reader EXCEPT ![r].cursor = @ + 1,
       ![r].got = Append(@, job[Reader(r).job].log[Reader(r).cursor + 1])]
  /\ UNCHANGED <<job, task, runs>>

SeesEndUndrained(r) ==
  /\ Reader(r).at = "stream" /\ job[Reader(r).job].status \notin Live
  /\ reader' = [reader EXCEPT ![r].at = "ended"]
  /\ UNCHANGED <<job, task, runs>>

SeesDoneOnly(r) ==
  /\ Reader(r).at = "stream" /\ job[Reader(r).job].status \in {"done", "error"}
  /\ reader' = [reader EXCEPT ![r].at = "drain"]
  /\ UNCHANGED <<job, task, runs>>

\* The status is looked at after the sleep; lines logged since are drained.
SeesEnd(r) ==
  /\ Reader(r).at = "stream" /\ job[Reader(r).job].status \notin Live
  /\ reader' = [reader EXCEPT ![r].at = "drain"]
  /\ UNCHANGED <<job, task, runs>>

CloseLog(r) ==
  /\ Reader(r).at = "drain" /\ ~Unread(r)
  /\ reader' = [reader EXCEPT ![r].at = "ended"]
  /\ UNCHANGED <<job, task, runs>>

-----------------------------------------------------------------------------
Request ==
  \E j \in Jobs :
     \/ Cancel(j)
     \/ \E r \in Readers : OpenLog(r, j)
     \/ \E h \in Handlers :
           CreateAndPreview(h, j) \/ \E g \in BOOLEAN : ConfirmAndRun(h, j, g)

CommandStep(h) ==
  \/ PreviewLine(h) \/ PreviewEnds(h) \/ PreviewFails(h)
  \/ RunLine(h) \/ RunSeesCancel(h) \/ RunEnds(h) \/ RunFails(h)
  \/ LeftCommandEnds(h)

ReaderStep(r) == ReadLine(r) \/ SeesEnd(r) \/ CloseLog(r)

OpsNext ==
  \/ Request
  \/ \E h \in Handlers : CommandStep(h)
  \/ \E r \in Readers : ReaderStep(r)

\* The loop resumes the sockets' tasks.  No command has to print or to end.
OpsFair == \A r \in Readers : WF_opsVars(ReaderStep(r))

OpsSpec == OpsInit /\ [][OpsNext]_opsVars

-----------------------------------------------------------------------------
Shown(j) ==
  CASE job[j].status = "running" -> "running"
    [] job[j].status \in {"done", "error", "cancelled"} -> "over"
    [] OTHER -> "pending"

Promise == INSTANCE OpsJobSpec WITH
  consent <- {j \in Jobs : job[j].confirmed /\ (j \in Destructive => job[j].guard)},
  working <- {<<h, task[h].job>> : h \in {k \in Handlers :
                                            task[k].at \in {"run", "left"}}},
  shown <- [j \in Jobs |-> Shown(j)]

(***************************************************************************)
(* The runner implements the promise of OpsJobSpec: no interleaving of     *)
(* previews, confirmations, cancels and runs starts the command of a       *)
(* destructive job whose guard has not passed (ops.py _assert_guards), or  *)
(* leaves a job `running` whose last command has ended or failed.          *)
(***************************************************************************)
KeepsPromise == Promise!Spec

(***************************************************************************)
(* A log socket misses nothing: once it has ended, a reader whose log was  *)
(* not cleared under its cursor has received in order every line of the    *)
(* run, the last ones logged between its final poll and the end of the     *)
(* job included (ops.py stream_log's drain).  A cancel ends the stream at  *)
(* once, while the command may still log, and so does the end of the first *)
(* of two runs.                                                            *)
(***************************************************************************)
\* Where a log holds a line of a handler.
LinesOf(h, log) == {i \in DOMAIN log : log[i] = h}

StreamComplete ==
  \A r \in Readers :
     /\ Reader(r).fresh => IsPrefix(Reader(r).got, job[Reader(r).job].log)
     /\ Reader(r).at = "ended" /\ Reader(r).fresh /\ Len(runs) = 1
        /\ ~job[Reader(r).job].cancel
        => LinesOf(runs[1], Reader(r).got) = LinesOf(runs[1], job[Reader(r).job].log)

(***************************************************************************)
(* No log socket outlives its job: when every command has ended for good   *)
(* with a final status, every open socket is closed by the server.         *)
(***************************************************************************)
StreamsEnd ==
  \A r \in Readers :
     <>[](Reader(r).at # "closed" => job[Reader(r).job].status \notin Live)
       => <>[](Reader(r).at \in {"closed", "ended"})
=============================================================================
