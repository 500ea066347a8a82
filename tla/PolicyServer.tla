---------------------------- MODULE PolicyServer ----------------------------
(***************************************************************************)
(* Mission Control's policy server and fine-tune runs:                     *)
(* pibot/mc/policy_server.py, finetune.py and their routes.  One manager   *)
(* spawns, probes and stops a subprocess; requests are coroutines that     *)
(* share its fields, so each await is a point where another may run.       *)
(***************************************************************************)
EXTENDS Naturals

CONSTANTS
  Servers,   \* subprocesses, one per spawn
  Clients,   \* requests that may be served at once
  TuneRuns,  \* fine-tune runs
  NoServer, NoRun

ASSUME PolicyAssumption == NoServer \notin Servers /\ NoRun \notin TuneRuns

VARIABLES
  proc,      \* _proc
  pstate,    \* _state
  serving,   \* _checkpoint: the run it belongs to, NoRun for one not of a run
  process,   \* the operating system's view of each subprocess
  foreign,   \* somebody else listens on the port, see ForeignBinds
  disturbed, \* history, see StatusTruthful: what excuses a wrong status
  client,    \* what each request is doing, see ClientRecord
  tune       \* the rows of finetune_runs, see TuneRecord

polVars == <<proc, pstate, serving, process, foreign, disturbed, client, tune>>

\* "loading": spawned, its port not bound yet; "bound": answers the probe.
ProcessState == {"unborn", "loading", "bound", "dead"}

\* "stopping" awaits the exit of the `victim` it has asked to end, "reaping" of
\* the one it has killed; then it starts a server if `then`.
ClientRecord == [at: {"idle", "stopping", "reaping", "spawning", "probing"},
                 then: BOOLEAN, run: TuneRuns \cup {NoRun},
                 victim: Servers \cup {NoServer}]

\* What _run_training awaits: the creation of the trainer, or its exit.  One that
\* has filled the pipe nobody reads is "blocked" in its next line of output.
TrainerState == {"none", "spawning", "working", "blocked", "exited"}

\* patched and handed are history: a PATCH came, the checkpoint was given to a
\* spawned server.
TuneRecord == [status: {"none", "queued", "running", "done", "error"},
               output: BOOLEAN, served: BOOLEAN, trainer: TrainerState,
               patched: BOOLEAN, handed: BOOLEAN]

PolicyTypeOK ==
  /\ proc \in Servers \cup {NoServer}
  /\ pstate \in {"stopped", "starting", "running", "error"}
  /\ serving \in TuneRuns \cup {NoRun}
  /\ process \in [Servers -> ProcessState]
  /\ foreign \in BOOLEAN /\ disturbed \in BOOLEAN
  /\ client \in [Clients -> ClientRecord]
  /\ tune \in [TuneRuns -> TuneRecord]

PolicyInit ==
  /\ proc = NoServer /\ pstate = "stopped" /\ serving = NoRun
  /\ process = [s \in Servers |-> "unborn"]
  /\ foreign \in BOOLEAN /\ disturbed = FALSE
  /\ client = [c \in Clients |-> [at |-> "idle", then |-> FALSE, run |-> NoRun, victim |-> NoServer]]
  /\ tune = [r \in TuneRuns |->
       [status |-> "none", output |-> FALSE, served |-> FALSE,
        trainer |-> "none", patched |-> FALSE, handed |-> FALSE]]

Alive == {s \in Servers : process[s] \in {"loading", "bound"}}
PortTaken == foreign \/ \E s \in Servers : process[s] = "bound"

\* What a request is doing that has just been taken up.
Begins(c, at, then, r) ==
  client' = [client EXCEPT ![c] = [at |-> at, then |-> then, run |-> r, victim |-> proc]]

Goes(c, at) == client' = [client EXCEPT ![c].at = at]

Forget == proc' = NoServer /\ pstate' = "stopped" /\ serving' = NoRun

-----------------------------------------------------------------------------
\* stop() up to its await; the terminated process may take its time to die.
BeginStop(c, then, r) ==
  /\ proc # NoServer
  /\ Begins(c, "stopping", then, r)
  /\ UNCHANGED <<proc, pstate, serving, process, foreign, disturbed, tune>>

StopRequest(c) ==
  /\ client[c].at = "idle"
  /\ \/ BeginStop(c, FALSE, NoRun)
     \/ /\ proc = NoServer
        /\ pstate' = "stopped"
        /\ UNCHANGED <<proc, serving, process, foreign, disturbed, client, tune>>

StartBeside(c, r) ==
  /\ Begins(c, "spawning", TRUE, r)
  /\ UNCHANGED <<proc, pstate, serving, process, foreign, disturbed, tune>>

\* start(): an old server is stopped first.
Start(c, r) ==
  \/ BeginStop(c, TRUE, r)
  \/ /\ proc = NoServer
     /\ Begins(c, "spawning", TRUE, r)
     /\ UNCHANGED <<proc, pstate, serving, process, foreign, disturbed, tune>>

StartRequest(c) == client[c].at = "idle" /\ Start(c, NoRun)

\* POST /api/finetune/{id}/serve.
ServeRequest(c, r) == client[c].at = "idle" /\ tune[r].output /\ Start(c, r)

\* The end of stop(): the fields are cleared whatever _proc has become.
Stopped(c) ==
  /\ Forget
  /\ Goes(c, IF client[c].then THEN "spawning" ELSE "idle")

\* wait_for(self._proc.wait()) returns: the process has exited.
StopAwaited(c) ==
  /\ client[c].at = "stopping" /\ process[client[c].victim] = "dead"
  /\ Stopped(c)
  /\ UNCHANGED <<process, foreign, disturbed, tune>>

\* It does not within 3 s: the group of the process there is now is killed and
\* its exit awaited; if another stop has cleared the field, the request fails.
StopTimesOut(c) ==
  /\ client[c].at = "stopping" /\ process[client[c].victim] # "dead"
  /\ client' = [client EXCEPT ![c].at = IF proc = NoServer THEN "idle" ELSE "reaping",
                             ![c].victim = proc]
  /\ UNCHANGED <<proc, pstate, serving, process, foreign, disturbed, tune>>

StopReaps(c) ==
  /\ client[c].at = "reaping" /\ process[client[c].victim] = "dead"
  /\ Stopped(c)
  /\ UNCHANGED <<process, foreign, disturbed, tune>>

\* Not even the killed process has exited after 2 s: TimeoutError leaves stop(),
\* and with it the request, before any field is cleared.
ReapTimesOut(c) ==
  /\ client[c].at = "reaping" /\ process[client[c].victim] # "dead"
  /\ Goes(c, "idle")
  /\ disturbed' = TRUE
  /\ UNCHANGED <<proc, pstate, serving, process, foreign, tune>>

\* The subprocess is created: the fields describe it, the probe begins.
Spawn(c, s) ==
  /\ client[c].at = "spawning" /\ process[s] = "unborn"
  /\ process' = [process EXCEPT ![s] = "loading"]
  /\ proc' = s /\ pstate' = "starting" /\ serving' = client[c].run
  /\ disturbed' = foreign
  /\ Goes(c, "probing")
  /\ tune' = IF client[c].run = NoRun THEN tune
             ELSE [tune EXCEPT ![client[c].run].handed = TRUE]
  /\ UNCHANGED foreign

SpawnFailsServed(c) ==
  /\ client[c].at = "spawning"
  /\ Goes(c, "idle")
  /\ tune' = [r \in TuneRuns |-> [tune[r] EXCEPT !.served = @ \/ client[c].run = r]]
  /\ UNCHANGED <<proc, pstate, serving, process, foreign, disturbed>>

\* It cannot be: the request ends with a 500.
SpawnFails(c) ==
  /\ client[c].at = "spawning"
  /\ Goes(c, "idle")
  /\ UNCHANGED <<proc, pstate, serving, process, foreign, disturbed, tune>>

\* start() returns; a serve request then marks its run, whatever the probe said.
Probed(c, verdict) ==
  /\ client[c].at = "probing"
  /\ pstate' = verdict
  /\ Goes(c, "idle")
  /\ tune' = IF client[c].run = NoRun THEN tune
             ELSE [tune EXCEPT ![client[c].run].served = TRUE]
  /\ UNCHANGED <<proc, serving, process, foreign, disturbed>>

\* Any listener on the port satisfies the probe.
ProbeAnswered(c) == PortTaken /\ Probed(c, "running")

ProbeTimesOutNamed(c) == Probed(c, "timeout")

ProbeTimesOut(c) == Probed(c, "error")

-----------------------------------------------------------------------------
\* The subprocesses: one binds the port if it is free, or dies.
ServerBinds(s) ==
  /\ process[s] = "loading" /\ ~PortTaken
  /\ process' = [process EXCEPT ![s] = "bound"]
  /\ UNCHANGED <<proc, pstate, serving, foreign, disturbed, client, tune>>

\* It dies, killed, asked to end, or of itself.
ServerDies(s) ==
  /\ s \in Alive
  /\ process' = [process EXCEPT ![s] = "dead"]
  /\ disturbed' = TRUE
  /\ UNCHANGED <<proc, pstate, serving, foreign, client, tune>>

\* Another program takes the port or leaves it.  One that has it from the start
\* may be the server of an earlier Mission Control: each has its own session and
\* outlives the program that spawned it.
ForeignBinds ==
  /\ ~PortTaken
  /\ foreign' = TRUE /\ disturbed' = TRUE
  /\ UNCHANGED <<proc, pstate, serving, process, client, tune>>

ForeignLeaves ==
  /\ foreign
  /\ foreign' = FALSE
  /\ UNCHANGED <<proc, pstate, serving, process, disturbed, client, tune>>

-----------------------------------------------------------------------------
\* POST /api/finetune with a configured trainer: the row is inserted, marked
\* running, and the training task created without an await between.
CreateRun(r) ==
  /\ tune[r].status = "none"
  /\ \/ tune' = [tune EXCEPT ![r].status = "running", ![r].trainer = "spawning"]
     \/ tune' = [tune EXCEPT ![r].status = "queued"]
  /\ UNCHANGED <<proc, pstate, serving, process, foreign, disturbed, client>>

TrainerGoes(r, from, to) ==
  /\ tune[r].trainer \in from
  /\ tune' = [tune EXCEPT ![r].trainer = to]
  /\ UNCHANGED <<proc, pstate, serving, process, foreign, disturbed, client>>

TrainingVanishes(r) == TrainerGoes(r, {"spawning"}, "none")

\* The trainer cannot be created.
TrainingRaises(r) ==
  /\ tune[r].trainer = "spawning"
  /\ tune' = [tune EXCEPT ![r].status = "error", ![r].trainer = "none"]
  /\ UNCHANGED <<proc, pstate, serving, process, foreign, disturbed, client>>

TrainerSpawned(r) == TrainerGoes(r, {"spawning"}, "working")

\* It writes more than its pipe holds, and nobody reads it.
TrainerBlocks(r) == TrainerGoes(r, {"working"}, "blocked")

TrainerExits(r) == TrainerGoes(r, {"working"}, "exited")

TrainerKilled(r) == TrainerGoes(r, {"blocked"}, "exited")

\* proc.wait() returns: the row gets the outcome.
TrainingEnds(r) ==
  /\ tune[r].trainer = "exited"
  /\ \E st \in {"done", "error"}, out \in {tune[r].output, TRUE} :
        tune' = [tune EXCEPT ![r].status = st, ![r].trainer = "none", ![r].output = out]
  /\ UNCHANGED <<proc, pstate, serving, process, foreign, disturbed, client>>

\* PATCH /api/finetune/{id}: either field, in any state, an empty checkpoint too.
PatchRun(r) ==
  /\ tune[r].status # "none"
  /\ \E st \in {tune[r].status, "running", "done"}, out \in BOOLEAN :
        tune' = [tune EXCEPT ![r].status = st, ![r].output = out, ![r].patched = TRUE]
  /\ UNCHANGED <<proc, pstate, serving, process, foreign, disturbed, client>>

-----------------------------------------------------------------------------
ManagerStep(c) ==
  \/ StopAwaited(c) \/ StopTimesOut(c) \/ StopReaps(c) \/ ReapTimesOut(c)
  \/ \E s \in Servers : Spawn(c, s)
  \/ SpawnFails(c) \/ ProbeAnswered(c) \/ ProbeTimesOut(c)

TrainerStep(r) ==
  TrainerSpawned(r) \/ TrainingRaises(r) \/ TrainerExits(r) \/ TrainingEnds(r)

PolicyNext ==
  \/ \E c \in Clients :
        \/ StopRequest(c) \/ StartRequest(c) \/ ManagerStep(c)
        \/ \E r \in TuneRuns : ServeRequest(c, r)
  \/ \E s \in Servers : ServerBinds(s) \/ ServerDies(s)
  \/ ForeignBinds \/ ForeignLeaves
  \/ \E r \in TuneRuns :
        \/ CreateRun(r) \/ TrainerStep(r) \/ PatchRun(r)
        \/ TrainerBlocks(r) \/ TrainerKilled(r)

\* The manager's awaits are all bounded by timeouts; a trainer that can write
\* ends, one that is blocked need not.
PolicyFair ==
  /\ \A c \in Clients : WF_polVars(ManagerStep(c))
  /\ \A r \in TuneRuns : WF_polVars(TrainerStep(r))

PolicySpec == PolicyInit /\ [][PolicyNext]_polVars

-----------------------------------------------------------------------------
Quiet == \A c \in Clients : client[c].at = "idle"

(***************************************************************************)
(* There is one policy server at most, the manager's: "Manages a single    *)
(* local policy-server subprocess" (policy_server.py:57).                  *)
(***************************************************************************)
OneServer == Quiet => Alive \subseteq {proc}

(***************************************************************************)
(* What status() reports when no request is under way: a running server    *)
(* exists and is the one with the reported checkpoint, a stopped manager   *)
(* reports no checkpoint, and no other server is left alive.  The state is *)
(* only as good as the probe and the stop: it may be wrong once, since the *)
(* last spawn, the server died, which nothing watches for, somebody else   *)
(* had the port, whose answer the probe takes for the server's, or a       *)
(* stop() raised.                                                          *)
(***************************************************************************)
StatusTruthful ==
  /\ OneServer
  /\ Quiet =>
       /\ pstate = "running" => proc # NoServer /\ (disturbed \/ process[proc] = "bound")
       /\ pstate = "stopped" => proc = NoServer /\ serving = NoRun
       /\ pstate # "starting"

(***************************************************************************)
(* `served` means that the checkpoint has been handed to a server that was *)
(* spawned (finetune.py:8): a start that raised leaves the run unserved.   *)
(***************************************************************************)
ServedWasHanded == \A r \in TuneRuns : tune[r].served => tune[r].handed

Unfinished(r) == tune[r].status = "running" /\ ~tune[r].patched

(***************************************************************************)
(* Every request to the manager is answered, and a launched run leaves     *)
(* `running` unless someone patched it, also when the trainer cannot be    *)
(* spawned; except while its trainer is blocked by its own output.         *)
(***************************************************************************)
RequestsAndRunsSettle ==
  /\ \A c \in Clients : client[c].at # "idle" ~> client[c].at = "idle"
  /\ \A r \in TuneRuns :
       Unfinished(r) ~> (~Unfinished(r) \/ tune[r].trainer = "blocked")

(***************************************************************************)
(* The lifecycle as documented, queued, running, then done or error        *)
(* (finetune.py:7), of every trainer that would end if its output were     *)
(* read: routes_finetune.py:84 gives it a pipe that nobody reads.          *)
(***************************************************************************)
RunsSettle == \A r \in TuneRuns : Unfinished(r) ~> ~Unfinished(r)
=============================================================================
