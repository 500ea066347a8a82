---------------------------- MODULE MissionProofs ---------------------------
(***************************************************************************)
(* Theorems about Mission Control: its policy server (PolicyServer), its   *)
(* drive relay (ControlRelay), its link to a robot (MissionLink), its      *)
(* video path (VideoPath), and the whole of MCMission, which inherits what *)
(* is proved about each part.                                              *)
(***************************************************************************)
EXTENDS MCMission, OpsJobsProofs, RecordingProofs, FiniteSetTheorems

-----------------------------------------------------------------------------
(* The policy server, for any number of requests, subprocesses and runs *)

USE PolicyAssumption

\* A request that awaits the probe of a server has handed it its checkpoint.
ProbedWasHanded ==
  \A c \in Clients : client[c].at = "probing" =>
     (client[c].run = NoRun \/ tune[client[c].run].handed)

PolicyInv == PolicyTypeOK /\ ProbedWasHanded /\ ServedWasHanded

-----------------------------------------------------------------------------
(* The policy server: what a step does to runs and requests *)

\* No run loses its history, and only those in R are marked served.
Marks(R) ==
  /\ tune' \in [TuneRuns -> TuneRecord]
  /\ \A r \in TuneRuns :
       /\ tune[r].handed => tune'[r].handed
       /\ tune'[r].served => tune[r].served \/ r \in R

\* A record with the history of another.
SameHistory(new, rec) ==
  new \in TuneRecord /\ new.handed = rec.handed /\ new.served = rec.served

\* The record of a run with fields changed that are not its history.
LEMMA TuneType ==
  ASSUME NEW rec \in TuneRecord, NEW st \in {"queued", "running", "done", "error"},
         NEW out \in BOOLEAN, NEW b \in BOOLEAN, NEW w \in TrainerState
  PROVE  /\ SameHistory([rec EXCEPT !.status = st, !.trainer = w], rec)
         /\ SameHistory([rec EXCEPT !.status = st], rec)
         /\ SameHistory([rec EXCEPT !.trainer = w], rec)
         /\ SameHistory([rec EXCEPT !.status = st, !.trainer = w, !.output = out], rec)
         /\ SameHistory([rec EXCEPT !.status = st, !.output = out, !.patched = b], rec)
  BY DEF TuneRecord, SameHistory

\* What happens to a run but for its being served.
TuneStep(r) ==
  CreateRun(r) \/ TrainerStep(r) \/ PatchRun(r) \/ TrainerBlocks(r) \/ TrainerKilled(r)

\* The trainer and the requests about a run mark nothing served.
LEMMA TrainerMarks ==
  ASSUME PolicyTypeOK, NEW r \in TuneRuns, TuneStep(r)
  PROVE  Marks({}) /\ UNCHANGED <<proc, pstate, serving, process, foreign, disturbed, client>>
<1>1. tune \in [TuneRuns -> TuneRecord] /\ tune[r] \in TuneRecord
      /\ tune[r].output \in BOOLEAN
  BY DEF PolicyTypeOK, TuneRecord
<1>2. ASSUME NEW new, SameHistory(new, tune[r]), tune' = [tune EXCEPT ![r] = new]
      PROVE  Marks({})
  BY <1>1, <1>2 DEF SameHistory, Marks
<1>3. CASE CreateRun(r)
  <2>1. \/ tune' = [tune EXCEPT ![r] = [tune[r] EXCEPT !.status = "running", !.trainer = "spawning"]]
        \/ tune' = [tune EXCEPT ![r] = [tune[r] EXCEPT !.status = "queued"]]
    BY <1>1, <1>3 DEF CreateRun
  <2>2. /\ SameHistory([tune[r] EXCEPT !.status = "running", !.trainer = "spawning"], tune[r])
        /\ SameHistory([tune[r] EXCEPT !.status = "queued"], tune[r])
    BY <1>1, TuneType DEF TrainerState
  <2>3. QED
    BY <1>2, <1>3, <2>1, <2>2 DEF CreateRun
<1>4. CASE TrainingEnds(r)
  <2>1. PICK st \in {"done", "error"}, out \in BOOLEAN :
          tune' = [tune EXCEPT ![r] =
             [tune[r] EXCEPT !.status = st, !.trainer = "none", !.output = out]]
    <3>1. PICK st \in {"done", "error"}, out \in {tune[r].output, TRUE} :
            tune' = [tune EXCEPT ![r].status = st, ![r].trainer = "none", ![r].output = out]
      BY <1>4 DEF TrainingEnds
    <3>2. out \in BOOLEAN
      BY <1>1, <3>1
    <3>3. tune' = [tune EXCEPT ![r] =
             [tune[r] EXCEPT !.status = st, !.trainer = "none", !.output = out]]
      BY <1>1, <3>1
    <3>4. QED
      BY <3>2, <3>3
  <2>2. SameHistory([tune[r] EXCEPT !.status = st, !.trainer = "none", !.output = out], tune[r])
    BY <1>1, TuneType DEF TrainerState
  <2>3. QED
    BY <1>2, <1>4, <2>1, <2>2 DEF TrainingEnds
<1>5. CASE TrainingRaises(r)
  <2>1. tune' = [tune EXCEPT ![r] = [tune[r] EXCEPT !.status = "error", !.trainer = "none"]]
    BY <1>1, <1>5 DEF TrainingRaises
  <2>2. SameHistory([tune[r] EXCEPT !.status = "error", !.trainer = "none"], tune[r])
    BY <1>1, TuneType DEF TrainerState
  <2>3. QED
    BY <1>2, <1>5, <2>1, <2>2 DEF TrainingRaises
<1>6. CASE PatchRun(r)
  <2>1. tune[r].status \in {"queued", "running", "done", "error"}
    BY <1>1, <1>6 DEF PatchRun, TuneRecord
  <2>2. PICK st \in {tune[r].status, "running", "done"}, out \in BOOLEAN :
          tune' = [tune EXCEPT ![r] =
             [tune[r] EXCEPT !.status = st, !.output = out, !.patched = TRUE]]
    <3>1. PICK st \in {tune[r].status, "running", "done"}, out \in BOOLEAN :
            tune' = [tune EXCEPT ![r].status = st, ![r].output = out, ![r].patched = TRUE]
      BY <1>6 DEF PatchRun
    <3>2. QED
      BY <1>1, <3>1
  <2>3. SameHistory([tune[r] EXCEPT !.status = st, !.output = out, !.patched = TRUE], tune[r])
    <3>1. "none" \in TrainerState
      BY DEF TrainerState
    <3>2. QED
      BY <1>1, <2>1, <3>1, TuneType
  <2>4. QED
    BY <1>2, <1>6, <2>2, <2>3 DEF PatchRun
<1>7. ASSUME NEW from, NEW to \in TrainerState, TrainerGoes(r, from, to)
      PROVE  Marks({}) /\ UNCHANGED <<proc, pstate, serving, process, foreign, disturbed, client>>
  <2>1. tune' = [tune EXCEPT ![r] = [tune[r] EXCEPT !.trainer = to]]
    BY <1>1, <1>7 DEF TrainerGoes
  <2>2. SameHistory([tune[r] EXCEPT !.trainer = to], tune[r])
    BY <1>1, <1>7, TuneType
  <2>3. QED
    BY <1>2, <1>7, <2>1, <2>2 DEF TrainerGoes
<1>8. QED
  BY <1>3, <1>4, <1>5, <1>6, <1>7
     DEF TuneStep, TrainerStep, TrainerSpawned, TrainerBlocks, TrainerExits, TrainerKilled,
         TrainerState

\* Request `c` goes to `at` for run `r` and waits for `v`, and no other moves.
Moves(c, at, r, v) ==
  /\ client' \in [Clients -> ClientRecord]
  /\ client'[c].at = at /\ client'[c].run = r /\ client'[c].victim = v
  /\ \A d \in Clients : d # c => client'[d] = client[d]

\* A request that goes on keeps what it is about.
LEMMA GoesMoves ==
  ASSUME PolicyTypeOK, NEW c \in Clients,
         NEW at \in {"idle", "stopping", "reaping", "spawning", "probing"}
  PROVE  /\ Goes(c, at) => Moves(c, at, client[c].run, client[c].victim)
         /\ client' = [client EXCEPT ![c].at = at, ![c].victim = proc]
              => Moves(c, at, client[c].run, proc)
         /\ \A then \in BOOLEAN, r \in TuneRuns \cup {NoRun} :
              Begins(c, at, then, r) => Moves(c, at, r, proc)
<1>1. client \in [Clients -> ClientRecord] /\ client[c] \in ClientRecord
      /\ proc \in Servers \cup {NoServer}
  BY DEF PolicyTypeOK
<1>2. [client[c] EXCEPT !.at = at] \in ClientRecord
      /\ [client[c] EXCEPT !.at = at, !.victim = proc] \in ClientRecord
  BY <1>1 DEF ClientRecord
<1>3. Goes(c, at) => Moves(c, at, client[c].run, client[c].victim)
  BY <1>1, <1>2 DEF Goes, Moves, ClientRecord
<1>4. ASSUME client' = [client EXCEPT ![c].at = at, ![c].victim = proc]
      PROVE  Moves(c, at, client[c].run, proc)
  <2>1. client' = [client EXCEPT ![c] = [client[c] EXCEPT !.at = at, !.victim = proc]]
    BY <1>1, <1>4
  <2>2. QED
    BY <1>1, <1>2, <2>1 DEF Moves, ClientRecord
<1>5. ASSUME NEW then \in BOOLEAN, NEW r \in TuneRuns \cup {NoRun}, Begins(c, at, then, r)
      PROVE  Moves(c, at, r, proc)
  <2>1. [at |-> at, then |-> then, run |-> r, victim |-> proc] \in ClientRecord
    BY <1>1 DEF ClientRecord
  <2>2. QED
    BY <1>1, <1>5, <2>1 DEF Moves, Begins
<1>6. QED
  BY <1>3, <1>4, <1>5

\* A request that moves anywhere but to the probe keeps the invariant.
LEMMA QuietMove ==
  ASSUME PolicyInv, NEW c \in Clients, NEW r, NEW v, Marks({}), PolicyTypeOK',
         NEW at, at # "probing", Moves(c, at, r, v)
  PROVE  PolicyInv'
<1>1. ASSUME NEW d \in Clients, client'[d].at = "probing"
      PROVE  client'[d].run = NoRun \/ tune'[client'[d].run].handed
  <2>1. d # c /\ client'[d] = client[d]
    BY <1>1 DEF Moves
  <2>2. client[d].run \in TuneRuns \cup {NoRun}
    BY DEF PolicyInv, PolicyTypeOK, ClientRecord
  <2>3. QED
    BY <1>1, <2>1, <2>2 DEF PolicyInv, ProbedWasHanded, Marks
<1>2. QED
  BY <1>1 DEF PolicyInv, ProbedWasHanded, ServedWasHanded, Marks

-----------------------------------------------------------------------------
(* The policy server: its steps *)

\* The runs change and the requests do not.
LEMMA TuneStepKeeps ==
  ASSUME PolicyInv, NEW r \in TuneRuns, TuneStep(r)
  PROVE  PolicyInv'
<1>1. Marks({}) /\ UNCHANGED <<proc, pstate, serving, process, foreign, disturbed, client>>
  BY TrainerMarks DEF PolicyInv
<1>2. PolicyTypeOK'
  BY <1>1 DEF PolicyInv, PolicyTypeOK, Marks
<1>3. \A c \in Clients : client[c].run \in TuneRuns \cup {NoRun}
  BY DEF PolicyInv, PolicyTypeOK, ClientRecord
<1>4. QED
  BY <1>1, <1>2, <1>3 DEF PolicyInv, ProbedWasHanded, ServedWasHanded, Marks

\* A subprocess binds its port or dies, or somebody else takes or leaves it.
LEMMA ServerKeeps ==
  ASSUME PolicyInv,
         \/ \E s \in Servers : ServerBinds(s) \/ ServerDies(s)
         \/ ForeignBinds \/ ForeignLeaves
  PROVE  PolicyInv'
<1>1. process' \in [Servers -> ProcessState] /\ disturbed' \in BOOLEAN /\ foreign' \in BOOLEAN
      /\ UNCHANGED <<proc, pstate, serving, client, tune>>
  BY DEF PolicyInv, PolicyTypeOK, ServerBinds, ServerDies, ForeignBinds, ForeignLeaves, ProcessState
<1>2. QED
  BY <1>1 DEF PolicyInv, PolicyTypeOK, ProbedWasHanded, ServedWasHanded

\* A request is taken up, or the old server is being stopped.
LEMMA RequestKeeps ==
  ASSUME PolicyInv, NEW c \in Clients,
         \/ StopRequest(c) \/ StartRequest(c)
         \/ \E r \in TuneRuns : ServeRequest(c, r)
  PROVE  PolicyInv'
<1>1. CASE UNCHANGED client /\ pstate' = "stopped"
           /\ UNCHANGED <<proc, serving, process, foreign, disturbed, tune>>
  BY <1>1 DEF PolicyInv, PolicyTypeOK, ProbedWasHanded, ServedWasHanded
<1>2. ASSUME NEW at \in {"stopping", "spawning"}, NEW then \in BOOLEAN,
             NEW r \in TuneRuns \cup {NoRun},
             Begins(c, at, then, r),
             UNCHANGED <<proc, pstate, serving, process, foreign, disturbed, tune>>
      PROVE  PolicyInv'
  <2>1. Moves(c, at, r, proc)
    BY <1>2, GoesMoves DEF PolicyInv
  <2>2. Marks({})
    BY <1>2 DEF Marks, PolicyInv, PolicyTypeOK
  <2>3. PolicyTypeOK'
    BY <1>2, <2>1 DEF Moves, PolicyInv, PolicyTypeOK
  <2>4. QED
    BY <2>1, <2>2, <2>3, QuietMove
<1>3. ASSUME NEW r \in TuneRuns \cup {NoRun}, Start(c, r)
      PROVE  PolicyInv'
  BY <1>2, <1>3 DEF Start, BeginStop
<1>4. CASE StopRequest(c)
  BY <1>1, <1>2, <1>4 DEF StopRequest, BeginStop
<1>5. QED
  BY <1>3, <1>4 DEF StartRequest, ServeRequest

\* The old server is gone or is killed.
LEMMA StopKeeps ==
  ASSUME PolicyInv, NEW c \in Clients,
         StopAwaited(c) \/ StopTimesOut(c) \/ StopReaps(c) \/ ReapTimesOut(c)
  PROVE  PolicyInv'
<1>1. PICK at \in {"idle", "reaping", "spawning"} :
        Goes(c, at) \/ client' = [client EXCEPT ![c].at = at, ![c].victim = proc]
  BY DEF StopAwaited, StopTimesOut, StopReaps, ReapTimesOut, Stopped
<1>2. PICK v : Moves(c, at, client[c].run, v)
  BY <1>1, GoesMoves DEF PolicyInv
<1>3. Marks({})
  BY DEF Marks, PolicyInv, PolicyTypeOK, StopAwaited, StopTimesOut, StopReaps, ReapTimesOut
<1>4. process' = process /\ disturbed' \in {disturbed, TRUE} /\ foreign' = foreign
  BY DEF StopAwaited, StopTimesOut, StopReaps, ReapTimesOut
<1>5. proc' \in {proc, NoServer} /\ pstate' \in {pstate, "stopped"} /\ serving' \in {serving, NoRun}
  BY DEF StopAwaited, StopTimesOut, StopReaps, ReapTimesOut, Stopped, Forget
<1>6. PolicyTypeOK'
  BY <1>2, <1>3, <1>4, <1>5 DEF Moves, Marks, PolicyInv, PolicyTypeOK
<1>7. QED
  BY <1>2, <1>3, <1>6, QuietMove

\* A spawned server is handed the checkpoint before it is probed.
LEMMA SpawnKeeps ==
  ASSUME PolicyInv, NEW c \in Clients, NEW s \in Servers, Spawn(c, s)
  PROVE  PolicyInv'
<1>. DEFINE r == client[c].run
<1>1. r \in TuneRuns \cup {NoRun} /\ \A d \in Clients : client[d].run \in TuneRuns \cup {NoRun}
  BY DEF PolicyInv, PolicyTypeOK, ClientRecord
<1>2. Moves(c, "probing", r, client[c].victim)
  BY GoesMoves DEF PolicyInv, Spawn
<1>3. Marks({}) /\ (r = NoRun \/ tune'[r].handed)
  <2>1. CASE r = NoRun
    BY <2>1 DEF Spawn, Marks, PolicyInv, PolicyTypeOK
  <2>2. CASE r # NoRun
    <3>1. r \in TuneRuns /\ tune[r] \in TuneRecord
      BY <1>1, <2>2 DEF PolicyInv, PolicyTypeOK
    <3>. DEFINE new == [tune[r] EXCEPT !.handed = TRUE]
    <3>2. new \in TuneRecord /\ new.handed /\ new.served = tune[r].served
      BY <3>1 DEF TuneRecord
    <3>3. tune' = [tune EXCEPT ![r] = new]
      BY <2>2 DEF Spawn
    <3>. HIDE DEF new
    <3>4. QED
      BY <3>1, <3>2, <3>3 DEF Marks, PolicyInv, PolicyTypeOK
  <2>3. QED
    BY <2>1, <2>2
<1>4. PolicyTypeOK'
  <2>1. process' \in [Servers -> ProcessState] /\ proc' = s /\ pstate' = "starting"
        /\ serving' = r /\ disturbed' \in BOOLEAN /\ foreign' \in BOOLEAN
    BY DEF Spawn, PolicyInv, PolicyTypeOK, ProcessState
  <2>2. QED
    BY <1>1, <1>2, <1>3, <2>1 DEF Moves, Marks, PolicyTypeOK
<1>5. ASSUME NEW d \in Clients, client'[d].at = "probing"
      PROVE  client'[d].run = NoRun \/ tune'[client'[d].run].handed
  BY <1>1, <1>2, <1>3, <1>5 DEF Moves, Marks, PolicyInv, ProbedWasHanded
<1>6. QED
  BY <1>3, <1>4, <1>5 DEF PolicyInv, ProbedWasHanded, ServedWasHanded, Marks

\* A start that raises marks nothing.
LEMMA SpawnFailsKeeps ==
  ASSUME PolicyInv, NEW c \in Clients, SpawnFails(c)
  PROVE  PolicyInv'
<1>1. Moves(c, "idle", client[c].run, client[c].victim)
  BY GoesMoves DEF PolicyInv, SpawnFails
<1>2. Marks({})
  BY DEF Marks, PolicyInv, PolicyTypeOK, SpawnFails
<1>3. PolicyTypeOK'
  BY <1>1 DEF Moves, PolicyInv, PolicyTypeOK, SpawnFails
<1>4. QED
  BY <1>1, <1>2, <1>3, QuietMove

\* The run marked served by the end of a start is the one that was handed over.
LEMMA ProbedKeeps ==
  ASSUME PolicyInv, NEW c \in Clients, ProbeAnswered(c) \/ ProbeTimesOut(c)
  PROVE  PolicyInv'
<1>. DEFINE r == client[c].run
<1>1. PICK verdict \in {"running", "error"} : Probed(c, verdict)
  BY DEF ProbeAnswered, ProbeTimesOut
<1>2. r \in TuneRuns \cup {NoRun} /\ (r = NoRun \/ tune[r].handed)
  BY <1>1 DEF Probed, PolicyInv, ProbedWasHanded, PolicyTypeOK, ClientRecord
<1>3. Moves(c, "idle", r, client[c].victim)
  BY <1>1, GoesMoves DEF PolicyInv, Probed
<1>4. \/ UNCHANGED tune
      \/ /\ r \in TuneRuns
         /\ \E new \in TuneRecord : tune' = [tune EXCEPT ![r] = new] /\ new.handed
  <2>1. CASE r = NoRun
    BY <1>1, <2>1 DEF Probed
  <2>2. CASE r # NoRun
    <3>1. r \in TuneRuns /\ tune[r] \in TuneRecord /\ tune[r].handed
      BY <1>2, <2>2 DEF PolicyInv, PolicyTypeOK
    <3>2. [tune[r] EXCEPT !.served = TRUE] \in TuneRecord
          /\ [tune[r] EXCEPT !.served = TRUE].handed
      BY <3>1 DEF TuneRecord
    <3>3. tune' = [tune EXCEPT ![r] = [tune[r] EXCEPT !.served = TRUE]]
      BY <1>1, <2>2 DEF Probed
    <3>4. QED
      BY <3>1, <3>2, <3>3
  <2>3. QED
    BY <2>1, <2>2
<1>5. /\ tune' \in [TuneRuns -> TuneRecord]
      /\ \A k \in TuneRuns : /\ tune[k].handed => tune'[k].handed
                             /\ tune'[k].served => tune[k].served \/ tune'[k].handed
  BY <1>4 DEF PolicyInv, PolicyTypeOK
<1>6. PolicyTypeOK'
  BY <1>1, <1>3, <1>5 DEF Probed, Moves, PolicyInv, PolicyTypeOK
<1>7. \A d \in Clients : client[d].run \in TuneRuns \cup {NoRun}
  BY DEF PolicyInv, PolicyTypeOK, ClientRecord
<1>8. ProbedWasHanded'
  BY <1>3, <1>5, <1>7 DEF Moves, PolicyInv, ProbedWasHanded
<1>9. ServedWasHanded'
  BY <1>5 DEF PolicyInv, ServedWasHanded
<1>10. QED
  BY <1>6, <1>8, <1>9 DEF PolicyInv

\* Every step keeps the invariant.
LEMMA PolicyStep == PolicyInv /\ [PolicyNext]_polVars => PolicyInv'
<1>. SUFFICES ASSUME PolicyInv, [PolicyNext]_polVars PROVE PolicyInv'
  OBVIOUS
<1>1. CASE UNCHANGED polVars
  BY <1>1 DEF polVars, PolicyInv, PolicyTypeOK, ProbedWasHanded, ServedWasHanded
<1>2. ASSUME NEW c \in Clients,
             \/ StopRequest(c) \/ StartRequest(c) \/ ManagerStep(c)
             \/ \E r \in TuneRuns : ServeRequest(c, r)
      PROVE  PolicyInv'
  BY <1>2, RequestKeeps, StopKeeps, SpawnKeeps, SpawnFailsKeeps, ProbedKeeps DEF ManagerStep
<1>3. QED
  BY <1>1, <1>2, ServerKeeps, TuneStepKeeps DEF PolicyNext, TuneStep

\* The states the manager starts in satisfy the invariant.
LEMMA PolicyStart == PolicyInit => PolicyInv
<1>. SUFFICES ASSUME PolicyInit PROVE PolicyInv
  OBVIOUS
<1>1. [at |-> "idle", then |-> FALSE, run |-> NoRun, victim |-> NoServer] \in ClientRecord
  BY DEF ClientRecord
<1>2. [status |-> "none", output |-> FALSE, served |-> FALSE,
       trainer |-> "none", patched |-> FALSE, handed |-> FALSE] \in TuneRecord
  BY DEF TuneRecord, TrainerState
<1>3. PolicyTypeOK
  BY <1>1, <1>2 DEF PolicyInit, PolicyTypeOK, ProcessState
<1>4. QED
  BY <1>3 DEF PolicyInit, PolicyInv, ProbedWasHanded, ServedWasHanded

(***************************************************************************)
(* Every variable of the manager keeps its type, and a run is `served`     *)
(* only if its checkpoint was handed to a server that was spawned          *)
(* (finetune.py:8), however many requests overlap.                         *)
(***************************************************************************)
THEOREM ServedHanded == PolicySpec => [](PolicyTypeOK /\ ServedWasHanded)
<1>1. PolicyInv => PolicyTypeOK /\ ServedWasHanded
  BY DEF PolicyInv
<1>2. QED
  BY <1>1, PolicyStart, PolicyStep, PTL DEF PolicySpec
-----------------------------------------------------------------------------
(* The policy server: one request at a time *)

\* Requests that overlap share the fields across each other's awaits: a stop
\* clears those of a server that another request has started meanwhile.
OneClient == \A c, d \in Clients : c = d

\* What the request under way has made of the server: a new one is spawned
\* only over none, and whoever waits for one waits for the one there is.
ServerOf(c) ==
  /\ client[c].at = "spawning" => proc = NoServer
  /\ client[c].at \in {"stopping", "reaping", "probing"} => proc # NoServer
  /\ client[c].at \in {"stopping", "reaping"} => client[c].victim = proc

\* The fields describe the one server that may be alive, which is starting only
\* while it is probed.
ServerInv ==
  /\ Alive \subseteq {proc}
  /\ proc = NoServer <=> pstate = "stopped"
  /\ proc = NoServer => serving = NoRun
  /\ pstate = "starting" => \E c \in Clients : client[c].at = "probing"
  /\ foreign /\ proc # NoServer => disturbed
  /\ pstate = "running" => disturbed \/ process[proc] = "bound"
  /\ \A c \in Clients : ServerOf(c)

StatusInv == PolicyTypeOK /\ ServerInv

\* The request is taken up, or the old server is being stopped.
LEMMA RequestTruthful ==
  ASSUME OneClient, StatusInv, PolicyTypeOK', NEW c \in Clients,
         \/ StopRequest(c) \/ StartRequest(c)
         \/ \E r \in TuneRuns : ServeRequest(c, r)
  PROVE  ServerInv'
<1>1. \A d \in Clients : d = c
  BY DEF OneClient
<1>2. CASE UNCHANGED client /\ proc = NoServer /\ pstate' = "stopped"
           /\ UNCHANGED <<proc, serving, process, foreign, disturbed, tune>>
  BY <1>2 DEF StatusInv, ServerInv, ServerOf, Alive
<1>3. ASSUME client[c].at = "idle", NEW at \in {"stopping", "spawning"}, NEW then \in BOOLEAN,
             NEW r \in TuneRuns \cup {NoRun},
             at = "spawning" <=> proc = NoServer,
             Begins(c, at, then, r),
             UNCHANGED <<proc, pstate, serving, process, foreign, disturbed, tune>>
      PROVE  ServerInv'
  <2>1. Moves(c, at, r, proc)
    BY <1>3, GoesMoves DEF StatusInv
  <2>2. \A d \in Clients :
          client'[d].at = at /\ client'[d].victim = proc /\ client[d].at = "idle"
    BY <1>1, <1>3, <2>1 DEF Moves
  <2>3. QED
    BY <1>3, <2>2 DEF StatusInv, ServerInv, ServerOf, Alive
<1>4. ASSUME NEW r \in TuneRuns \cup {NoRun}, client[c].at = "idle", Start(c, r)
      PROVE  ServerInv'
  BY <1>3, <1>4 DEF Start, BeginStop
<1>5. CASE StopRequest(c)
  BY <1>2, <1>3, <1>5 DEF StopRequest, BeginStop
<1>6. QED
  BY <1>4, <1>5 DEF StartRequest, ServeRequest

\* The old server is gone, or is killed and waited for again.
LEMMA StopTruthful ==
  ASSUME OneClient, StatusInv, PolicyTypeOK', NEW c \in Clients,
         StopAwaited(c) \/ StopTimesOut(c) \/ StopReaps(c) \/ ReapTimesOut(c)
  PROVE  ServerInv'
<1>1. \A d \in Clients : d = c
  BY DEF OneClient
<1>2. process \in [Servers -> ProcessState] /\ proc \in Servers \cup {NoServer}
  BY DEF StatusInv, PolicyTypeOK
<1>3. proc # NoServer /\ client[c].victim = proc
  BY DEF StatusInv, ServerInv, ServerOf, StopAwaited, StopTimesOut, StopReaps, ReapTimesOut
<1>4. CASE StopAwaited(c) \/ StopReaps(c)
  <2>1. process[proc] = "dead" /\ process' = process /\ foreign' = foreign /\ Forget
    BY <1>3, <1>4 DEF StopAwaited, StopReaps, Stopped
  <2>2. Alive' = {}
    BY <1>2, <2>1 DEF StatusInv, ServerInv, Alive
  <2>3. PICK at \in {"idle", "spawning"} : Goes(c, at)
    BY <1>4 DEF StopAwaited, StopReaps, Stopped
  <2>4. Moves(c, at, client[c].run, client[c].victim)
    BY <2>3, GoesMoves DEF StatusInv
  <2>5. \A d \in Clients : client'[d].at = at
    BY <1>1, <2>4 DEF Moves
  <2>6. QED
    BY <2>1, <2>2, <2>3, <2>5 DEF ServerInv, ServerOf, Forget
<1>5. CASE StopTimesOut(c) \/ ReapTimesOut(c)
  <2>1. PICK at \in {"idle", "reaping"} :
          Goes(c, at) \/ client' = [client EXCEPT ![c].at = at, ![c].victim = proc]
    BY <1>5 DEF StopTimesOut, ReapTimesOut
  <2>2. Moves(c, at, client[c].run, proc)
    BY <1>3, <2>1, GoesMoves DEF StatusInv
  <2>3. \A d \in Clients : client'[d].at = at /\ client'[d].victim = proc
    BY <1>1, <2>2 DEF Moves
  <2>4. UNCHANGED <<proc, pstate, serving, process, foreign>> /\ disturbed' \in {disturbed, TRUE}
    BY <1>5 DEF StopTimesOut, ReapTimesOut
  <2>5. pstate # "starting"
    BY <1>1, <1>5 DEF StatusInv, ServerInv, StopTimesOut, ReapTimesOut
  <2>6. QED
    BY <1>3, <2>3, <2>4, <2>5 DEF StatusInv, ServerInv, ServerOf, Alive
<1>6. QED
  BY <1>4, <1>5

\* A server is spawned over none, or the start raises.
LEMMA SpawnTruthful ==
  ASSUME OneClient, StatusInv, PolicyTypeOK', NEW c \in Clients,
         SpawnFails(c) \/ \E s \in Servers : Spawn(c, s)
  PROVE  ServerInv'
<1>1. \A d \in Clients : d = c
  BY DEF OneClient
<1>2. proc = NoServer /\ Alive = {} /\ pstate = "stopped" /\ serving = NoRun
  BY DEF StatusInv, ServerInv, ServerOf, Spawn, SpawnFails, PolicyTypeOK, Alive
<1>3. CASE SpawnFails(c)
  <2>1. Moves(c, "idle", client[c].run, client[c].victim)
    BY <1>3, GoesMoves DEF StatusInv, SpawnFails
  <2>2. \A d \in Clients : client'[d].at = "idle"
    BY <1>1, <2>1 DEF Moves
  <2>3. QED
    BY <1>2, <1>3, <2>2 DEF SpawnFails, ServerInv, ServerOf, Alive
<1>4. ASSUME NEW s \in Servers, Spawn(c, s)
      PROVE  ServerInv'
  <2>1. Moves(c, "probing", client[c].run, client[c].victim)
    BY <1>4, GoesMoves DEF StatusInv, Spawn
  <2>2. \A d \in Clients : client'[d].at = "probing"
    BY <1>1, <2>1 DEF Moves
  <2>3. process \in [Servers -> ProcessState] /\ process' = [process EXCEPT ![s] = "loading"]
        /\ proc' = s /\ pstate' = "starting" /\ s # NoServer
        /\ disturbed' = foreign /\ foreign' = foreign
    BY <1>4 DEF Spawn, StatusInv, PolicyTypeOK
  <2>4. Alive' \subseteq {s}
    BY <1>2, <2>3 DEF Alive
  <2>5. QED
    BY <2>2, <2>3, <2>4 DEF ServerInv, ServerOf
<1>5. QED
  BY <1>3, <1>4

\* The probe: with one server at most, the listener that answers is ours or a
\* disturbance that is on record.
LEMMA ProbedTruthful ==
  ASSUME OneClient, StatusInv, PolicyTypeOK', NEW c \in Clients,
         ProbeAnswered(c) \/ ProbeTimesOut(c)
  PROVE  ServerInv'
<1>1. \A d \in Clients : d = c
  BY DEF OneClient
<1>2. PICK verdict \in {"running", "error"} :
        Probed(c, verdict) /\ (verdict = "running" => PortTaken)
  BY DEF ProbeAnswered, ProbeTimesOut
<1>3. Moves(c, "idle", client[c].run, client[c].victim)
  BY <1>2, GoesMoves DEF StatusInv, Probed
<1>4. \A d \in Clients : client'[d].at = "idle"
  BY <1>1, <1>3 DEF Moves
<1>5. proc # NoServer
  BY <1>2 DEF Probed, StatusInv, ServerInv, ServerOf
<1>6. PortTaken => disturbed \/ process[proc] = "bound"
  BY <1>5 DEF PortTaken, StatusInv, ServerInv, Alive
<1>7. pstate' = verdict /\ UNCHANGED <<proc, serving, process, foreign, disturbed>>
  BY <1>2 DEF Probed
<1>8. Alive' \subseteq {proc}
  BY <1>7 DEF StatusInv, ServerInv, Alive
<1>9. foreign /\ proc # NoServer => disturbed
  BY DEF StatusInv, ServerInv
<1>10. QED
  BY <1>2, <1>4, <1>5, <1>6, <1>7, <1>8, <1>9 DEF ServerInv, ServerOf

\* A subprocess binds its port or dies, or somebody else takes or leaves it.
LEMMA ServerTruthful ==
  ASSUME StatusInv,
         \/ \E s \in Servers : ServerBinds(s) \/ ServerDies(s)
         \/ ForeignBinds \/ ForeignLeaves
  PROVE  ServerInv'
<1>1. UNCHANGED <<proc, pstate, serving, client>>
  BY DEF ServerBinds, ServerDies, ForeignBinds, ForeignLeaves
<1>2. ASSUME NEW s \in Servers, ServerBinds(s) \/ ServerDies(s)
      PROVE  ServerInv'
  <2>1. process \in [Servers -> ProcessState] /\ s \in Alive /\ s = proc /\ foreign' = foreign
    BY <1>2 DEF StatusInv, PolicyTypeOK, ServerInv, ServerBinds, ServerDies, Alive
  <2>2. Alive' \subseteq {proc}
    BY <1>2, <2>1 DEF StatusInv, ServerInv, ServerBinds, ServerDies, Alive
  <2>3. /\ disturbed => disturbed'
        /\ pstate = "running" => disturbed' \/ process'[proc] = "bound"
    BY <1>2, <2>1 DEF StatusInv, ServerInv, ServerBinds, ServerDies
  <2>4. QED
    BY <1>1, <2>1, <2>2, <2>3 DEF StatusInv, ServerInv, ServerOf
<1>3. CASE ForeignBinds \/ ForeignLeaves
  BY <1>1, <1>3 DEF StatusInv, ServerInv, ServerOf, Alive, ForeignBinds, ForeignLeaves
<1>4. QED
  BY <1>2, <1>3

\* Every step keeps the fields true of the server.
LEMMA StatusStep == OneClient /\ StatusInv /\ PolicyTypeOK' /\ [PolicyNext]_polVars => StatusInv'
<1>. SUFFICES ASSUME OneClient, StatusInv, PolicyTypeOK', [PolicyNext]_polVars PROVE ServerInv'
  BY DEF StatusInv
<1>1. CASE UNCHANGED <<proc, pstate, serving, process, foreign, disturbed, client>>
  BY <1>1 DEF StatusInv, ServerInv, ServerOf, Alive
<1>2. ASSUME NEW c \in Clients,
             \/ StopRequest(c) \/ StartRequest(c) \/ ManagerStep(c)
             \/ \E r \in TuneRuns : ServeRequest(c, r)
      PROVE  ServerInv'
  BY <1>2, RequestTruthful, StopTruthful, SpawnTruthful, ProbedTruthful DEF ManagerStep
<1>3. ASSUME NEW r \in TuneRuns, TuneStep(r)
      PROVE  ServerInv'
  BY <1>1, <1>3, TrainerMarks DEF StatusInv
<1>4. QED
  BY <1>1, <1>2, <1>3, ServerTruthful DEF PolicyNext, polVars, TuneStep

(***************************************************************************)
(* When requests to the manager do not overlap, status() is true between   *)
(* them: no other server is left alive, a stopped manager serves nothing,  *)
(* and a server reported as running answers, unless since its spawn it     *)
(* died, somebody else had its port, or a stop() raised.                   *)
(***************************************************************************)
THEOREM StatusIsTruthful == OneClient => (PolicySpec => []StatusTruthful)
<1>. SUFFICES ASSUME OneClient PROVE PolicySpec => []StatusTruthful
  OBVIOUS
<1>1. PolicyInit => StatusInv
  <2>1. PolicyInit => PolicyTypeOK
    BY PolicyStart DEF PolicyInv
  <2>2. PolicyInit => ServerInv
    BY DEF PolicyInit, ServerInv, ServerOf, Alive
  <2>3. QED
    BY <2>1, <2>2 DEF StatusInv
<1>2. StatusInv => StatusTruthful
  BY DEF StatusInv, ServerInv, StatusTruthful, OneServer, Quiet
<1>3. StatusInv /\ PolicyTypeOK' /\ [PolicyNext]_polVars => StatusInv'
  BY StatusStep
<1>4. QED
  BY <1>1, <1>2, <1>3, ServedHanded, PTL DEF PolicySpec

HIDE PolicyAssumption

-----------------------------------------------------------------------------
(* The drive relay *)

\* The queues all begin empty.
LEMMA EmptyQueue == Len(<<>>) = 0 /\ \A S : <<>> \in Seq(S)
  OBVIOUS

\* A function on an initial segment is a sequence.
LEMMA ConstantQueue ==
  ASSUME NEW S, NEW n \in Nat, NEW x \in S
  PROVE  [i \in 1 .. n |-> x] \in Seq(S)
  OBVIOUS

\* What the keeper would repeat on an open socket is what the relay wrote last;
\* it repeats nothing when no connection is being relayed.
KeeperFollows ==
  /\ last = "drive" /\ robot = "up" => wrote = "drive"
  /\ relay = "closed" => last = "none"

ControlInv == RepeatsLastWord /\ KeeperFollows

\* No step lets the keeper fall behind the relay: the relay updates the keeper
\* and writes the frame in one step of the event loop.
LEMMA ControlStep == ControlInv /\ [ControlNext]_controlVars => ControlInv'
<1>. SUFFICES ASSUME ControlInv, [ControlNext]_controlVars PROVE ControlInv'
  OBVIOUS
<1>. USE DEF ControlInv, RepeatsLastWord, KeeperFollows
<1>1. CASE BrowserOpens
  BY <1>1 DEF BrowserOpens
<1>2. CASE BrowserCloses \/ \E c \in Commands \cup {"bad"} : BrowserSends(c)
  BY <1>2 DEF BrowserCloses, BrowserSends, relayVars
<1>3. CASE BadFrame
  BY <1>3 DEF BadFrame, Reads
<1>4. CASE RelayTakes
  BY <1>4 DEF RelayTakes, Reads, Update
<1>5. CASE RelayAnswers \/ RelayHearsClose
  BY <1>5 DEF RelayAnswers, RelayHearsClose
<1>6. CASE RelayTimesOut \/ RelayLeaves
  BY <1>6 DEF RelayTimesOut, RelayLeaves
<1>7. CASE RelayEnds
  BY <1>7 DEF RelayEnds
<1>8. CASE KeeperTick
  BY <1>8 DEF KeeperTick
<1>9. CASE RobotCloses
  BY <1>9 DEF RobotCloses
<1>10. CASE UNCHANGED controlVars
  BY <1>10 DEF controlVars
<1>11. QED
  BY <1>1, <1>2, <1>3, <1>4, <1>5, <1>6, <1>7, <1>8, <1>9, <1>10 DEF ControlNext

(***************************************************************************)
(* The keeper drives only on the operator's last word (cadence.py:30): no  *)
(* drive it repeats follows a stop or an e-stop of the relay, however the  *)
(* browser, the robot and the timeouts interleave.                         *)
(***************************************************************************)
THEOREM KeeperObeys == ControlSpec => []RepeatsLastWord
<1>1. ControlInit => ControlInv
  BY DEF ControlInit, ControlInv, RepeatsLastWord, KeeperFollows
<1>2. ControlInv => RepeatsLastWord
  BY DEF ControlInv
<1>3. QED
  BY <1>1, <1>2, ControlStep, PTL DEF ControlSpec
\* Every step of the relay keeps the types: the frames of a browser and the
\* replies of a robot are queues of what was sent.
LEMMA ControlTyped == ControlSpec => []ControlTypeOK
<1>. USE ControlAssumption DEF ControlTypeOK
<1>1. ControlInit => ControlTypeOK
  <2>1. <<>> \in Seq(Commands \cup {"bad"}) /\ <<>> \in Seq({"own", "other"})
    BY EmptyQueue
  <2>2. 0 \in 0 .. MaxFrames
    OBVIOUS
  <2>. HIDE DEF Commands
  <2>3. QED
    BY <2>1, <2>2 DEF ControlInit
<1>2. ControlTypeOK /\ [ControlNext]_controlVars => ControlTypeOK'
  <2>. SUFFICES ASSUME ControlTypeOK, [ControlNext]_controlVars PROVE ControlTypeOK'
    OBVIOUS
  <2>1. CASE BrowserOpens \/ BrowserCloses
    BY <2>1 DEF BrowserOpens, BrowserCloses, relayVars
  <2>2. ASSUME NEW c \in Commands \cup {"bad"}, BrowserSends(c) PROVE ControlTypeOK'
    BY <2>2 DEF BrowserSends, relayVars
  <2>3. CASE BadFrame
    BY <2>3 DEF BadFrame, Reads
  <2>4. CASE RelayTakes
    <3>1. Head(inbox) \in Commands /\ Tail(inbox) \in Seq(Commands \cup {"bad"})
      BY <2>4 DEF RelayTakes, Reads
    <3>2. last' \in {"drive", "none"}
      BY <2>4 DEF RelayTakes, Update
    <3>3. inbox' \in Seq(Commands \cup {"bad"}) /\ wrote' \in Commands \cup {"none"}
      BY <2>4, <3>1 DEF RelayTakes, Reads
    <3>4. unread' \in Seq({"own", "other"})
      <4>1. Earlier \in Seq({"own", "other"})
        <5>1. unread \in Seq({"own", "other"})
          OBVIOUS
        <5>2. Earlier = [i \in 1 .. Len(unread) |-> "other"] /\ Len(unread) \in Nat
          BY <5>1 DEF Earlier
        <5>3. QED
          BY <5>2, ConstantQueue
      <4>2. unread' \in {Append(Earlier, "own"), Earlier, unread}
        BY <2>4 DEF RelayTakes
      <4>3. Append(Earlier, "own") \in Seq({"own", "other"})
        BY <4>1
      <4>4. unread \in Seq({"own", "other"})
        OBVIOUS
      <4>5. QED
        BY <4>1, <4>2, <4>3, <4>4
    <3>5. /\ relay' \in {"waiting", "leaving"} /\ repeated' \in BOOLEAN
          /\ shown' \in {"none", "own", "other", "error"}
          /\ UNCHANGED <<browser, typed, keeper, robot>>
      BY <2>4 DEF RelayTakes, Reads
    <3>6. QED
      BY <3>2, <3>3, <3>4, <3>5
  <2>5. CASE RelayAnswers
    <3>1. unread \in Seq({"own", "other"}) /\ unread # <<>>
      BY <2>5 DEF RelayAnswers
    <3>2. Head(unread) \in {"own", "other"} /\ Tail(unread) \in Seq({"own", "other"})
      BY <3>1
    <3>3. QED
      BY <2>5, <3>2 DEF RelayAnswers
  <2>6. CASE RelayHearsClose
    BY <2>6 DEF RelayHearsClose
  <2>7. CASE RelayTimesOut \/ RelayLeaves \/ RelayEnds
    BY <2>7, EmptyQueue DEF RelayTimesOut, RelayLeaves, RelayEnds
  <2>8. CASE KeeperTick \/ RobotCloses
    <3>1. CASE KeeperTick
      BY <3>1 DEF KeeperTick
    <3>2. CASE RobotCloses
      BY <3>2, EmptyQueue DEF RobotCloses
    <3>3. QED
      BY <2>8, <3>1, <3>2
  <2>9. CASE UNCHANGED controlVars
    BY <2>9 DEF controlVars
  <2>10. QED
    BY <2>1, <2>2, <2>3, <2>4, <2>5, <2>6, <2>7, <2>8, <2>9 DEF ControlNext
<1>3. QED
  BY <1>1, <1>2, PTL DEF ControlSpec

-----------------------------------------------------------------------------
(* The video path *)

VideoSpec == VideoInit /\ [][VideoNext]_videoVars

\* A bounded queue that drops its oldest stays within its bound.
LEMMA PushBounded ==
  ASSUME NEW q \in Seq(FrameNo), Len(q) <= QueueSize, NEW f \in FrameNo
  PROVE  Push(q, f) \in Seq(FrameNo) /\ Len(Push(q, f)) <= QueueSize
<1>1. CASE Len(q) = QueueSize
  <2>1. Tail(q) \in Seq(FrameNo) /\ Len(Tail(q)) = Len(q) - 1
    BY <1>1, VideoAssumption
  <2>2. QED
    BY <1>1, <2>1, VideoAssumption DEF Push, PushOldest
<1>2. CASE Len(q) # QueueSize
  BY <1>2, VideoAssumption DEF Push, PushOldest
<1>3. QED
  BY <1>1, <1>2

\* Every step keeps the types, and both queues their bound, which is what
\* keeps a slow webview from holding back the robot.
LEMMA VideoTyped == VideoSpec => []VideoTypeOK
<1>. USE VideoAssumption DEF VideoTypeOK
<1>1. VideoInit => VideoTypeOK
  <2>1. <<>> \in Seq(FrameNo) /\ <<>> \in Seq({"header", "image"} \X FrameNo)
        /\ 0 \in FrameNo /\ Len(<<>>) = 0
    BY EmptyQueue DEF FrameNo
  <2>2. [queue |-> <<>>, kept |-> 0] \in [queue: Seq(FrameNo), kept: FrameNo]
    BY <2>1
  <2>3. VideoInit => \A q \in {pushQ, relayQ, latest.queue} : q = <<>>
    BY DEF VideoInit
  <2>4. VideoInit => \A q \in {pushQ, relayQ, latest.queue} : Len(q) <= QueueSize
    BY <2>1, <2>3
  <2>5. QED
    BY <2>1, <2>2, <2>4 DEF VideoInit
<1>2. VideoTypeOK /\ [VideoNext]_videoVars => VideoTypeOK'
  <2>. SUFFICES ASSUME VideoTypeOK, [VideoNext]_videoVars PROVE VideoTypeOK'
    OBVIOUS
  <2>1. CASE StartCamera \/ CaptureRaises \/ RelayConnects \/ Watch \/ Unwatch
    <3>1. CASE StartCamera \/ CaptureRaises \/ RelayConnects
      BY <2>1, <3>1 DEF StartCamera, CaptureRaises, RelayConnects
    <3>2. CASE Watch \/ Unwatch
      <4>1. relayQ' = <<>>
        BY <3>2 DEF Watch, Unwatch
      <4>2. relayQ' \in Seq(FrameNo) /\ Len(relayQ') <= QueueSize
        BY <4>1, EmptyQueue
      <4>3. QED
        BY <3>2, <4>2 DEF Watch, Unwatch
    <3>3. QED
      BY <2>1, <3>1, <3>2
  <2>2. CASE Capture
    <3>1. captured + 1 \in FrameNo
      BY <2>2 DEF Capture, FrameNo
    <3>2. latest.queue \in Seq(FrameNo) /\ latest.kept \in FrameNo
      OBVIOUS
    <3>3. /\ Push(latest.queue, captured + 1) \in Seq(FrameNo)
          /\ Len(Push(latest.queue, captured + 1)) <= QueueSize
      BY <3>1, <3>2, PushBounded
    <3>4. pushQ' \in Seq(FrameNo) /\ Len(pushQ') <= QueueSize
      BY <2>2, <3>1, PushBounded DEF Capture
    <3>5. latest' = [queue |-> Push(latest.queue, captured + 1), kept |-> latest.kept]
      BY <2>2 DEF Capture
    <3>6. latest' \in [queue: Seq(FrameNo), kept: FrameNo] /\ Len(latest'.queue) <= QueueSize
      BY <3>2, <3>3, <3>5
    <3>7. QED
      BY <2>2, <3>1, <3>4, <3>6 DEF Capture
  <2>3. CASE LatestFrame
    <3>1. Last(latest.queue) \in FrameNo
      BY <2>3 DEF LatestFrame, Last
    <3>2. latest' \in [queue: Seq(FrameNo), kept: FrameNo] /\ latest'.queue = <<>>
      BY <2>3, <3>1 DEF LatestFrame
    <3>3. QED
      BY <2>3, <3>2 DEF LatestFrame
  <2>4. CASE Encode
    BY <2>4 DEF Encode
  <2>0. CASE EncodeRaises
    <3>1. pushQ' \in Seq(FrameNo) /\ Len(pushQ') <= QueueSize /\ hand' \in FrameNo
      BY <2>0, EmptyQueue DEF EncodeRaises, FrameNo
    <3>2. QED
      BY <2>0, <3>1 DEF EncodeRaises
  <2>5. CASE SendFrame
    <3>1. << <<"header", hand>>, <<"image", hand>> >> \in Seq({"header", "image"} \X FrameNo)
      OBVIOUS
    <3>2. wire' \in Seq({"header", "image"} \X FrameNo)
      BY <2>5, <3>1 DEF SendFrame
    <3>3. 0 \in FrameNo
      BY DEF FrameNo
    <3>4. QED
      BY <2>5, <3>2, <3>3 DEF SendFrame
  <2>6. CASE RelayMessage
    <3>1. Head(wire)[2] \in FrameNo /\ wire' \in Seq({"header", "image"} \X FrameNo)
      BY <2>6 DEF RelayMessage
    <3>2. header' \in FrameNo
      BY <2>6, <3>1 DEF RelayMessage, FrameNo
    <3>3. relayQ' \in Seq(FrameNo) /\ Len(relayQ') <= QueueSize
      BY <2>6, PushBounded DEF RelayMessage
    <3>4. QED
      BY <2>6, <3>1, <3>2, <3>3 DEF RelayMessage
  <2>7. CASE UpstreamEnds
    BY <2>7 DEF UpstreamEnds, FrameNo
  <2>8. CASE Show
    BY <2>8 DEF Show
  <2>9. CASE UNCHANGED videoVars
    BY <2>9 DEF videoVars
  <2>10. QED
    BY <2>0, <2>1, <2>2, <2>3, <2>4, <2>5, <2>6, <2>7, <2>8, <2>9 DEF VideoNext
<1>3. QED
  BY <1>1, <1>2, PTL DEF VideoSpec

-----------------------------------------------------------------------------
(* The video path: the frame captured last *)

\* Nothing is between the camera and the relay.
PathClear == header = 0 /\ wire = <<>> /\ hand = 0 /\ pushQ = <<>>

\* Frames on their way were captured; without a connection there are none.
WayInv ==
  /\ upstream \notin {"up", "mute"} => PathClear
  /\ upstream = "mute" => hand = 0 /\ pushQ = <<>>
  /\ upstream = "none" => relayQ = <<>> /\ screen = 0
  /\ \A i \in 1 .. Len(pushQ) : pushQ[i] \in 1 .. captured
  /\ hand <= captured /\ header <= captured /\ screen <= captured
  /\ \A i \in 1 .. Len(wire) : wire[i][2] \in 1 .. captured
  /\ \A i \in 1 .. Len(relayQ) : relayQ[i] \in 1 .. captured

\* An image follows its header.
HeadersPaired ==
  /\ \A i \in 1 .. Len(wire) :
       wire[i][1] = "header" => i + 1 \in 1 .. Len(wire) /\ wire[i + 1][1] = "image"
  /\ \A i \in 1 .. Len(wire) :
       wire[i][1] = "image" => IF i = 1 THEN header # 0 ELSE wire[i - 1][1] = "header"
  /\ header # 0 => wire # <<>> /\ wire[1][1] = "image"

\* Nothing is behind the frame captured last.
NewestLast ==
  captured > 0 =>
    /\ \A i \in 1 .. Len(pushQ) : pushQ[i] = captured => i = Len(pushQ)
    /\ hand = captured => pushQ = <<>>
    /\ \A i \in 1 .. Len(wire) :
         wire[i][1] = "header" /\ wire[i][2] = captured
           => i = Len(wire) - 1 /\ hand = 0 /\ pushQ = <<>>
    /\ header = captured => Len(wire) = 1 /\ hand = 0 /\ pushQ = <<>>
    /\ \A i \in 1 .. Len(relayQ) : relayQ[i] = captured => i = Len(relayQ) /\ PathClear
    /\ screen = captured => relayQ = <<>> /\ PathClear

VideoInv == WayInv /\ HeadersPaired /\ NewestLast

\* The frame is somewhere on its way, or it is what is seen.
OnItsWay(n) ==
  \/ \E i \in 1 .. Len(pushQ) : pushQ[i] = n
  \/ hand = n
  \/ \E i \in 1 .. Len(wire) : wire[i][1] = "header" /\ wire[i][2] = n
  \/ header = n
  \/ \E i \in 1 .. Len(relayQ) : relayQ[i] = n
  \/ screen = n

\* While a webview watches over a connection that goes on, the frame captured
\* last stays on its way until a newer one is.
NewestKept ==
  watcher /\ watcher' /\ upstream = "up" /\ upstream' = "up" =>
    ((captured > 0 /\ OnItsWay(captured)) \/ captured' # captured => OnItsWay(captured)')

\* What is pushed goes last, and everything before it was there before.
LEMMA PushIsLast ==
  ASSUME NEW q \in Seq(FrameNo), Len(q) <= QueueSize, NEW f \in FrameNo,
         NEW p, p = Push(q, f)
  PROVE  /\ p \in Seq(FrameNo) /\ Len(p) \in Nat \ {0} /\ p[Len(p)] = f
         /\ \A i \in 1 .. Len(p) : i # Len(p) => \E j \in 1 .. Len(q) : p[i] = q[j]
<1>. DEFINE t == IF Len(q) = QueueSize THEN Tail(q) ELSE q
<1>1. QueueSize \in Nat \ {0}
  BY VideoAssumption
<1>2. /\ t \in Seq(FrameNo) /\ Len(t) \in Nat
      /\ \A i \in 1 .. Len(t) : \E j \in 1 .. Len(q) : t[i] = q[j]
  <2>1. CASE Len(q) = QueueSize
    <3>1. q # <<>>
      BY <1>1, <2>1
    <3>2. /\ Tail(q) \in Seq(FrameNo) /\ Len(Tail(q)) = Len(q) - 1 /\ Len(q) \in Nat
          /\ \A i \in 1 .. Len(q) - 1 : Tail(q)[i] = q[i + 1]
      BY <3>1
    <3>3. \A i \in 1 .. Len(q) - 1 : i + 1 \in 1 .. Len(q)
      BY <3>2
    <3>4. QED
      BY <1>1, <2>1, <3>2, <3>3
  <2>2. CASE Len(q) # QueueSize
    BY <2>2
  <2>3. QED
    BY <2>1, <2>2
<1>3. p = Append(t, f)
  BY DEF Push, PushOldest
<1>. HIDE DEF t
<1>4. /\ p \in Seq(FrameNo) /\ Len(p) = Len(t) + 1 /\ p[Len(t) + 1] = f
      /\ \A i \in 1 .. Len(t) : p[i] = t[i]
  BY <1>2, <1>3
<1>5. \A i \in 1 .. Len(t) + 1 : i # Len(t) + 1 => i \in 1 .. Len(t)
  BY <1>2
<1>6. QED
  BY <1>2, <1>4, <1>5

LEMMA VideoStarts == VideoInit => VideoInv
<1>1. Len(<<>>) = 0
  OBVIOUS
<1>2. QED
  BY <1>1 DEF VideoInit, VideoInv, WayInv, HeadersPaired, NewestLast, PathClear

\* A capture puts its frame behind all others.
LEMMA CaptureOnWay ==
  ASSUME VideoTypeOK, VideoInv, Capture
  PROVE  VideoInv' /\ NewestKept
<1>1. /\ captured \in Nat /\ captured' = captured + 1 /\ captured + 1 \in FrameNo
      /\ pushQ \in Seq(FrameNo) /\ Len(pushQ) <= QueueSize
      /\ wire \in Seq({"header", "image"} \X FrameNo) /\ relayQ \in Seq(FrameNo)
      /\ hand \in Nat /\ header \in Nat /\ screen \in Nat
  BY VideoAssumption DEF VideoTypeOK, Capture, FrameNo
<1>2. /\ pushQ' = IF upstream = "up" THEN Push(pushQ, captured + 1) ELSE pushQ
      /\ UNCHANGED <<hand, wire, header, relayQ, screen, upstream, watcher>>
  BY DEF Capture
<1>3. PICK p : p = Push(pushQ, captured + 1)
  OBVIOUS
<1>4. /\ p \in Seq(FrameNo) /\ Len(p) \in Nat \ {0} /\ p[Len(p)] = captured + 1
      /\ \A i \in 1 .. Len(p) : i # Len(p) => \E j \in 1 .. Len(pushQ) : p[i] = pushQ[j]
  <2>1. PICK f \in FrameNo : f = captured + 1
    BY <1>1
  <2>2. p = Push(pushQ, f)
    BY <1>3, <2>1
  <2>3. /\ p \in Seq(FrameNo) /\ Len(p) \in Nat \ {0} /\ p[Len(p)] = f
        /\ \A i \in 1 .. Len(p) : i # Len(p) => \E j \in 1 .. Len(pushQ) : p[i] = pushQ[j]
    BY <1>1, <2>1, <2>2, PushIsLast
  <2>4. QED
    BY <2>1, <2>3
<1>5. \A i \in 1 .. Len(p) : i # Len(p) => p[i] \in 1 .. captured
  BY <1>4 DEF VideoInv, WayInv
<1>6. \A i \in 1 .. Len(p) : p[i] \in 1 .. captured + 1 /\ (p[i] = captured + 1 => i = Len(p))
  BY <1>1, <1>4, <1>5
<1>7. \A i \in 1 .. Len(pushQ) : pushQ[i] \in 1 .. captured + 1 /\ pushQ[i] # captured + 1
  BY <1>1 DEF VideoInv, WayInv
<1>8. \A i \in 1 .. Len(pushQ') : pushQ'[i] \in 1 .. captured + 1
                                  /\ (pushQ'[i] = captured + 1 => i = Len(pushQ'))
  BY <1>2, <1>3, <1>6, <1>7
<1>9. WayInv'
  <2>1. /\ upstream \notin {"up", "mute"} => PathClear'
        /\ upstream = "mute" => hand' = 0 /\ pushQ' = <<>>
    BY <1>2 DEF VideoInv, WayInv, PathClear
  <2>2. \A i \in 1 .. captured : i \in 1 .. captured + 1
    BY <1>1
  <2>3. hand <= captured + 1 /\ header <= captured + 1 /\ screen <= captured + 1
    BY <1>1 DEF VideoInv, WayInv
  <2>4. QED
    BY <1>1, <1>2, <1>8, <2>1, <2>2, <2>3 DEF VideoInv, WayInv
<1>10. HeadersPaired'
  BY <1>2 DEF VideoInv, HeadersPaired
<1>11. NewestLast'
  <2>1. /\ hand # captured + 1 /\ header # captured + 1 /\ screen # captured + 1
        /\ \A i \in 1 .. Len(wire) : wire[i][2] # captured + 1
        /\ \A i \in 1 .. Len(relayQ) : relayQ[i] # captured + 1
    <3>1. \A n \in Nat : n <= captured => n # captured + 1
      BY <1>1
    <3>2. captured + 1 \notin 1 .. captured
      BY <1>1
    <3>3. /\ hand <= captured /\ header <= captured /\ screen <= captured
          /\ \A i \in 1 .. Len(wire) : wire[i][2] \in 1 .. captured
          /\ \A i \in 1 .. Len(relayQ) : relayQ[i] \in 1 .. captured
      BY DEF VideoInv, WayInv
    <3>4. QED
      BY <1>1, <3>1, <3>2, <3>3
  <2>2. QED
    BY <1>1, <1>2, <1>8, <2>1 DEF NewestLast
<1>12. upstream = "up" => \E i \in 1 .. Len(pushQ') : pushQ'[i] = captured'
  BY <1>1, <1>2, <1>3, <1>4
<1>13. NewestKept
  BY <1>12 DEF NewestKept, OnItsWay
<1>14. QED
  BY <1>9, <1>10, <1>11, <1>13 DEF VideoInv

\* The pusher takes the frame captured last only if it is the only one.
LEMMA EncodeOnWay ==
  ASSUME VideoTypeOK, VideoInv, Encode
  PROVE  VideoInv' /\ NewestKept
<1>1. /\ hand = 0 /\ pushQ # <<>> /\ hand' = Head(pushQ) /\ pushQ' = Tail(pushQ)
      /\ UNCHANGED <<captured, wire, header, relayQ, screen, upstream, watcher>>
      /\ captured \in Nat /\ pushQ \in Seq(FrameNo)
  BY DEF Encode, VideoTypeOK, FrameNo
<1>2. /\ Len(pushQ) \in Nat /\ Len(pushQ) >= 1 /\ Len(pushQ') = Len(pushQ) - 1 /\ hand' = pushQ[1]
      /\ \A i \in 1 .. Len(pushQ') : pushQ'[i] = pushQ[i + 1] /\ i + 1 \in 1 .. Len(pushQ)
      /\ Len(pushQ) = 1 => pushQ' = <<>>
  BY <1>1
<1>3. hand' \in 1 .. captured
  BY <1>2 DEF VideoInv, WayInv
<1>4. upstream = "up" /\ pushQ # <<>>
  BY <1>1 DEF VideoInv, WayInv, PathClear
<1>5. WayInv'
  BY <1>1, <1>2, <1>3, <1>4 DEF VideoInv, WayInv, PathClear
<1>6. HeadersPaired'
  BY <1>1 DEF VideoInv, HeadersPaired
<1>7. NewestLast'
  <2>1. /\ \A i \in 1 .. Len(wire) : ~(wire[i][1] = "header" /\ wire[i][2] = captured)
        /\ header # captured /\ screen # captured
        /\ \A i \in 1 .. Len(relayQ) : relayQ[i] # captured
    <3>1. captured > 0 /\ pushQ # <<>>
      BY <1>1, <1>3
    <3>2. QED
      BY <3>1 DEF VideoInv, NewestLast, PathClear
  <2>0. captured > 0 /\ \A i \in 1 .. Len(pushQ) : pushQ[i] = captured => i = Len(pushQ)
    <3>1. captured > 0
      BY <1>1, <1>3
    <3>2. QED
      BY <3>1 DEF VideoInv, NewestLast
  <2>2. hand' = captured => pushQ' = <<>>
    <3>1. 1 \in 1 .. Len(pushQ)
      BY <1>2
    <3>2. pushQ[1] = captured => 1 = Len(pushQ)
      BY <2>0, <3>1
    <3>3. QED
      BY <1>2, <3>2
  <2>3. \A i \in 1 .. Len(pushQ') : pushQ'[i] = captured => i = Len(pushQ')
    BY <1>2, <2>0
  <2>4. QED
    BY <1>1, <2>1, <2>2, <2>3 DEF NewestLast
<1>8. NewestKept
  <2>1. SUFFICES ASSUME OnItsWay(captured), captured > 0 PROVE OnItsWay(captured)'
    BY <1>1 DEF NewestKept
  <2>2. CASE \E i \in 1 .. Len(pushQ) : pushQ[i] = captured
    <3>1. PICK i \in 1 .. Len(pushQ) : pushQ[i] = captured
      BY <2>2
    <3>2. CASE i = 1
      BY <1>1, <1>2, <3>1, <3>2 DEF OnItsWay
    <3>3. CASE i # 1
      <4>1. i - 1 \in 1 .. Len(pushQ') /\ pushQ'[i - 1] = captured
        BY <1>2, <3>1, <3>3
      <4>2. QED
        BY <1>1, <4>1 DEF OnItsWay
    <3>4. QED
      BY <3>2, <3>3
  <2>3. QED
    BY <1>1, <2>1, <2>2 DEF OnItsWay
<1>9. QED
  BY <1>5, <1>6, <1>7, <1>8 DEF VideoInv

\* A frame is sent behind what is on the socket, its header first.
LEMMA SendOnWay ==
  ASSUME VideoTypeOK, VideoInv, SendFrame
  PROVE  VideoInv' /\ NewestKept
<1>1. /\ hand # 0 /\ hand' = 0
      /\ wire' = wire \o << <<"header", hand>>, <<"image", hand>> >>
      /\ UNCHANGED <<captured, pushQ, header, relayQ, screen, upstream, watcher>>
      /\ captured \in Nat /\ hand \in Nat /\ wire \in Seq({"header", "image"} \X FrameNo)
      /\ hand \in FrameNo
  BY DEF SendFrame, VideoTypeOK, FrameNo
<1>2. PICK l : l = Len(wire)
  OBVIOUS
<1>3. l \in Nat
  BY <1>1, <1>2
<1>4. /\ Len(wire') = l + 2
      /\ \A i \in 1 .. l : wire'[i] = wire[i]
      /\ wire'[l + 1] = <<"header", hand>> /\ wire'[l + 2] = <<"image", hand>>
  <2>. DEFINE t == << <<"header", hand>>, <<"image", hand>> >>
  <2>1. Len(t) = 2 /\ t[1] = <<"header", hand>> /\ t[2] = <<"image", hand>>
        /\ t \in Seq({"header", "image"} \X FrameNo)
    BY <1>1
  <2>. HIDE DEF t
  <2>2. wire' = wire \o t
    BY <1>1 DEF t
  <2>3. QED
    BY <1>1, <1>2, <1>3, <2>1, <2>2
<1>5. \A i \in 1 .. l + 2 : i \in 1 .. l \/ i = l + 1 \/ i = l + 2
  BY <1>3
<1>6. hand \in 1 .. captured /\ upstream = "up"
  BY <1>1 DEF VideoInv, WayInv, PathClear
<1>7. WayInv'
  <2>1. \A i \in 1 .. l : wire[i][2] \in 1 .. captured
    BY <1>2 DEF VideoInv, WayInv
  <2>2. \A i \in 1 .. l + 2 : wire'[i][2] \in 1 .. captured
    BY <1>4, <1>5, <1>6, <2>1
  <2>3. QED
    BY <1>1, <1>4, <1>6, <2>2 DEF VideoInv, WayInv
<1>8. HeadersPaired'
  <2>0. /\ \A i \in 1 .. l : wire[i][1] = "header" => i + 1 \in 1 .. l /\ wire[i + 1][1] = "image"
        /\ \A i \in 1 .. l : wire[i][1] = "image" => IF i = 1 THEN header # 0 ELSE wire[i - 1][1] = "header"
        /\ header # 0 => wire # <<>> /\ wire[1][1] = "image"
    BY <1>2 DEF VideoInv, HeadersPaired
  <2>1. \A i \in 1 .. l + 2 :
          wire'[i][1] = "header" => i + 1 \in 1 .. l + 2 /\ wire'[i + 1][1] = "image"
    <3>1. ASSUME NEW i \in 1 .. l + 2, wire'[i][1] = "header"
          PROVE  i + 1 \in 1 .. l + 2 /\ wire'[i + 1][1] = "image"
      <4>1. CASE i \in 1 .. l
        BY <1>3, <1>4, <2>0, <3>1, <4>1
      <4>2. CASE i = l + 1
        <5>1. i + 1 = l + 2
          BY <1>3, <4>2
        <5>2. QED
          BY <1>3, <1>4, <5>1
      <4>3. CASE i = l + 2
        BY <1>4, <3>1, <4>3
      <4>4. QED
        BY <1>5, <4>1, <4>2, <4>3
    <3>2. QED
      BY <3>1
  <2>2. \A i \in 1 .. l + 2 :
          wire'[i][1] = "image" => IF i = 1 THEN header # 0 ELSE wire'[i - 1][1] = "header"
    <3>1. ASSUME NEW i \in 1 .. l + 2, wire'[i][1] = "image"
          PROVE  IF i = 1 THEN header # 0 ELSE wire'[i - 1][1] = "header"
      <4>1. CASE i \in 1 .. l
        <5>1. i # 1 => i - 1 \in 1 .. l
          BY <1>3, <4>1
        <5>2. QED
          BY <1>4, <2>0, <3>1, <4>1, <5>1
      <4>2. CASE i = l + 1
        BY <1>4, <3>1, <4>2
      <4>3. CASE i = l + 2
        <5>1. i # 1 /\ i - 1 = l + 1
          BY <1>3, <4>3
        <5>2. QED
          BY <1>4, <5>1
      <4>4. QED
        BY <1>5, <4>1, <4>2, <4>3
    <3>2. QED
      BY <3>1
  <2>3. header # 0 => wire' # <<>> /\ wire'[1][1] = "image"
    <3>1. SUFFICES ASSUME header # 0 PROVE wire' # <<>> /\ wire'[1][1] = "image"
      OBVIOUS
    <3>2. wire # <<>> /\ 1 \in 1 .. l
      BY <1>1, <1>2, <1>3, <2>0, <3>1
    <3>3. l + 2 # 0
      BY <1>3
    <3>4. QED
      BY <1>4, <2>0, <3>1, <3>2, <3>3
  <2>4. QED
    BY <1>1, <1>4, <2>1, <2>2, <2>3 DEF HeadersPaired
<1>9. NewestLast'
  <2>1. captured > 0
    BY <1>1, <1>6
  <2>2. /\ \A i \in 1 .. l : ~(wire[i][1] = "header" /\ wire[i][2] = captured)
        /\ header # captured /\ screen # captured
        /\ \A i \in 1 .. Len(relayQ) : relayQ[i] # captured
        /\ \A i \in 1 .. Len(pushQ) : pushQ[i] = captured => i = Len(pushQ)
        /\ hand = captured => pushQ = <<>>
    BY <1>1, <1>2, <2>1 DEF VideoInv, NewestLast, PathClear
  <2>3. \A i \in 1 .. l + 2 : wire'[i][1] = "header" /\ wire'[i][2] = captured
           => i = (l + 2) - 1 /\ pushQ = <<>>
    <3>1. ASSUME NEW i \in 1 .. l + 2, wire'[i][1] = "header", wire'[i][2] = captured
          PROVE  i = (l + 2) - 1 /\ pushQ = <<>>
      <4>1. ~(i \in 1 .. l) /\ i # l + 2
        BY <1>4, <2>2, <3>1
      <4>2. i = l + 1 /\ hand = captured
        BY <1>4, <1>5, <3>1, <4>1
      <4>3. QED
        BY <1>3, <2>2, <4>2
    <3>2. QED
      BY <3>1
  <2>4. \A i \in 1 .. Len(wire') : wire'[i][1] = "header" /\ wire'[i][2] = captured'
           => i = Len(wire') - 1 /\ hand' = 0 /\ pushQ' = <<>>
    BY <1>1, <1>4, <2>3
  <2>5. /\ hand' # captured' /\ header' # captured' /\ screen' # captured'
        /\ \A i \in 1 .. Len(relayQ') : relayQ'[i] # captured'
        /\ \A i \in 1 .. Len(pushQ') : pushQ'[i] = captured' => i = Len(pushQ')
    BY <1>1, <2>1, <2>2
  <2>6. QED
    BY <2>4, <2>5 DEF NewestLast
<1>10. NewestKept
  <2>1. SUFFICES ASSUME OnItsWay(captured), captured > 0 PROVE OnItsWay(captured)'
    BY <1>1 DEF NewestKept
  <2>2. CASE hand = captured
    <3>1. l + 1 \in 1 .. Len(wire')
      BY <1>3, <1>4
    <3>2. wire'[l + 1][1] = "header" /\ wire'[l + 1][2] = captured'
      <4>1. <<"header", hand>>[1] = "header" /\ <<"header", hand>>[2] = hand
        OBVIOUS
      <4>2. captured' = hand
        BY <1>1, <2>2
      <4>3. QED
        BY <1>4, <4>1, <4>2
    <3>3. QED
      BY <3>1, <3>2 DEF OnItsWay
  <2>3. CASE \E i \in 1 .. Len(wire) : wire[i][1] = "header" /\ wire[i][2] = captured
    <3>1. PICK i \in 1 .. l : wire[i][1] = "header" /\ wire[i][2] = captured
      BY <1>2, <2>3
    <3>2. i \in 1 .. l + 2
      BY <1>3
    <3>3. QED
      BY <1>1, <1>4, <3>1, <3>2 DEF OnItsWay
  <2>4. QED
    BY <1>1, <2>1, <2>2, <2>3 DEF OnItsWay
<1>11. QED
  BY <1>7, <1>8, <1>9, <1>10 DEF VideoInv

\* The relay's queue gives up its frames in their order.
LEMMA ShowOnWay ==
  ASSUME VideoTypeOK, VideoInv, Show
  PROVE  VideoInv' /\ NewestKept
<1>1. /\ relayQ # <<>> /\ screen' = Head(relayQ) /\ relayQ' = Tail(relayQ)
      /\ UNCHANGED <<captured, pushQ, hand, wire, header, upstream, watcher>>
      /\ captured \in Nat /\ relayQ \in Seq(FrameNo)
  BY DEF Show, VideoTypeOK, FrameNo
<1>2. /\ Len(relayQ) \in Nat /\ Len(relayQ) >= 1 /\ Len(relayQ') = Len(relayQ) - 1
      /\ screen' = relayQ[1]
      /\ \A i \in 1 .. Len(relayQ') : relayQ'[i] = relayQ[i + 1] /\ i + 1 \in 1 .. Len(relayQ)
      /\ Len(relayQ) = 1 => relayQ' = <<>>
  BY <1>1
<1>3. screen' \in 1 .. captured
  BY <1>2 DEF VideoInv, WayInv
<1>4. WayInv'
  BY <1>1, <1>2, <1>3 DEF VideoInv, WayInv, PathClear
<1>5. HeadersPaired'
  BY <1>1 DEF VideoInv, HeadersPaired
<1>6. NewestLast'
  <2>1. captured > 0
    BY <1>1, <1>3
  <2>2. /\ \A i \in 1 .. Len(relayQ) : relayQ[i] = captured => i = Len(relayQ) /\ PathClear
    BY <2>1 DEF VideoInv, NewestLast
  <2>3. PathClear' = PathClear
    BY <1>1 DEF PathClear
  <2>4. \A i \in 1 .. Len(relayQ') : relayQ'[i] = captured => i = Len(relayQ') /\ PathClear
    BY <1>2, <2>2
  <2>5. screen' = captured => relayQ' = <<>> /\ PathClear
    <3>1. 1 \in 1 .. Len(relayQ)
      BY <1>2
    <3>2. relayQ[1] = captured => 1 = Len(relayQ) /\ PathClear
      BY <2>2, <3>1
    <3>3. QED
      BY <1>2, <3>2
  <2>6. QED
    BY <1>1, <2>3, <2>4, <2>5 DEF VideoInv, NewestLast
<1>7. NewestKept
  <2>1. SUFFICES ASSUME OnItsWay(captured), captured > 0 PROVE OnItsWay(captured)'
    BY <1>1 DEF NewestKept
  <2>2. CASE \E i \in 1 .. Len(relayQ) : relayQ[i] = captured
    <3>1. PICK i \in 1 .. Len(relayQ) : relayQ[i] = captured
      BY <2>2
    <3>2. CASE i = 1
      BY <1>1, <1>2, <3>1, <3>2 DEF OnItsWay
    <3>3. CASE i # 1
      <4>1. i - 1 \in 1 .. Len(relayQ') /\ relayQ'[i - 1] = captured
        BY <1>2, <3>1, <3>3
      <4>2. QED
        BY <1>1, <4>1 DEF OnItsWay
    <3>4. QED
      BY <3>2, <3>3
  <2>3. CASE screen = captured
    <3>1. relayQ = <<>>
      BY <2>1, <2>3 DEF VideoInv, NewestLast
    <3>2. QED
      BY <1>1, <3>1
  <2>4. QED
    BY <1>1, <2>1, <2>2, <2>3 DEF OnItsWay
<1>8. QED
  BY <1>4, <1>5, <1>6, <1>7 DEF VideoInv

\* An image's header is shown in its place, behind the frames before it.
LEMMA RelayOnWay ==
  ASSUME VideoTypeOK, VideoInv, RelayMessage
  PROVE  VideoInv' /\ NewestKept
<1>1. /\ upstream \in {"up", "mute"} /\ wire # <<>> /\ wire' = Tail(wire)
      /\ UNCHANGED <<captured, pushQ, hand, screen, upstream, watcher>>
      /\ captured \in Nat /\ header \in FrameNo /\ header \in Nat
      /\ wire \in Seq({"header", "image"} \X FrameNo)
      /\ relayQ \in Seq(FrameNo) /\ Len(relayQ) <= QueueSize
  BY DEF RelayMessage, VideoTypeOK, FrameNo
<1>2. PICK l : l = Len(wire)
  OBVIOUS
<1>3. /\ l \in Nat /\ l >= 1 /\ Len(wire') = l - 1
      /\ \A i \in 1 .. l - 1 : wire'[i] = wire[i + 1]
      /\ l # 1 => wire' # <<>>
  <2>1. l \in Nat /\ l >= 1
    BY <1>1, <1>2
  <2>2. Len(wire') = l - 1 /\ \A i \in 1 .. l - 1 : wire'[i] = wire[i + 1]
    BY <1>1, <1>2
  <2>3. Len(<<>>) = 0
    OBVIOUS
  <2>4. QED
    BY <2>1, <2>2, <2>3
<1>4. /\ \A i \in 1 .. l - 1 : i + 1 \in 1 .. l
      /\ \A i \in 1 .. l : i # 1 => i - 1 \in 1 .. l - 1
      /\ 1 \in 1 .. l
  BY <1>3
<1>5. /\ \A i \in 1 .. l : wire[i][1] = "header" => i + 1 \in 1 .. l /\ wire[i + 1][1] = "image"
      /\ \A i \in 1 .. l : wire[i][1] = "image" => IF i = 1 THEN header # 0 ELSE wire[i - 1][1] = "header"
      /\ header # 0 => wire # <<>> /\ wire[1][1] = "image"
  BY <1>2 DEF VideoInv, HeadersPaired
<1>6. /\ \A i \in 1 .. l : wire[i][2] \in 1 .. captured
      /\ \A i \in 1 .. Len(pushQ) : pushQ[i] \in 1 .. captured
      /\ hand <= captured /\ header <= captured /\ screen <= captured
      /\ \A i \in 1 .. Len(relayQ) : relayQ[i] \in 1 .. captured
      /\ upstream = "mute" => hand = 0 /\ pushQ = <<>>
  BY <1>2 DEF VideoInv, WayInv
<1>7. \A i \in 1 .. l - 1 : wire'[i][2] \in 1 .. captured
  BY <1>3, <1>4, <1>6
<1>8. captured > 0
  BY <1>1, <1>4, <1>6
<1>9. /\ \A i \in 1 .. Len(pushQ) : pushQ[i] = captured => i = Len(pushQ)
      /\ hand = captured => pushQ = <<>>
      /\ \A i \in 1 .. l :
           wire[i][1] = "header" /\ wire[i][2] = captured => i = l - 1 /\ hand = 0 /\ pushQ = <<>>
      /\ header = captured => l = 1 /\ hand = 0 /\ pushQ = <<>>
      /\ \A i \in 1 .. Len(relayQ) : relayQ[i] # captured
      /\ screen # captured
  BY <1>1, <1>2, <1>8 DEF VideoInv, NewestLast, PathClear
<1>10. wire[1][1] \in {"header", "image"}
  BY <1>1, <1>2, <1>4
<1>11. CASE wire[1][1] = "header"
  <2>1. header' = wire[1][2] /\ relayQ' = relayQ /\ header = 0
    BY <1>1, <1>5, <1>11 DEF RelayMessage
  <2>2. 2 \in 1 .. l /\ wire[2][1] = "image" /\ wire'[1][1] = "image" /\ wire' # <<>>
    <3>1. 1 + 1 \in 1 .. l /\ wire[1 + 1][1] = "image"
      BY <1>4, <1>5, <1>11
    <3>2. 2 \in 1 .. l /\ wire[2][1] = "image"
      BY <3>1
    <3>3. l # 1 /\ 1 \in 1 .. l - 1
      BY <1>3, <3>2
    <3>4. wire'[1] = wire[1 + 1]
      BY <1>3, <3>3
    <3>5. QED
      BY <1>3, <3>1, <3>2, <3>3, <3>4
  <2>3. WayInv'
    BY <1>1, <1>3, <1>4, <1>6, <1>7, <2>1 DEF WayInv
  <2>4. HeadersPaired'
    <3>1. \A i \in 1 .. l - 1 : wire'[i][1] = "header" => i + 1 \in 1 .. l - 1 /\ wire'[i + 1][1] = "image"
      <4>1. ASSUME NEW i \in 1 .. l - 1, wire'[i][1] = "header"
            PROVE  i + 1 \in 1 .. l - 1 /\ wire'[i + 1][1] = "image"
        <5>1. i + 1 \in 1 .. l /\ wire[i + 1][1] = "header"
          BY <1>3, <1>4, <4>1
        <5>2. (i + 1) + 1 \in 1 .. l /\ wire[(i + 1) + 1][1] = "image"
          BY <1>5, <5>1
        <5>3. i + 1 \in 1 .. l - 1
          BY <1>3, <5>2
        <5>4. QED
          BY <1>3, <5>2, <5>3
      <4>2. QED
        BY <4>1
    <3>2. \A i \in 1 .. l - 1 : wire'[i][1] = "image" => IF i = 1 THEN header' # 0 ELSE wire'[i - 1][1] = "header"
      <4>1. ASSUME NEW i \in 1 .. l - 1, wire'[i][1] = "image"
            PROVE  IF i = 1 THEN header' # 0 ELSE wire'[i - 1][1] = "header"
        <5>1. CASE i = 1
          BY <1>1, <1>4, <1>6, <2>1, <5>1
        <5>2. CASE i # 1
          <6>1. i + 1 \in 1 .. l /\ i + 1 # 1 /\ wire[i + 1][1] = "image"
            BY <1>3, <1>4, <4>1
          <6>2. wire[(i + 1) - 1][1] = "header"
            BY <1>5, <6>1
          <6>3. i - 1 \in 1 .. l - 1 /\ (i - 1) + 1 = i /\ (i + 1) - 1 = i
            BY <1>3, <5>2
          <6>4. wire'[i - 1] = wire[i]
            BY <1>3, <6>3
          <6>5. QED
            BY <5>2, <6>2, <6>3, <6>4
        <5>3. QED
          BY <5>1, <5>2
      <4>2. QED
        BY <4>1
    <3>3. QED
      BY <1>3, <2>2, <3>1, <3>2 DEF HeadersPaired
  <2>5. NewestLast'
    <3>1. \A i \in 1 .. l - 1 :
            wire'[i][1] = "header" /\ wire'[i][2] = captured => i = (l - 1) - 1 /\ hand = 0 /\ pushQ = <<>>
      <4>1. ASSUME NEW i \in 1 .. l - 1, wire'[i][1] = "header", wire'[i][2] = captured
            PROVE  i = (l - 1) - 1 /\ hand = 0 /\ pushQ = <<>>
        <5>1. i + 1 \in 1 .. l /\ wire[i + 1][1] = "header" /\ wire[i + 1][2] = captured
          BY <1>3, <1>4, <4>1
        <5>2. i + 1 = l - 1 /\ hand = 0 /\ pushQ = <<>>
          BY <1>9, <5>1
        <5>3. QED
          BY <1>3, <5>2
      <4>2. QED
        BY <4>1
    <3>2. header' = captured => l - 1 = 1 /\ hand = 0 /\ pushQ = <<>>
      <4>1. wire[1][2] = captured => 1 = l - 1 /\ hand = 0 /\ pushQ = <<>>
        BY <1>4, <1>9, <1>11
      <4>2. QED
        BY <2>1, <4>1
    <3>3. QED
      BY <1>1, <1>3, <1>9, <2>1, <3>1, <3>2 DEF NewestLast
  <2>6. NewestKept
    <3>1. SUFFICES ASSUME OnItsWay(captured) PROVE OnItsWay(captured)'
      BY <1>1 DEF NewestKept
    <3>2. CASE \E i \in 1 .. l : wire[i][1] = "header" /\ wire[i][2] = captured
      <4>1. PICK i \in 1 .. l : wire[i][1] = "header" /\ wire[i][2] = captured
        BY <3>2
      <4>2. CASE i = 1
        BY <1>1, <2>1, <4>1, <4>2 DEF OnItsWay
      <4>3. CASE i # 1
        <5>1. i - 1 \in 1 .. l - 1 /\ (i - 1) + 1 = i
          BY <1>3, <1>4, <4>3
        <5>2. wire'[i - 1] = wire[i]
          BY <1>3, <5>1
        <5>3. i - 1 \in 1 .. Len(wire') /\ wire'[i - 1][1] = "header" /\ wire'[i - 1][2] = captured'
          BY <1>1, <1>3, <4>1, <5>1, <5>2
        <5>4. QED
          BY <5>3 DEF OnItsWay
      <4>4. QED
        BY <4>2, <4>3
    <3>3. CASE header = captured
      BY <1>8, <2>1, <3>3
    <3>4. QED
      BY <1>1, <1>2, <2>1, <3>1, <3>2, <3>3 DEF OnItsWay
  <2>7. QED
    BY <2>3, <2>4, <2>5, <2>6 DEF VideoInv
<1>12. CASE wire[1][1] = "image"
  <2>1. /\ header' = 0 /\ header # 0
        /\ relayQ' = IF watcher /\ header # 0 THEN Push(relayQ, header) ELSE relayQ
    BY <1>1, <1>4, <1>5, <1>12 DEF RelayMessage
  <2>2. PICK p : p = Push(relayQ, header)
    OBVIOUS
  <2>3. /\ p \in Seq(FrameNo) /\ Len(p) \in Nat \ {0} /\ p[Len(p)] = header
        /\ \A i \in 1 .. Len(p) : i # Len(p) => \E j \in 1 .. Len(relayQ) : p[i] = relayQ[j]
    BY <1>1, <2>2, PushIsLast
  <2>4. \A i \in 1 .. Len(p) : p[i] \in 1 .. captured /\ (p[i] = captured => i = Len(p) /\ header = captured)
    <3>1. header \in 1 .. captured
      BY <1>1, <1>6, <2>1
    <3>2. \A i \in 1 .. Len(p) : i # Len(p) => p[i] \in 1 .. captured /\ p[i] # captured
      BY <1>6, <1>9, <2>3
    <3>3. QED
      BY <2>3, <3>1, <3>2
  <2>5. relayQ' = IF watcher THEN p ELSE relayQ
    BY <2>1, <2>2
  <2>6. \A i \in 1 .. Len(relayQ') :
          relayQ'[i] \in 1 .. captured /\ (relayQ'[i] = captured => i = Len(relayQ') /\ header = captured)
    BY <1>6, <1>9, <2>4, <2>5
  <2>7. \A i \in 1 .. l : wire[i][1] = "header" => i # 1
    BY <1>12
  <2>8. WayInv'
    BY <1>1, <1>3, <1>6, <1>7, <2>1, <2>6 DEF WayInv
  <2>9. HeadersPaired'
    <3>1. \A i \in 1 .. l - 1 : wire'[i][1] = "header" => i + 1 \in 1 .. l - 1 /\ wire'[i + 1][1] = "image"
      <4>1. ASSUME NEW i \in 1 .. l - 1, wire'[i][1] = "header"
            PROVE  i + 1 \in 1 .. l - 1 /\ wire'[i + 1][1] = "image"
        <5>1. i + 1 \in 1 .. l /\ wire[i + 1][1] = "header"
          BY <1>3, <1>4, <4>1
        <5>2. (i + 1) + 1 \in 1 .. l /\ wire[(i + 1) + 1][1] = "image"
          BY <1>5, <5>1
        <5>3. i + 1 \in 1 .. l - 1
          BY <1>3, <5>2
        <5>4. QED
          BY <1>3, <5>2, <5>3
      <4>2. QED
        BY <4>1
    <3>2. \A i \in 1 .. l - 1 : wire'[i][1] = "image" => IF i = 1 THEN header' # 0 ELSE wire'[i - 1][1] = "header"
      <4>1. ASSUME NEW i \in 1 .. l - 1, wire'[i][1] = "image"
            PROVE  i # 1 /\ wire'[i - 1][1] = "header"
        <5>1. i + 1 \in 1 .. l /\ i + 1 # 1 /\ wire[i + 1][1] = "image" /\ (i + 1) - 1 = i
          BY <1>3, <1>4, <4>1
        <5>2. wire[i][1] = "header"
          BY <1>5, <5>1
        <5>3. i \in 1 .. l /\ i # 1
          BY <1>3, <1>12, <5>2
        <5>4. i - 1 \in 1 .. l - 1 /\ (i - 1) + 1 = i
          BY <1>3, <5>3
        <5>5. wire'[i - 1] = wire[i]
          BY <1>3, <5>4
        <5>6. QED
          BY <5>2, <5>3, <5>5
      <4>2. QED
        BY <4>1
    <3>3. QED
      BY <1>3, <2>1, <3>1, <3>2 DEF HeadersPaired
  <2>10. NewestLast'
    <3>1. \A i \in 1 .. l - 1 :
            wire'[i][1] = "header" /\ wire'[i][2] = captured => i = (l - 1) - 1 /\ hand = 0 /\ pushQ = <<>>
      <4>1. ASSUME NEW i \in 1 .. l - 1, wire'[i][1] = "header", wire'[i][2] = captured
            PROVE  i = (l - 1) - 1 /\ hand = 0 /\ pushQ = <<>>
        <5>1. i + 1 \in 1 .. l /\ wire[i + 1][1] = "header" /\ wire[i + 1][2] = captured
          BY <1>3, <1>4, <4>1
        <5>2. i + 1 = l - 1 /\ hand = 0 /\ pushQ = <<>>
          BY <1>9, <5>1
        <5>3. QED
          BY <1>3, <5>2
      <4>2. QED
        BY <4>1
    <3>2. header = captured => PathClear'
      BY <1>1, <1>3, <1>9, <2>1 DEF PathClear
    <3>3. \A i \in 1 .. Len(relayQ') : relayQ'[i] = captured => i = Len(relayQ') /\ PathClear'
      BY <2>6, <3>2
    <3>4. /\ header' # captured' /\ screen' # captured'
          /\ hand' = captured' => pushQ' = <<>>
          /\ \A i \in 1 .. Len(pushQ') : pushQ'[i] = captured' => i = Len(pushQ')
      BY <1>1, <1>8, <1>9, <2>1
    <3>5. QED
      BY <1>1, <1>3, <3>1, <3>3, <3>4 DEF NewestLast
  <2>11. NewestKept
    <3>1. SUFFICES ASSUME OnItsWay(captured), watcher PROVE OnItsWay(captured)'
      BY <1>1 DEF NewestKept
    <3>2. CASE \E i \in 1 .. l : wire[i][1] = "header" /\ wire[i][2] = captured
      <4>1. PICK i \in 1 .. l : wire[i][1] = "header" /\ wire[i][2] = captured
        BY <3>2
      <4>2. i - 1 \in 1 .. l - 1 /\ (i - 1) + 1 = i
        BY <1>3, <1>4, <2>7, <4>1
      <4>3. wire'[i - 1] = wire[i]
        BY <1>3, <4>2
      <4>4. i - 1 \in 1 .. Len(wire') /\ wire'[i - 1][1] = "header" /\ wire'[i - 1][2] = captured'
        BY <1>1, <1>3, <4>1, <4>2, <4>3
      <4>5. QED
        BY <4>4 DEF OnItsWay
    <3>3. CASE header = captured
      <4>1. Len(relayQ') \in 1 .. Len(relayQ') /\ relayQ'[Len(relayQ')] = captured'
        BY <1>1, <2>3, <2>5, <3>1, <3>3
      <4>2. QED
        BY <4>1 DEF OnItsWay
    <3>4. CASE \E i \in 1 .. Len(relayQ) : relayQ[i] = captured
      BY <1>9, <3>4
    <3>5. QED
      BY <1>1, <1>2, <3>1, <3>2, <3>3, <3>4 DEF OnItsWay
  <2>12. QED
    BY <2>8, <2>9, <2>10, <2>11 DEF VideoInv
<1>13. QED
  BY <1>10, <1>11, <1>12

\* The steps that move no frame, or drop all that is behind a socket's end.
LEMMA OthersOnWay ==
  ASSUME VideoTypeOK, VideoInv,
         \/ StartCamera \/ CaptureRaises \/ LatestFrame \/ RelayConnects \/ UpstreamEnds
         \/ EncodeRaises \/ Watch \/ Unwatch \/ UNCHANGED videoVars
  PROVE  VideoInv' /\ NewestKept
<1>1. CASE StartCamera \/ CaptureRaises \/ LatestFrame \/ UNCHANGED videoVars
  <2>1. UNCHANGED <<captured, pushQ, hand, wire, header, relayQ, screen, upstream, watcher>>
    BY <1>1 DEF StartCamera, CaptureRaises, LatestFrame, videoVars
  <2>2. WayInv' /\ HeadersPaired' /\ NewestLast'
    BY <2>1 DEF VideoInv, WayInv, HeadersPaired, NewestLast, PathClear
  <2>3. OnItsWay(captured) => OnItsWay(captured)'
    BY <2>1 DEF OnItsWay
  <2>4. QED
    BY <2>1, <2>2, <2>3 DEF VideoInv, NewestKept
<1>2. CASE RelayConnects
  <2>1. /\ upstream = "none" /\ upstream' = "up"
        /\ UNCHANGED <<captured, pushQ, hand, wire, header, relayQ, screen>>
    BY <1>2 DEF RelayConnects
  <2>2. WayInv' /\ HeadersPaired' /\ NewestLast'
    BY <2>1 DEF VideoInv, WayInv, HeadersPaired, NewestLast, PathClear
  <2>3. QED
    BY <2>1, <2>2 DEF VideoInv, NewestKept
<1>3. CASE UpstreamEnds
  <2>1. /\ upstream' = "over" /\ PathClear' /\ UNCHANGED <<captured, relayQ, screen>>
    BY <1>3 DEF UpstreamEnds, PathClear
  <2>2. captured \in Nat /\ Len(<<>>) = 0
    BY DEF VideoTypeOK, FrameNo
  <2>3. WayInv'
    BY <2>1, <2>2 DEF VideoInv, WayInv, PathClear
  <2>4. HeadersPaired'
    BY <2>1, <2>2 DEF HeadersPaired, PathClear
  <2>5. NewestLast'
    BY <2>1, <2>2 DEF VideoInv, NewestLast, PathClear
  <2>6. QED
    BY <2>1, <2>3, <2>4, <2>5 DEF VideoInv, NewestKept
<1>4. CASE Watch \/ Unwatch
  <2>1. /\ relayQ' = <<>> /\ UNCHANGED <<captured, pushQ, hand, wire, header, screen, upstream>>
        /\ ~(watcher /\ watcher') /\ Len(<<>>) = 0
    BY <1>4 DEF Watch, Unwatch
  <2>2. WayInv' /\ HeadersPaired'
    BY <2>1 DEF VideoInv, WayInv, HeadersPaired, PathClear
  <2>3. NewestLast'
    BY <2>1 DEF VideoInv, NewestLast, PathClear
  <2>4. QED
    BY <2>1, <2>2, <2>3 DEF VideoInv, NewestKept
<1>5. CASE EncodeRaises
  <2>1. /\ upstream' = "mute" /\ hand' = 0 /\ pushQ' = <<>>
        /\ UNCHANGED <<captured, wire, header, relayQ, screen>>
    BY <1>5 DEF EncodeRaises
  <2>2. captured \in Nat /\ Len(<<>>) = 0
    BY DEF VideoTypeOK, FrameNo
  <2>3. WayInv' /\ HeadersPaired'
    BY <2>1, <2>2 DEF VideoInv, WayInv, HeadersPaired
  <2>4. NewestLast'
    BY <2>1, <2>2 DEF VideoInv, NewestLast, PathClear
  <2>5. QED
    BY <2>1, <2>3, <2>4 DEF VideoInv, NewestKept
<1>6. QED
  BY <1>1, <1>2, <1>3, <1>4, <1>5

\* Every step of the path.
LEMMA NextOnWay ==
  ASSUME VideoTypeOK, VideoInv, [VideoNext]_videoVars
  PROVE  VideoInv' /\ NewestKept
  BY CaptureOnWay, EncodeOnWay, SendOnWay, ShowOnWay, RelayOnWay, OthersOnWay DEF VideoNext

(***************************************************************************)
(* Two queues that drop their oldest, one behind the other, never lose the *)
(* newest frame: while a webview watches, the connection goes on and every *)
(* frame is encoded, the frame captured last stays on its way to the       *)
(* screen, or is on it, until a newer one is captured (video.py,           *)
(* video_relay.py).  An encoder that raises ends the pusher ("mute").      *)
(***************************************************************************)
THEOREM NewestFrameKept == VideoSpec => [][NewestKept]_videoVars
<1>1. VideoTypeOK /\ VideoInv /\ [VideoNext]_videoVars => VideoInv' /\ [NewestKept]_videoVars
  BY NextOnWay
<1>2. VideoSpec => []VideoInv
  BY <1>1, VideoStarts, VideoTyped, PTL DEF VideoSpec
<1>3. QED
  BY <1>1, <1>2, VideoTyped, PTL DEF VideoSpec

-----------------------------------------------------------------------------
(* The link: types *)

\* The variables of the link itself and those of the requests over it.
LinkTyped ==
  /\ made \in Seq(Robots) /\ Len(made) <= MaxLinks
  /\ link \in [ToSet(Parts) -> Field]
  /\ alive \subseteq (ToSet(Parts) \X Links)
  /\ mc \in [connected: BOOLEAN, robot: Robots \cup {NoRobot}, relay: Field]
  /\ switch \in [Switchers -> [at: ToSet(Parts) \cup {"idle"}, obj: Field,
                               next: Robots \cup {NoRobot}]]

AskTyped ==
  /\ arm \in [Links -> SocketNo]
  /\ socket \in Seq(SocketRecord) /\ Len(socket) <= MaxSockets
  /\ ask \in [Operators -> [at: {"idle", "body", "http", "opening", "reply"},
                            of: Field, on: SocketNo]]
  /\ answer \in [Operators -> {"none", "own", "other", "error"}]

\* A request that calls a client names one, and sockets that are there.
AskInv ==
  /\ AskTyped
  /\ \A n \in Links : arm[n] <= Len(socket)
  /\ \A p \in Operators :
       /\ ask[p].at \in {"http", "opening", "reply"} => ask[p].of \in Links
       /\ ask[p].at = "reply" => ask[p].on \in 1 .. Len(socket)

\* Those that will still make a link; there is room for all of them.
Waiting == {x \in Switchers : switch[x].next # NoRobot}

RoomFor(q, next) ==
  Len(made) + Cardinality(Waiting \ {q}) + (IF next = NoRobot THEN 0 ELSE 1) <= MaxLinks

SwitchInv ==
  /\ LinkTyped
  /\ Len(made) + Cardinality(Waiting) <= MaxLinks
  /\ \A q \in Switchers : switch[q].at = "idle" => switch[q].next = NoRobot

\* The parts of a link, and those that come after one, are lists of the three.
LEMMA PartsAre ==
  /\ ToSet(Parts) = {"relay", "session", "client"} /\ Parts \in Seq(ToSet(Parts))
  /\ <<>> \in Seq(ToSet(Parts)) /\ \A f : After(f) \in Seq(ToSet(Parts))
<1>1. Parts \in Seq({"relay", "session", "client"}) /\ Len(Parts) = 3
      /\ Parts[1] = "relay" /\ Parts[2] = "session" /\ Parts[3] = "client"
  BY DEF Parts
<1>2. DOMAIN Parts = {1, 2, 3}
  BY <1>1
<1>3. ToSet(Parts) = {"relay", "session", "client"}
  BY <1>1, <1>2 DEF ToSet
<1>4. ASSUME NEW f PROVE After(f) \in Seq({"relay", "session", "client"})
  <2>1. CASE f = "relay"
    BY <2>1 DEF After
  <2>2. CASE f = "session"
    BY <2>2 DEF After
  <2>3. CASE f \notin {"relay", "session"}
    BY <2>3, EmptyQueue DEF After
  <2>4. QED
    BY <2>1, <2>2, <2>3
<1>5. QED
  BY <1>1, <1>3, <1>4, EmptyQueue

\* Those who wait after a step of `q` are the others, and `q` if it still does.
LEMMA RoomKept ==
  ASSUME SwitchInv, NEW q \in Switchers
  PROVE  /\ Len(made) \in Nat /\ MaxLinks \in Nat /\ Cardinality(Waiting \ {q}) \in Nat
         /\ RoomFor(q, switch[q].next) /\ RoomFor(q, NoRobot)
         /\ Cardinality((Waiting \ {q}) \cup {q}) = Cardinality(Waiting \ {q}) + 1
<1>1. IsFiniteSet(Waiting)
  BY FS_Subset, LinkAssumption DEF Waiting
<1>2. IsFiniteSet(Waiting \ {q}) /\ Cardinality(Waiting \ {q}) \in Nat
  BY <1>1, FS_Subset, FS_CardinalityType
<1>3. Cardinality((Waiting \ {q}) \cup {q}) = Cardinality(Waiting \ {q}) + 1
  <2>1. q \notin Waiting \ {q}
    OBVIOUS
  <2>2. QED
    BY <1>2, <2>1, FS_AddElement
<1>4. made \in Seq(Robots) /\ MaxLinks \in Nat /\ Len(made) + Cardinality(Waiting) <= MaxLinks
  BY LinkAssumption DEF SwitchInv, LinkTyped
<1>5. Len(made) \in Nat
  BY <1>4
<1>6. CASE q \in Waiting
  <2>1. (Waiting \ {q}) \cup {q} = Waiting
    BY <1>6
  <2>2. Cardinality(Waiting) = Cardinality(Waiting \ {q}) + 1
    BY <1>3, <2>1, Zenon
  <2>3. QED
    BY <1>2, <1>3, <1>4, <1>5, <2>2 DEF RoomFor
<1>7. CASE q \notin Waiting
  <2>1. Waiting \ {q} = Waiting
    BY <1>7
  <2>2. Cardinality(Waiting) = Cardinality(Waiting \ {q})
    BY <2>1, Zenon
  <2>3. switch[q].next = NoRobot
    BY <1>7 DEF Waiting
  <2>4. QED
    BY <1>2, <1>3, <1>4, <1>5, <2>2, <2>3 DEF RoomFor
<1>8. QED
  BY <1>6, <1>7

\* What follows disconnect() makes one link at most, and only for a connect.
LEMMA FinishTyped ==
  ASSUME LinkTyped, NEW next \in Robots \cup {NoRobot}, NEW l \in [ToSet(Parts) -> Field],
         NEW things \in SUBSET (ToSet(Parts) \X Links),
         next # NoRobot => Len(made) < MaxLinks, Finish(next, l, things)
  PROVE  /\ made' \in Seq(Robots) /\ link' \in [ToSet(Parts) -> Field]
         /\ alive' \subseteq (ToSet(Parts) \X Links)
         /\ mc' \in [connected: BOOLEAN, robot: Robots \cup {NoRobot}, relay: Field]
         /\ Len(made') <= Len(made) + (IF next = NoRobot THEN 0 ELSE 1)
<1>1. CASE next = NoRobot
  <2>1. mc' = [mc EXCEPT !.connected = FALSE, !.robot = NoRobot] /\ link' = l
        /\ alive' = things /\ made' = made
    BY <1>1, LinkAssumption DEF Finish
  <2>2. mc' \in [connected: BOOLEAN, robot: Robots \cup {NoRobot}, relay: Field]
    BY <2>1 DEF LinkTyped
  <2>3. QED
    BY <1>1, <2>1, <2>2 DEF LinkTyped
<1>2. CASE next \in Unknown
  <2>1. link' = l /\ alive' = things /\ made' = made /\ mc' = mc /\ next # NoRobot
    BY <1>2, LinkAssumption DEF Finish
  <2>2. QED
    BY <2>1 DEF LinkTyped
<1>3. CASE next \in Robots \ Unknown
  <2>. DEFINE n == Len(made) + 1
  <2>1. n \in Links /\ n \in Field /\ next # NoRobot
    BY <1>3, LinkAssumption DEF LinkTyped, Links, Field
  <2>2. /\ made' = Append(made, next) /\ link' = [f \in ToSet(Parts) |-> n]
        /\ alive' = things \cup {<<f, n>> : f \in ToSet(Parts)}
        /\ mc' = [connected |-> TRUE, robot |-> next, relay |-> n]
    BY <1>3, LinkAssumption DEF Finish
  <2>3. made' \in Seq(Robots) /\ Len(made') = Len(made) + 1
    <3>1. made \in Seq(Robots) /\ next \in Robots
      BY <1>3 DEF LinkTyped
    <3>2. QED
      BY <2>2, <3>1
  <2>. HIDE DEF n
  <2>4. alive' \subseteq (ToSet(Parts) \X Links)
    BY <2>1, <2>2
  <2>5. mc' \in [connected: BOOLEAN, robot: Robots \cup {NoRobot}, relay: Field]
    BY <2>1, <2>2
  <2>6. QED
    BY <2>1, <2>2, <2>3, <2>4, <2>5
<1>4. QED
  BY <1>1, <1>2, <1>3, LinkAssumption DEF Finish

\* disconnect() goes on to its next await, or ends.
LEMMA CloseNextTyped ==
  ASSUME SwitchInv, NEW q \in Switchers, NEW parts \in Seq(ToSet(Parts)),
         NEW l \in [ToSet(Parts) -> Field], NEW things \in SUBSET (ToSet(Parts) \X Links),
         NEW next \in Robots \cup {NoRobot}, RoomFor(q, next),
         CloseNext(q, parts, l, things, next)
  PROVE  SwitchInv'
<1>. DEFINE Rec == [at: ToSet(Parts) \cup {"idle"}, obj: Field, next: Robots \cup {NoRobot}]
<1>1. Len(made) \in Nat /\ Cardinality(Waiting \ {q}) \in Nat /\ MaxLinks \in Nat
      /\ Cardinality((Waiting \ {q}) \cup {q}) = Cardinality(Waiting \ {q}) + 1
      /\ switch \in [Switchers -> Rec]
  <2>1. switch \in [Switchers -> Rec]
    BY DEF SwitchInv, LinkTyped
  <2>. HIDE DEF Rec
  <2>2. QED
    BY <2>1, RoomKept
<1>2. ASSUME NEW new \in Rec, switch' = [switch EXCEPT ![q] = new]
      PROVE  /\ switch' \in [Switchers -> Rec] /\ switch'[q] = new
             /\ \A x \in Switchers : x # q => switch'[x] = switch[x]
             /\ Waiting' = IF new.next = NoRobot THEN Waiting \ {q} ELSE (Waiting \ {q}) \cup {q}
  <2>1. /\ switch' \in [Switchers -> Rec] /\ switch'[q] = new
        /\ \A x \in Switchers : x # q => switch'[x] = switch[x]
    BY <1>1, <1>2
  <2>. HIDE DEF Rec
  <2>2. QED
    BY <2>1 DEF Waiting
<1>3. CASE Finish(next, l, things) /\ switch' = [switch EXCEPT ![q] = Resting]
  <2>1. next # NoRobot => Len(made) < MaxLinks
    BY <1>1 DEF RoomFor
  <2>2. /\ made' \in Seq(Robots) /\ link' \in [ToSet(Parts) -> Field]
        /\ alive' \subseteq (ToSet(Parts) \X Links)
        /\ mc' \in [connected: BOOLEAN, robot: Robots \cup {NoRobot}, relay: Field]
        /\ Len(made') <= Len(made) + (IF next = NoRobot THEN 0 ELSE 1)
    BY <1>3, <2>1, FinishTyped DEF SwitchInv
  <2>3. Resting \in Rec /\ Resting.next = NoRobot
    BY LinkAssumption DEF Resting, Field
  <2>4. /\ switch' \in [Switchers -> Rec] /\ switch'[q] = Resting
        /\ \A x \in Switchers : x # q => switch'[x] = switch[x]
        /\ Waiting' = Waiting \ {q}
    BY <1>2, <1>3, <2>3
  <2>5. Len(made') + Cardinality(Waiting') <= MaxLinks /\ Len(made') <= MaxLinks
    <3>1. Len(made') \in Nat
      BY <2>2
    <3>2. QED
      BY <1>1, <2>2, <2>4, <3>1 DEF RoomFor
  <2>6. \A x \in Switchers : switch'[x].at = "idle" => switch'[x].next = NoRobot
    BY <2>3, <2>4 DEF SwitchInv
  <2>7. QED
    BY <2>2, <2>4, <2>5, <2>6 DEF SwitchInv, LinkTyped
<1>4. ASSUME NEW i \in DOMAIN parts,
             switch' = [switch EXCEPT ![q] =
                         [at |-> parts[i], obj |-> l[parts[i]], next |-> next]],
             link' = l /\ alive' = things /\ UNCHANGED <<made, mc>>
      PROVE  SwitchInv'
  <2>. DEFINE new == [at |-> parts[i], obj |-> l[parts[i]], next |-> next]
  <2>1. parts[i] \in ToSet(Parts)
    BY <1>4
  <2>2. new \in Rec /\ new.next = next /\ new.at # "idle"
    BY <2>1, PartsAre
  <2>. HIDE DEF new
  <2>3. /\ switch' \in [Switchers -> Rec] /\ switch'[q] = new
        /\ \A x \in Switchers : x # q => switch'[x] = switch[x]
        /\ Waiting' = IF next = NoRobot THEN Waiting \ {q} ELSE (Waiting \ {q}) \cup {q}
    BY <1>2, <1>4, <2>2 DEF new
  <2>4. Len(made') + Cardinality(Waiting') <= MaxLinks
    <3>1. CASE next = NoRobot
      BY <1>1, <1>4, <2>3, <3>1 DEF RoomFor
    <3>2. CASE next # NoRobot
      BY <1>1, <1>4, <2>3, <3>2 DEF RoomFor
    <3>3. QED
      BY <3>1, <3>2
  <2>5. \A x \in Switchers : switch'[x].at = "idle" => switch'[x].next = NoRobot
    BY <2>2, <2>3 DEF SwitchInv
  <2>6. QED
    BY <1>4, <2>3, <2>4, <2>5 DEF SwitchInv, LinkTyped
<1>5. QED
  BY <1>3, <1>4 DEF CloseNext

\* Connects, disconnects and the ends of their awaits keep the link's types.
LEMMA SwitchTyped ==
  ASSUME SwitchInv, NEW q \in Switchers,
         Disconnect(q) \/ Closed(q) \/ \E r \in Robots : Connect(q, r)
  PROVE  SwitchInv'
<1>1. /\ link \in [ToSet(Parts) -> Field] /\ alive \in SUBSET (ToSet(Parts) \X Links)
      /\ NoRobot \in Robots \cup {NoRobot} /\ switch[q].next \in Robots \cup {NoRobot}
  BY DEF SwitchInv, LinkTyped
<1>2. CASE Disconnect(q)
  BY <1>1, <1>2, RoomKept, CloseNextTyped, PartsAre DEF Disconnect
<1>3. ASSUME NEW r \in Robots, Connect(q, r) PROVE SwitchInv'
  <2>1. q \notin Waiting /\ r # NoRobot
    BY <1>3, LinkAssumption DEF Connect, Waiting, SwitchInv
  <2>2. Len(made) + Cardinality(Waiting) < MaxLinks
    BY <1>3 DEF Connect, Waiting
  <2>3. RoomFor(q, r)
    <3>1. Waiting \ {q} = Waiting
      BY <2>1
    <3>2. Cardinality(Waiting) = Cardinality(Waiting \ {q})
      BY <3>1, Zenon
    <3>3. Len(made) \in Nat /\ MaxLinks \in Nat /\ Cardinality(Waiting \ {q}) \in Nat
      BY RoomKept
    <3>4. QED
      BY <2>1, <2>2, <3>2, <3>3 DEF RoomFor
  <2>4. PICK parts \in {<<>>, Parts} : CloseNext(q, parts, link, alive, r)
    BY <1>3 DEF Connect, Replaces
  <2>5. QED
    BY <1>1, <2>3, <2>4, CloseNextTyped, PartsAre
<1>4. CASE Closed(q)
  <2>. DEFINE l == [link EXCEPT ![switch[q].at] = 0]
              things == alive \ {<<switch[q].at, switch[q].obj>>}
  <2>1. CloseNext(q, After(switch[q].at), l, things, switch[q].next)
    BY <1>4 DEF Closed
  <2>2. l \in [ToSet(Parts) -> Field] /\ things \in SUBSET (ToSet(Parts) \X Links)
    <3>1. 0 \in Field
      BY LinkAssumption DEF Field
    <3>2. QED
      BY <1>1, <3>1
  <2>. HIDE DEF l, things
  <2>3. After(switch[q].at) \in Seq(ToSet(Parts))
    BY PartsAre
  <2>4. QED
    BY <1>1, <2>1, <2>2, <2>3, RoomKept, CloseNextTyped
<1>5. QED
  BY <1>2, <1>3, <1>4

-----------------------------------------------------------------------------
(* The requests over the link: types *)

\* What a step makes of the requests and the sockets, one request apart.
LEMMA AskChanges ==
  ASSUME AskInv, NEW p \in Operators,
         NEW new \in [at: {"idle", "body", "http", "opening", "reply"}, of: Field, on: SocketNo],
         ask' = [ask EXCEPT ![p] = new],
         new.at \in {"http", "opening", "reply"} => new.of \in Links,
         new.at = "reply" => new.on \in 1 .. Len(socket'),
         socket' \in Seq(SocketRecord), Len(socket') <= MaxSockets,
         Len(socket) <= Len(socket'),
         arm' \in [Links -> SocketNo], \A n \in Links : arm'[n] <= Len(socket'),
         answer' \in [Operators -> {"none", "own", "other", "error"}]
  PROVE  AskInv'
<1>1. ask' \in [Operators -> [at: {"idle", "body", "http", "opening", "reply"},
                              of: Field, on: SocketNo]]
  BY DEF AskInv, AskTyped
<1>2. ASSUME NEW x \in Operators
      PROVE  /\ ask'[x].at \in {"http", "opening", "reply"} => ask'[x].of \in Links
             /\ ask'[x].at = "reply" => ask'[x].on \in 1 .. Len(socket')
  <2>1. CASE x = p
    BY <2>1 DEF AskInv, AskTyped
  <2>2. CASE x # p
    <3>1. ask'[x] = ask[x]
      BY <2>2 DEF AskInv, AskTyped
    <3>2. Len(socket) \in Nat /\ Len(socket') \in Nat
      BY DEF AskInv, AskTyped
    <3>3. QED
      BY <3>1, <3>2 DEF AskInv
  <2>3. QED
    BY <2>1, <2>2
<1>3. QED
  BY <1>1, <1>2 DEF AskInv, AskTyped

\* A socket with its wire, its reader or both changed is a socket.
LEMMA SocketTyped ==
  ASSUME NEW s \in SocketRecord, NEW w \in Seq(Operators \cup {NoOne}),
         NEW r \in Operators \cup {NoOne}
  PROVE  /\ [s EXCEPT !.wire = w, !.reader = r] \in SocketRecord
         /\ [s EXCEPT !.wire = w, !.overlapped = TRUE] \in SocketRecord
         /\ Shut(s) \in SocketRecord
<1>1. <<>> \in Seq(Operators \cup {NoOne})
  BY EmptyQueue
<1>2. QED
  BY <1>1 DEF SocketRecord, Shut

\* A frame on a socket: its sender waits, or is refused.
LEMMA SendOnTyped ==
  ASSUME AskInv, NEW p \in Operators, NEW socks \in Seq(SocketRecord),
         Len(socket) <= Len(socks), Len(socks) <= MaxSockets, NEW i \in 1 .. Len(socks),
         arm' \in [Links -> SocketNo], \A n \in Links : arm'[n] <= Len(socks),
         SendOn(p, i, socks)
  PROVE  AskInv'
<1>1. socks[i] \in SocketRecord
  OBVIOUS
<1>2. /\ socks[i].wire \in Seq(Operators \cup {NoOne}) /\ socks[i].of \in Links
      /\ Append(socks[i].wire, p) \in Seq(Operators \cup {NoOne})
      /\ Append(socks[i].wire, NoOne) \in Seq(Operators \cup {NoOne})
  BY <1>1 DEF SocketRecord
<1>3. i \in SocketNo /\ socks[i].of \in Field /\ 0 \in SocketNo /\ 0 \in Field
  BY <1>2, LinkAssumption DEF SocketNo, Field, Links
<1>4. ASSUME NEW new \in SocketRecord, socket' = [socks EXCEPT ![i] = new]
      PROVE  socket' \in Seq(SocketRecord) /\ Len(socket') = Len(socks)
  BY <1>4
<1>5. CASE socks[i].reader = NoOne
  <2>1. Framed(socks[i], p) \in SocketRecord
    BY <1>1, <1>2, SocketTyped DEF Framed, SocketRecord
  <2>2. socket' \in Seq(SocketRecord) /\ Len(socket') = Len(socks)
    <3>1. socket' = [socks EXCEPT ![i] = Framed(socks[i], p)]
      BY <1>5 DEF SendOn
    <3>2. QED
      BY <1>4, <2>1, <3>1
  <2>3. ask' = [ask EXCEPT ![p] = [at |-> "reply", of |-> socks[i].of, on |-> i]]
        /\ answer' = answer
    BY <1>5 DEF SendOn
  <2>. DEFINE new == [at |-> "reply", of |-> socks[i].of, on |-> i]
  <2>4. /\ new \in [at: {"idle", "body", "http", "opening", "reply"}, of: Field, on: SocketNo]
        /\ new.of \in Links /\ new.on \in 1 .. Len(socket')
    BY <1>2, <1>3, <2>2
  <2>. HIDE DEF new
  <2>5. ask' = [ask EXCEPT ![p] = new]
    BY <2>3 DEF new
  <2>6. answer' \in [Operators -> {"none", "own", "other", "error"}]
    BY <2>3 DEF AskInv, AskTyped
  <2>7. QED
    BY <2>2, <2>4, <2>5, <2>6, AskChanges
<1>6. CASE socks[i].reader # NoOne
  <2>1. Overlapped(socks[i]) \in SocketRecord
    BY <1>1, <1>2, SocketTyped DEF Overlapped, SocketRecord
  <2>2. socket' \in Seq(SocketRecord) /\ Len(socket') = Len(socks)
    <3>1. socket' = [socks EXCEPT ![i] = Overlapped(socks[i])]
      BY <1>6 DEF SendOn
    <3>2. QED
      BY <1>4, <2>1, <3>1
  <2>3. ask' = [ask EXCEPT ![p] = Idle] /\ answer' = [answer EXCEPT ![p] = "error"]
    BY <1>6 DEF SendOn, Answers
  <2>4. /\ Idle \in [at: {"idle", "body", "http", "opening", "reply"}, of: Field, on: SocketNo]
        /\ Idle.at = "idle"
    BY <1>3 DEF Idle
  <2>5. answer' \in [Operators -> {"none", "own", "other", "error"}]
    BY <2>3 DEF AskInv, AskTyped
  <2>6. QED
    BY <2>2, <2>3, <2>4, <2>5, AskChanges
<1>7. QED
  BY <1>5, <1>6

\* A request that is answered, whatever its sockets are.
LEMMA AnswersTyped ==
  ASSUME AskInv, NEW p \in Operators, NEW how \in {"own", "other", "error"}, Answers(p, how),
         socket' \in Seq(SocketRecord), Len(socket') = Len(socket), arm' = arm
  PROVE  AskInv'
<1>1. 0 \in Field /\ 0 \in SocketNo
  BY LinkAssumption DEF Field, SocketNo
<1>2. Idle \in [at: {"idle", "body", "http", "opening", "reply"}, of: Field, on: SocketNo]
      /\ Idle.at = "idle"
  BY <1>1 DEF Idle
<1>3. /\ answer' \in [Operators -> {"none", "own", "other", "error"}]
      /\ arm' \in [Links -> SocketNo] /\ \A n \in Links : arm'[n] <= Len(socket')
      /\ Len(socket) \in Nat /\ Len(socket) <= MaxSockets
  BY DEF Answers, AskInv, AskTyped
<1>4. ask' = [ask EXCEPT ![p] = Idle]
  BY DEF Answers
<1>5. Len(socket') <= MaxSockets /\ Len(socket) <= Len(socket')
  BY <1>3
<1>6. Idle.at \notin {"http", "opening", "reply"}
  BY <1>2
<1>7. QED
  BY <1>2, <1>3, <1>4, <1>5, <1>6, AskChanges

\* Handlers that await a body, are called off, or hand over to the client.
LEMMA DelegateTyped ==
  ASSUME AskInv, LinkTyped, NEW p \in Operators, NEW from \in SUBSET {"idle", "body"},
         NEW over \in {"http", "arm"}, Delegate(p, from, over)
  PROVE  AskInv'
<1>. DEFINE c == link["client"]
<1>1. c \in Field /\ (c # 0 => c \in Links) /\ 0 \in Field /\ 0 \in SocketNo
  BY PartsAre, LinkAssumption DEF LinkTyped, Field, Links, SocketNo
<1>2. /\ answer \in [Operators -> {"none", "own", "other", "error"}]
      /\ arm \in [Links -> SocketNo] /\ \A n \in Links : arm[n] <= Len(socket)
      /\ socket \in Seq(SocketRecord) /\ Len(socket) \in Nat /\ Len(socket) <= MaxSockets
  BY DEF AskInv, AskTyped
<1>3. CASE c = 0
  BY <1>2, <1>3, AnswersTyped DEF Delegate
<1>4. ASSUME c # 0, NEW at \in {"http", "opening"}, UNCHANGED <<arm, socket, answer>>,
             ask' = [ask EXCEPT ![p] = [at |-> at, of |-> c, on |-> 0]]
      PROVE  AskInv'
  <2>. DEFINE new == [at |-> at, of |-> c, on |-> 0]
  <2>1. /\ new \in [at: {"idle", "body", "http", "opening", "reply"}, of: Field, on: SocketNo]
        /\ new.of \in Links /\ new.at # "reply" /\ ask' = [ask EXCEPT ![p] = new]
    BY <1>1, <1>4
  <2>. HIDE DEF new, c
  <2>2. Len(socket) <= Len(socket') /\ socket' = socket /\ arm' = arm /\ answer' = answer
    BY <1>2, <1>4
  <2>3. QED
    BY <1>2, <2>1, <2>2, AskChanges
<1>5. CASE c # 0 /\ over = "http"
  BY <1>4, <1>5 DEF Delegate, HttpCall
<1>6. CASE c # 0 /\ over = "arm"
  <2>1. ArmCall(p, c) /\ arm' = arm
    BY <1>6 DEF Delegate, ArmCall
  <2>2. CASE arm[c] # 0 /\ socket[arm[c]].open
    <3>1. arm[c] \in 1 .. Len(socket)
      BY <1>1, <1>2, <1>6, <2>2 DEF SocketNo
    <3>2. SendOn(p, arm[c], socket)
      BY <2>1, <2>2 DEF ArmCall
    <3>3. Len(socket) <= Len(socket)
      BY <1>2
    <3>. HIDE DEF c
    <3>4. QED
      BY <1>2, <2>1, <3>1, <3>2, <3>3, SendOnTyped
  <2>3. CASE ~(arm[c] # 0 /\ socket[arm[c]].open)
    BY <1>4, <1>6, <2>1, <2>3 DEF ArmCall
  <2>4. QED
    BY <2>2, <2>3
<1>7. QED
  BY <1>3, <1>5, <1>6

\* The requests as they go on: bodies, openings, replies, failures.
LEMMA ProxiedTyped ==
  ASSUME AskInv, LinkTyped, NEW p \in Operators, Proxied(p)
  PROVE  AskInv'
<1>1. /\ answer \in [Operators -> {"none", "own", "other", "error"}]
      /\ arm \in [Links -> SocketNo] /\ \A n \in Links : arm[n] <= Len(socket)
      /\ socket \in Seq(SocketRecord) /\ Len(socket) \in Nat /\ Len(socket) <= MaxSockets
      /\ ask[p] \in [at: {"idle", "body", "http", "opening", "reply"}, of: Field, on: SocketNo]
  BY DEF AskInv, AskTyped
<1>2. CASE AwaitBody(p)
  <2>. DEFINE new == [ask[p] EXCEPT !.at = "body"]
  <2>1. /\ new \in [at: {"idle", "body", "http", "opening", "reply"}, of: Field, on: SocketNo]
        /\ new.at = "body"
    BY <1>1
  <2>2. ask' = [ask EXCEPT ![p] = new] /\ UNCHANGED <<arm, socket, answer>>
    BY <1>2 DEF AwaitBody
  <2>3. Len(socket) <= Len(socket') /\ socket' = socket /\ arm' = arm /\ answer' = answer
    BY <1>1, <2>2
  <2>. HIDE DEF new
  <2>4. QED
    BY <1>1, <2>1, <2>2, <2>3, AskChanges
<1>3. CASE BadBody(p)
  BY <1>1, <1>3, AnswersTyped DEF BadBody
<1>4. CASE \/ ArmTelemetryRequest(p) \/ PoseRequest(p) \/ ProgramRequest(p)
           \/ AutonomyRequest(p) \/ EstopRequest(p) \/ MotionRequest(p)
  <2>1. PICK from \in SUBSET {"idle", "body"}, over \in {"http", "arm"} : Delegate(p, from, over)
    BY <1>4 DEF ArmTelemetryRequest, PoseRequest, ProgramRequest, AutonomyRequest,
                EstopRequest, MotionRequest
  <2>2. QED
    BY <2>1, DelegateTyped
<1>5. CASE ArmOpened(p)
  <2>. DEFINE c == ask[p].of
              i == Len(socket) + 1
              s == [open |-> TRUE, of |-> c, wire |-> <<>>, reader |-> NoOne,
                    overlapped |-> FALSE]
              socks == Append(socket, s)
  <2>1. c \in Links /\ i \in SocketNo /\ Len(socket) < MaxSockets
    BY <1>1, <1>5, LinkAssumption DEF ArmOpened, AskInv, SocketNo
  <2>2. s \in SocketRecord
    BY <2>1, EmptyQueue DEF SocketRecord
  <2>3. arm' = [arm EXCEPT ![c] = i] /\ SendOn(p, i, socks)
    BY <1>5 DEF ArmOpened
  <2>. HIDE DEF s
  <2>4. socks \in Seq(SocketRecord) /\ Len(socks) = i
    BY <1>1, <2>2
  <2>5. arm' \in [Links -> SocketNo] /\ \A n \in Links : arm'[n] <= i
    BY <1>1, <2>1, <2>3 DEF SocketNo
  <2>. HIDE DEF c, i, socks
  <2>6. i \in 1 .. Len(socks) /\ Len(socket) <= Len(socks) /\ Len(socks) <= MaxSockets
    BY <1>1, <2>1, <2>4, LinkAssumption DEF i
  <2>7. QED
    BY <2>3, <2>4, <2>5, <2>6, SendOnTyped
<1>6. CASE ArmAnswered(p)
  <2>. DEFINE i == ask[p].on
              s == Replied(socket[i])
  <2>1. i \in 1 .. Len(socket) /\ socket[i] \in SocketRecord /\ socket[i].wire # <<>>
    BY <1>1, <1>6 DEF ArmAnswered, ArmReply, AskInv
  <2>2. Tail(socket[i].wire) \in Seq(Operators \cup {NoOne})
    BY <2>1 DEF SocketRecord
  <2>3. s \in SocketRecord
    BY <2>1, <2>2, SocketTyped DEF Replied
  <2>4. socket' = [socket EXCEPT ![i] = s] /\ arm' = arm
    BY <1>6 DEF ArmAnswered, ArmReply
  <2>5. Answers(p, IF Head(socket[i].wire) = p THEN "own" ELSE "other")
    BY <1>6 DEF ArmAnswered, ArmReply
  <2>. HIDE DEF i, s
  <2>6. socket' \in Seq(SocketRecord) /\ Len(socket') = Len(socket)
    BY <1>1, <2>1, <2>3, <2>4
  <2>7. QED
    BY <2>4, <2>5, <2>6, AnswersTyped
<1>7. CASE HttpAnswered(p)
  BY <1>1, <1>7, AnswersTyped DEF HttpAnswered
<1>8. QED
  BY <1>2, <1>3, <1>4, <1>5, <1>6, <1>7 DEF Proxied

\* A socket breaks, or the client that owns it is closed.
LEMMA BreakTyped ==
  ASSUME AskInv,
         \/ \E i \in DOMAIN socket : SocketBreaks(i)
         \/ \E n \in Field : CloseClient(n)
  PROVE  AskInv'
<1>1. /\ answer \in [Operators -> {"none", "own", "other", "error"}]
      /\ arm \in [Links -> SocketNo] /\ \A n \in Links : arm[n] <= Len(socket)
      /\ socket \in Seq(SocketRecord) /\ Len(socket) \in Nat /\ Len(socket) <= MaxSockets
      /\ \A i \in 1 .. Len(socket) : socket[i] \in SocketRecord
      /\ DOMAIN socket = 1 .. Len(socket)
  BY DEF AskInv, AskTyped
<1>2. \A i \in 1 .. Len(socket) : Shut(socket[i]) \in SocketRecord
  BY <1>1, SocketTyped, EmptyQueue
<1>3. ASSUME NEW i \in DOMAIN socket, SocketBreaks(i) PROVE AskInv'
  <2>1. socket' = [socket EXCEPT ![i] = Shut(socket[i])] /\ arm' = arm
    BY <1>3 DEF SocketBreaks
  <2>2. socket' \in Seq(SocketRecord) /\ Len(socket') = Len(socket)
    BY <1>1, <1>2, <2>1
  <2>3. CASE socket[i].reader = NoOne
    BY <1>3, <2>1, <2>2, <2>3 DEF SocketBreaks, AskInv, AskTyped
  <2>4. CASE socket[i].reader # NoOne
    <3>1. socket[i].reader \in Operators
      BY <1>1, <2>4 DEF SocketRecord
    <3>2. Answers(socket[i].reader, "error")
      BY <1>3, <2>4 DEF SocketBreaks
    <3>3. QED
      BY <2>1, <2>2, <3>1, <3>2, AnswersTyped
  <2>5. QED
    BY <2>3, <2>4
<1>4. ASSUME NEW n \in Field, CloseClient(n) PROVE AskInv'
  <2>. DEFINE Rec == [at: {"idle", "body", "http", "opening", "reply"}, of: Field, on: SocketNo]
  <2>1. 0 \in Field /\ 0 \in SocketNo
    BY LinkAssumption DEF Field, SocketNo
  <2>2. Idle \in Rec /\ Idle.at = "idle"
    BY <2>1 DEF Idle
  <2>3. arm' \in [Links -> SocketNo] /\ \A m \in Links : arm'[m] <= Len(socket)
    <3>1. arm' = [arm EXCEPT ![n] = 0]
      BY <1>4 DEF CloseClient
    <3>2. arm' \in [Links -> SocketNo] /\ \A m \in Links : arm'[m] \in {0, arm[m]}
      BY <1>1, <2>1, <3>1
    <3>3. 0 <= Len(socket)
      BY <1>1
    <3>4. QED
      BY <1>1, <3>2, <3>3
  <2>4. socket' \in Seq(SocketRecord) /\ Len(socket') = Len(socket)
    <3>1. socket' = [i \in 1 .. Len(socket) |->
                       IF socket[i].of = n THEN Shut(socket[i]) ELSE socket[i]]
      BY <1>1, <1>4 DEF CloseClient
    <3>2. QED
      BY <1>1, <1>2, <3>1
  <2>5. ask \in [Operators -> Rec]
    BY DEF AskInv, AskTyped
  <2>6. ask' = [p \in Operators |-> IF ask[p].of = n THEN Idle ELSE ask[p]]
    BY <1>4 DEF CloseClient
  <2>7. answer' \in [Operators -> {"none", "own", "other", "error"}]
    BY <1>1, <1>4 DEF CloseClient
  <2>. HIDE DEF Rec
  <2>8. ask' \in [Operators -> Rec] /\ \A p \in Operators : ask'[p] \in {Idle, ask[p]}
    BY <2>2, <2>5, <2>6
  <2>9. QED
    BY <1>1, <2>2, <2>3, <2>4, <2>7, <2>8 DEF AskInv, AskTyped, Rec
<1>5. QED
  BY <1>3, <1>4

MissionInv == SwitchInv /\ AskInv /\ viewer \in [Viewers -> Field]

\* Every step of the link keeps its types and the requests what they are about.
LEMMA MissionStep == MissionInv /\ [MissionNext]_missionVars => MissionInv'
<1>. SUFFICES ASSUME MissionInv, [MissionNext]_missionVars PROVE MissionInv'
  OBVIOUS
<1>1. link["client"] \in Field /\ 0 \in Field /\ \A q \in Switchers : switch[q].obj \in Field
  BY PartsAre, LinkAssumption DEF MissionInv, SwitchInv, LinkTyped, Field
<1>2. UNCHANGED linkVars => SwitchInv'
  BY DEF MissionInv, SwitchInv, LinkTyped, Waiting, linkVars
<1>3. UNCHANGED askVars => AskInv'
  BY DEF MissionInv, AskInv, AskTyped, askVars
<1>4. ASSUME NEW q \in Switchers, Disconnect(q) \/ Closed(q) \/ \E r \in Robots : Connect(q, r)
      PROVE  MissionInv'
  <2>1. SwitchInv'
    BY <1>4, SwitchTyped DEF MissionInv
  <2>2. UNCHANGED viewer /\ (UNCHANGED askVars \/ CloseClient(switch[q].obj))
    BY <1>4 DEF Disconnect, Closed, Connect
  <2>3. QED
    BY <1>1, <1>3, <2>1, <2>2, BreakTyped DEF MissionInv
<1>5. ASSUME NEW p \in Operators, Proxied(p) PROVE MissionInv'
  <2>1. UNCHANGED <<linkVars, viewer>>
    BY <1>5 DEF Proxied, AwaitBody, BadBody, Delegate, ArmTelemetryRequest, PoseRequest,
                ProgramRequest, AutonomyRequest, EstopRequest, MotionRequest, ArmOpened,
                ArmAnswered, ArmReply, HttpAnswered
  <2>2. AskInv'
    BY <1>5, ProxiedTyped DEF MissionInv, SwitchInv
  <2>3. QED
    BY <1>2, <2>1, <2>2 DEF MissionInv
<1>6. ASSUME NEW i \in DOMAIN socket, SocketBreaks(i) PROVE MissionInv'
  BY <1>2, <1>6, BreakTyped DEF MissionInv, SocketBreaks
<1>7. ASSUME NEW v \in Viewers, ViewerOpens(v) \/ PumpEnds(v) \/ ViewerLeaves(v)
      PROVE  MissionInv'
  <2>1. viewer' \in [Viewers -> Field] /\ UNCHANGED linkVars /\ UNCHANGED askVars
    BY <1>1, <1>7 DEF ViewerOpens, PumpEnds, ViewerLeaves, MissionInv
  <2>2. QED
    BY <1>2, <1>3, <2>1 DEF MissionInv
<1>8. CASE UNCHANGED missionVars
  BY <1>2, <1>3, <1>8 DEF MissionInv, missionVars
<1>9. QED
  BY <1>4, <1>5, <1>6, <1>7, <1>8 DEF MissionNext

\* The link starts in its invariant, with nothing open and nothing waiting.
LEMMA MissionStart == MissionInit => MissionInv
<1>. SUFFICES ASSUME MissionInit PROVE MissionInv
  OBVIOUS
<1>1. 0 \in Field /\ 0 \in SocketNo /\ <<>> \in Seq(Robots) /\ <<>> \in Seq(SocketRecord)
      /\ Len(<<>>) = 0 /\ MaxLinks \in Nat /\ MaxSockets \in Nat
  BY EmptyQueue, LinkAssumption DEF Field, SocketNo
<1>2. Waiting = {}
  BY DEF MissionInit, Waiting, Resting
<1>3. Cardinality(Waiting) = 0
  BY <1>2, FS_EmptySet, Zenon
<1>4. Resting \in [at: ToSet(Parts) \cup {"idle"}, obj: Field, next: Robots \cup {NoRobot}]
      /\ Resting.next = NoRobot
  BY <1>1 DEF Resting
<1>5. Idle \in [at: {"idle", "body", "http", "opening", "reply"}, of: Field, on: SocketNo]
      /\ Idle.at = "idle"
  BY <1>1 DEF Idle
<1>6. SwitchInv
  <2>1. LinkTyped
    BY <1>1, <1>4 DEF MissionInit, LinkTyped
  <2>2. Len(made) = 0
    BY <1>1 DEF MissionInit
  <2>3. QED
    BY <1>1, <1>3, <1>4, <2>1, <2>2 DEF MissionInit, SwitchInv
<1>7. AskInv
  <2>1. AskTyped
    BY <1>1, <1>5 DEF MissionInit, AskTyped
  <2>2. Len(socket) = 0 /\ \A n \in Links : arm[n] = 0
    BY <1>1 DEF MissionInit
  <2>3. QED
    BY <1>5, <2>1, <2>2 DEF MissionInit, AskInv
<1>8. QED
  BY <1>1, <1>6, <1>7 DEF MissionInit, MissionInv

\* What the link's modules call their types follows from the invariant.
LEMMA MissionTyped == MissionSpec => [](MissionInv /\ MissionTypeOK)
<1>1. MissionInv => MissionTypeOK
  BY DEF MissionInv, SwitchInv, LinkTyped, AskInv, AskTyped, MissionTypeOK
<1>2. QED
  BY <1>1, MissionStart, MissionStep, PTL DEF MissionSpec

-----------------------------------------------------------------------------
(* The link: one at a time *)

\* The interface has one page that connects; what it asks is answered before
\* it asks again.
OneSwitcher == \E q : Switchers = {q}

\* The parts in `parts` belong to link `n`, and nothing else is there.
Holds(l, things, parts, n) ==
  /\ l = [f \in {"relay", "session", "client"} |-> IF f \in parts THEN n ELSE 0]
  /\ things = {<<f, n>> : f \in parts}

\* What disconnect() has not closed yet when it awaits the closing of a part.
Left(at) == CASE at = "relay" -> {"relay", "session", "client"}
              [] at = "session" -> {"session", "client"}
              [] OTHER -> {"client"}

\* There is no link, or there is one: whole and known to McState, or being
\* taken down from its relay to its client.
OneLink(q) ==
  \/ switch[q].at = "idle" /\ Holds(link, alive, {}, 0)
  \/ \E n \in 1 .. Len(made) :
       \/ /\ switch[q].at = "idle"
          /\ Holds(link, alive, {"relay", "session", "client"}, n)
          /\ mc = [connected |-> TRUE, robot |-> made[n], relay |-> n]
       \/ /\ switch[q].at \in {"relay", "session", "client"} /\ switch[q].obj = n
          /\ Holds(link, alive, Left(switch[q].at), n)

\* With nothing left to close, what follows leaves no link or makes a whole one.
LEMMA FinishOne ==
  ASSUME SwitchInv, NEW q \in Switchers, NEW next \in Robots \cup {NoRobot}, NEW l, NEW things,
         Holds(l, things, {}, 0), Finish(next, l, things),
         switch' = [switch EXCEPT ![q] = Resting]
  PROVE  OneLink(q)'
<1>1. switch'[q].at = "idle"
  BY DEF Resting, SwitchInv, LinkTyped
<1>2. CASE link' = l /\ alive' = things
  BY <1>1, <1>2 DEF OneLink, Holds
<1>3. CASE /\ made' = Append(made, next) /\ next \in Robots
           /\ link' = [f \in ToSet(Parts) |-> Len(made) + 1]
           /\ alive' = things \cup {<<f, Len(made) + 1>> : f \in ToSet(Parts)}
           /\ mc' = [connected |-> TRUE, robot |-> next, relay |-> Len(made) + 1]
  <2>. DEFINE n == Len(made) + 1
  <2>1. made \in Seq(Robots)
    BY DEF SwitchInv, LinkTyped
  <2>2. Len(made') = n /\ n \in 1 .. Len(made') /\ made'[n] = next
    BY <1>3, <2>1
  <2>. HIDE DEF n
  <2>3. Holds(link', alive', {"relay", "session", "client"}, n)
    BY <1>3, PartsAre DEF Holds, n
  <2>4. mc' = [connected |-> TRUE, robot |-> made'[n], relay |-> n]
    BY <1>3, <2>2 DEF n
  <2>5. QED
    BY <1>1, <2>2, <2>3, <2>4 DEF OneLink
<1>4. QED
  BY <1>2, <1>3, LinkAssumption DEF Finish

\* The first part is still held: it is closed next.
LEMMA GoesOn ==
  ASSUME SwitchInv, NEW q \in Switchers, NEW parts \in Seq({"relay", "session", "client"}),
         Len(parts) > 0, NEW n \in 1 .. Len(made), NEW l, NEW things, NEW next,
         l[parts[1]] = n, Left(parts[1]) = ToSet(parts), Holds(l, things, ToSet(parts), n),
         CloseNext(q, parts, l, things, next)
  PROVE  OneLink(q)'
<1>1. made \in Seq(Robots) /\ 1 \in DOMAIN parts /\ l[parts[1]] # 0
      /\ parts[1] \in {"relay", "session", "client"}
  BY DEF SwitchInv, LinkTyped
<1>2. PICK i \in DOMAIN parts :
        /\ l[parts[i]] # 0 /\ \A j \in 1 .. i - 1 : l[parts[j]] = 0
        /\ switch' = [switch EXCEPT ![q] =
                        [at |-> parts[i], obj |-> l[parts[i]], next |-> next]]
        /\ link' = l /\ alive' = things /\ UNCHANGED <<made, mc>>
  BY <1>1 DEF CloseNext
<1>3. i = 1
  <2>1. i \in Nat \ {0}
    BY <1>2
  <2>2. QED
    BY <1>1, <1>2, <2>1
<1>4. switch'[q] = [at |-> parts[1], obj |-> n, next |-> next]
  BY <1>2, <1>3 DEF SwitchInv, LinkTyped
<1>5. switch'[q].at = parts[1] /\ switch'[q].obj = n /\ made' = made
      /\ link' = l /\ alive' = things
  BY <1>2, <1>4
<1>6. QED
  BY <1>1, <1>5 DEF OneLink

\* Nothing to close: what follows comes at once.
LEMMA NoneLeft ==
  ASSUME SwitchInv, NEW q \in Switchers, NEW parts \in Seq({"relay", "session", "client"}),
         NEW l, NEW things, NEW next \in Robots \cup {NoRobot},
         Holds(l, things, {}, 0), CloseNext(q, parts, l, things, next)
  PROVE  OneLink(q)'
<1>1. \A i \in DOMAIN parts : l[parts[i]] = 0
  BY DEF Holds
<1>2. Finish(next, l, things) /\ switch' = [switch EXCEPT ![q] = Resting]
  BY <1>1 DEF CloseNext
<1>3. QED
  BY <1>2, FinishOne

\* The sequences disconnect() goes through.
LEMMA PartsLeft ==
  /\ Parts \in Seq({"relay", "session", "client"}) /\ Len(Parts) > 0 /\ Parts[1] = "relay"
  /\ ToSet(Parts) = Left("relay")
  /\ After("relay") \in Seq({"relay", "session", "client"}) /\ Len(After("relay")) > 0
  /\ After("relay")[1] = "session" /\ ToSet(After("relay")) = Left("session")
  /\ After("session") \in Seq({"relay", "session", "client"}) /\ Len(After("session")) > 0
  /\ After("session")[1] = "client" /\ ToSet(After("session")) = Left("client")
  /\ After("client") = <<>> /\ <<>> \in Seq({"relay", "session", "client"})
<1>1. After("relay") = <<"session", "client">> /\ After("session") = <<"client">>
      /\ After("client") = <<>>
  BY DEF After
<1>2. DOMAIN <<"session", "client">> = {1, 2} /\ DOMAIN <<"client">> = {1}
  OBVIOUS
<1>3. ToSet(<<"session", "client">>) = {"session", "client"} /\ ToSet(<<"client">>) = {"client"}
  BY <1>2 DEF ToSet
<1>4. QED
  BY <1>1, <1>3, PartsAre, EmptyQueue DEF Left, Parts

\* Connects, disconnects and their awaits leave one link at most.
LEMMA SwitchOne ==
  ASSUME SwitchInv, NEW q \in Switchers, OneLink(q),
         Disconnect(q) \/ Closed(q) \/ \E r \in Robots : Connect(q, r)
  PROVE  OneLink(q)'
<1>1. switch[q].next \in Robots \cup {NoRobot} /\ NoRobot \in Robots \cup {NoRobot}
      /\ made \in Seq(Robots)
  BY DEF SwitchInv, LinkTyped
<1>2. ASSUME NEW next \in Robots \cup {NoRobot}, switch[q].at = "idle",
             NEW parts \in {<<>>, Parts}, parts = <<>> => link["client"] = 0,
             CloseNext(q, parts, link, alive, next)
      PROVE  OneLink(q)'
  <2>1. CASE Holds(link, alive, {}, 0)
    BY <1>2, <2>1, NoneLeft, PartsLeft
  <2>2. ASSUME NEW n \in 1 .. Len(made),
               Holds(link, alive, {"relay", "session", "client"}, n)
        PROVE  OneLink(q)'
    <3>1. link["client"] = n /\ link["relay"] = n /\ n # 0
      BY <2>2 DEF Holds
    <3>2. parts = Parts
      BY <1>2, <3>1
    <3>3. Holds(link, alive, ToSet(Parts), n)
      BY <2>2, PartsAre
    <3>4. Left(Parts[1]) = ToSet(Parts) /\ link[Parts[1]] = n
      BY <3>1, PartsLeft
    <3>5. QED
      BY <1>2, <3>2, <3>3, <3>4, GoesOn, PartsLeft
  <2>3. QED
    BY <1>2, <2>1, <2>2 DEF OneLink
<1>3. CASE Disconnect(q)
  <2>1. Parts # <<>>
    BY PartsLeft, EmptyQueue
  <2>2. switch[q].at = "idle" /\ CloseNext(q, Parts, link, alive, NoRobot)
    BY <1>3 DEF Disconnect
  <2>3. QED
    BY <1>1, <1>2, <2>1, <2>2
<1>4. ASSUME NEW r \in Robots, Connect(q, r) PROVE OneLink(q)'
  <2>1. switch[q].at = "idle" /\ Replaces(q, r) /\ Parts # <<>>
    BY <1>4, PartsLeft, EmptyQueue DEF Connect
  <2>2. CASE link["client"] = 0
    <3>1. CloseNext(q, <<>>, link, alive, r)
      BY <2>1, <2>2 DEF Replaces
    <3>2. QED
      BY <1>2, <2>1, <2>2, <3>1
  <2>3. CASE link["client"] # 0
    <3>1. CloseNext(q, Parts, link, alive, r)
      BY <2>1, <2>3 DEF Replaces
    <3>2. QED
      BY <1>2, <2>1, <3>1
  <2>4. QED
    BY <2>2, <2>3
<1>5. CASE Closed(q)
  <2>. DEFINE at == switch[q].at
              l == [link EXCEPT ![at] = 0]
              things == alive \ {<<at, switch[q].obj>>}
  <2>1. at # "idle" /\ CloseNext(q, After(at), l, things, switch[q].next)
    BY <1>5 DEF Closed
  <2>2. PICK n \in 1 .. Len(made) :
          at \in {"relay", "session", "client"} /\ switch[q].obj = n
          /\ Holds(link, alive, Left(at), n)
    BY <2>1 DEF OneLink
  <2>3. Holds(l, things, Left(at) \ {at}, n)
    BY <2>2 DEF Holds, Left
  <2>. HIDE DEF l, things
  <2>4. CASE at = "client"
    <3>1. Left(at) \ {at} = {}
      BY <2>4 DEF Left
    <3>2. Holds(l, things, {}, 0)
      BY <2>3, <3>1 DEF Holds
    <3>3. QED
      BY <1>1, <2>1, <2>4, <3>2, NoneLeft, PartsLeft
  <2>5. CASE at = "relay"
    <3>1. Left(at) \ {at} = ToSet(After(at)) /\ Left(After(at)[1]) = ToSet(After(at))
      BY <2>5, PartsLeft DEF Left
    <3>2. Holds(l, things, ToSet(After(at)), n) /\ l[After(at)[1]] = n
      BY <2>3, <2>5, <3>1, PartsLeft DEF Holds, Left
    <3>3. QED
      BY <2>1, <2>5, <3>1, <3>2, GoesOn, PartsLeft
  <2>6. CASE at = "session"
    <3>1. Left(at) \ {at} = ToSet(After(at)) /\ Left(After(at)[1]) = ToSet(After(at))
      BY <2>6, PartsLeft DEF Left
    <3>2. Holds(l, things, ToSet(After(at)), n) /\ l[After(at)[1]] = n
      BY <2>3, <2>6, <3>1, PartsLeft DEF Holds, Left
    <3>3. QED
      BY <2>1, <2>6, <3>1, <3>2, GoesOn, PartsLeft
  <2>7. QED
    BY <2>2, <2>4, <2>5, <2>6
<1>6. QED
  BY <1>3, <1>4, <1>5

(***************************************************************************)
(* With one page that connects, nothing is open between its requests but   *)
(* what the link holds, its parts belong to one link, and McState names    *)
(* its robot and its relay (robot_link.py), after any connects, refused    *)
(* names, disconnects and requests over the link in between.               *)
(***************************************************************************)
THEOREM LinkIsSettled == OneSwitcher => (MissionSpec => []LinkSettled)
<1>. SUFFICES ASSUME OneSwitcher PROVE MissionSpec => []LinkSettled
  OBVIOUS
<1>. PICK q : Switchers = {q}
  BY DEF OneSwitcher
<1>. q \in Switchers
  OBVIOUS
<1>1. MissionInit => OneLink(q)
  BY PartsAre DEF MissionInit, OneLink, Holds, Resting
<1>2. MissionInv /\ OneLink(q) /\ [MissionNext]_missionVars => OneLink(q)'
  <2>. SUFFICES ASSUME MissionInv, OneLink(q), [MissionNext]_missionVars PROVE OneLink(q)'
    OBVIOUS
  <2>1. CASE UNCHANGED linkVars
    BY <2>1 DEF OneLink, linkVars
  <2>2. ASSUME NEW p \in Operators, Proxied(p) PROVE UNCHANGED linkVars
    BY <2>2 DEF Proxied, AwaitBody, BadBody, Delegate, ArmTelemetryRequest, PoseRequest,
                ProgramRequest, AutonomyRequest, EstopRequest, MotionRequest, ArmOpened,
                ArmAnswered, ArmReply, HttpAnswered
  <2>3. ASSUME NEW x \in Switchers,
               Disconnect(x) \/ Closed(x) \/ \E r \in Robots : Connect(x, r)
        PROVE  OneLink(q)'
    BY <2>3, SwitchOne DEF MissionInv
  <2>4. QED
    BY <2>1, <2>2, <2>3 DEF MissionNext, missionVars, SocketBreaks, ViewerOpens, PumpEnds,
                            ViewerLeaves
<1>3. OneLink(q) => LinkSettled
  <2>. SUFFICES ASSUME OneLink(q), switch[q].at = "idle"
                PROVE  /\ alive = {<<f, link[f]>> : f \in {g \in ToSet(Parts) : link[g] # 0}}
                       /\ Cardinality({link[f] : f \in ToSet(Parts)}) = 1
                       /\ link["client"] # 0 =>
                            mc = [connected |-> TRUE, robot |-> made[link["client"]],
                                  relay |-> link["relay"]]
    BY DEF LinkSettled
  <2>1. PICK n : \A f \in ToSet(Parts) : link[f] = n
    BY PartsAre DEF OneLink, Holds
  <2>2. {link[f] : f \in ToSet(Parts)} = {n}
    BY <2>1, PartsAre
  <2>3. Cardinality({n}) = 1
    BY FS_Singleton
  <2>4. Cardinality({link[f] : f \in ToSet(Parts)}) = 1
    BY <2>2, <2>3, Zenon
  <2>5. alive = {<<f, link[f]>> : f \in {g \in ToSet(Parts) : link[g] # 0}}
    BY PartsAre DEF OneLink, Holds
  <2>6. link["client"] # 0 =>
          mc = [connected |-> TRUE, robot |-> made[link["client"]], relay |-> link["relay"]]
    BY DEF OneLink, Holds
  <2>7. QED
    BY <2>4, <2>5, <2>6
<1>4. QED
  BY <1>1, <1>2, <1>3, MissionTyped, PTL DEF MissionSpec

-----------------------------------------------------------------------------
(* The arm socket: the order of the replies *)

\* What is on a socket is the frame of the request that reads from it, unless
\* another request's frame was put on it while a reply was awaited.
OwnFrame(s) == s.overlapped \/ s.wire = IF s.reader = NoOne THEN <<>> ELSE <<s.reader>>

\* A request that awaits a reply is the one its socket is read by.
OwnInv ==
  /\ \A i \in 1 .. Len(socket) : OwnFrame(socket[i])
  /\ \A p \in Operators :
       /\ \A i \in 1 .. Len(socket) :
            socket[i].reader = p <=> ask[p].at = "reply" /\ ask[p].on = i
       /\ ask[p].at = "reply" => socket[ask[p].on].of = ask[p].of

\* The facts about the sockets and a request that the steps start from.
LEMMA OwnFacts ==
  ASSUME AskInv, OwnInv, NEW p \in Operators
  PROVE  /\ socket \in Seq(SocketRecord) /\ Len(socket) \in Nat
         /\ DOMAIN socket = 1 .. Len(socket)
         /\ \A i \in 1 .. Len(socket) : socket[i] \in SocketRecord /\ OwnFrame(socket[i])
         /\ ask \in [Operators -> [at: {"idle", "body", "http", "opening", "reply"},
                                   of: Field, on: SocketNo]]
         /\ ask[p] \in [at: {"idle", "body", "http", "opening", "reply"}, of: Field, on: SocketNo]
         /\ ask[p].at = "reply" => ask[p].on \in 1 .. Len(socket)
         /\ ask[p].at # "reply" => \A i \in 1 .. Len(socket) : socket[i].reader # p
         /\ p # NoOne
  BY LinkAssumption DEF AskInv, AskTyped, OwnInv

\* A request awaits no reply any more, or still none: nobody else's changes.
LEMMA NoneReads ==
  ASSUME AskInv, OwnInv, NEW p \in Operators, NEW new, new.at # "reply",
         ask' = [ask EXCEPT ![p] = new], Len(socket') = Len(socket),
         \A j \in 1 .. Len(socket) :
           /\ OwnFrame(socket'[j]) /\ socket'[j].of = socket[j].of
           /\ socket'[j].reader = IF socket[j].reader = p THEN NoOne ELSE socket[j].reader
  PROVE  OwnInv'
<1>1. ask'[p].at # "reply" /\ \A q \in Operators : q # p => ask'[q] = ask[q]
  BY OwnFacts
<1>2. \A j \in 1 .. Len(socket) : socket'[j].reader # p
  BY OwnFacts
<1>3. ASSUME NEW q \in Operators, q # p
      PROVE  /\ \A j \in 1 .. Len(socket) :
                  socket'[j].reader = q <=> ask[q].at = "reply" /\ ask[q].on = j
             /\ ask[q].at = "reply" => socket'[ask[q].on].of = ask[q].of
  <2>1. q # NoOne /\ (ask[q].at = "reply" => ask[q].on \in 1 .. Len(socket))
    BY OwnFacts
  <2>2. QED
    BY <1>3, <2>1 DEF OwnInv
<1>4. QED
  BY <1>1, <1>2, <1>3 DEF OwnInv, OwnFrame

\* A request goes on without awaiting a reply, before or after.
LEMMA QuietOwn ==
  ASSUME AskInv, OwnInv, NEW p \in Operators, ask[p].at # "reply", NEW new, new.at # "reply",
         ask' = [ask EXCEPT ![p] = new], socket' = socket
  PROVE  OwnInv'
<1>1. \A j \in 1 .. Len(socket) : OwnFrame(socket'[j]) /\ socket[j].reader # p
  BY OwnFacts
<1>2. QED
  BY <1>1, NoneReads

\* A request sends on a socket: it awaits the reply, or leaves its frame behind
\* a reply that another awaits.  `socks` may have one more socket than before.
LEMMA SendOnOwn ==
  ASSUME AskInv, OwnInv, NEW p \in Operators, ask[p].at # "reply",
         NEW socks \in Seq(SocketRecord), NEW i \in 1 .. Len(socks),
         Len(socket) <= Len(socks),
         \A j \in 1 .. Len(socket) : socks[j] = socket[j],
         \A j \in 1 .. Len(socks) : j > Len(socket) =>
            OwnFrame(socks[j]) /\ socks[j].reader = NoOne,
         SendOn(p, i, socks)
  PROVE  OwnInv'
<1>1. /\ Len(socket) \in Nat /\ Len(socks) \in Nat /\ p # NoOne
      /\ ask \in [Operators -> [at: {"idle", "body", "http", "opening", "reply"},
                                of: Field, on: SocketNo]]
      /\ \A q \in Operators : ask[q].at = "reply" => ask[q].on \in 1 .. Len(socket)
  BY OwnFacts
<1>2. \A j \in 1 .. Len(socks) : socks[j] \in SocketRecord /\ OwnFrame(socks[j])
  BY <1>1, OwnFacts
<1>3. \A q \in Operators, j \in 1 .. Len(socks) :
        socks[j].reader = q <=> ask[q].at = "reply" /\ ask[q].on = j
  <2>1. \A q \in Operators : q # NoOne
    BY OwnFacts
  <2>2. QED
    BY <1>1, <2>1 DEF OwnInv
<1>4. \A q \in Operators : ask[q].at = "reply" => socks[ask[q].on].of = ask[q].of
  BY <1>1 DEF OwnInv
<1>5. CASE socks[i].reader = NoOne
  <2>. DEFINE s == Framed(socks[i], p)
  <2>1. /\ socket' = [socks EXCEPT ![i] = s]
        /\ ask' = [ask EXCEPT ![p] = [at |-> "reply", of |-> socks[i].of, on |-> i]]
    BY <1>5 DEF SendOn
  <2>2. /\ s.reader = p /\ s.of = socks[i].of /\ s.overlapped = socks[i].overlapped
        /\ s.overlapped \/ s.wire = <<p>>
    <3>1. /\ s.reader = p /\ s.of = socks[i].of /\ s.overlapped = socks[i].overlapped
          /\ s.wire = Append(socks[i].wire, p)
      BY <1>2 DEF Framed, SocketRecord
    <3>2. socks[i].overlapped \/ socks[i].wire = <<>>
      BY <1>2, <1>5 DEF OwnFrame
    <3>3. Append(<<>>, p) = <<p>>
      OBVIOUS
    <3>. HIDE DEF s
    <3>4. QED
      BY <3>1, <3>2, <3>3
  <2>3. OwnFrame(s)
    BY <1>1, <2>2 DEF OwnFrame
  <2>. HIDE DEF s
  <2>4. /\ Len(socket') = Len(socks) /\ socket'[i] = s
        /\ \A j \in 1 .. Len(socks) : j # i => socket'[j] = socks[j]
    BY <2>1
  <2>5. /\ ask'[p].at = "reply" /\ ask'[p].on = i /\ ask'[p].of = socks[i].of
        /\ \A q \in Operators : q # p => ask'[q] = ask[q]
    BY <1>1, <2>1
  <2>6. ASSUME NEW q \in Operators
        PROVE  /\ \A j \in 1 .. Len(socks) :
                    socket'[j].reader = q <=> ask'[q].at = "reply" /\ ask'[q].on = j
               /\ ask'[q].at = "reply" => socket'[ask'[q].on].of = ask'[q].of
    <3>1. CASE q = p
      BY <1>3, <2>2, <2>4, <2>5, <3>1
    <3>2. CASE q # p
      <4>1. q # NoOne
        BY OwnFacts
      <4>2. ask'[q].at = "reply" => ask'[q].on \in 1 .. Len(socks) /\ ask'[q].on # i
        BY <1>1, <1>3, <1>5, <2>5, <3>2, <4>1
      <4>3. ask'[q] = ask[q]
        BY <2>5, <3>2
      <4>4. \A j \in 1 .. Len(socks) :
              socket'[j].reader = q <=> ask'[q].at = "reply" /\ ask'[q].on = j
        <5>1. SUFFICES ASSUME NEW j \in 1 .. Len(socks)
                       PROVE  socket'[j].reader = q
                                <=> ask'[q].at = "reply" /\ ask'[q].on = j
          OBVIOUS
        <5>2. CASE j = i
          BY <2>2, <2>4, <3>2, <4>2, <5>2
        <5>3. CASE j # i
          BY <1>3, <2>4, <4>1, <4>3, <5>3
        <5>4. QED
          BY <5>2, <5>3
      <4>5. ask'[q].at = "reply" => socket'[ask'[q].on].of = ask'[q].of
        BY <1>4, <2>4, <4>2, <4>3
      <4>6. QED
        BY <4>4, <4>5
    <3>3. QED
      BY <3>1, <3>2
  <2>7. \A j \in 1 .. Len(socks) : OwnFrame(socket'[j])
    BY <1>2, <2>3, <2>4
  <2>8. QED
    BY <2>4, <2>6, <2>7 DEF OwnInv, OwnFrame
<1>6. CASE socks[i].reader # NoOne
  <2>. DEFINE s == Overlapped(socks[i])
  <2>1. socket' = [socks EXCEPT ![i] = s] /\ ask' = [ask EXCEPT ![p] = Idle]
    BY <1>6 DEF SendOn, Answers
  <2>2. s.reader = socks[i].reader /\ s.of = socks[i].of /\ s.overlapped
    BY <1>2 DEF Overlapped, SocketRecord
  <2>3. OwnFrame(s)
    BY <2>2 DEF OwnFrame
  <2>. HIDE DEF s
  <2>4. /\ Len(socket') = Len(socks)
        /\ \A j \in 1 .. Len(socks) : /\ OwnFrame(socket'[j]) /\ socket'[j].of = socks[j].of
                                      /\ socket'[j].reader = socks[j].reader
    BY <1>2, <2>1, <2>2, <2>3
  <2>5. ask'[p].at # "reply" /\ \A q \in Operators : q # p => ask'[q] = ask[q]
    BY <1>1, <2>1 DEF Idle
  <2>6. ASSUME NEW q \in Operators
        PROVE  /\ \A j \in 1 .. Len(socks) :
                    socket'[j].reader = q <=> ask'[q].at = "reply" /\ ask'[q].on = j
               /\ ask'[q].at = "reply" => socket'[ask'[q].on].of = ask'[q].of
    <3>1. CASE q = p
      BY <1>3, <2>4, <2>5, <3>1
    <3>2. CASE q # p
      <4>1. ask'[q].at = "reply" => ask'[q].on \in 1 .. Len(socks)
        BY <1>1, <2>5, <3>2
      <4>2. QED
        BY <1>3, <1>4, <2>4, <2>5, <3>2, <4>1
    <3>3. QED
      BY <3>1, <3>2
  <2>7. QED
    BY <2>4, <2>6 DEF OwnInv, OwnFrame
<1>7. QED
  BY <1>5, <1>6

\* The requests as they go on.
LEMMA ProxiedOwn ==
  ASSUME AskInv, OwnInv, LinkTyped, NEW p \in Operators, Proxied(p)
  PROVE  OwnInv'
<1>1. /\ socket \in Seq(SocketRecord) /\ Len(socket) \in Nat
      /\ \A i \in 1 .. Len(socket) : socket[i] \in SocketRecord /\ OwnFrame(socket[i])
      /\ ask[p] \in [at: {"idle", "body", "http", "opening", "reply"}, of: Field, on: SocketNo]
      /\ ask[p].at = "reply" => ask[p].on \in 1 .. Len(socket)
  BY OwnFacts
<1>2. Idle.at # "reply" /\ \A how : Answers(p, how) => ask' = [ask EXCEPT ![p] = Idle]
  BY DEF Answers, Idle
<1>3. CASE AwaitBody(p)
  <2>1. ask' = [ask EXCEPT ![p] = [ask[p] EXCEPT !.at = "body"]] /\ ask[p].at = "idle"
        /\ socket' = socket /\ [ask[p] EXCEPT !.at = "body"].at = "body"
    BY <1>1, <1>3 DEF AwaitBody
  <2>2. QED
    BY <2>1, QuietOwn
<1>4. CASE BadBody(p)
  BY <1>2, <1>4, QuietOwn DEF BadBody
<1>5. ASSUME NEW from \in SUBSET {"idle", "body"}, NEW over \in {"http", "arm"},
             Delegate(p, from, over)
      PROVE  OwnInv'
  <2>. DEFINE c == link["client"]
  <2>1. ask[p].at # "reply"
    BY <1>5 DEF Delegate
  <2>2. CASE c = 0
    BY <1>2, <1>5, <2>1, <2>2, QuietOwn DEF Delegate
  <2>3. ASSUME NEW at \in {"http", "opening"}, socket' = socket,
               ask' = [ask EXCEPT ![p] = [at |-> at, of |-> c, on |-> 0]]
        PROVE  OwnInv'
    BY <2>1, <2>3, QuietOwn
  <2>4. CASE c # 0 /\ over = "http"
    BY <1>5, <2>3, <2>4 DEF Delegate, HttpCall
  <2>5. CASE c # 0 /\ over = "arm"
    <3>1. ArmCall(p, c)
      BY <1>5, <2>5 DEF Delegate
    <3>2. CASE arm[c] # 0 /\ socket[arm[c]].open
      <4>1. SendOn(p, arm[c], socket)
        BY <3>1, <3>2 DEF ArmCall
      <4>2. arm[c] \in 1 .. Len(socket)
        <5>1. c \in Links
          BY <2>5, PartsAre, LinkAssumption DEF LinkTyped, Field, Links
        <5>2. arm[c] \in SocketNo /\ arm[c] <= Len(socket)
          BY <5>1 DEF AskInv, AskTyped
        <5>3. QED
          BY <1>1, <3>2, <5>2 DEF SocketNo
      <4>3. Len(socket) <= Len(socket) /\ \A j \in 1 .. Len(socket) : ~(j > Len(socket))
        BY <1>1
      <4>. HIDE DEF c
      <4>4. QED
        BY <1>1, <2>1, <4>1, <4>2, <4>3, SendOnOwn
    <3>3. CASE ~(arm[c] # 0 /\ socket[arm[c]].open)
      BY <2>3, <3>1, <3>3 DEF ArmCall
    <3>4. QED
      BY <3>2, <3>3
  <2>6. QED
    BY <2>2, <2>4, <2>5
<1>6. CASE \/ ArmTelemetryRequest(p) \/ PoseRequest(p) \/ ProgramRequest(p)
           \/ AutonomyRequest(p) \/ EstopRequest(p) \/ MotionRequest(p)
  BY <1>5, <1>6 DEF ArmTelemetryRequest, PoseRequest, ProgramRequest, AutonomyRequest,
                    EstopRequest, MotionRequest
<1>7. CASE ArmOpened(p)
  <2>. DEFINE i == Len(socket) + 1
              s == [open |-> TRUE, of |-> ask[p].of, wire |-> <<>>, reader |-> NoOne,
                    overlapped |-> FALSE]
              socks == Append(socket, s)
  <2>1. SendOn(p, i, socks) /\ ask[p].at = "opening"
    BY <1>7 DEF ArmOpened
  <2>2. s \in SocketRecord /\ OwnFrame(s) /\ s.reader = NoOne
    BY <2>1, EmptyQueue DEF SocketRecord, OwnFrame, AskInv
  <2>. HIDE DEF s
  <2>3. /\ socks \in Seq(SocketRecord) /\ i \in 1 .. Len(socks) /\ Len(socks) = i
        /\ socks[i] = s /\ \A j \in 1 .. Len(socket) : socks[j] = socket[j]
    BY <1>1, <2>2
  <2>4. Len(socket) <= Len(socks) /\ \A j \in 1 .. Len(socks) : j > Len(socket) => j = i
    BY <1>1, <2>3
  <2>. HIDE DEF i, socks
  <2>5. \A j \in 1 .. Len(socks) : j > Len(socket) =>
           OwnFrame(socks[j]) /\ socks[j].reader = NoOne
    BY <2>2, <2>3, <2>4
  <2>6. QED
    BY <2>1, <2>3, <2>4, <2>5, SendOnOwn
<1>8. CASE ArmAnswered(p)
  <2>. DEFINE i == ask[p].on
              s == Replied(socket[i])
  <2>1. i \in 1 .. Len(socket) /\ socket[i].reader = p /\ p # NoOne
        /\ \A j \in 1 .. Len(socket) : socket[j].reader = p <=> j = i
    BY <1>1, <1>8, OwnFacts DEF ArmAnswered, ArmReply, OwnInv
  <2>2. socket' = [socket EXCEPT ![i] = s] /\ ask' = [ask EXCEPT ![p] = Idle]
    BY <1>2, <1>8 DEF ArmAnswered, ArmReply
  <2>3. /\ s.reader = NoOne /\ s.of = socket[i].of /\ s.overlapped = socket[i].overlapped
        /\ s.wire = Tail(socket[i].wire)
    BY <1>1, <2>1 DEF Replied, SocketRecord
  <2>4. OwnFrame(s)
    <3>1. socket[i].overlapped \/ socket[i].wire = <<p>>
      BY <1>1, <2>1 DEF OwnFrame
    <3>2. Tail(<<p>>) = <<>>
      OBVIOUS
    <3>3. QED
      BY <2>3, <3>1, <3>2 DEF OwnFrame
  <2>. HIDE DEF i, s
  <2>5. /\ Len(socket') = Len(socket) /\ socket'[i] = s
        /\ \A j \in 1 .. Len(socket) : j # i => socket'[j] = socket[j]
    BY <1>1, <2>1, <2>2
  <2>6. \A j \in 1 .. Len(socket) :
           /\ OwnFrame(socket'[j]) /\ socket'[j].of = socket[j].of
           /\ socket'[j].reader = IF socket[j].reader = p THEN NoOne ELSE socket[j].reader
    BY <1>1, <2>1, <2>3, <2>4, <2>5
  <2>7. QED
    BY <1>2, <2>2, <2>5, <2>6, NoneReads
<1>9. CASE HttpAnswered(p)
  BY <1>2, <1>9, QuietOwn DEF HttpAnswered
<1>10. QED
  BY <1>3, <1>4, <1>6, <1>7, <1>8, <1>9 DEF Proxied

\* A socket breaks or its client is closed: the request that reads from it ends.
LEMMA BreakOwn ==
  ASSUME AskInv, OwnInv,
         \/ \E i \in DOMAIN socket : SocketBreaks(i)
         \/ \E n \in Field : CloseClient(n)
  PROVE  OwnInv'
<1>1. /\ socket \in Seq(SocketRecord) /\ Len(socket) \in Nat /\ DOMAIN socket = 1 .. Len(socket)
      /\ \A i \in 1 .. Len(socket) : socket[i] \in SocketRecord /\ OwnFrame(socket[i])
      /\ ask \in [Operators -> [at: {"idle", "body", "http", "opening", "reply"},
                                of: Field, on: SocketNo]]
  BY DEF OwnInv, AskInv, AskTyped
<1>2. ASSUME NEW s \in SocketRecord
      PROVE  Shut(s).reader = NoOne /\ Shut(s).wire = <<>> /\ OwnFrame(Shut(s))
             /\ Shut(s).of = s.of
  BY DEF Shut, SocketRecord, OwnFrame
<1>3. ASSUME NEW i \in DOMAIN socket, SocketBreaks(i) PROVE OwnInv'
  <2>1. socket' = [socket EXCEPT ![i] = Shut(socket[i])]
    BY <1>3 DEF SocketBreaks
  <2>2. /\ Len(socket') = Len(socket) /\ socket'[i] = Shut(socket[i])
        /\ \A j \in 1 .. Len(socket) : j # i => socket'[j] = socket[j]
    BY <1>1, <2>1
  <2>3. \A j \in 1 .. Len(socket') : OwnFrame(socket'[j]) /\ socket'[j].of = socket[j].of
    BY <1>1, <1>2, <2>2
  <2>4. CASE socket[i].reader = NoOne
    <3>1. UNCHANGED ask
      BY <1>3, <2>4 DEF SocketBreaks
    <3>2. \A j \in 1 .. Len(socket') : socket'[j].reader = socket[j].reader
      BY <1>1, <1>2, <2>2, <2>4
    <3>3. \A p \in Operators : ask[p].at = "reply" => ask[p].on \in 1 .. Len(socket)
      BY OwnFacts
    <3>4. ASSUME NEW p \in Operators
          PROVE  /\ \A j \in 1 .. Len(socket') :
                      socket'[j].reader = p <=> ask'[p].at = "reply" /\ ask'[p].on = j
                 /\ ask'[p].at = "reply" => socket'[ask'[p].on].of = ask'[p].of
      BY <2>2, <2>3, <3>1, <3>2, <3>3 DEF OwnInv
    <3>5. QED
      BY <2>2, <2>3, <3>4 DEF OwnInv, OwnFrame
  <2>5. CASE socket[i].reader # NoOne
    <3>. DEFINE p == socket[i].reader
    <3>1. p \in Operators
      BY <1>1, <2>5 DEF SocketRecord
    <3>2. ask' = [ask EXCEPT ![p] = Idle] /\ Idle.at # "reply"
      BY <1>3, <2>5 DEF SocketBreaks, Answers, Idle
    <3>3. \A j \in 1 .. Len(socket) : j # i => socket[j].reader # p
      BY <1>1, <3>1 DEF OwnInv
    <3>. HIDE DEF p
    <3>4. \A j \in 1 .. Len(socket) :
             socket'[j].reader = IF socket[j].reader = p THEN NoOne ELSE socket[j].reader
      BY <1>1, <1>2, <2>2, <3>3 DEF p
    <3>5. QED
      BY <2>2, <2>3, <3>1, <3>2, <3>4, NoneReads
  <2>6. QED
    BY <2>4, <2>5
<1>4. ASSUME NEW n \in Field, CloseClient(n) PROVE OwnInv'
  <2>1. socket' = [i \in 1 .. Len(socket) |->
                     IF socket[i].of = n THEN Shut(socket[i]) ELSE socket[i]]
    BY <1>1, <1>4 DEF CloseClient
  <2>2. /\ Len(socket') = Len(socket)
        /\ \A i \in 1 .. Len(socket) :
             socket'[i] = IF socket[i].of = n THEN Shut(socket[i]) ELSE socket[i]
    BY <1>1, <2>1
  <2>3. \A j \in 1 .. Len(socket') : OwnFrame(socket'[j])
    BY <1>1, <1>2, <2>2
  <2>4. ask' = [p \in Operators |-> IF ask[p].of = n THEN Idle ELSE ask[p]]
    BY <1>4 DEF CloseClient
  <2>5. ASSUME NEW p \in Operators PROVE
          /\ \A i \in 1 .. Len(socket') :
               socket'[i].reader = p <=> ask'[p].at = "reply" /\ ask'[p].on = i
          /\ ask'[p].at = "reply" => socket'[ask'[p].on].of = ask'[p].of
    <3>1. ask[p].at = "reply" =>
            ask[p].on \in 1 .. Len(socket) /\ socket[ask[p].on].of = ask[p].of
      BY DEF AskInv, OwnInv
    <3>2. \A i \in 1 .. Len(socket) :
            socket[i].reader = p <=> ask[p].at = "reply" /\ ask[p].on = i
      BY DEF OwnInv
    <3>3. p # NoOne
      BY LinkAssumption
    <3>4. CASE ask[p].of = n
      <4>1. ask'[p].at # "reply"
        BY <2>4, <3>4 DEF Idle
      <4>2. \A i \in 1 .. Len(socket) : socket'[i].reader # p
        BY <1>1, <1>2, <2>2, <3>1, <3>2, <3>3, <3>4
      <4>3. QED
        BY <2>2, <4>1, <4>2
    <3>5. CASE ask[p].of # n
      <4>1. ask'[p] = ask[p]
        BY <2>4, <3>5
      <4>2. ask[p].at = "reply" => socket'[ask[p].on] = socket[ask[p].on]
        BY <2>2, <3>1, <3>5
      <4>3. \A i \in 1 .. Len(socket) : socket'[i].reader = p <=> socket[i].reader = p
        BY <1>1, <1>2, <2>2, <3>1, <3>2, <3>3, <3>5
      <4>4. QED
        BY <2>2, <3>1, <3>2, <4>1, <4>2, <4>3
    <3>6. QED
      BY <3>4, <3>5
  <2>6. QED
    BY <2>3, <2>5 DEF OwnInv, OwnFrame
<1>5. QED
  BY <1>3, <1>4

(***************************************************************************)
(* The reply that a request for the arm gets next is the one to its own    *)
(* frame (client.py:129), for any number of requests at once, sockets and  *)
(* links, whatever breaks, closes or is reconnected in between, unless a   *)
(* frame was sent on that socket while a reply was awaited.                *)
(***************************************************************************)
THEOREM ArmRepliesInTurn == MissionSpec => []RepliesInTurn
<1>1. MissionInit => OwnInv
  <2>1. MissionInit => Len(socket) = 0
    BY EmptyQueue DEF MissionInit
  <2>2. MissionInit => \A p \in Operators : ask[p].at # "reply"
    BY DEF MissionInit, Idle
  <2>3. QED
    BY <2>1, <2>2 DEF OwnInv
<1>2. MissionInv /\ OwnInv /\ [MissionNext]_missionVars => OwnInv'
  <2>. SUFFICES ASSUME MissionInv, OwnInv, [MissionNext]_missionVars
                PROVE  OwnInv'
    OBVIOUS
  <2>. AskInv /\ LinkTyped
    BY DEF MissionInv, SwitchInv
  <2>1. CASE UNCHANGED askVars
    BY <2>1 DEF askVars, OwnInv, OwnFrame
  <2>2. ASSUME NEW q \in Switchers,
               Disconnect(q) \/ Closed(q) \/ \E r \in Robots : Connect(q, r)
        PROVE  OwnInv'
    <3>1. switch[q].obj \in Field
      BY DEF LinkTyped
    <3>2. UNCHANGED askVars \/ CloseClient(switch[q].obj)
      BY <2>2 DEF Disconnect, Closed, Connect
    <3>3. QED
      BY <2>1, <3>1, <3>2, BreakOwn
  <2>3. QED
    BY <2>1, <2>2, ProxiedOwn, BreakOwn DEF MissionNext, missionVars, ViewerOpens, PumpEnds,
                                            ViewerLeaves
<1>3. MissionInv /\ OwnInv => RepliesInTurn
  <2>. SUFFICES ASSUME AskInv, OwnInv, NEW p \in Operators, ask[p].at = "reply"
                PROVE  socket[ask[p].on].overlapped \/ socket[ask[p].on].wire = <<p>>
    BY DEF MissionInv, RepliesInTurn
  <2>1. /\ ask[p].on \in 1 .. Len(socket) /\ socket[ask[p].on].reader = p /\ p # NoOne
        /\ OwnFrame(socket[ask[p].on])
    BY OwnFacts DEF OwnInv
  <2>2. QED
    BY <2>1 DEF OwnFrame
<1>4. QED
  BY <1>1, <1>2, <1>3, MissionTyped, PTL DEF MissionSpec

-----------------------------------------------------------------------------
(* The parts together *)

\* A step of Mission Control is, of each part, a step or a stutter.
LEMMA ServicesStep ==
  [Next]_vars =>
    [OpsNext]_opsVars /\ [PolicyNext]_polVars
      /\ [MetricsNext \/ DemoNext \/ SessionNext]_recordingVars
<1>1. SUFFICES ASSUME [Next]_vars
               PROVE  /\ OpsNext \/ UNCHANGED opsVars
                      /\ PolicyNext \/ UNCHANGED polVars
                      /\ MetricsNext \/ DemoNext \/ SessionNext \/ UNCHANGED recordingVars
  OBVIOUS
<1>2. CASE UNCHANGED serviceVars
  BY <1>2 DEF serviceVars
<1>3. CASE OpsTurn \/ PolicyTurn \/ RecordingTurn
  BY <1>3 DEF OpsTurn, PolicyTurn, RecordingTurn
<1>4. QED
  BY <1>1, <1>2, <1>3 DEF Next, vars

\* A step is one, or none, of each part that talks to a robot.
LEMMA RobotStep ==
  [Next]_vars =>
    [MissionNext]_missionVars /\ [ControlNext]_controlVars /\ [VideoNext]_videoVars
<1>1. SUFFICES ASSUME [Next]_vars
               PROVE  /\ MissionNext \/ UNCHANGED missionVars
                      /\ ControlNext \/ UNCHANGED controlVars
                      /\ VideoNext \/ UNCHANGED videoVars
  OBVIOUS
<1>2. CASE UNCHANGED robotVars
  BY <1>2 DEF robotVars
<1>3. CASE LinkTurn \/ ControlTurn \/ VideoTurn
  BY <1>3 DEF LinkTurn, ControlTurn, VideoTurn
<1>4. QED
  BY <1>1, <1>2, <1>3 DEF Next, vars

\* What Mission Control does is what each of its parts may do.
LEMMA PartsHold ==
  Spec => /\ OpsSpec /\ PolicySpec /\ RecordingSpec
          /\ MissionSpec /\ ControlSpec /\ VideoSpec
<1>1. Init => /\ OpsInit /\ PolicyInit /\ RecordingInit
              /\ MissionInit /\ ControlInit /\ VideoInit
  BY DEF Init
<1>2. QED
  BY <1>1, ServicesStep, RobotStep, PTL
     DEF Spec, OpsSpec, PolicySpec, RecordingSpec, MissionSpec, ControlSpec, VideoSpec

(***************************************************************************)
(* Mission Control as a whole is type-correct, and its log sockets miss no *)
(* line, it serves no policy it was not handed, loses no snapshot a flush  *)
(* did not lose, mixes no two demonstrations or sessions but by steps that *)
(* came late, answers about the arm in turn, and repeats only the last     *)
(* word of a driver, whatever its other parts are asked (pibot/mc).        *)
(***************************************************************************)
THEOREM MissionControlSafe ==
  Spec => [](/\ TypeOK /\ StreamComplete /\ ServedWasHanded /\ SnapshotsKept
             /\ OnlyLateStepsStray /\ SessionsBounded /\ RepliesInTurn
             /\ RepeatsLastWord)
<1>1. OpsInv => OpsTypeOK
  BY DEF OpsInv
<1>2. (OpsTypeOK /\ PolicyTypeOK /\ RecordingTypeOK
        /\ MissionTypeOK /\ ControlTypeOK /\ VideoTypeOK) => TypeOK
  BY DEF TypeOK
<1>3. QED
  BY <1>1, <1>2, PartsHold, OpsCorrect, StreamsAreComplete, ServedHanded, RecordingTyped,
     SnapshotsAreKept, StraysAreLate, SessionsSound, MissionTyped, ControlTyped, VideoTyped,
     ArmRepliesInTurn, KeeperObeys, PTL

(***************************************************************************)
(* Its jobs keep their promise, its retention its order and its video path *)
(* the newest frame, also as parts of Mission Control (ops.py, metrics.py, *)
(* video_relay.py).                                                        *)
(***************************************************************************)
THEOREM MissionControlKeeps ==
  Spec => KeepsPromise /\ RetentionKeepsNewest /\ [][NewestKept]_videoVars
BY PartsHold, OpsImplements, OldestGoFirst, NewestFrameKept, PTL

(***************************************************************************)
(* With one client of the policy server and one request at a time to       *)
(* switch robots, what Mission Control says of its server and holds of its *)
(* link is so (policy_server.py, robot_link.py).                           *)
(***************************************************************************)
THEOREM MissionControlTruthful ==
  OneClient /\ OneSwitcher => (Spec => [](StatusTruthful /\ LinkSettled))
BY PartsHold, StatusIsTruthful, LinkIsSettled, PTL
=============================================================================
