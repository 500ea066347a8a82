-------------------------- MODULE WorkstationProofs --------------------------
(***************************************************************************)
(* Theorems about the commands given at the operator's workstation, for    *)
(* any number of deploys, rollbacks, commands, device nodes, robots and    *)
(* aliases.                                                                *)
(***************************************************************************)
EXTENDS MCWorkstation, FiniteSetTheorems, WellFoundedInduction, TLAPS

-----------------------------------------------------------------------------
(* Deploy and rollback *)

USE DeployAssumption

ReleaseRecord == [holds: {"absent", "empty", "half", "whole"}, starts: BOOLEAN]

JobRecord == [step: Steps, cmd: {"none", "deploy", "rollback"}, release: ReleaseNo,
              tries: 0 .. Attempts]

ExitRecord == [cmd: {"none", "deploy", "rollback"}, status: {0, 1},
               agent: ReleaseNo, byHand: BOOLEAN]

\* The step a command is at says which release it works on: the one just
\* created, or one that is there.
JobInv ==
  /\ job.step \in {"mkdir", "rsync"} =>
       job.release = Len(releases) /\ job.release # 0
  /\ job.step \in {"activate", "relink"} => job.release \in 1 .. Len(releases)
  /\ job.step \in {"mkdir", "rsync", "activate", "venv"} => job.cmd = "deploy"
  /\ job.step \in {"previous", "relink"} => job.cmd = "rollback"

\* What a restart that succeeded has established holds while the agent is
\* probed, whatever agents come and go, and after the command.
Settled(name) ==
  /\ agent # 0 => agent = current
  /\ name = "deploy" => venv = current

GateInv ==
  /\ job.step = "restart" => (job.cmd = "deploy" => venv = current)
  /\ job.step = "health" => Settled(job.cmd)
  /\ GatePassed

DeployInv == DeployTypeOK /\ JobInv /\ GateInv

-----------------------------------------------------------------------------
\* The newest of some releases is one of them.
LEMMA MaxIsOne ==
  ASSUME NEW n \in Nat, NEW S \in SUBSET (1 .. n), S # {}
  PROVE  Max(S) \in S
<1>. DEFINE Rest == {n - x : x \in S}
<1>1. Rest \in SUBSET Nat /\ Rest # {}
  <2>1. \A x \in S : n - x \in Nat
    OBVIOUS
  <2>2. QED
    BY <2>1
<1>2. PICK m \in Rest : \A k \in Rest : m <= k
  <2>. HIDE DEF Rest
  <2>1. PICK m \in Rest : \A k \in Rest : <<k, m>> \notin OpToRel(<, Nat)
    BY <1>1, WFMin, NatLessThanWellFounded, Zenon
  <2>2. \A k \in Rest : ~(k < m)
    BY <1>1, <2>1, Zenon DEF OpToRel
  <2>3. QED
    BY <1>1, <2>2
<1>3. PICK x \in S : m = n - x
  BY <1>2
<1>4. \A y \in S : x >= y
  <2>1. ASSUME NEW y \in S PROVE x >= y
    <3>1. n - y \in Rest /\ x \in Nat /\ y \in Nat
      OBVIOUS
    <3>2. n - x <= n - y
      BY <1>2, <1>3, <3>1
    <3>3. QED
      BY <3>1, <3>2
  <2>2. QED
    BY <2>1
<1>5. QED
  BY <1>4 DEF Max

\* The types of a job that goes on or of a command that ends.
LEMMA JobType ==
  ASSUME DeployTypeOK
  PROVE  /\ \A step \in Steps : Then(step) =>
              /\ job' \in JobRecord
              /\ job'.step = step /\ job'.release = job.release /\ job'.cmd = job.cmd
         /\ \A status \in {0, 1} : Exits(status) =>
              /\ job' = Resting
              /\ exit' \in ExitRecord
              /\ exit'.cmd = job.cmd /\ exit'.status = status
              /\ exit'.agent = agent /\ exit'.byHand = byHand
         /\ Resting \in JobRecord
         /\ Resting.step = "none"
<1>1. /\ job \in JobRecord /\ byHand \in BOOLEAN
      /\ agent \in ReleaseNo
  BY DEF DeployTypeOK, JobRecord, ReleaseNo
<1>2. ASSUME NEW step \in Steps, Then(step)
      PROVE  /\ job' \in JobRecord
             /\ job'.step = step /\ job'.release = job.release /\ job'.cmd = job.cmd
  BY <1>1, <1>2 DEF Then, JobRecord
<1>3. ASSUME NEW status \in {0, 1}, Exits(status)
      PROVE  /\ job' = Resting
             /\ exit' \in ExitRecord
             /\ exit'.cmd = job.cmd /\ exit'.status = status
             /\ exit'.agent = agent /\ exit'.byHand = byHand
  BY <1>1, <1>3 DEF Exits, JobRecord, ExitRecord
<1>4. /\ Resting \in JobRecord
      /\ Resting.step = "none"
  BY DEF Resting, Steps, ReleaseNo, JobRecord
<1>5. QED
  BY <1>2, <1>3, <1>4

\* A command that fails or is interrupted, with the releases as they are, has
\* established nothing, and nothing is claimed.
LEMMA FailureKeeps ==
  ASSUME DeployInv, Exits(1), UNCHANGED releases,
         current' \in 0 .. Len(releases), venv' \in 0 .. Len(releases),
         agent' \in 0 .. Len(releases), rollbacks' \in 0 .. MaxRollbacks,
         {trying', enabled', byHand'} \subseteq BOOLEAN
  PROVE  DeployInv'
<1>1. job' = Resting /\ Resting.step = "none" /\ exit'.status = 1
      /\ exit' \in ExitRecord
      /\ Resting \in JobRecord
  BY JobType DEF DeployInv
<1>2. DeployTypeOK'
  BY <1>1 DEF DeployInv, DeployTypeOK, JobRecord, ExitRecord
<1>3. JobInv'
  BY <1>1 DEF JobInv
<1>4. GateInv'
  BY <1>1 DEF GateInv, GatePassed
<1>5. QED
  BY <1>2, <1>3, <1>4 DEF DeployInv

\* A command that goes on claims nothing yet.
LEMMA OnKeeps ==
  ASSUME DeployInv, NEW step \in {"rsync", "activate", "venv", "restart"}, Then(step), UNCHANGED exit,
         releases' \in Seq(ReleaseRecord), Len(releases') = Len(releases),
         current' \in 0 .. Len(releases), venv' \in 0 .. Len(releases),
         agent' \in 0 .. Len(releases), rollbacks' \in 0 .. MaxRollbacks,
         {trying', enabled', byHand'} \subseteq BOOLEAN,
         step = "restart" => (job.cmd = "deploy" => venv' = current'),
         step = "rsync" =>
           job.release = Len(releases) /\ job.release # 0,
         step = "activate" => job.release \in 1 .. Len(releases),
         step \in {"rsync", "activate", "venv"} => job.cmd = "deploy"
  PROVE  DeployInv'
<1>1. /\ job' \in JobRecord
      /\ job'.step = step /\ job'.release = job.release /\ job'.cmd = job.cmd
      /\ Resting.step = "none"
  <2>1. step \in Steps
    BY DEF Steps
  <2>2. QED
    BY <2>1, JobType DEF DeployInv
<1>2. DeployTypeOK'
  BY <1>1 DEF DeployInv, DeployTypeOK, ReleaseRecord, JobRecord, ExitRecord
<1>3. JobInv'
  BY <1>1 DEF JobInv
<1>4. job' # Resting
  BY <1>1
<1>5. GateInv'
  BY <1>1, <1>4 DEF GateInv, GatePassed
<1>6. QED
  BY <1>2, <1>3, <1>5 DEF DeployInv

-----------------------------------------------------------------------------
(* The steps of a deploy *)

\* The facts every step starts from.
LEMMA Known ==
  ASSUME DeployInv
  PROVE  /\ releases \in Seq(ReleaseRecord) /\ Len(releases) \in Nat
         /\ current \in 0 .. Len(releases) /\ venv \in 0 .. Len(releases)
         /\ agent \in 0 .. Len(releases) /\ rollbacks \in 0 .. MaxRollbacks
         /\ {trying, enabled, byHand} \subseteq BOOLEAN
         /\ \A r \in 1 .. Len(releases) : releases[r] \in ReleaseRecord
         /\ current # 0 => current \in 1 .. Len(releases)
<1>1. /\ releases \in Seq(ReleaseRecord)
      /\ {current, venv, agent} \subseteq 0 .. Len(releases)
      /\ rollbacks \in 0 .. MaxRollbacks
      /\ {trying, enabled, byHand} \subseteq BOOLEAN
  BY DEF DeployInv, DeployTypeOK, ReleaseRecord
<1>2. QED
  BY <1>1

\* A new release is at the end of the list.
LEMMA DeployCommandKeeps ==
  ASSUME DeployInv, DeployCommand
  PROVE  DeployInv'
<1>. DEFINE new == [holds |-> "absent", starts |-> FALSE]
<1>1. new \in ReleaseRecord
  BY DEF ReleaseRecord
<1>2. releases' = Append(releases, new) /\ Len(releases) < MaxReleases
      /\ UNCHANGED <<current, venv, robotAgent, exit, rollbacks>>
  BY DEF DeployCommand
<1>. HIDE DEF new
<1>3. /\ releases' \in Seq(ReleaseRecord) /\ Len(releases') = Len(releases) + 1
      /\ \A r \in 1 .. Len(releases) : releases'[r] = releases[r]
  BY <1>1, <1>2, Known
<1>4. Len(releases') <= MaxReleases /\ Len(releases) + 1 \in ReleaseNo
  BY <1>2, <1>3, Known DEF ReleaseNo
<1>5. /\ job'.step = "mkdir" /\ job'.cmd = "deploy" /\ job'.release = Len(releases) + 1
      /\ job' \in JobRecord
  BY <1>4 DEF DeployCommand, Steps, JobRecord
<1>6. DeployTypeOK'
  BY <1>2, <1>3, <1>4, <1>5, Known
     DEF DeployInv, DeployTypeOK, ReleaseRecord, JobRecord, ExitRecord, robotAgent
<1>7. JobInv'
  BY <1>2, <1>3, <1>5, Known DEF JobInv
<1>8. GateInv'
  <2>1. job' # Resting
    BY <1>5 DEF Resting
  <2>2. QED
    BY <1>5, <2>1 DEF GateInv, GatePassed
<1>9. QED
  BY <1>6, <1>7, <1>8 DEF DeployInv

\* What is synced is the new release.
LEMMA SyncKeeps ==
  ASSUME DeployInv, MakeRelease \/ Sync
  PROVE  DeployInv'
<1>1. /\ job.release = Len(releases) /\ job.release # 0
      /\ job.cmd = "deploy" /\ job.release \in 1 .. Len(releases)
  BY Known DEF MakeRelease, Sync, DeployInv, JobInv
<1>2. PICK new \in ReleaseRecord : releases' = [releases EXCEPT ![job.release] = new]
  <2>1. releases[job.release] \in ReleaseRecord
    BY <1>1, Known
  <2>2. CASE MakeRelease
    <3>1. PICK h \in {"absent", "empty"} : releases' =
            [releases EXCEPT ![job.release] = [releases[job.release] EXCEPT !.holds = h]]
      BY <2>2 DEF MakeRelease
    <3>2. [releases[job.release] EXCEPT !.holds = h] \in ReleaseRecord
      BY <2>1 DEF ReleaseRecord
    <3>3. QED
      BY <3>1, <3>2
  <2>3. CASE Sync
    <3>1. PICK h \in {releases[job.release].holds, "half", "whole"}, b \in BOOLEAN :
            releases' = [releases EXCEPT ![job.release] = [holds |-> h, starts |-> b]]
      BY <2>3 DEF Sync
    <3>2. [holds |-> h, starts |-> b] \in ReleaseRecord
      BY <2>1 DEF ReleaseRecord
    <3>3. QED
      BY <3>1, <3>2
  <2>4. QED
    BY <2>2, <2>3
<1>3. /\ releases' \in Seq(ReleaseRecord) /\ Len(releases') = Len(releases)
      /\ \A r \in 1 .. Len(releases) : r # job.release => releases'[r] = releases[r]
  BY <1>1, <1>2, Known
<1>5. PICK step \in {"rsync", "activate"} : Then(step)
  BY DEF MakeRelease, Sync
<1>6. UNCHANGED <<current, venv, robotAgent, exit, rollbacks>>
  BY DEF MakeRelease, Sync
<1>7. QED
  BY <1>1, <1>3, <1>5, <1>6, Known, OnKeeps DEF robotAgent

\* The link is renamed or not; either way the command goes on.
LEMMA ActivateKeeps ==
  ASSUME DeployInv, ActivateNew \/ ActivatePrevious
  PROVE  DeployInv'
<1>1. /\ job.release \in 1 .. Len(releases) /\ current' \in {current, job.release}
      /\ UNCHANGED <<releases, venv, agent, trying, enabled, byHand, exit, rollbacks>>
  BY DEF ActivateNew, ActivatePrevious, Activate, DeployInv, JobInv, robotAgent
<1>2. current' \in 0 .. Len(releases)
  BY <1>1, Known
<1>3. CASE ActivateNew
  <2>1. Then("venv") /\ job.cmd = "deploy"
    BY <1>3 DEF ActivateNew, Activate, DeployInv, JobInv
  <2>2. QED
    BY <1>1, <1>2, <2>1, Known, OnKeeps
<1>4. CASE ActivatePrevious
  <2>1. Then("restart") /\ job.cmd # "deploy"
    BY <1>4 DEF ActivatePrevious, Activate, DeployInv, JobInv
  <2>2. QED
    BY <1>1, <1>2, <2>1, Known, OnKeeps
<1>5. QED
  BY <1>3, <1>4

\* The venv is refreshed from the release that is current.
LEMMA RefreshKeeps ==
  ASSUME DeployInv, RefreshVenv
  PROVE  DeployInv'
<1>1. UNCHANGED <<releases, current, agent, trying, enabled, byHand, rollbacks>>
  BY DEF RefreshVenv, robotAgent
<1>2. CASE venv' = current /\ Then("restart") /\ UNCHANGED exit
  <2>1. QED
    BY <1>1, <1>2, Known, OnKeeps
<1>3. CASE Exits(1) /\ venv' \in {venv, 0}
  BY <1>1, <1>3, Known, FailureKeeps
<1>4. QED
  BY <1>2, <1>3 DEF RefreshVenv

-----------------------------------------------------------------------------
(* The steps of a rollback *)

\* A rollback begins by looking for a release.
LEMMA RollbackCommandKeeps ==
  ASSUME DeployInv, RollbackCommand
  PROVE  DeployInv'
<1>1. /\ job'.step = "previous" /\ job'.cmd = "rollback"
      /\ job' \in JobRecord
  BY DEF RollbackCommand, Steps, ReleaseNo, JobRecord
<1>2. /\ rollbacks' \in 0 .. MaxRollbacks
      /\ UNCHANGED <<releases, current, venv, robotAgent, exit>>
  BY Known DEF RollbackCommand
<1>3. DeployTypeOK'
  BY <1>1, <1>2 DEF DeployInv, DeployTypeOK, JobRecord, ExitRecord, robotAgent
<1>4. JobInv'
  BY <1>1 DEF JobInv
<1>5. GateInv'
  <2>1. job' # Resting
    BY <1>1 DEF Resting
  <2>2. QED
    BY <1>1, <1>2, <2>1, Known DEF GateInv, GatePassed
<1>6. QED
  BY <1>3, <1>4, <1>5 DEF DeployInv

\* The release it finds is one that was deployed.
LEMMA FindPreviousKeeps ==
  ASSUME DeployInv, FindPrevious
  PROVE  DeployInv'
<1>1. UNCHANGED <<releases, current, venv, agent, trying, enabled, byHand, rollbacks>>
  BY DEF FindPrevious, robotAgent
<1>2. ASSUME OtherReleases # {}, UNCHANGED exit,
             job' = [job EXCEPT !.step = "relink", !.release = Max(OtherReleases)]
      PROVE  DeployInv'
  <2>1. OtherReleases \subseteq 1 .. Len(releases)
    BY Known DEF OtherReleases
  <2>2. Max(OtherReleases) \in 1 .. Len(releases)
    BY <1>2, <2>1, Known, MaxIsOne
  <2>3. Max(OtherReleases) \in ReleaseNo
    BY <2>2, Known DEF ReleaseNo, DeployInv, DeployTypeOK, JobRecord, ExitRecord
  <2>. DEFINE r == Max(OtherReleases)
  <2>. HIDE DEF r
  <2>4. /\ job'.step = "relink" /\ job'.release \in 1 .. Len(releases)
        /\ job'.cmd = job.cmd /\ job' \in JobRecord
    BY <1>2, <2>2, <2>3 DEF DeployInv, DeployTypeOK, Steps, JobRecord
  <2>5. DeployTypeOK'
    BY <1>1, <1>2, <2>4 DEF DeployInv, DeployTypeOK, JobRecord, ExitRecord
  <2>6. JobInv'
    <3>1. job.cmd = "rollback"
      BY DEF FindPrevious, DeployInv, JobInv
    <3>2. QED
      BY <1>1, <2>4, <3>1 DEF JobInv
  <2>7. job' # Resting
    BY <2>4 DEF Resting
  <2>8. GateInv'
    BY <1>1, <1>2, <2>4, <2>7, Known DEF GateInv, GatePassed
  <2>9. QED
    BY <2>5, <2>6, <2>8 DEF DeployInv
<1>3. CASE Exits(1)
  BY <1>1, <1>3, Known, FailureKeeps
<1>4. QED
  BY <1>2, <1>3 DEF FindPrevious

-----------------------------------------------------------------------------
(* The restart and the health gate *)

\* A restart that succeeds leaves no agent of systemd's up yet.
LEMMA RestartKeeps ==
  ASSUME DeployInv, Restart
  PROVE  DeployInv'
<1>1. /\ UNCHANGED <<releases, current, venv, byHand, rollbacks>> /\ job.step = "restart"
      /\ agent' \in {0, agent} /\ {trying', enabled'} \subseteq BOOLEAN
  BY Known DEF Restart
<1>2. agent' \in 0 .. Len(releases)
  BY <1>1, Known
<1>3. CASE agent' = 0 /\ Then("health") /\ UNCHANGED exit
  <2>1. "health" \in Steps /\ Resting.step = "none"
    BY DEF Steps, Resting
  <2>2. /\ job' \in JobRecord
        /\ job'.step = "health" /\ job'.cmd = job.cmd
    BY <1>3, <2>1, JobType DEF DeployInv
  <2>3. DeployTypeOK'
    BY <1>1, <1>2, <1>3, <2>2, Known DEF DeployInv, DeployTypeOK, JobRecord, ExitRecord
  <2>4. JobInv'
    BY <2>2 DEF JobInv
  <2>5. job.cmd = "deploy" => venv = current
    BY <1>1 DEF DeployInv, GateInv
  <2>6. Settled(job.cmd)'
    BY <1>1, <1>3, <2>2, <2>5 DEF Settled
  <2>7. job' # Resting
    BY <2>1, <2>2
  <2>8. GateInv'
    BY <2>2, <2>6, <2>7 DEF GateInv, GatePassed
  <2>9. QED
    BY <2>3, <2>4, <2>8 DEF DeployInv
<1>4. CASE Exits(1)
  BY <1>1, <1>2, <1>4, Known, FailureKeeps
<1>5. QED
  BY <1>3, <1>4 DEF Restart

\* The gate passes only when an agent answers: systemd's, which is then one of
\* the current release, or the one started by hand.
LEMMA HealthKeeps ==
  ASSUME DeployInv, Health
  PROVE  DeployInv'
<1>1. /\ UNCHANGED <<releases, current, venv, agent, trying, enabled, byHand, rollbacks>>
      /\ Settled(job.cmd)
  BY DEF Health, DeployInv, GateInv, robotAgent
<1>2. CASE AgentAnswers /\ Exits(0)
  <2>1. /\ job' = Resting /\ Resting.step = "none" /\ exit'.cmd = job.cmd
        /\ exit' \in ExitRecord /\ exit'.agent = agent /\ exit'.byHand = byHand
        /\ Resting \in JobRecord
    BY <1>2, JobType DEF DeployInv
  <2>2. DeployTypeOK'
    BY <1>1, <2>1 DEF DeployInv, DeployTypeOK, JobRecord, ExitRecord
  <2>3. JobInv'
    BY <2>1 DEF JobInv
  <2>4. GateInv'
    BY <1>1, <1>2, <2>1, Known DEF GateInv, GatePassed, Settled, AgentAnswers
  <2>5. QED
    BY <2>2, <2>3, <2>4 DEF DeployInv
<1>3. CASE job.tries + 1 < Attempts /\ job' = [job EXCEPT !.tries = @ + 1] /\ UNCHANGED exit
           /\ job.step = "health"
  <2>1. job.tries + 1 \in 0 .. Attempts
    BY <1>3 DEF DeployInv, DeployTypeOK, JobRecord, ExitRecord
  <2>2. /\ job' \in JobRecord
        /\ job'.step = "health" /\ job'.cmd = job.cmd
    BY <1>3, <2>1 DEF DeployInv, DeployTypeOK, JobRecord, ExitRecord
  <2>3. DeployTypeOK'
    BY <1>1, <1>3, <2>2 DEF DeployInv, DeployTypeOK, JobRecord, ExitRecord
  <2>4. JobInv'
    BY <2>2 DEF JobInv
  <2>5. job' # Resting
    BY <2>2 DEF Resting
  <2>6. GateInv'
    BY <1>1, <2>2, <2>5, Known DEF GateInv, GatePassed, Settled
  <2>7. QED
    BY <2>3, <2>4, <2>6 DEF DeployInv
<1>4. CASE Exits(1)
  BY <1>1, <1>4, Known, FailureKeeps
<1>5. QED
  BY <1>2, <1>3, <1>4 DEF Health

\* systemd starts the agent where `current` points, which nothing but a command
\* changes: once the gate has passed, no other release comes up.
LEMMA AgentKeeps ==
  ASSUME DeployInv, AgentNext
  PROVE  DeployInv'
<1>1. /\ UNCHANGED <<releases, current, venv, enabled, job, exit, rollbacks>>
      /\ agent' \in {agent, 0, current} /\ {trying', byHand'} \subseteq BOOLEAN
  BY Known DEF AgentNext, AgentComesUp, SystemdGivesUp, AgentCrashes, StartByHand,
               StopAgents, Reboot, Agents
<1>2. agent' \in 0 .. Len(releases)
  BY <1>1, Known
<1>3. DeployTypeOK'
  BY <1>1, <1>2, Known DEF DeployInv, DeployTypeOK
<1>4. JobInv'
  BY <1>1 DEF DeployInv, JobInv
<1>5. GatePassed'
  BY <1>1 DEF DeployInv, GateInv, GatePassed
<1>6. Settled(job.cmd) => Settled(job.cmd)'
  BY <1>1 DEF Settled
<1>7. GateInv'
  BY <1>1, <1>5, <1>6 DEF DeployInv, GateInv
<1>8. QED
  BY <1>3, <1>4, <1>7 DEF DeployInv

\* An interrupt ends the command where it is.
LEMMA InterruptedKeeps ==
  ASSUME DeployInv, Interrupted
  PROVE  DeployInv'
  BY Known, FailureKeeps DEF Interrupted, robotAgent

\* Every step keeps the invariant.
LEMMA DeployStepKeeps == DeployInv /\ [DeployNext]_deployVars => DeployInv'
<1>. SUFFICES ASSUME DeployInv, [DeployNext]_deployVars PROVE DeployInv'
  OBVIOUS
<1>1. CASE UNCHANGED deployVars
  BY <1>1 DEF deployVars, robotAgent, DeployInv, DeployTypeOK, JobInv, GateInv, GatePassed, Settled
<1>2. CASE DeployNext
  BY <1>2, DeployCommandKeeps, SyncKeeps, ActivateKeeps, RefreshKeeps, RollbackCommandKeeps,
     FindPreviousKeeps, RestartKeeps, HealthKeeps, AgentKeeps, InterruptedKeeps
     DEF DeployNext, DeployStep
<1>3. QED
  BY <1>1, <1>2

\* The invariant holds before any deploy.
LEMMA DeployStart == DeployInit => DeployInv
<1>. SUFFICES ASSUME DeployInit PROVE DeployInv
  OBVIOUS
<1>1. /\ releases \in Seq(ReleaseRecord) /\ Len(releases) = 0 /\ job.step = "none"
      /\ job \in JobRecord
      /\ exit.status = 1 /\ exit \in ExitRecord
  <2>1. 0 \in ReleaseNo /\ 0 \in 0 .. Attempts
    BY DEF ReleaseNo
  <2>2. job \in JobRecord /\ job.step = "none"
    BY <2>1 DEF DeployInit, Resting, Steps, JobRecord
  <2>3. exit \in ExitRecord /\ exit.status = 1
    BY <2>1 DEF DeployInit, ExitRecord
  <2>4. QED
    BY <2>2, <2>3 DEF DeployInit
<1>2. DeployTypeOK
  <2>1. Len(releases) <= MaxReleases /\ {current, venv, agent} \subseteq 0 .. Len(releases)
    BY <1>1 DEF DeployInit
  <2>2. {trying, enabled, byHand} \subseteq BOOLEAN /\ rollbacks \in 0 .. MaxRollbacks
    <3>1. trying = FALSE /\ enabled = FALSE /\ byHand \in BOOLEAN
      BY Zenon DEF DeployInit
    <3>2. rollbacks \in 0 .. MaxRollbacks
      BY DEF DeployInit
    <3>3. QED
      BY <3>1, <3>2, Zenon
  <2>3. /\ releases \in Seq([holds: {"absent", "empty", "half", "whole"}, starts: BOOLEAN])
        /\ job \in [step: Steps, cmd: {"none", "deploy", "rollback"}, release: ReleaseNo,
                    tries: 0 .. Attempts]
        /\ exit \in [cmd: {"none", "deploy", "rollback"}, status: {0, 1},
                     agent: ReleaseNo, byHand: BOOLEAN]
    BY <1>1 DEF ReleaseRecord, JobRecord, ExitRecord
  <2>4. QED
    BY <2>1, <2>2, <2>3 DEF DeployTypeOK
<1>3. JobInv /\ GateInv
  BY <1>1 DEF DeployInit, JobInv, GateInv, GatePassed
<1>4. QED
  BY <1>2, <1>3 DEF DeployInv

(***************************************************************************)
(* What an exit 0 of a deploy or a rollback is worth (service.py:150-168): *)
(* the agent that answered was systemd's, started from the release that is *)
(* current, or one that an operator started by hand; whatever agents crash,*)
(* come up or are stopped afterwards, systemd's runs no other release; and *)
(* a deploy has left that release's requirements installed -- whatever     *)
(* step failed or was interrupted before.                                  *)
(***************************************************************************)
THEOREM GateSound == DeploySpec => [](DeployTypeOK /\ GatePassed)
<1>1. DeployInv => DeployTypeOK /\ GatePassed
  BY DEF DeployInv, GateInv
<1>2. QED
  BY <1>1, DeployStart, DeployStepKeeps, PTL DEF DeploySpec

-----------------------------------------------------------------------------
(* Provisioning *)

USE ProvisionAssumption

Command ==
  [name: Names \cup {"none"}, confirm: BOOLEAN, dry: BOOLEAN, spec: FirstBoot,
   step: {"none", "start", "rpiboot", "poll", "check", "write", "mount", "config"},
   node: Nodes \cup OwnNodes \cup {"none"}, before: SUBSET Nodes,
   tries: 0 .. PollAttempts - 1, disk: Disks \cup {"none"}, mounted: Disks \cup {"none"},
   stayed: SUBSET External]

Contents == {"own", "half", "image", "partly", "configured", "ignored"}

EndRecord == [name: Names \cup {"none"}, status: {0, 1}, disk: Disks \cup {"none"},
              spec: FirstBoot, count: 0 .. MaxCommands]

\* The disk at a node when the external disks are where `a` says.
DiskOf(a, n) ==
  CASE n \in OwnNodes -> IF n = CHOOSE o \in OwnNodes : TRUE THEN "system" ELSE "internal"
    [] \E d \in External : a[d] = n -> CHOOSE d \in External : a[d] = n
    [] OTHER -> "none"

\* No two disks are plugged in at one node.
Apart(a) ==
  /\ a \in [External -> Nodes \cup {"none"}]
  /\ \A d, e \in External : a[d] = a[e] /\ a[d] # "none" => d = e

\* What the steps before have established of the command.
Confirmed(c) ==
  /\ c.step = "none" => c = NoCmd
  /\ c.step \in {"start", "rpiboot", "poll", "check"} => c.disk = "none"
  /\ c.step \in {"rpiboot", "poll", "check", "write", "mount", "config"} =>
       c.name = "flash" /\ (c.confirm \/ c.dry)
  /\ c.step \in {"poll", "write", "mount", "config"} => ~c.dry
  /\ c.step \in {"mount", "config"} => c.spec # "none"
  /\ c.step \in {"start", "rpiboot"} => c.stayed = {}
  /\ c.step \in {"check", "write", "mount", "config"} => c.node # "none"

\* A disk that stayed plugged in since before rpiboot is not at the target's
\* node; a target that is one of this machine's own was judged safe; and the
\* disk judged, or mounted, is at the node still, if it is plugged in at all.
Aimed(c, a) ==
  /\ \A d \in c.stayed : a[d] # "none"
  /\ c.step = "poll" => \A d \in c.stayed : a[d] \in c.before
  /\ c.step \in {"check", "write", "mount", "config"} => \A d \in c.stayed : a[d] # c.node
  /\ c.step \in {"write", "mount", "config"} =>
       /\ c.node \in OwnNodes => SafeTarget(DiskOf(a, c.node))
       /\ c.disk # "none" => DiskOf(a, c.node) = c.disk
  /\ c.step = "config" =>
       /\ c.mounted # "none" => DiskOf(a, c.node) = c.mounted
       /\ c.disk # "none" => c.mounted = c.disk

\* What a flash that exits 0 has left on a disk.
Flashed(spec, h) ==
  /\ spec = "none" => h = "image"
  /\ spec = "detected" => h = "configured"
  /\ spec = "named" => h \in {"configured", "ignored"}

ProvisionInv ==
  /\ ProvisionTypeOK /\ Apart(at) /\ Confirmed(cmd) /\ Aimed(cmd, at)
  /\ cmd # NoCmd => done.count < MaxCommands
  /\ FlashedWhole

\* The types of what no command's record holds.
OtherTypes ==
  /\ {exposed, built} \subseteq BOOLEAN
  /\ eeprom \in [version: {"old", "new"}, config: {"own", "reordered", "order-only"}]
  /\ image \in {"none", "torn", "whole"} /\ board \in {"old", "half", "new"}

-----------------------------------------------------------------------------
\* The disk found at a node is an own one exactly at the own nodes, and is the
\* external one that has the node.
LEMMA DiskOfIs ==
  ASSUME NEW a, Apart(a), NEW n
  PROVE  /\ n \in OwnNodes => DiskOf(a, n) \in {"system", "internal"}
         /\ n \notin OwnNodes => DiskOf(a, n) \in External \cup {"none"}
         /\ n # "none" => \A d \in External : (DiskOf(a, n) = d <=> a[d] = n)
         /\ DiskOf(a, n) \in Disks \cup {"none"}
<1>1. CASE n \in OwnNodes
  <2>1. \A d \in External : a[d] # n
    BY <1>1 DEF Apart
  <2>2. DiskOf(a, n) = IF n = CHOOSE o \in OwnNodes : TRUE THEN "system" ELSE "internal"
    BY <1>1, <2>1, Zenon DEF DiskOf
  <2>3. DiskOf(a, n) \in {"system", "internal"}
    BY <2>2
  <2>4. QED
    BY <1>1, <2>1, <2>3 DEF External, Disks
<1>2. CASE n \notin OwnNodes /\ \E d \in External : a[d] = n
  <2>1. DiskOf(a, n) = CHOOSE d \in External : a[d] = n
    BY <1>2, Zenon DEF DiskOf
  <2>2. DiskOf(a, n) \in External /\ a[DiskOf(a, n)] = n
    BY <1>2, <2>1
  <2>3. QED
    BY <1>2, <2>2 DEF Apart, Disks
<1>3. CASE n \notin OwnNodes /\ ~\E d \in External : a[d] = n
  <2>1. DiskOf(a, n) = "none"
    BY <1>3, Zenon DEF DiskOf
  <2>2. QED
    BY <1>3, <2>1 DEF External, Disks
<1>4. QED
  BY <1>1, <1>2, <1>3

\* The disk found now and after a step.
LEMMA DiskAtIs ==
  ASSUME NEW n
  PROVE  /\ DiskAt(n) = DiskOf(at, n)
         /\ DiskAt(n)' = DiskOf(at', n)
  BY DEF DiskAt, DiskOf

\* The facts every step starts from.
LEMMA Started ==
  ASSUME ProvisionInv
  PROVE  /\ cmd \in Command /\ done \in EndRecord /\ holds \in [Disks -> Contents]
         /\ OtherTypes /\ Apart(at) /\ Confirmed(cmd) /\ Aimed(cmd, at)
         /\ cmd.step # "none" => cmd # NoCmd /\ done.count + 1 \in 0 .. MaxCommands
  <1>1. /\ cmd \in Command /\ done \in EndRecord /\ holds \in [Disks -> Contents]
        /\ OtherTypes /\ Apart(at) /\ Confirmed(cmd) /\ Aimed(cmd, at)
    BY DEF ProvisionInv, ProvisionTypeOK, Command, EndRecord, Contents, OtherTypes
  <1>2. NoCmd.step = "none"
    BY DEF NoCmd
  <1>3. MaxCommands \in Nat /\ done.count \in 0 .. MaxCommands
    BY <1>1 DEF EndRecord
  <1>4. QED
    BY <1>1, <1>2, <1>3 DEF ProvisionInv

\* No command is aimed at anything.
LEMMA NoCmdFits ==
  /\ NoCmd \in Command /\ Confirmed(NoCmd) /\ \A a : Aimed(NoCmd, a)
  /\ NoCmd.step = "none" /\ NoCmd.stayed = {} /\ NoCmd.disk = "none" /\ NoCmd.mounted = "none"
<1>1. /\ NoCmd.step = "none" /\ NoCmd.stayed = {} /\ NoCmd.disk = "none" /\ NoCmd.mounted = "none"
  BY DEF NoCmd
<1>2. NoCmd \in Command
  <2>1. 0 \in 0 .. PollAttempts - 1
    OBVIOUS
  <2>2. QED
    BY <2>1 DEF NoCmd, Command, FirstBoot
<1>3. QED
  BY <1>1, <1>2 DEF Confirmed, Aimed

-----------------------------------------------------------------------------
(* How a step leaves the command *)

\* A command ends; a flash that exits 0 has done what it says.
LEMMA EndKeeps ==
  ASSUME ProvisionInv, cmd.step # "none", NEW status \in {0, 1}, Ends(status),
         UNCHANGED at, OtherTypes', holds' \in [Disks -> Contents],
         (cmd.name = "flash" /\ status = 0 /\ cmd.disk # "none") =>
            Flashed(cmd.spec, holds'[cmd.disk])
  PROVE  ProvisionInv'
<1>1. cmd' = NoCmd /\ done' = [name |-> cmd.name, status |-> status, disk |-> cmd.disk,
                               spec |-> cmd.spec, count |-> done.count + 1]
  BY DEF Ends
<1>2. done' \in EndRecord
  BY <1>1, Started DEF Command, EndRecord
<1>3. Apart(at') /\ Confirmed(cmd') /\ Aimed(cmd', at') /\ cmd' \in Command
  BY <1>1, Started, NoCmdFits
<1>4. ProvisionTypeOK'
  BY <1>2, <1>3 DEF ProvisionTypeOK, Command, EndRecord, Contents, OtherTypes, Apart
<1>5. FlashedWhole'
  <2>1. cmd.spec \in FirstBoot
    BY Started DEF Command
  <2>2. QED
    BY <1>1, <2>1 DEF FlashedWhole, Flashed, FirstBoot
<1>6. QED
  BY <1>1, <1>3, <1>4, <1>5 DEF ProvisionInv

\* A command begins or goes on.
LEMMA GoKeeps ==
  ASSUME ProvisionInv, cmd.step # "none" \/ done.count < MaxCommands, UNCHANGED <<at, done>>,
         OtherTypes', holds' \in [Disks -> Contents],
         cmd' \in Command, cmd'.step # "none", Confirmed(cmd'), Aimed(cmd', at)
  PROVE  ProvisionInv'
<1>1. cmd' # NoCmd
  BY NoCmdFits
<1>2. done'.count < MaxCommands
  BY Started DEF ProvisionInv
<1>3. Apart(at') /\ Aimed(cmd', at') /\ done' \in EndRecord
  BY Started
<1>4. ProvisionTypeOK'
  BY <1>3 DEF ProvisionTypeOK, Command, EndRecord, Contents, OtherTypes, Apart
<1>5. FlashedWhole'
  BY <1>1 DEF FlashedWhole
<1>6. QED
  BY <1>1, <1>2, <1>3, <1>4, <1>5 DEF ProvisionInv

-----------------------------------------------------------------------------
(* The steps before the disk is written *)

\* What a step leaves alone keeps its type.
LEMMA OthersStay ==
  ASSUME ProvisionInv
  PROVE  /\ UNCHANGED <<exposed, eeprom, image, board, built>> => OtherTypes'
         /\ UNCHANGED holds => holds' \in [Disks -> Contents]
  BY Started DEF OtherTypes

\* A command begins with nothing in its record but what was asked.
LEMMA AskKeeps ==
  ASSUME ProvisionInv, Ask
  PROVE  ProvisionInv'
<1>1. PICK name \in Names, confirm \in BOOLEAN, dry \in BOOLEAN, spec \in FirstBoot,
           node \in Nodes \cup OwnNodes \cup {"none"} :
        /\ name # "flash" => spec = "none" /\ node = "none"
        /\ name \notin Destructive => ~confirm
        /\ cmd' = [NoCmd EXCEPT !.name = name, !.step = "start", !.confirm = confirm,
                     !.dry = dry, !.spec = spec, !.node = node]
  BY Zenon DEF Ask
<1>2. cmd' = [name |-> name, step |-> "start", confirm |-> confirm, dry |-> dry, spec |-> spec,
              node |-> node, before |-> {}, tries |-> 0, disk |-> "none", mounted |-> "none",
              stayed |-> {}]
  BY <1>1 DEF NoCmd
<1>3. cmd' \in Command
  <2>1. 0 \in 0 .. PollAttempts - 1 /\ name \in Names \cup {"none"}
    OBVIOUS
  <2>2. QED
    BY <1>2, <2>1 DEF Command
<1>4. cmd'.step = "start" /\ cmd'.stayed = {} /\ cmd'.disk = "none"
  BY <1>2
<1>5. Confirmed(cmd') /\ Aimed(cmd', at)
  BY <1>4 DEF Confirmed, Aimed
<1>6. QED
  BY <1>3, <1>4, <1>5, OthersStay, GoKeeps DEF Ask

\* A destructive command without --confirm or --dry-run ends with 1.
LEMMA RefuseKeeps ==
  ASSUME ProvisionInv, RefusesUnconfirmed
  PROVE  ProvisionInv'
  BY OthersStay, EndKeeps DEF RefusesUnconfirmed

\* A flash goes to its target, or through rpiboot, once it is allowed.
LEMMA FlashStartKeeps ==
  ASSUME ProvisionInv, FlashStarts
  PROVE  ProvisionInv'
<1>1. /\ cmd.step = "start" /\ cmd.name = "flash" /\ (cmd.confirm \/ cmd.dry)
      /\ UNCHANGED <<at, holds, exposed, eeprom, image, board, built>>
  BY DEF FlashStarts, Allowed, Starting
<1>2. ASSUME Goes(IF cmd.node = "none" THEN "rpiboot" ELSE "check") PROVE ProvisionInv'
  <2>. DEFINE step == IF cmd.node = "none" THEN "rpiboot" ELSE "check"
  <2>1. cmd' = [cmd EXCEPT !.step = step] /\ UNCHANGED done
    BY <1>2 DEF Goes
  <2>2. step \in {"rpiboot", "check"} /\ (step = "check" => cmd.node # "none")
    OBVIOUS
  <2>. HIDE DEF step
  <2>3. /\ cmd' \in Command /\ cmd'.step = step /\ cmd'.name = cmd.name /\ cmd'.node = cmd.node
        /\ cmd'.confirm = cmd.confirm /\ cmd'.dry = cmd.dry /\ cmd'.disk = cmd.disk
        /\ cmd'.stayed = cmd.stayed
    BY <2>1, <2>2, Started DEF Command
  <2>4. cmd.disk = "none" /\ cmd.stayed = {}
    BY <1>1, Started DEF Confirmed
  <2>5. Confirmed(cmd') /\ Aimed(cmd', at)
    BY <1>1, <2>2, <2>3, <2>4 DEF Confirmed, Aimed
  <2>6. QED
    BY <1>1, <2>1, <2>2, <2>3, <2>5, OthersStay, GoKeeps
<1>3. CASE Ends(1)
  BY <1>1, <1>3, OthersStay, EndKeeps
<1>4. QED
  BY <1>2, <1>3 DEF FlashStarts

\* rpiboot notes the nodes there are, and with them the disks that are there.
LEMMA RpibootKeeps ==
  ASSUME ProvisionInv, Rpiboot
  PROVE  ProvisionInv'
<1>1. /\ cmd.step = "rpiboot" /\ cmd.name = "flash" /\ (cmd.confirm \/ cmd.dry)
      /\ cmd.disk = "none" /\ UNCHANGED <<at, holds, eeprom, image, board, built>>
  BY Started DEF Rpiboot, Confirmed
<1>2. OtherTypes' /\ holds' \in [Disks -> Contents]
  BY Started DEF Rpiboot, OtherTypes
<1>3. ASSUME NEW status \in {0, 1}, Ends(status) PROVE ProvisionInv'
  BY <1>1, <1>2, <1>3, EndKeeps
<1>4. ASSUME ~cmd.dry, UNCHANGED done,
             cmd' = [cmd EXCEPT !.step = "poll", !.before = Plugged,
                                !.stayed = {d \in External : at[d] # "none"}]
      PROVE  ProvisionInv'
  <2>1. Plugged \subseteq Nodes
    BY DEF Plugged
  <2>2. /\ cmd' \in Command /\ cmd'.step = "poll" /\ cmd'.name = "flash" /\ cmd'.dry = cmd.dry
        /\ cmd'.confirm = cmd.confirm /\ cmd'.disk = "none" /\ cmd'.before = Plugged
        /\ cmd'.stayed = {d \in External : at[d] # "none"}
    BY <1>1, <1>4, <2>1, Started DEF Command
  <2>3. Confirmed(cmd')
    BY <1>1, <1>4, <2>2 DEF Confirmed
  <2>4. \A d \in cmd'.stayed : at[d] # "none" /\ at[d] \in Plugged
    BY <2>2, Started DEF Apart, Plugged
  <2>5. Aimed(cmd', at)
    BY <2>2, <2>4 DEF Aimed
  <2>6. QED
    BY <1>1, <1>2, <1>4, <2>2, <2>3, <2>5, GoKeeps
<1>5. QED
  BY <1>3, <1>4 DEF Rpiboot

\* The node the poll settles on has a disk that was not there before.
LEMMA PollKeeps ==
  ASSUME ProvisionInv, Poll
  PROVE  ProvisionInv'
<1>1. /\ cmd.step = "poll" /\ cmd.name = "flash" /\ (cmd.confirm \/ cmd.dry) /\ ~cmd.dry
      /\ cmd.disk = "none" /\ cmd \in Command /\ Aimed(cmd, at)
      /\ UNCHANGED <<at, holds, exposed, eeprom, image, board, built>>
  BY Started DEF Poll, Confirmed
<1>2. ASSUME Cardinality(Fresh) = 1, UNCHANGED done,
             cmd' = [cmd EXCEPT !.step = "check", !.node = CHOOSE n \in Fresh : TRUE,
                                !.before = {}, !.tries = 0]
      PROVE  ProvisionInv'
  <2>1. Fresh # {}
    BY <1>2, FS_EmptySet
  <2>2. PICK n \in Fresh : n = CHOOSE m \in Fresh : TRUE
    BY <2>1
  <2>3. n \in Nodes /\ n # "none" /\ n \notin cmd.before
    BY <2>2 DEF Fresh, Plugged
  <2>4. 0 \in 0 .. PollAttempts - 1
    OBVIOUS
  <2>5. /\ cmd' \in Command /\ cmd'.step = "check" /\ cmd'.name = "flash" /\ cmd'.dry = cmd.dry
        /\ cmd'.confirm = cmd.confirm /\ cmd'.disk = "none" /\ cmd'.node = n
        /\ cmd'.stayed = cmd.stayed
    BY <1>1, <1>2, <2>2, <2>3, <2>4 DEF Command
  <2>6. Confirmed(cmd')
    BY <1>1, <2>3, <2>5 DEF Confirmed
  <2>7. Aimed(cmd', at)
    BY <1>1, <2>3, <2>5 DEF Aimed
  <2>8. QED
    BY <1>1, <1>2, <2>5, <2>6, <2>7, OthersStay, GoKeeps
<1>3. ASSUME cmd.tries + 1 < PollAttempts, UNCHANGED done, cmd' = [cmd EXCEPT !.tries = @ + 1]
      PROVE  ProvisionInv'
  <2>1. cmd.tries + 1 \in 0 .. PollAttempts - 1
    BY <1>1, <1>3 DEF Command
  <2>2. /\ cmd' \in Command /\ cmd'.step = "poll" /\ cmd'.name = "flash" /\ cmd'.dry = cmd.dry
        /\ cmd'.confirm = cmd.confirm /\ cmd'.disk = "none" /\ cmd'.before = cmd.before
        /\ cmd'.stayed = cmd.stayed
    BY <1>1, <1>3, <2>1 DEF Command
  <2>3. Confirmed(cmd') /\ Aimed(cmd', at)
    BY <1>1, <2>2 DEF Confirmed, Aimed
  <2>4. QED
    BY <1>1, <1>3, <2>2, <2>3, OthersStay, GoKeeps
<1>4. CASE Ends(1)
  BY <1>1, <1>4, OthersStay, EndKeeps
<1>5. QED
  BY <1>2, <1>3, <1>4 DEF Poll

\* The target is judged, and the disk found is the one at the node.
LEMMA CheckKeeps ==
  ASSUME ProvisionInv, CheckTarget
  PROVE  ProvisionInv'
<1>1. /\ cmd.step = "check" /\ cmd.name = "flash" /\ (cmd.confirm \/ cmd.dry)
      /\ cmd.disk = "none" /\ cmd.node # "none" /\ cmd \in Command /\ Aimed(cmd, at)
      /\ UNCHANGED <<at, holds, exposed, eeprom, image, board, built>>
  BY Started DEF CheckTarget, Confirmed
<1>. DEFINE d == DiskAt(cmd.node)
<1>2. ASSUME SafeTarget(d), ~cmd.dry, UNCHANGED done,
             cmd' = [cmd EXCEPT !.step = "write", !.disk = d]
      PROVE  ProvisionInv'
  <2>1. d = DiskOf(at, cmd.node) /\ d \in Disks \cup {"none"}
    BY DiskAtIs, DiskOfIs, Started
  <2>. HIDE DEF d
  <2>2. /\ cmd' \in Command /\ cmd'.step = "write" /\ cmd'.name = "flash" /\ cmd'.dry = cmd.dry
        /\ cmd'.confirm = cmd.confirm /\ cmd'.disk = d /\ cmd'.node = cmd.node
        /\ cmd'.stayed = cmd.stayed
    BY <1>1, <1>2, <2>1 DEF Command
  <2>3. Confirmed(cmd')
    BY <1>1, <1>2, <2>2 DEF Confirmed
  <2>4. Aimed(cmd', at)
    BY <1>1, <1>2, <2>1, <2>2 DEF Aimed
  <2>5. QED
    BY <1>1, <1>2, <2>2, <2>3, <2>4, OthersStay, GoKeeps
<1>3. ASSUME NEW status \in {0, 1}, Ends(status) PROVE ProvisionInv'
  BY <1>1, <1>3, OthersStay, EndKeeps
<1>4. QED
  BY <1>2, <1>3 DEF CheckTarget

-----------------------------------------------------------------------------
(* The steps that write the disk *)

\* What a step that writes one disk, or none, leaves on the disks.
LEMMA WrittenType ==
  ASSUME ProvisionInv, NEW d \in Disks, NEW h \in Contents
  PROVE  /\ [holds EXCEPT ![d] = h] \in [Disks -> Contents]
         /\ [holds EXCEPT ![d] = h][d] = h
  BY Started

\* The image is on the disk that has the node, which is the one judged if that
\* is plugged in.
LEMMA WriteKeeps ==
  ASSUME ProvisionInv, WriteImage
  PROVE  ProvisionInv'
<1>. DEFINE d == DiskAt(cmd.node)
<1>1. /\ cmd.step = "write" /\ cmd.name = "flash" /\ (cmd.confirm \/ cmd.dry) /\ ~cmd.dry
      /\ cmd.node # "none" /\ cmd \in Command /\ Aimed(cmd, at)
      /\ UNCHANGED <<at, exposed, eeprom, image, board, built>>
  BY Started DEF WriteImage, Confirmed
<1>2. d = DiskOf(at, cmd.node) /\ d \in Disks \cup {"none"}
  BY DiskAtIs, DiskOfIs, Started
<1>3. \/ /\ d # "none" /\ holds' = [holds EXCEPT ![d] = "image"]
         /\ IF cmd.spec = "none" THEN Ends(0) ELSE Goes("mount")
      \/ /\ holds' \in {holds} \cup {[holds EXCEPT ![e] = "half"] : e \in {d} \ {"none"}}
         /\ Ends(1)
  BY DEF WriteImage
<1>. HIDE DEF d
<1>4. OtherTypes'
  BY <1>1, OthersStay
<1>5. ASSUME d # "none", holds' = [holds EXCEPT ![d] = "image"] PROVE
        /\ holds' \in [Disks -> Contents] /\ holds'[d] = "image"
  BY <1>2, <1>5, WrittenType DEF Contents
<1>6. ASSUME d # "none", holds' = [holds EXCEPT ![d] = "image"], cmd.spec = "none", Ends(0)
      PROVE  ProvisionInv'
  <2>1. cmd.disk # "none" => holds'[cmd.disk] = "image"
    BY <1>1, <1>2, <1>5, <1>6 DEF Aimed
  <2>2. cmd.disk # "none" => Flashed(cmd.spec, holds'[cmd.disk])
    BY <1>6, <2>1 DEF Flashed
  <2>3. QED
    BY <1>1, <1>4, <1>5, <1>6, <2>2, EndKeeps
<1>7. ASSUME d # "none", holds' = [holds EXCEPT ![d] = "image"], cmd.spec # "none", Goes("mount")
      PROVE  ProvisionInv'
  <2>1. cmd' = [cmd EXCEPT !.step = "mount"] /\ UNCHANGED done
    BY <1>7 DEF Goes
  <2>2. /\ cmd' \in Command /\ cmd'.step = "mount" /\ cmd'.name = "flash" /\ cmd'.dry = cmd.dry
        /\ cmd'.confirm = cmd.confirm /\ cmd'.disk = cmd.disk /\ cmd'.node = cmd.node
        /\ cmd'.spec = cmd.spec /\ cmd'.stayed = cmd.stayed
    BY <1>1, <2>1 DEF Command
  <2>3. Confirmed(cmd')
    BY <1>1, <1>7, <2>2 DEF Confirmed
  <2>4. Aimed(cmd', at)
    BY <1>1, <2>2 DEF Aimed
  <2>5. QED
    BY <1>1, <1>4, <1>5, <1>7, <2>1, <2>2, <2>3, <2>4, GoKeeps
<1>8. ASSUME holds' \in {holds} \cup {[holds EXCEPT ![e] = "half"] : e \in {d} \ {"none"}}, Ends(1)
      PROVE  ProvisionInv'
  <2>1. holds' \in [Disks -> Contents]
    BY <1>2, <1>8, WrittenType, Started DEF Contents
  <2>2. QED
    BY <1>1, <1>4, <1>8, <2>1, EndKeeps
<1>9. QED
  BY <1>3, <1>6, <1>7, <1>8

\* What is mounted is the disk at the node.
LEMMA MountKeeps ==
  ASSUME ProvisionInv, MountBoot
  PROVE  ProvisionInv'
<1>. DEFINE d == DiskAt(cmd.node)
<1>1. /\ cmd.step = "mount" /\ cmd.name = "flash" /\ (cmd.confirm \/ cmd.dry) /\ ~cmd.dry
      /\ cmd.node # "none" /\ cmd.spec # "none" /\ cmd \in Command /\ Aimed(cmd, at)
      /\ UNCHANGED <<at, holds, exposed, eeprom, image, board, built>>
  BY Started DEF MountBoot, Confirmed
<1>2. d = DiskOf(at, cmd.node) /\ d \in Disks \cup {"none"}
  BY DiskAtIs, DiskOfIs, Started
<1>3. \/ /\ cmd' = [cmd EXCEPT !.step = "config", !.mounted = d]
         /\ UNCHANGED done
      \/ /\ cmd.tries + 1 < PollAttempts
         /\ cmd' = [cmd EXCEPT !.tries = @ + 1]
         /\ UNCHANGED done
      \/ Ends(1)
  BY DEF MountBoot
<1>. HIDE DEF d
<1>4. ASSUME cmd' = [cmd EXCEPT !.step = "config", !.mounted = d], UNCHANGED done
      PROVE  ProvisionInv'
  <2>1. /\ cmd' \in Command /\ cmd'.step = "config" /\ cmd'.name = "flash" /\ cmd'.dry = cmd.dry
        /\ cmd'.confirm = cmd.confirm /\ cmd'.disk = cmd.disk /\ cmd'.node = cmd.node
        /\ cmd'.spec = cmd.spec /\ cmd'.stayed = cmd.stayed /\ cmd'.mounted = d
    BY <1>1, <1>2, <1>4 DEF Command
  <2>2. Confirmed(cmd')
    BY <1>1, <2>1 DEF Confirmed
  <2>3. Aimed(cmd', at)
    BY <1>1, <1>2, <2>1 DEF Aimed
  <2>4. QED
    BY <1>1, <1>4, <2>1, <2>2, <2>3, OthersStay, GoKeeps
<1>5. ASSUME cmd.tries + 1 < PollAttempts, cmd' = [cmd EXCEPT !.tries = @ + 1], UNCHANGED done
      PROVE  ProvisionInv'
  <2>1. cmd.tries + 1 \in 0 .. PollAttempts - 1
    BY <1>1, <1>5 DEF Command
  <2>2. /\ cmd' \in Command /\ cmd'.step = "mount" /\ cmd'.name = "flash" /\ cmd'.dry = cmd.dry
        /\ cmd'.confirm = cmd.confirm /\ cmd'.disk = cmd.disk /\ cmd'.node = cmd.node
        /\ cmd'.spec = cmd.spec /\ cmd'.stayed = cmd.stayed
    BY <1>1, <1>5, <2>1 DEF Command
  <2>3. Confirmed(cmd') /\ Aimed(cmd', at)
    BY <1>1, <2>2 DEF Confirmed, Aimed
  <2>4. QED
    BY <1>1, <1>5, <2>2, <2>3, OthersStay, GoKeeps
<1>6. CASE Ends(1)
  BY <1>1, <1>6, OthersStay, EndKeeps
<1>7. QED
  BY <1>3, <1>4, <1>5, <1>6

\* The configuration goes to what is mounted.
LEMMA ApplyKeeps ==
  ASSUME ProvisionInv, ApplyFirstBoot
  PROVE  ProvisionInv'
<1>1. /\ cmd.step = "config" /\ cmd.spec \in {"detected", "named"} /\ cmd \in Command
      /\ Aimed(cmd, at) /\ UNCHANGED <<at, exposed, eeprom, image, board, built>>
  BY Started DEF ApplyFirstBoot, Confirmed, Command, FirstBoot
<1>. DEFINE d == cmd.mounted
            Becomes(h) == IF d = "none" THEN holds ELSE [holds EXCEPT ![d] = h]
<1>2. \/ \E h \in {"configured"} \cup IF cmd.spec = "named" THEN {"ignored"} ELSE {} :
           holds' = Becomes(h) /\ Ends(0)
      \/ holds' \in {holds, Becomes("partly")} /\ Ends(1)
  BY DEF ApplyFirstBoot
<1>3. \A h \in Contents : Becomes(h) \in [Disks -> Contents] /\ (d # "none" => Becomes(h)[d] = h)
  <2>1. d \in Disks \cup {"none"}
    BY <1>1 DEF Command
  <2>2. QED
    BY <2>1, WrittenType, Started
<1>. HIDE DEF Becomes
<1>4. OtherTypes'
  BY <1>1, OthersStay
<1>5. ASSUME NEW h \in {"configured"} \cup IF cmd.spec = "named" THEN {"ignored"} ELSE {},
             holds' = Becomes(h), Ends(0)
      PROVE  ProvisionInv'
  <2>1. h \in Contents
    BY DEF Contents
  <2>2. cmd.disk # "none" => holds'[cmd.disk] = h
    BY <1>1, <1>3, <1>5, <2>1 DEF Aimed
  <2>3. cmd.disk # "none" => Flashed(cmd.spec, holds'[cmd.disk])
    BY <1>1, <2>2 DEF Flashed
  <2>4. QED
    BY <1>1, <1>3, <1>4, <1>5, <2>1, <2>3, EndKeeps
<1>6. ASSUME holds' \in {holds, Becomes("partly")}, Ends(1) PROVE ProvisionInv'
  <2>1. holds' \in [Disks -> Contents]
    BY <1>3, <1>6, Started DEF Contents
  <2>2. QED
    BY <1>1, <1>4, <1>6, <2>1, EndKeeps
<1>7. QED
  BY <1>2, <1>5, <1>6

-----------------------------------------------------------------------------
(* The commands of one step, and the disks that come and go *)

OneStep == EepromUpdate \/ BootOrder \/ Clone \/ Restore \/ Build \/ Upload \/ UploadOta

\* A command of one step ends, and is no flash.
LEMMA OneStepEnds ==
  ASSUME OneStep
  PROVE  /\ cmd.step = "start" /\ cmd.name # "flash" /\ UNCHANGED <<at, exposed>>
         /\ \E status \in {0, 1} : Ends(status)
  BY DEF OneStep, EepromUpdate, BootOrder, Clone, Restore, Build, Upload, UploadOta, Allowed, Starting

\* What it may change keeps its type.
LEMMA OneStepKeeps ==
  ASSUME ProvisionInv, OneStep
  PROVE  ProvisionInv'
<1>1. PICK status \in {0, 1} : Ends(status)
  BY OneStepEnds
<1>2. "nvme" \in Disks
  BY DEF Disks, External
<1>3. holds' \in [Disks -> Contents]
  <2>1. CASE Restore
    <3>1. holds' = holds \/ \E h \in {"own", "half"} : holds' = [holds EXCEPT !["nvme"] = h]
      BY <2>1 DEF Restore
    <3>2. QED
      BY <1>2, <3>1, WrittenType, Started DEF Contents
  <2>2. CASE ~Restore
    BY <2>2, OthersStay DEF OneStep, EepromUpdate, BootOrder, Clone, Build, Upload, UploadOta
  <2>3. QED
    BY <2>1, <2>2
<1>4. OtherTypes'
  <2>. USE DEF OtherTypes
  <2>1. CASE EepromUpdate
    BY <2>1, Started DEF EepromUpdate
  <2>2. CASE BootOrder
    BY <2>2, Started DEF BootOrder
  <2>3. CASE Clone
    BY <2>3, Started DEF Clone
  <2>4. CASE Restore
    BY <2>4, Started DEF Restore
  <2>5. CASE Build \/ Upload \/ UploadOta
    BY <2>5, Started DEF Build, Upload, UploadOta
  <2>6. QED
    BY <2>1, <2>2, <2>3, <2>4, <2>5 DEF OneStep
<1>5. QED
  BY <1>1, <1>3, <1>4, OneStepEnds, EndKeeps

\* A disk that comes takes a node no other has.
LEMMA PlugKeeps ==
  ASSUME ProvisionInv, NEW d \in External, NEW n \in Nodes, Plug(d, n)
  PROVE  ProvisionInv'
<1>1. /\ at[d] = "none" /\ n \notin Plugged /\ at' = [at EXCEPT ![d] = n]
      /\ UNCHANGED <<holds, exposed, eeprom, image, board, built, cmd, done>>
  BY DEF Plug
<1>2. at \in [External -> Nodes \cup {"none"}] /\ \A e \in External : at[e] # n
  BY <1>1, Started DEF Apart, Plugged
<1>3. Apart(at')
  BY <1>1, <1>2, Started DEF Apart
<1>4. \A e \in External : e # d => at'[e] = at[e]
  BY <1>1, <1>2
<1>5. \A m, e : m # "none" /\ DiskOf(at, m) = e /\ e # "none" => DiskOf(at', m) = e
  <2>. SUFFICES ASSUME NEW m, m # "none", DiskOf(at, m) # "none"
       PROVE DiskOf(at', m) = DiskOf(at, m)
    OBVIOUS
  <2>1. CASE m \in OwnNodes
    <3>1. \A a : Apart(a) => \A e \in External : a[e] # m
      BY <2>1 DEF Apart
    <3>2. \A a : Apart(a) => DiskOf(a, m) = IF m = CHOOSE o \in OwnNodes : TRUE THEN "system" ELSE "internal"
      BY <2>1, <3>1, Zenon DEF DiskOf
    <3>3. QED
      BY <1>3, <3>2, Started
  <2>2. CASE m \notin OwnNodes
    <3>1. DiskOf(at, m) \in External /\ at[DiskOf(at, m)] = m
      BY <2>2, DiskOfIs, Started
    <3>2. at'[DiskOf(at, m)] = m
      BY <1>1, <1>4, <3>1
    <3>3. QED
      BY <1>3, <3>1, <3>2, DiskOfIs
  <2>3. QED
    BY <2>1, <2>2
<1>6. Aimed(cmd, at')
  <2>1. cmd.stayed \subseteq External /\ Aimed(cmd, at) /\ Confirmed(cmd) /\ cmd \in Command
    BY Started DEF Command
  <2>2. \A e \in cmd.stayed : at'[e] = at[e]
    BY <1>1, <1>4, <2>1 DEF Aimed
  <2>3. cmd.step \in {"write", "mount", "config"} /\ cmd.node \in OwnNodes =>
          SafeTarget(DiskOf(at', cmd.node))
    <3>1. \A e : SafeTarget(e) => e # "none"
      BY DEF SafeTarget
    <3>2. QED
      BY <1>5, <2>1, <3>1 DEF Aimed, Confirmed
  <2>4. QED
    BY <1>5, <2>1, <2>2, <2>3 DEF Aimed, Confirmed
<1>7. ProvisionTypeOK'
  BY <1>1, <1>3 DEF ProvisionInv, ProvisionTypeOK, Apart
<1>8. FlashedWhole'
  BY <1>1 DEF ProvisionInv, FlashedWhole
<1>9. QED
  BY <1>1, <1>3, <1>6, <1>7, <1>8, Started DEF ProvisionInv

\* A disk that goes is forgotten by the command, and moves no other.
LEMMA UnplugKeeps ==
  ASSUME ProvisionInv, NEW d \in External, Unplug(d)
  PROVE  ProvisionInv'
<1>1. /\ at[d] # "none" /\ at' = [at EXCEPT ![d] = "none"]
      /\ exposed' = (exposed /\ d # "nvme")
      /\ cmd' = [cmd EXCEPT !.stayed = @ \ {d}, !.disk = IF @ = d THEN "none" ELSE @,
                         !.mounted = IF @ = d THEN "none" ELSE @]
      /\ UNCHANGED <<holds, eeprom, image, board, built, done>>
  BY DEF Unplug
<1>2. /\ cmd \in Command /\ done \in EndRecord /\ Aimed(cmd, at) /\ Confirmed(cmd)
      /\ at \in [External -> Nodes \cup {"none"}] /\ OtherTypes /\ Apart(at)
      /\ holds \in [Disks -> Contents]
  BY Started DEF Apart
<1>3. /\ cmd' \in Command /\ cmd'.step = cmd.step /\ cmd'.name = cmd.name /\ cmd'.dry = cmd.dry
      /\ cmd'.confirm = cmd.confirm /\ cmd'.node = cmd.node /\ cmd'.spec = cmd.spec
      /\ cmd'.before = cmd.before /\ cmd'.stayed = cmd.stayed \ {d}
      /\ cmd'.disk = IF cmd.disk = d THEN "none" ELSE cmd.disk
      /\ cmd'.mounted = IF cmd.mounted = d THEN "none" ELSE cmd.mounted
  BY <1>1, <1>2 DEF Command
<1>4. Apart(at')
  BY <1>1, <1>2 DEF Apart
<1>5. \A e \in External : e # d => at'[e] = at[e]
  BY <1>1, <1>2
<1>6. \A m : m # "none" /\ DiskOf(at, m) \notin {"none", d} => DiskOf(at', m) = DiskOf(at, m)
  <2>. SUFFICES ASSUME NEW m, m # "none", DiskOf(at, m) \notin {"none", d}
       PROVE DiskOf(at', m) = DiskOf(at, m)
    OBVIOUS
  <2>1. CASE m \in OwnNodes
    <3>1. \A a : Apart(a) => \A e \in External : a[e] # m
      BY <2>1 DEF Apart
    <3>2. \A a : Apart(a) => DiskOf(a, m) = IF m = CHOOSE o \in OwnNodes : TRUE THEN "system" ELSE "internal"
      BY <2>1, <3>1, Zenon DEF DiskOf
    <3>3. QED
      BY <1>2, <1>4, <3>2
  <2>2. CASE m \notin OwnNodes
    <3>1. DiskOf(at, m) \in External /\ at[DiskOf(at, m)] = m
      BY <1>2, <2>2, DiskOfIs
    <3>2. at'[DiskOf(at, m)] = m
      BY <1>5, <3>1
    <3>3. QED
      BY <1>4, <3>1, <3>2, DiskOfIs
  <2>3. QED
    BY <2>1, <2>2
<1>7. cmd = NoCmd <=> cmd' = NoCmd
  <2>1. cmd = NoCmd => cmd' = NoCmd
    BY <1>1, NoCmdFits DEF External, NoCmd
  <2>2. cmd' = NoCmd => cmd.step = "none"
    BY <1>3, NoCmdFits
  <2>3. QED
    BY <1>2, <2>1, <2>2 DEF Confirmed
<1>8. Confirmed(cmd')
  BY <1>2, <1>3, <1>7 DEF Confirmed
<1>9. Aimed(cmd', at')
  <2>1. \A e \in cmd'.stayed : e \in cmd.stayed /\ at'[e] = at[e]
    BY <1>2, <1>3, <1>5 DEF Command
  <2>2. cmd.step \in {"write", "mount", "config"} /\ cmd.node \in OwnNodes =>
          SafeTarget(DiskOf(at', cmd.node))
    <3>1. cmd.node \in OwnNodes => cmd.node # "none" /\ DiskOf(at, cmd.node) \notin {"none", d}
      BY <1>2, DiskOfIs DEF External
    <3>2. QED
      BY <1>2, <1>6, <3>1 DEF Aimed
  <2>3. cmd.step \in {"write", "mount", "config"} =>
          /\ cmd'.disk # "none" => DiskOf(at', cmd.node) = cmd'.disk
          /\ cmd.step = "config" /\ cmd'.mounted # "none" => DiskOf(at', cmd.node) = cmd'.mounted
          /\ cmd.step = "config" /\ cmd'.disk # "none" => cmd'.mounted = cmd'.disk
    BY <1>2, <1>3, <1>6 DEF Aimed, Confirmed
  <2>4. QED
    BY <1>2, <1>3, <2>1, <2>2, <2>3 DEF Aimed
<1>10. ProvisionTypeOK'
  <2>1. OtherTypes'
    BY <1>1, <1>2 DEF OtherTypes
  <2>2. holds' \in [Disks -> Contents] /\ done' \in EndRecord
    BY <1>1, <1>2
  <2>3. QED
    BY <1>3, <1>4, <2>1, <2>2
       DEF ProvisionTypeOK, Apart, OtherTypes, Command, EndRecord, Contents
<1>11. FlashedWhole'
  BY <1>1, <1>7 DEF ProvisionInv, FlashedWhole
<1>12. QED
  BY <1>1, <1>4, <1>7, <1>8, <1>9, <1>10, <1>11 DEF ProvisionInv

\* Every step keeps the invariant.
LEMMA ProvisionKeeps == ProvisionInv /\ [ProvisionNext]_provisionVars => ProvisionInv'
<1>. SUFFICES ASSUME ProvisionInv, [ProvisionNext]_provisionVars PROVE ProvisionInv'
  OBVIOUS
<1>1. CASE UNCHANGED provisionVars
  <2>1. UNCHANGED <<at, holds, exposed, eeprom, image, board, built, cmd, done>>
    BY <1>1 DEF provisionVars
  <2>2. ProvisionTypeOK'
    BY <2>1 DEF ProvisionInv, ProvisionTypeOK
  <2>3. FlashedWhole'
    BY <2>1 DEF ProvisionInv, FlashedWhole
  <2>4. QED
    BY <2>1, <2>2, <2>3 DEF ProvisionInv
<1>2. CASE ProvisionStep
  BY <1>2, RefuseKeeps, FlashStartKeeps, RpibootKeeps, PollKeeps, CheckKeeps, WriteKeeps,
     MountKeeps, ApplyKeeps, OneStepKeeps DEF ProvisionStep, OneStep
<1>3. QED
  BY <1>1, <1>2, AskKeeps, PlugKeeps, UnplugKeeps DEF ProvisionNext

\* The invariant holds before any command.
LEMMA ProvisionStart == ProvisionInit => ProvisionInv
<1>. SUFFICES ASSUME ProvisionInit PROVE ProvisionInv
  OBVIOUS
<1>1. cmd = NoCmd /\ done.status = 1 /\ done \in EndRecord
  BY DEF ProvisionInit, EndRecord, FirstBoot
<1>2. Apart(at)
  BY DEF ProvisionInit, Apart, External
<1>3. ProvisionTypeOK
  BY <1>1, <1>2, NoCmdFits DEF ProvisionInit, ProvisionTypeOK, Command, EndRecord, Apart
<1>4. FlashedWhole
  BY <1>1 DEF FlashedWhole
<1>5. QED
  BY <1>1, <1>2, <1>3, <1>4, NoCmdFits DEF ProvisionInv

-----------------------------------------------------------------------------
(* What is overwritten *)

\* What NothingUnasked says of a disk that is written.
Spared(d) ==
  /\ d = "system" => ReportsInternal /\ BootsExternal
  /\ ReportsInternal => d # "internal"
  /\ d \notin cmd.stayed

\* What NothingUnasked says of one step.
Asked ==
  /\ <<holds, eeprom, board>>' # <<holds, eeprom, board>> =>
        ~cmd.dry /\ (cmd.name \in Destructive => cmd.confirm)
  /\ \A d \in Disks : holds'[d] # holds[d] =>
        Spared(d)

\* A disk that may be written: the one at the node the flash is aimed at.
LEMMA TargetIsSafe ==
  ASSUME ProvisionInv, cmd.step \in {"write", "config"}, NEW d \in Disks,
         d = DiskOf(at, cmd.node)
  PROVE  Spared(d)
<1>1. /\ cmd \in Command /\ Aimed(cmd, at) /\ Apart(at) /\ cmd.node # "none"
  BY Started DEF Confirmed
<1>2. CASE cmd.node \in OwnNodes
  <2>1. SafeTarget(d)
    BY <1>1, <1>2 DEF Aimed
  <2>2. d \notin External
    BY <1>1, <1>2, DiskOfIs DEF External
  <2>3. QED
    BY <1>1, <2>1, <2>2 DEF SafeTarget, Command, Spared
<1>3. CASE cmd.node \notin OwnNodes
  <2>1. d \in External /\ at[d] = cmd.node
    BY <1>1, <1>3, DiskOfIs DEF Disks, External
  <2>2. QED
    BY <1>1, <2>1 DEF Aimed, External, Spared
<1>4. QED
  BY <1>2, <1>3

\* Every step overwrites only what was asked and confirmed.
LEMMA StepsAreAsked == ProvisionInv /\ [ProvisionNext]_provisionVars => [Asked]_provisionVars
<1>. SUFFICES ASSUME ProvisionInv, ProvisionNext PROVE Asked
  BY DEF provisionVars
<1>1. cmd \in Command /\ Confirmed(cmd) /\ Aimed(cmd, at) /\ holds \in [Disks -> Contents]
  BY Started
<1>2. CASE UNCHANGED <<holds, eeprom, board>>
  BY <1>2 DEF Asked
<1>3. CASE WriteImage
  <2>. DEFINE d == DiskAt(cmd.node)
  <2>1. d = DiskOf(at, cmd.node) /\ d \in Disks \cup {"none"}
    BY DiskAtIs, DiskOfIs, Started
  <2>2. \/ d # "none" /\ holds' = [holds EXCEPT ![d] = "image"]
        \/ d # "none" /\ holds' = [holds EXCEPT ![d] = "half"]
        \/ holds' = holds
    BY <1>3 DEF WriteImage
  <2>. HIDE DEF d
  <2>3. \A e \in Disks : holds'[e] # holds[e] => e = d
    BY <1>1, <2>1, <2>2
  <2>4. cmd.step = "write" /\ ~cmd.dry /\ cmd.confirm /\ UNCHANGED <<eeprom, board>>
    BY <1>1, <1>3 DEF WriteImage, Confirmed
  <2>5. QED
    BY <2>1, <2>3, <2>4, TargetIsSafe DEF Asked
<1>4. CASE ApplyFirstBoot
  <2>. DEFINE d == cmd.mounted
  <2>1. holds' = holds \/ \E h : d # "none" /\ holds' = [holds EXCEPT ![d] = h]
    BY <1>4 DEF ApplyFirstBoot
  <2>2. \A e \in Disks : holds'[e] # holds[e] => e = d /\ d # "none"
    BY <1>1, <2>1
  <2>3. cmd.step = "config" /\ ~cmd.dry /\ cmd.confirm /\ UNCHANGED <<eeprom, board>>
    BY <1>1, <1>4 DEF ApplyFirstBoot, Confirmed
  <2>4. d # "none" => d = DiskOf(at, cmd.node) /\ d \in Disks
    BY <1>1, <2>3 DEF Aimed, Command
  <2>5. QED
    BY <2>2, <2>3, <2>4, TargetIsSafe DEF Asked
<1>5. CASE Restore
  <2>1. cmd.step = "start" /\ (cmd.confirm \/ cmd.dry) /\ UNCHANGED <<eeprom, board>>
    BY <1>5 DEF Restore, Allowed, Starting
  <2>2. cmd.stayed = {}
    BY <1>1, <2>1 DEF Confirmed
  <2>3. holds' # holds => ~cmd.dry
    BY <1>5 DEF Restore, Answers
  <2>4. \A e \in Disks : holds'[e] # holds[e] => e = "nvme"
    <3>1. holds' = holds \/ \E h : holds' = [holds EXCEPT !["nvme"] = h]
      BY <1>5 DEF Restore
    <3>2. QED
      BY <1>1, <3>1
  <2>5. QED
    BY <2>1, <2>2, <2>3, <2>4 DEF Asked, Spared
<1>6. CASE EepromUpdate \/ BootOrder
  <2>1. UNCHANGED <<holds, board>> /\ (cmd.confirm \/ cmd.dry) /\ (eeprom' # eeprom => ~cmd.dry)
    BY <1>6 DEF EepromUpdate, BootOrder, Allowed, Answers
  <2>2. QED
    BY <2>1 DEF Asked
<1>7. CASE Upload \/ UploadOta
  <2>1. /\ UNCHANGED <<holds, eeprom>> /\ cmd.name \notin Destructive
        /\ board' # board => ~cmd.dry
    BY <1>7 DEF Upload, UploadOta, Starting, Destructive
  <2>2. QED
    BY <2>1 DEF Asked
<1>8. CASE \/ Ask \/ RefusesUnconfirmed \/ FlashStarts \/ Rpiboot \/ Poll \/ CheckTarget
           \/ MountBoot \/ Clone \/ Build
           \/ \E d \in External : Unplug(d) \/ \E n \in Nodes : Plug(d, n)
  BY <1>2, <1>8 DEF Ask, RefusesUnconfirmed, FlashStarts, Rpiboot, Poll, CheckTarget, MountBoot,
     Clone, Build, Unplug, Plug
<1>9. QED
  BY <1>3, <1>4, <1>5, <1>6, <1>7, <1>8 DEF ProvisionNext, ProvisionStep

-----------------------------------------------------------------------------
(* The fleet *)

USE FleetAssumption

CallSteps == {"none", "load", "edit", "truncate", "save", "resolve", "ssh", "copy",
              "verify", "keygen", "append", "record", "write", "poll"}

CallRecord ==
  [name: Calls \cup {"none"}, step: CallSteps, alias: Aliases \cup {"none"},
   other: Aliases \cup {"none"}, addr: Addrs \cup {NoAddr}, hosts: Records, dry: BOOLEAN,
   verify: BOOLEAN, regular: BOOLEAN, once: BOOLEAN]

\* What the steps before have established of a call: the step says which calls
\* it can be a step of, and an edit is in the record that is to be saved.
Under(c) ==
  /\ c.step = "none" => c = Idle
  /\ c.step # "none" => c.name \in Calls /\ c.alias \in Aliases /\ c.other \in Aliases
  /\ c.step \in {"edit", "truncate", "save"} => c.name \in Edits
  /\ c.step \in {"truncate", "save"} =>
       /\ c.name = "add" => c.hosts[c.alias] = c.addr
       /\ c.name = "alias" /\ c.alias # c.other => c.hosts[c.alias] = NoAddr
  /\ c.step = "resolve" => c.name \notin Edits
  /\ c.step = "ssh" => c.name \in Remote
  /\ c.step \in {"copy", "verify"} => c.name \in {"push", "pull"}
  /\ c.step \in {"keygen", "append", "record", "write"} => c.name = "keys"
  /\ c.step = "poll" => c.name = "monitor"
  /\ c.step \in {"record", "write"} => c.addr \in Addrs

\* What an installation adds to the count of its keys once it has appended one.
Due(c) == IF c.step \in {"record", "write"} THEN 2 ELSE 1

\* A key that is about to be recorded is authorized, and no robot has it more
\* often than keys were installed.
KeysCount(c, keys, n) ==
  /\ keys \in [Addrs -> Nat]
  /\ \A a \in Addrs : keys[a] <= n + Due(c)
  /\ c.step \in {"record", "write"} => keys[c.addr] > 0

\* What a call that returned 0 said it did.
Said(c, hosts, identity, keys, copies) ==
  /\ c.name \in Edits => hosts = c.hosts
  /\ c.name = "add" => hosts[c.alias] = c.addr
  /\ c.name = "alias" /\ c.alias # c.other => hosts[c.alias] = NoAddr
  /\ c.name \in {"push", "pull"} /\ c.verify /\ c.regular => copies[Here] = copies[c.addr]
  /\ c.name = "keys" => identity /\ keys[c.addr] > 0

\* The types of what outlives a call.
StoreTypes ==
  /\ inventory \in Records
  /\ config \in [settings: BOOLEAN, identity: BOOLEAN] /\ keypair \in BOOLEAN
  /\ files \in [Addrs \cup {Here} -> {"old", "new", "torn"}]

FleetInv ==
  /\ StoreTypes
  /\ call \in CallRecord /\ Under(call)
  /\ result \in [call: CallRecord, status: 0 .. 2, count: 0 .. MaxCalls]
  /\ call # Idle => result.count < MaxCalls
  /\ KeysCount(call, authorized, result.count)
  /\ SaidWasDone

\* The invariant bounds every count.
LEMMA FleetTyped == FleetInv => FleetTypeOK
<1>. SUFFICES ASSUME FleetInv PROVE FleetTypeOK
  OBVIOUS
<1>1. /\ call \in CallRecord /\ MaxCalls \in Nat /\ result.count \in 0 .. MaxCalls
      /\ call.step \in {"record", "write"} => result.count < MaxCalls
      /\ result.status \in 0 .. 2
  BY DEF FleetInv, Idle
<1>2. authorized \in [Addrs -> 0 .. MaxCalls + 1]
  BY <1>1 DEF FleetInv, KeysCount, Due
<1>3. QED
  BY <1>1, <1>2 DEF FleetInv, FleetTypeOK, StoreTypes, CallRecord, CallSteps

\* Nothing is under way in the call that is none.
LEMMA IdleFits ==
  /\ Idle \in CallRecord /\ Under(Idle) /\ Idle.step = "none"
  /\ Empty \in Records
<1>1. Empty \in Records
  BY DEF Empty, Records
<1>2. Idle \in CallRecord
  BY <1>1 DEF Idle, CallRecord, CallSteps
<1>3. QED
  BY <1>1, <1>2 DEF Under, Idle

-----------------------------------------------------------------------------
(* How a step leaves the call *)

\* A call returns: what it says it did holds, when it says so.
LEMMA ReturnKeeps ==
  ASSUME FleetInv, call.step # "none", NEW c \in CallRecord, NEW status \in 0 .. 2,
         call' = Idle,
         result' = [call |-> c, status |-> status, count |-> result.count + 1],
         StoreTypes', KeysCount(call, authorized', result.count),
         (status = 0 /\ ~c.dry) => Said(c, inventory', config'.identity, authorized', files')
  PROVE  FleetInv'
<1>1. call # Idle /\ result.count \in 0 .. MaxCalls /\ MaxCalls \in Nat
  BY IdleFits DEF FleetInv
<1>2. result.count + 1 \in 0 .. MaxCalls
  BY <1>1 DEF FleetInv
<1>3. result' \in [call: CallRecord, status: 0 .. 2, count: 0 .. MaxCalls]
  BY <1>2
<1>4. KeysCount(call', authorized', result'.count)
  <2>1. Idle.step = "none" /\ result'.count = result.count + 1
    BY IdleFits
  <2>2. \A a \in Addrs : authorized'[a] \in Nat /\ authorized'[a] <= result.count + 2
    BY <1>1 DEF KeysCount, Due
  <2>3. \A a \in Addrs : authorized'[a] <= (result.count + 1) + 1
    BY <1>1, <2>2
  <2>4. QED
    BY <1>1, <2>1, <2>2, <2>3 DEF KeysCount, Due
<1>5. SaidWasDone'
  BY DEF SaidWasDone, Said
<1>6. QED
  BY <1>3, <1>4, <1>5, IdleFits DEF FleetInv

\* A call returns what it was.
LEMMA ReturnsKeep ==
  ASSUME FleetInv, call.step # "none", NEW status \in 0 .. 2, Returns(status),
         StoreTypes', KeysCount(call, authorized', result.count),
         (status = 0 /\ ~call.dry) =>
            Said(call, inventory', config'.identity, authorized', files')
  PROVE  FleetInv'
  BY ReturnKeeps DEF Returns, FleetInv

\* A call begins or goes on.
LEMMA CallGoes ==
  ASSUME FleetInv, call.step # "none" \/ result.count < MaxCalls, UNCHANGED result,
         call' \in CallRecord, call'.step # "none", Under(call'),
         StoreTypes', KeysCount(call', authorized', result.count)
  PROVE  FleetInv'
<1>1. call' # Idle
  BY IdleFits
<1>2. result'.count < MaxCalls
  BY IdleFits DEF FleetInv
<1>3. SaidWasDone'
  BY <1>1 DEF SaidWasDone
<1>4. QED
  BY <1>1, <1>2, <1>3 DEF FleetInv

\* A stutter keeps it.
LEMMA FleetStays ==
  ASSUME FleetInv, UNCHANGED fleetVars
  PROVE  FleetInv'
  BY DEF fleetVars, FleetInv, StoreTypes, KeysCount, SaidWasDone, Under, Due

\* The facts every step starts from.
LEMMA CallKnown ==
  ASSUME FleetInv
  PROVE  /\ call \in CallRecord /\ Under(call) /\ StoreTypes
         /\ KeysCount(call, authorized, result.count)
         /\ result.count \in 0 .. MaxCalls /\ MaxCalls \in Nat
         /\ call.hosts \in Records /\ call.addr \in Addrs \cup {NoAddr}
         /\ authorized \in [Addrs -> Nat] /\ inventory \in Records
         /\ files \in [Addrs \cup {Here} -> {"old", "new", "torn"}]
         /\ config \in [settings: BOOLEAN, identity: BOOLEAN] /\ keypair \in BOOLEAN
  BY DEF FleetInv, CallRecord, KeysCount, StoreTypes

\* What a step leaves alone keeps its type, and the keys their count when the
\* call is not about to record one.
LEMMA StoresStay ==
  ASSUME FleetInv
  PROVE  /\ UNCHANGED <<inventory, config, keypair, files>> => StoreTypes'
         /\ UNCHANGED authorized => KeysCount(call, authorized', result.count)
         /\ \A c : c.step \notin {"record", "write"} /\ call.step \notin {"record", "write"} =>
                     KeysCount(c, authorized, result.count)
<1>1. UNCHANGED <<inventory, config, keypair, files>> => StoreTypes'
  BY CallKnown DEF StoreTypes
<1>2. UNCHANGED authorized => KeysCount(call, authorized', result.count)
  BY CallKnown
<1>3. \A c : c.step \notin {"record", "write"} /\ call.step \notin {"record", "write"} =>
              KeysCount(c, authorized, result.count)
  <2>. SUFFICES ASSUME NEW c, c.step \notin {"record", "write"}, call.step \notin {"record", "write"}
       PROVE KeysCount(c, authorized, result.count)
    OBVIOUS
  <2>1. KeysCount(call, authorized, result.count)
    BY CallKnown
  <2>3. Due(c) = 1 /\ Due(call) = 1
    BY DEF Due
  <2>4. QED
    BY <2>1, <2>3 DEF KeysCount
<1>4. QED
  BY <1>1, <1>2, <1>3

-----------------------------------------------------------------------------
(* A call begins, and the inventory is read *)

\* A call given begins at its first step, with nothing loaded yet.
LEMMA GiveKeeps ==
  ASSUME FleetInv, Give
  PROVE  FleetInv'
<1>1. PICK name \in Calls, alias, other \in Aliases, a \in Addrs,
           dry, verify, regular, once \in BOOLEAN :
        /\ name # "alias" => other = alias
        /\ name # "add" => a = CHOOSE b \in Addrs : TRUE
        /\ dry => name \in {"push", "pull", "keys", "start", "stop"}
        /\ verify => name \in {"push", "pull"}
        /\ regular => verify
        /\ once => name = "monitor"
        /\ call' = [Idle EXCEPT !.name = name, !.step = "load", !.alias = alias, !.other = other,
                      !.addr = IF name = "add" THEN a ELSE NoAddr, !.dry = dry, !.verify = verify,
                      !.regular = regular, !.once = once]
  BY Zenon DEF Give
<1>2. /\ call' \in CallRecord /\ call'.step = "load" /\ call'.name = name
      /\ call'.alias = alias /\ call'.other = other
  <2>. DEFINE to == IF name = "add" THEN a ELSE NoAddr
  <2>1. to \in Addrs \cup {NoAddr}
    OBVIOUS
  <2>2. call' = [Idle EXCEPT !.name = name, !.step = "load", !.alias = alias, !.other = other,
                   !.addr = to, !.dry = dry, !.verify = verify, !.regular = regular,
                   !.once = once]
    BY <1>1
  <2>. HIDE DEF to
  <2>3. call' = [name |-> name, step |-> "load", alias |-> alias, other |-> other, addr |-> to,
                 hosts |-> Empty, dry |-> dry, verify |-> verify, regular |-> regular,
                 once |-> once]
    BY <2>2 DEF Idle
  <2>4. "load" \in CallSteps /\ name \in Calls \cup {"none"} /\ alias \in Aliases \cup {"none"}
        /\ other \in Aliases \cup {"none"} /\ Empty \in Records
    BY IdleFits DEF CallSteps
  <2>5. QED
    BY <2>1, <2>3, <2>4 DEF CallRecord
<1>3. Under(call')
  BY <1>2 DEF Under
<1>4. call.step = "none" /\ UNCHANGED <<inventory, config, keypair, authorized, files, result>>
      /\ result.count < MaxCalls
  BY IdleFits DEF Give
<1>5. KeysCount(call', authorized', result.count)
  BY <1>2, <1>4, StoresStay
<1>6. QED
  BY <1>2, <1>3, <1>4, <1>5, StoresStay, CallGoes

\* The inventory is read, or cannot be and the call returns 1.
LEMMA LoadKeeps ==
  ASSUME FleetInv, Load
  PROVE  FleetInv'
<1>1. /\ call.step = "load" /\ call \in CallRecord /\ Under(call) /\ inventory \in Records
      /\ UNCHANGED <<inventory, config, keypair, authorized, files>>
  BY CallKnown DEF Load
<1>2. ASSUME call' = [call EXCEPT !.hosts = inventory,
                                  !.step = IF call.name \in Edits THEN "edit"
                                           ELSE IF call.name = "keys" THEN "keygen" ELSE "resolve"],
             UNCHANGED result
      PROVE  FleetInv'
  <2>. DEFINE step == IF call.name \in Edits THEN "edit"
                      ELSE IF call.name = "keys" THEN "keygen" ELSE "resolve"
  <2>1. /\ step \in {"edit", "keygen", "resolve"}
        /\ step = "edit" => call.name \in Edits
        /\ step = "keygen" => call.name = "keys"
        /\ step = "resolve" => call.name \notin Edits
    OBVIOUS
  <2>2. call' = [call EXCEPT !.hosts = inventory, !.step = step]
    BY <1>2
  <2>. HIDE DEF step
  <2>3. /\ call' \in CallRecord /\ call'.step = step /\ call'.name = call.name
        /\ call'.alias = call.alias /\ call'.other = call.other
    BY <1>1, <2>1, <2>2 DEF CallRecord, CallSteps
  <2>4. Under(call')
    BY <1>1, <2>1, <2>3 DEF Under
  <2>5. KeysCount(call', authorized', result.count)
    BY <1>1, <2>1, <2>3, StoresStay
  <2>6. QED
    BY <1>1, <1>2, <2>1, <2>3, <2>4, <2>5, StoresStay, CallGoes
<1>3. CASE Returns(2)
  BY <1>1, <1>3, StoresStay, ReturnsKeep
<1>4. QED
  BY <1>2, <1>3 DEF Load

-----------------------------------------------------------------------------
(* The inventory *)

\* What a call that edits the inventory has of its record, when it goes on.
LEMMA EditGoes ==
  ASSUME FleetInv, call.step \in {"edit", "truncate"}, call.name \in Edits, UNCHANGED result,
         NEW h \in Records, NEW step \in {"truncate", "save"},
         call' = [call EXCEPT !.hosts = h, !.step = step],
         call.name = "add" => h[call.alias] = call.addr,
         call.name = "alias" /\ call.alias # call.other => h[call.alias] = NoAddr,
         StoreTypes', UNCHANGED authorized
  PROVE  FleetInv'
<1>1. call \in CallRecord /\ Under(call)
  BY CallKnown
<1>2. /\ call' \in CallRecord /\ call'.step = step /\ call'.name = call.name /\ call'.hosts = h
      /\ call'.alias = call.alias /\ call'.other = call.other /\ call'.addr = call.addr
  BY <1>1 DEF CallRecord, CallSteps
<1>3. Under(call')
  BY <1>1, <1>2 DEF Under
<1>4. KeysCount(call', authorized', result.count)
  BY <1>2, StoresStay
<1>5. QED
  BY <1>2, <1>3, <1>4, CallGoes

\* What discover found goes into the records the call will save.
LEMMA DiscoverKeeps ==
  ASSUME FleetInv, Discover
  PROVE  FleetInv'
<1>1. /\ call.step = "edit" /\ call.name = "discover"
      /\ UNCHANGED <<inventory, config, keypair, authorized, files, result>>
  BY DEF Discover
<1>2. PICK h \in Records : call' = [call EXCEPT !.hosts = h, !.step = "truncate"]
  BY DEF Discover, Recorded
<1>3. call.name \in Edits
  BY <1>1 DEF Edits
<1>4. QED
  BY <1>1, <1>2, <1>3, StoresStay, EditGoes

\* An edit is refused with status 1 or changes the records to be saved.
LEMMA EditKeeps ==
  ASSUME FleetInv, EditInventory
  PROVE  FleetInv'
<1>1. /\ call.step = "edit" /\ call.name # "discover" /\ call.name \in Edits
      /\ call.alias \in Aliases /\ call.other \in Aliases
      /\ UNCHANGED <<inventory, config, keypair, authorized, files>>
      /\ call.hosts \in Records /\ call.addr \in Addrs \cup {NoAddr}
  BY CallKnown DEF EditInventory, Under
<1>2. CASE Returns(1)
  BY <1>1, <1>2, StoresStay, ReturnsKeep
<1>3. ASSUME call' = [call EXCEPT !.hosts = Edited, !.step = "truncate"], UNCHANGED result
      PROVE  FleetInv'
  <2>1. call.name \in {"add", "rm", "alias"}
    BY <1>1 DEF Edits
  <2>2. /\ call.name = "add" => Edited = [call.hosts EXCEPT ![call.alias] = call.addr]
        /\ call.name = "rm" => Edited = [call.hosts EXCEPT ![call.alias] = NoAddr]
        /\ call.name = "alias" => Edited = [[call.hosts EXCEPT ![call.alias] = NoAddr]
                                              EXCEPT ![call.other] = call.hosts[call.alias]]
    BY DEF Edited
  <2>3. /\ Edited \in Records
        /\ call.name = "add" => Edited[call.alias] = call.addr
        /\ call.name = "alias" /\ call.alias # call.other => Edited[call.alias] = NoAddr
    <3>1. CASE call.name = "add"
      BY <1>1, <2>2, <3>1 DEF Records
    <3>2. CASE call.name = "rm"
      BY <1>1, <2>2, <3>2 DEF Records
    <3>3. CASE call.name = "alias"
      BY <1>1, <2>2, <3>3 DEF Records
    <3>4. QED
      BY <2>1, <3>1, <3>2, <3>3
  <2>4. QED
    BY <1>1, <1>3, <2>3, StoresStay, EditGoes
<1>4. QED
  BY <1>2, <1>3 DEF EditInventory

\* The file is emptied first, whatever it held.
LEMMA TruncateKeeps ==
  ASSUME FleetInv, Truncate
  PROVE  FleetInv'
<1>1. /\ call.step = "truncate" /\ inventory' = Empty /\ UNCHANGED result
      /\ call' = [call EXCEPT !.step = "save"]
      /\ UNCHANGED <<config, keypair, authorized, files>>
  BY DEF Truncate, Proceeds
<1>2. /\ call \in CallRecord /\ call.name \in Edits /\ call.hosts \in Records
      /\ call.name = "add" => call.hosts[call.alias] = call.addr
      /\ call.name = "alias" /\ call.alias # call.other => call.hosts[call.alias] = NoAddr
  BY <1>1, CallKnown DEF Under
<1>3. [call EXCEPT !.step = "save"] = [call EXCEPT !.hosts = call.hosts, !.step = "save"]
  BY <1>2 DEF CallRecord
<1>4. StoreTypes'
  BY <1>1, CallKnown, IdleFits DEF StoreTypes
<1>5. QED
  BY <1>1, <1>2, <1>3, <1>4, EditGoes

\* The records are written in place and the call returns 0.
LEMMA SaveKeeps ==
  ASSUME FleetInv, Save
  PROVE  FleetInv'
<1>1. /\ call.step = "save" /\ inventory' = call.hosts /\ Returns(0)
      /\ UNCHANGED <<config, keypair, authorized, files>>
  BY DEF Save
<1>2. StoreTypes'
  BY <1>1, CallKnown DEF StoreTypes
<1>3. Said(call, inventory', config'.identity, authorized', files')
  BY <1>1, CallKnown DEF Said, Under, Edits
<1>4. QED
  BY <1>1, <1>2, <1>3, StoresStay, ReturnsKeep

-----------------------------------------------------------------------------
(* Reaching a robot *)

\* The alias is resolved to an address, or the call returns 1.
LEMMA ResolveKeeps ==
  ASSUME FleetInv, Resolve
  PROVE  FleetInv'
<1>1. /\ call.step = "resolve" /\ call \in CallRecord /\ Under(call) /\ call.name \notin Edits
      /\ call.name \in Calls
      /\ UNCHANGED <<inventory, config, keypair, authorized, files, result>>
  BY CallKnown DEF Resolve, Under
<1>. DEFINE step == IF call.name \in {"push", "pull"} THEN "copy"
                    ELSE IF call.name = "keys" THEN "append"
                    ELSE IF call.name = "monitor" THEN "poll" ELSE "ssh"
<1>2. /\ step \in {"copy", "append", "poll", "ssh"}
      /\ step = "copy" => call.name \in {"push", "pull"}
      /\ step = "append" => call.name = "keys"
      /\ step = "poll" => call.name = "monitor"
      /\ step = "ssh" => call.name \in Remote
  BY <1>1 DEF Calls
<1>3. PICK a \in Addrs \cup {NoAddr} : call' = [call EXCEPT !.addr = a, !.step = step]
  <2>1. PICK a \in Resolved(call.alias) : call' = [call EXCEPT !.addr = a, !.step = step]
    BY DEF Resolve
  <2>2. call.alias \in Aliases /\ call.hosts \in Records
    BY <1>1, CallKnown DEF Under
  <2>3. a \in Addrs \cup {NoAddr}
    BY <2>2 DEF Resolved, Records
  <2>4. QED
    BY <2>1, <2>3
<1>. HIDE DEF step
<1>4. /\ call' \in CallRecord /\ call'.step = step /\ call'.name = call.name
      /\ call'.alias = call.alias /\ call'.other = call.other
  BY <1>1, <1>2, <1>3 DEF CallRecord, CallSteps
<1>5. Under(call')
  BY <1>1, <1>2, <1>4 DEF Under
<1>6. KeysCount(call', authorized', result.count)
  BY <1>1, <1>2, <1>4, StoresStay
<1>7. QED
  BY <1>1, <1>2, <1>4, <1>5, <1>6, StoresStay, CallGoes

\* A dry run says nothing.
LEMMA PreviewKeeps ==
  ASSUME FleetInv, NEW s \in {"ssh", "copy", "append"}, Previews(s)
  PROVE  FleetInv'
  BY StoresStay, ReturnsKeep DEF Previews

\* A remote command's exit status is the call's.
LEMMA RunRemoteKeeps ==
  ASSUME FleetInv, RunRemote
  PROVE  FleetInv'
<1>1. /\ call.step = "ssh" /\ call.name \in Remote
      /\ UNCHANGED <<inventory, config, keypair, authorized, files>>
  BY CallKnown DEF RunRemote, Under
<1>2. PICK status \in {0, 1} : Returns(status)
  BY DEF RunRemote
<1>3. Said(call, inventory', config'.identity, authorized', files')
  BY <1>1 DEF Said, Remote, Edits
<1>4. QED
  BY <1>1, <1>2, <1>3, StoresStay, ReturnsKeep

\* scp copies whole, tears the target or fails; 0 only when it copied.
LEMMA CopyKeeps ==
  ASSUME FleetInv, Copy
  PROVE  FleetInv'
<1>1. /\ call.step = "copy" /\ call.name \in {"push", "pull"} /\ ~call.dry
      /\ UNCHANGED <<inventory, config, keypair, authorized>>
      /\ call \in CallRecord /\ Under(call) /\ call.addr \in Addrs \cup {NoAddr}
      /\ files \in [Addrs \cup {Here} -> {"old", "new", "torn"}]
  BY CallKnown DEF Copy, Under
<1>2. files' \in [Addrs \cup {Here} -> {"old", "new", "torn"}]
  <2>1. CASE LoggedIn /\ \E c \in {files[Source], "torn"} : files' = [files EXCEPT ![Target] = c]
    <3>1. Source \in Addrs \cup {Here} /\ Target \in Addrs \cup {Here}
      BY <1>1, <2>1 DEF Source, Target, LoggedIn
    <3>2. QED
      BY <1>1, <2>1, <3>1
  <2>2. CASE files' \in {files} \cup {[files EXCEPT ![t] = "torn"] : t \in {Target} \ {NoAddr}}
    BY <1>1, <2>2
  <2>3. QED
    BY <2>1, <2>2 DEF Copy
<1>3. StoreTypes'
  BY <1>1, <1>2, CallKnown DEF StoreTypes
<1>4. ASSUME Proceeds("verify") PROVE FleetInv'
  <2>1. call' = [call EXCEPT !.step = "verify"] /\ UNCHANGED result
    BY <1>4 DEF Proceeds
  <2>2. /\ call' \in CallRecord /\ call'.step = "verify" /\ call'.name = call.name
        /\ call'.alias = call.alias /\ call'.other = call.other
    BY <1>1, <2>1 DEF CallRecord, CallSteps
  <2>3. Under(call')
    BY <1>1, <2>2 DEF Under
  <2>4. KeysCount(call', authorized', result.count)
    BY <1>1, <2>2, StoresStay
  <2>5. QED
    BY <1>1, <1>3, <2>1, <2>2, <2>3, <2>4, CallGoes
<1>5. CASE ~call.verify /\ Returns(0)
  <2>1. Said(call, inventory', config'.identity, authorized', files')
    BY <1>1, <1>5 DEF Said, Edits
  <2>2. QED
    BY <1>1, <1>3, <1>5, <2>1, StoresStay, ReturnsKeep
<1>6. CASE Returns(1)
  BY <1>1, <1>3, <1>6, StoresStay, ReturnsKeep
<1>7. QED
  BY <1>4, <1>5, <1>6 DEF Copy

\* The files compared, if any are, are the two the transfer was between.
LEMMA VerifyKeeps ==
  ASSUME FleetInv, Verify
  PROVE  FleetInv'
<1>1. /\ call.step = "verify" /\ call.name \in {"push", "pull"}
      /\ UNCHANGED <<inventory, config, keypair, authorized, files>>
  BY CallKnown DEF Verify, Under
<1>2. CASE (call.regular => files[Source] = files[Target]) /\ Returns(0)
  <2>1. Said(call, inventory', config'.identity, authorized', files')
    BY <1>1, <1>2 DEF Said, Edits, Source, Target
  <2>2. QED
    BY <1>1, <1>2, <2>1, StoresStay, ReturnsKeep
<1>3. CASE Returns(1)
  BY <1>1, <1>3, StoresStay, ReturnsKeep
<1>4. QED
  BY <1>2, <1>3 DEF Verify

-----------------------------------------------------------------------------
(* keys install and monitor *)

\* A key pair is there or made, or the call returns 1.
LEMMA KeygenKeeps ==
  ASSUME FleetInv, Keygen
  PROVE  FleetInv'
<1>1. /\ call.step = "keygen" /\ call.name = "keys" /\ keypair' \in BOOLEAN
      /\ UNCHANGED <<inventory, config, authorized, files>>
      /\ call \in CallRecord /\ Under(call)
  BY CallKnown DEF Keygen, Under
<1>2. StoreTypes'
  BY <1>1, CallKnown DEF StoreTypes
<1>3. ASSUME Proceeds("resolve") PROVE FleetInv'
  <2>1. call' = [call EXCEPT !.step = "resolve"] /\ UNCHANGED result
    BY <1>3 DEF Proceeds
  <2>2. /\ call' \in CallRecord /\ call'.step = "resolve" /\ call'.name = "keys"
        /\ call'.alias = call.alias /\ call'.other = call.other
    BY <1>1, <2>1 DEF CallRecord, CallSteps
  <2>3. Under(call')
    BY <1>1, <2>2 DEF Under, Edits
  <2>4. KeysCount(call', authorized', result.count)
    BY <1>1, <2>2, StoresStay
  <2>5. QED
    BY <1>1, <1>2, <2>1, <2>2, <2>3, <2>4, CallGoes
<1>4. CASE call.dry /\ Returns(0)
  BY <1>1, <1>2, <1>4, StoresStay, ReturnsKeep
<1>5. CASE Returns(1)
  BY <1>1, <1>2, <1>5, StoresStay, ReturnsKeep
<1>6. QED
  BY <1>3, <1>4, <1>5 DEF Keygen

\* Whatever the script does, the robot has the key when it is recorded next.
LEMMA AppendKeeps ==
  ASSUME FleetInv, AppendKey
  PROVE  FleetInv'
<1>1. /\ call.step = "append" /\ call.name = "keys" /\ call \in CallRecord /\ Under(call)
      /\ UNCHANGED <<inventory, config, keypair, files>>
      /\ authorized \in [Addrs -> Nat] /\ result.count \in Nat
      /\ call.addr \in Addrs \cup {NoAddr}
  BY CallKnown DEF AppendKey, Under
<1>2. StoreTypes'
  BY <1>1, StoresStay
<1>3. \A a \in Addrs : authorized[a] <= result.count + 1
  BY <1>1, CallKnown DEF KeysCount, Due
<1>4. ASSUME LoggedIn, Proceeds("record"),
             \/ authorized' = [authorized EXCEPT ![call.addr] = authorized[call.addr] + 1]
             \/ authorized' = authorized /\ call.addr \in Addrs /\ authorized[call.addr] > 0
      PROVE  FleetInv'
  <2>1. call' = [call EXCEPT !.step = "record"] /\ UNCHANGED result /\ call.addr \in Addrs
    BY <1>1, <1>4 DEF Proceeds, LoggedIn
  <2>2. /\ call' \in CallRecord /\ call'.step = "record" /\ call'.name = "keys"
        /\ call'.alias = call.alias /\ call'.other = call.other /\ call'.addr = call.addr
    BY <1>1, <2>1 DEF CallRecord, CallSteps
  <2>3. Under(call')
    BY <1>1, <2>1, <2>2 DEF Under
  <2>4. /\ authorized' \in [Addrs -> Nat] /\ authorized'[call.addr] > 0
        /\ \A a \in Addrs : authorized'[a] <= result.count + 2
    BY <1>1, <1>3, <1>4, <2>1
  <2>5. KeysCount(call', authorized', result.count)
    BY <2>2, <2>4 DEF KeysCount, Due
  <2>6. QED
    BY <1>1, <1>2, <2>1, <2>2, <2>3, <2>5, CallGoes
<1>5. CASE UNCHANGED authorized /\ Returns(1)
  BY <1>1, <1>2, <1>5, StoresStay, ReturnsKeep
<1>6. QED
  BY <1>4, <1>5 DEF AppendKey

\* The configuration is emptied while the record of it is made.
LEMMA RecordKeeps ==
  ASSUME FleetInv, RecordIdentity
  PROVE  FleetInv'
<1>1. /\ call.step = "record" /\ call.name = "keys" /\ call.addr \in Addrs
      /\ call \in CallRecord /\ Under(call) /\ config.settings \in BOOLEAN
      /\ call' = [call EXCEPT !.step = "write", !.verify = config.settings]
      /\ config' = [settings |-> FALSE, identity |-> FALSE]
      /\ UNCHANGED <<inventory, keypair, authorized, files, result>>
  BY CallKnown DEF RecordIdentity, Under
<1>2. /\ call' \in CallRecord /\ call'.step = "write" /\ call'.name = "keys"
      /\ call'.alias = call.alias /\ call'.other = call.other /\ call'.addr = call.addr
  BY <1>1 DEF CallRecord, CallSteps
<1>3. Under(call')
  BY <1>1, <1>2 DEF Under
<1>4. StoreTypes'
  BY <1>1, CallKnown DEF StoreTypes
<1>5. KeysCount(call', authorized', result.count)
  BY <1>1, <1>2, CallKnown DEF KeysCount, Due
<1>6. QED
  BY <1>1, <1>2, <1>3, <1>4, <1>5, CallGoes

\* The settings name the identity and the call returns 0.
LEMMA WriteKeysKeeps ==
  ASSUME FleetInv, WriteIdentity
  PROVE  FleetInv'
<1>1. /\ call.step = "write" /\ call.name = "keys" /\ call.verify \in BOOLEAN
      /\ config' = [settings |-> call.verify, identity |-> TRUE] /\ Returns(0)
      /\ UNCHANGED <<inventory, keypair, authorized, files>>
  BY CallKnown DEF WriteIdentity, Under, CallRecord
<1>2. StoreTypes'
  BY <1>1, CallKnown DEF StoreTypes
<1>3. Said(call, inventory', config'.identity, authorized', files')
  BY <1>1, CallKnown DEF Said, Edits, KeysCount
<1>4. /\ call.step # "none" /\ Returns(0)
      /\ KeysCount(call, authorized', result.count)
  BY <1>1, StoresStay
<1>5. QED
  BY <1>2, <1>3, <1>4, ReturnsKeep

\* A poll says nothing of what a command leaves.
LEMMA PollAgentKeeps ==
  ASSUME FleetInv, PollAgent
  PROVE  FleetInv'
<1>1. /\ call.step = "poll" /\ call.name = "monitor"
      /\ UNCHANGED <<inventory, config, keypair, authorized, files>>
  BY CallKnown DEF PollAgent, Under
<1>2. Said(call, inventory', config'.identity, authorized', files')
  BY <1>1 DEF Said, Edits
<1>3. ASSUME NEW status \in 0 .. 2, Returns(status) PROVE FleetInv'
  BY <1>1, <1>2, <1>3, StoresStay, ReturnsKeep
<1>4. CASE UNCHANGED <<call, result>>
  BY <1>1, <1>4, FleetStays DEF fleetVars
<1>5. QED
  BY <1>3, <1>4 DEF PollAgent

-----------------------------------------------------------------------------
\* Every step keeps the invariant.
LEMMA FleetKeeps == FleetInv /\ [FleetNext]_fleetVars => FleetInv'
<1>. SUFFICES ASSUME FleetInv, [FleetNext]_fleetVars PROVE FleetInv'
  OBVIOUS
<1>1. CASE UNCHANGED fleetVars
  BY <1>1, FleetStays
<1>2. CASE FleetStep
  BY <1>2, LoadKeeps, DiscoverKeeps, EditKeeps, TruncateKeeps, SaveKeeps, ResolveKeeps,
     PreviewKeeps, RunRemoteKeeps, CopyKeeps, VerifyKeeps, KeygenKeeps, AppendKeeps,
     RecordKeeps, WriteKeysKeeps, PollAgentKeeps DEF FleetStep
<1>3. CASE CallInterrupted
  <2>1. call.step # "none"
    BY <1>3, CallKnown DEF CallInterrupted, Under
  <2>2. QED
    BY <1>3, <2>1, StoresStay, ReturnsKeep DEF CallInterrupted
<1>4. QED
  BY <1>1, <1>2, <1>3, GiveKeeps DEF FleetNext

\* The invariant holds before any command.
LEMMA FleetStart == FleetInit => FleetInv
<1>. SUFFICES ASSUME FleetInit PROVE FleetInv
  OBVIOUS
<1>1. call = Idle /\ result = [call |-> Idle, status |-> 1, count |-> 0]
  BY DEF FleetInit
<1>2. inventory \in Records
  BY IdleFits DEF FleetInit, Records
<1>3. StoreTypes
  <2>1. files \in [Addrs \cup {Here} -> {"old", "new", "torn"}]
    <3>1. PICK h \in Addrs \cup {Here} :
            files = [p \in Addrs \cup {Here} |-> IF p = h THEN "new" ELSE "old"]
      BY DEF FleetInit
    <3>2. QED
      BY <3>1
  <2>2. config \in [settings: BOOLEAN, identity: BOOLEAN]
    BY DEF FleetInit
  <2>3. keypair \in BOOLEAN
    BY DEF FleetInit
  <2>4. QED
    BY <1>2, <2>1, <2>2, <2>3 DEF StoreTypes
<1>4. KeysCount(call, authorized, result.count)
  <2>1. authorized \in [Addrs -> 0 .. 1]
    BY DEF FleetInit
  <2>2. QED
    BY <1>1, <2>1, IdleFits DEF KeysCount, Due
<1>5. SaidWasDone
  BY <1>1 DEF SaidWasDone
<1>6. QED
  BY <1>1, <1>3, <1>4, <1>5, IdleFits DEF FleetInv

-----------------------------------------------------------------------------
(* The commands composed *)

WorkstationInv == DeployInv /\ ProvisionInv /\ FleetInv

\* Every step is a step of one family and of the others a stutter, or one of
\* `pibot agent` and of the robot's agents.
LEMMA TurnsAreSteps ==
  ASSUME [Next]_vars
  PROVE  [DeployNext]_deployVars /\ [ProvisionNext]_provisionVars /\ [FleetNext]_fleetVars
<1>1. CASE DeployTurn \/ ProvisionTurn \/ UNCHANGED vars
  BY <1>1 DEF vars, DeployTurn, ProvisionTurn
<1>2. CASE FleetTurn
  <2>1. (FleetNext /\ UNCHANGED deployVars) \/ (RunRemote /\ AgentNext)
    BY <1>2 DEF FleetTurn, AgentScript, AgentNext
  <2>2. QED
    BY <1>2, <2>1 DEF FleetTurn, FleetNext, FleetStep, DeployNext
<1>3. QED
  BY <1>1, <1>2 DEF Next

\* The three families keep their invariants together.
LEMMA WorkstationKeeps == Spec => []WorkstationInv
<1>1. Init => WorkstationInv
  BY DeployStart, ProvisionStart, FleetStart DEF Init, WorkstationInv
<1>2. WorkstationInv /\ [Next]_vars => WorkstationInv'
  BY TurnsAreSteps, DeployStepKeeps, ProvisionKeeps, FleetKeeps DEF WorkstationInv
<1>3. QED
  BY <1>1, <1>2, PTL DEF Spec

(***************************************************************************)
(* A command of the workstation that exits 0 has done what it says,        *)
(* whatever step failed, whatever was interrupted, and whatever disks were *)
(* plugged and unplugged meanwhile (service.py:6-7, flash.py, keys.py,     *)
(* transfer.py, inventory.py, monitor.py).                                 *)
(***************************************************************************)
THEOREM WorkstationSafe == Spec => [](TypeOK /\ ExitZeroMeansDone)
<1>1. WorkstationInv => TypeOK /\ ExitZeroMeansDone
  BY FleetTyped
     DEF WorkstationInv, DeployInv, GateInv, ProvisionInv, FleetInv, TypeOK, ExitZeroMeansDone
<1>2. QED
  BY <1>1, WorkstationKeeps, PTL

(***************************************************************************)
(* The store of releases, the file of the host's own settings, the disks,  *)
(* the boards, the inventory and the key stores hold what their files can  *)
(* hold, at every step of every command and after any of them is stopped.  *)
(***************************************************************************)
THEOREM WorkstationTypeCorrect == Spec => []TypeOK
  BY WorkstationSafe, PTL

(***************************************************************************)
(* Nothing is overwritten unasked: no dry run and no unconfirmed command   *)
(* changes a disk, the bootloader or the motor board, no flash a disk of   *)
(* this machine, and none over rpiboot a disk that stayed plugged in since *)
(* before (devices.py:3-7).                                                *)
(***************************************************************************)
THEOREM WorkstationAsks == Spec => NothingUnasked
<1>1. WorkstationInv /\ [Next]_vars => [Asked]_provisionVars
  BY TurnsAreSteps, StepsAreAsked DEF WorkstationInv
<1>2. [][Asked]_provisionVars => NothingUnasked
  BY PTL DEF NothingUnasked, Asked, Spared
<1>3. QED
  BY <1>1, <1>2, WorkstationKeeps, PTL DEF Spec
=============================================================================
