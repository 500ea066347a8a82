------------------------------- MODULE Deploy -------------------------------
(***************************************************************************)
(* pibot deploy and its rollback (deploy/sync.py, deploy/service.py,       *)
(* cli.cmd_deploy), and the agent on the robot: the one systemd keeps, and *)
(* one that `pibot agent start` has put beside it.  The remote commands    *)
(* run over ssh, one after the other; each may fail, with or without its   *)
(* effect, and the command may be interrupted between any two.  Only one   *)
(* agent has the port: "up" means that it listens.                         *)
(***************************************************************************)
EXTENDS Naturals, Sequences, SequencesExt, FiniteSets, FiniteSetsExt

CONSTANTS
  Attempts,    \* health_attempts
  MaxReleases, \* bound: deploys
  MaxRollbacks \* bound: rollbacks

ASSUME DeployAssumption == {Attempts, MaxReleases, MaxRollbacks} \subseteq Nat

VARIABLES
  releases,  \* releases/: what each holds and whether the agent in it starts
  current,   \* the release the link names, 0 for none
  venv,      \* the release whose requirements the venv holds, 0 for a mixture
  agent,     \* the release systemd's agent was started from, 0 when not up
  trying,    \* systemd is starting it, or will try again
  enabled,   \* systemd starts it at boot
  byHand,    \* an agent started by hand is up
  job,       \* the command under way: its next step, its release, its tries
  exit,      \* the last command that ended; history: the agents there were then
  rollbacks  \* rollbacks asked

robotAgent == <<agent, trying, enabled, byHand>>
deployVars == <<releases, current, venv, robotAgent, job, exit, rollbacks>>

ReleaseNo == 0 .. MaxReleases
Steps == {"none", "mkdir", "rsync", "activate", "venv", "previous", "relink",
          "restart", "health"}
Resting == [step |-> "none", cmd |-> "none", release |-> 0, tries |-> 0]

DeployTypeOK ==
  /\ releases \in Seq([holds: {"absent", "empty", "half", "whole"}, starts: BOOLEAN])
  /\ Len(releases) <= MaxReleases
  /\ {current, venv, agent} \subseteq 0 .. Len(releases)
  /\ job \in [step: Steps, cmd: {"none", "deploy", "rollback"}, release: ReleaseNo,
              tries: 0 .. Attempts]
  /\ exit \in [cmd: {"none", "deploy", "rollback"}, status: {0, 1},
               agent: ReleaseNo, byHand: BOOLEAN]
  /\ {trying, enabled, byHand} \subseteq BOOLEAN
  /\ rollbacks \in 0 .. MaxRollbacks

DeployInit ==
  /\ releases = <<>> /\ current = 0 /\ venv = 0
  /\ agent = 0 /\ trying = FALSE /\ enabled = FALSE /\ byHand \in BOOLEAN
  /\ job = Resting /\ rollbacks = 0
  /\ exit = [cmd |-> "none", status |-> 1, agent |-> 0, byHand |-> FALSE]

Then(step) == job' = [job EXCEPT !.step = step]

Exits(status) ==
  /\ job' = Resting
  /\ exit' = [cmd |-> job.cmd, status |-> status, agent |-> agent, byHand |-> byHand]

Starts(r) == r # 0 /\ releases[r].starts

-----------------------------------------------------------------------------
(* sync.deploy: what its commands return is not looked at. *)

\* A release is named by the second, and two deploys are seconds apart.
DeployCommand ==
  /\ job = Resting /\ Len(releases) < MaxReleases
  /\ releases' = Append(releases, [holds |-> "absent", starts |-> FALSE])
  /\ job' = [step |-> "mkdir", cmd |-> "deploy", release |-> Len(releases) + 1, tries |-> 0]
  /\ UNCHANGED <<current, venv, robotAgent, exit, rollbacks>>

MakeRelease ==
  /\ job.step = "mkdir"
  /\ \E h \in {"absent", "empty"} : releases' = [releases EXCEPT ![job.release].holds = h]
  /\ Then("rsync")
  /\ UNCHANGED <<current, venv, robotAgent, exit, rollbacks>>

\* rsync makes the last directory of its target itself.
Sync ==
  /\ job.step = "rsync"
  /\ \E h \in {releases[job.release].holds, "half", "whole"}, s \in BOOLEAN :
        /\ s => h \in {"half", "whole"}
        /\ releases' = [releases EXCEPT ![job.release] = [holds |-> h, starts |-> s]]
  /\ Then("activate")
  /\ UNCHANGED <<current, venv, robotAgent, exit, rollbacks>>

\* activate_command renames a new link over `current`.
Activate(next) ==
  /\ current' \in {current, job.release}
  /\ Then(next)
  /\ UNCHANGED <<releases, venv, robotAgent, exit, rollbacks>>

ActivateNew == job.step = "activate" /\ Activate("venv")

-----------------------------------------------------------------------------
(* service.install and service.rollback *)

\* The unit is written whatever comes of it, then the venv is refreshed from
\* the requirements `current` holds; a step that fails ends the command, pip
\* with a part of them installed.
RefreshVenv ==
  /\ job.step = "venv"
  /\ \/ /\ current # 0 /\ releases[current].holds \in {"half", "whole"}
        /\ venv' = current
        /\ Then("restart")
        /\ UNCHANGED exit
     \/ Exits(1) /\ venv' \in {venv, 0}
  /\ UNCHANGED <<releases, current, robotAgent, rollbacks>>

RollbackCommand ==
  /\ job = Resting /\ rollbacks < MaxRollbacks
  /\ rollbacks' = rollbacks + 1
  /\ job' = [step |-> "previous", cmd |-> "rollback", release |-> 0, tries |-> 0]
  /\ UNCHANGED <<releases, current, venv, robotAgent, exit>>

\* The newest release that `current` does not name.
OtherReleases == {r \in DOMAIN releases : r # current /\ releases[r].holds # "absent"}

\* Nothing is printed when there is none, or when ssh fails.
FindPrevious ==
  /\ job.step = "previous"
  /\ \/ /\ OtherReleases # {}
        /\ job' = [job EXCEPT !.step = "relink", !.release = Max(OtherReleases)]
        /\ UNCHANGED exit
     \/ Exits(1)
  /\ UNCHANGED <<releases, current, venv, robotAgent, rollbacks>>

ActivatePrevious == job.step = "relink" /\ Activate("restart")

RestartUnchecked ==
  /\ job.step = "restart"
  /\ \/ agent' = 0 /\ trying' = TRUE
     \/ UNCHANGED <<agent, trying>>
  /\ enabled' \in {enabled, TRUE}
  /\ Then("health")
  /\ UNCHANGED <<releases, current, venv, byHand, exit, rollbacks>>

\* systemctl enable, unchecked, and restart, which returns before the agent is
\* up.  One that fails has stopped the old agent or has not.
Restart ==
  /\ job.step = "restart"
  /\ \/ agent' = 0 /\ trying' = TRUE /\ Then("health") /\ UNCHANGED exit
     \/ agent' = 0 /\ trying' = TRUE /\ Exits(1)
     \/ UNCHANGED <<agent, trying>> /\ Exits(1)
  /\ enabled' \in {enabled, TRUE}
  /\ UNCHANGED <<releases, current, venv, byHand, rollbacks>>

AgentAnswers == agent # 0 \/ byHand

HealthForever ==
  /\ job.step = "health"
  /\ \/ AgentAnswers /\ Exits(0)
     \/ UNCHANGED <<job, exit>>
  /\ UNCHANGED <<releases, current, venv, robotAgent, rollbacks>>

\* One probe of /health: an agent answers, or it is tried again.
Health ==
  /\ job.step = "health"
  /\ \/ AgentAnswers /\ Exits(0)
     \/ IF job.tries + 1 < Attempts
        THEN job' = [job EXCEPT !.tries = @ + 1] /\ UNCHANGED exit
        ELSE Exits(1)
  /\ UNCHANGED <<releases, current, venv, robotAgent, rollbacks>>

Interrupted ==
  /\ job # Resting
  /\ Exits(1)
  /\ UNCHANGED <<releases, current, venv, robotAgent, rollbacks>>

-----------------------------------------------------------------------------
(* The agents.  systemd starts its own where `current` points at that time; *)
(* it listens if the port is free and the venv, whatever it holds, will do. *)

Agents(a, t, h) ==
  /\ agent' = a /\ trying' = t /\ byHand' = h
  /\ UNCHANGED <<releases, current, venv, enabled, job, exit, rollbacks>>

AgentComesUp == trying /\ ~byHand /\ Starts(current) /\ Agents(current, FALSE, byHand)

\* Too many starts have failed in a row.
SystemdGivesUp == trying /\ Agents(agent, FALSE, byHand)

\* Restart=on-failure: after a crash it is started again, after a clean exit not.
AgentCrashes == agent # 0 /\ Agents(0, TRUE, byHand)

\* pibot agent start, from another terminal: without the port it exits.
StartByHand == ~AgentAnswers /\ Agents(agent, trying, TRUE)

\* pibot agent stop ends every agent, each by the signal it exits cleanly on.
StopAgents == AgentAnswers /\ Agents(0, trying, FALSE)

Reboot == enabled /\ Agents(0, TRUE, FALSE)

AgentNext ==
  \/ AgentComesUp \/ SystemdGivesUp \/ AgentCrashes
  \/ StartByHand \/ StopAgents \/ Reboot

DeployStep ==
  \/ MakeRelease \/ Sync \/ ActivateNew \/ RefreshVenv
  \/ FindPrevious \/ ActivatePrevious \/ Restart \/ Health

DeployNext ==
  DeployCommand \/ RollbackCommand \/ DeployStep \/ Interrupted \/ AgentNext

\* A probe returns: ssh has its ConnectTimeout and curl its --max-time.  The
\* other remote commands run without a time-out.
DeployFair == WF_deployVars(Health)

DeploySpec == DeployInit /\ [][DeployNext]_deployVars

-----------------------------------------------------------------------------
(* Properties *)

\* The health gate (service.py:150-168): after an exit 0 the agent that
\* answered was systemd's, started from the release that is current, or one
\* started by hand; systemd's runs no other release since, also when it has
\* crashed or the robot was rebooted; and a deploy has left that release's
\* requirements installed.
GatePassed ==
  (job = Resting /\ exit.status = 0) =>
    /\ exit.agent # 0 => exit.agent = current
    /\ exit.agent = 0 => exit.byHand
    /\ agent \in {0, current}
    /\ exit.cmd = "deploy" => venv = current

\* "if the agent doesn't come up, the deploy fails loudly rather than leaving a
\* dead robot" (service.py:6-7).  The probe takes the answer of an agent that
\* was started by hand, which keeps the service's agent off the port.
GateIsLoud == (job = Resting /\ exit.status = 0) => exit.agent # 0

\* "only on success do we swap the current symlink, so a half-synced release
\* never replaces a working one" (sync.py:5).
HalfSyncedNeverCurrent == current # 0 => releases[current].holds = "whole"

\* "rollback repoints current at the previous release" (service.py:7): no
\* rollback goes forward.  The code does not keep it: a second rollback goes
\* back to the release the first one left.
RollbackGoesBack ==
  [][job.step = "relink" => current' <= current]_deployVars
=============================================================================
