# PiBot: a TLA+ verification project

PiBot drives a small robot from three layers: *Mission Control* and a CLI on a
desk, an *agent* (`pibotd`) on the robot's Raspberry Pi, and *firmware* on the
microcontrollers that turn wheels and joints. This directory holds TLA+ modules
of that program, the TLC configurations that check them and TLAPS proofs about
them. Every definition is translated from the source; `PROJECT.json` names, for
each, the file and the lines it stands for.

## 1. Inventory

| Part | State it keeps | Operations | Talks to |
|---|---|---|---|
| Robot link, `pibot/transport/tcp.py` | one socket, two byte streams | open, close, send, recv; any of them may find the peer gone | agent ↔ ESP32 |
| ESP32 drive firmware, `firmware/pibot_esp32` | one client, e-stop latch, wheel speeds, time of the last command | accept, read and dispatch a line, watchdog, link-loss stop, reset | the link |
| Agent safety gate, `agent/safety.py`, `pibot/control/safety.py` | host latch, `_stopped`, watchdog and rate clocks, its own frame numbers | submit, tick, trip_estop | controller |
| Agent transport controller, `agent/control.py` | futures by frame number, reader task, ticker task | submit, reader, ticker, estop, start, stop | gate, link, `/control` sockets, autonomy |
| Arm joint firmware, `firmware/pibot_arm_stm32` | per joint: mode, homed, target; per board: latch, drivers, tool, time of the last command | dispatch, watchdog, run_joint, reset | serial |
| Arm manager, gate and socket, `pibot/arm/{manager,safety}.py`, `agent/app.py` | host latch, homed set, cached angles, ports | the `/arm/control` requests, drain | boards, programs |
| Arm programs, `agent/app.py`, `pibot/arm/{programs,trajectory}.py` | one task slot, abort flag, status | run, stop, the step loop, trajectory frames | arm manager |
| Autonomy, `agent/autonomy.py`, its handlers in `agent/app.py` | a task per run, the run the agent knows, a shared outbox | start, stop, observe–infer–drive, final stop | controller, camera, policy server |
| Camera and video, `agent/video.py`, `pibot/mc/video_relay.py` | one bounded queue per subscriber, on both machines | capture, drop oldest, encode, relay, show | Mission Control, webview, autonomy |
| Command-line control, `pibot/control/{sequence,teleop,oneshot,client}.py` | position in a sequence, one arm socket | play, teleop, cmd, estop | agent, or the board directly |
| Codec and transports, `pibot/protocol/codec.py`, `pibot/transport` | a byte buffer, BLE's notification queue | encode, decode, recv | boards |
| Deploy, `pibot/deploy` | releases, the `current` link, the venv, the unit | sync, restart, health gate, rollback | ssh, systemd |
| Provisioning, `pibot/provision` | disks, the Pi's bootloader, the motor board | flash, eeprom, clone, restore, firmware | external tools |
| Fleet commands, `pibot/{inventory,discovery,monitor,agent_ctl}.py`, `pibot/connection` | inventory, configuration, key pair | discover, edit, keys, run, push, pull, monitor | ssh, robots |
| Jobs, `pibot/mc/{ops,routes_ops}.py` | one record and log per job | create, preview, confirm, run, cancel, log sockets | command lines |
| Policy server, `pibot/mc/{policy_server,finetune}.py` | a child process, fine-tune rows | start, probe, stop, serve, train | child processes |
| Recording, `pibot/mc/{metrics,routes_record,sessions}.py` | a write buffer and a table, a recorder, sessions | write, flush, prune, record, step, event | SQLite |
| Robot link, `pibot/mc/{robot_link,routes_link,routes_arm}.py` | one client, relay and session | connect, disconnect, proxied requests, telemetry sockets | agent |
| Drive relay, `pibot/mc/{routes_control,cadence}.py` | the last drive, one socket to the robot | relay, repeat, time out, leave | browser, agent |
| Desktop shell, `app/src-tauri` | the sidecar process, a backoff | spawn, watch, restart | Mission Control |
| Kinematics, ROS 2, ML transforms, UI | mostly none | pure functions | — |

`PROJECT.json` lists each of them, the unmodelled ones with the reason, and
under `hazards` what in the code is hard to test, line by line.

What makes this system hard:

* *Stopping* is spread over six mechanisms (host latch, host deadman, firmware
  latch, firmware watchdog, link-loss stop, program abort) that run on different
  clocks and share a wire with the commands they must preempt.
* *Two sources of frames on one wire*: callers and the safety layer number
  their frames separately while replies are matched by number alone.
* *Worker threads*: an `/arm/control` handler checks its gate on the event loop
  and writes its frames from a thread, so an e-stop can begin between the two.
* *Check, await, act*: the one-program rule, the abort flag, the one policy run,
  and in Mission Control the link, the jobs, the recorder and the policy server.
* *Repetition and relaying*: a keeper repeats the operator's last drive, and
  queues that drop frames stand one behind the other.
* *External tools*: ssh, rsync, imagers and rpiboot fail half-way, are
  interrupted, and act on disks that come and go meanwhile.
* *Faults*: a client that freezes with its socket open, a link that breaks with
  data in flight, a board that resets and forgets its latch, a port that raises
  half-way through a broadcast, an agent that restarts.

What makes each part correct, in one line each. Drive path: once stopped,
stopped whatever is in flight; a quiet operator means a resting robot; replies
reach their callers. Arm: an e-stop reaches and holds on every board; absolute
moves need a reference; an interrupted program stays interrupted; the arm comes
to rest. Autonomy: a run that goes on is one a stop reaches. Workstation: an
exit status of 0 means what it is documented to mean here, nothing is overwritten unasked. Mission Control:
one live link, one child, no destructive command without its guard, nothing
recorded lost but what an error took, the operator's last word is what is
repeated. Wire: what the host acts on was sent.

## 2. Modules

```
RobotWire ── RobotFirmware ──────────────┐
    └─────── AgentSafety ── AgentControl ── RobotDrive ── MCRobotDrive
                                               │   └── RobotDriveProofs
                     DriveGate ◁───────────────┘
ArmBoard ── ArmHost ── ArmProgram ── ArmSystem ── MCArm
                                        └── ArmProofs
DriveGate ── Autonomy ───────┐
    └─────── Driving ────────┴── MCAgent ── AgentProofs
WireFrames ── WireFramesProofs
OpsJobSpec ◁── OpsJobs ──────┐   (◁── implements)
PolicyServer, Recording ─────┤
MissionLink, ControlRelay, ──┼── MCMission ── MissionProofs
VideoPath ───────────────────┘
Deploy, Provision, Fleet ──────── MCWorkstation ── WorkstationProofs
OpsJobs, Recording ── <module>Proofs
```

MissionProofs proves about the other parts of Mission Control itself, and takes
the theorems of the two last ones over to Mission Control as a whole.

### Drive path

* **RobotWire** – the TCP connection and its two FIFO streams. `conn` says where
  the agent's connection stands (closed, queued in the firmware's backlog,
  served, dead without the agent knowing); `oldClient` says that the firmware
  still holds an earlier, broken one. A frame is its command name, its number
  and, as history, its sender.
* **RobotFirmware** – `dispatch` with its latch, the watchdog, the link-loss
  stop, accept and reset of `pibot_esp32.ino`. `moving` abstracts the wheel
  speeds to zero or not. A `drive` in the model is one with a speed other than
  zero. `set` clears the latch for any parameter name, as in the code, since
  `atof` of a word is 0. A line that does not parse (`"garbled"`) feeds nothing
  and is refused under number 0.
* **AgentSafety** – the gate: latch, rate limit, deadman clock, the `_stopped`
  flag and the stop frames it numbers itself. Clamping changes values only and
  is left out.
* **AgentControl** – the controller: `submit` up to its wait is one action per
  outcome (refused, raises, sent) because it holds a lock over code without an
  await. What raises is the transport, or clamping and encoding a command whose
  arguments are missing (`TakesArguments`), with the link open and the future
  left in the table. Return and give-up are the `finally` of the wait; reader and ticker
  are tasks that die silently on a transport error.
* **RobotDrive** – the composition, discrete time and the properties. `Time`
  advances every clock one unit and waits for what the firmware's loop and the
  ticker owe, because both run every few milliseconds against deadlines of
  hundreds.

### Arm

* **ArmBoard** – the STM32 boards: one disjunct of `Dispatch` for each way a
  command ends, the watchdog over host-commanded motion, and `run_joint` split
  into the ways a mode ends. Angles are abstracted to `left`, the time a motion
  still needs. The agent reads no replies from the boards, so there are none.
* **ArmHost** – every `/arm/control` request: the gate and the latch on the
  event loop (`Ask…`), then the frames one by one (`SendNext`, `SendFails`),
  then what the handler does after its thread (`Ack`). Requests the gate refuses
  change no state and are left out. `jpos` and `jmove` differ in speed only.
  `move_cartesian` is `move` once its pose is solved.
* **ArmProgram** – the runner: load, start, list poses, steps, trajectory
  frames, stop, and the ways a task ends. The moments at which the code yields
  are separate phases.
* **ArmSystem** – the composition with the agent's and the boards' restarts, and
  the properties.

### The rest of the agent, and what steers through it

* **DriveGate** – the gate as its callers see it: a frame passes or is refused,
  a stop halts and feeds the deadman, the deadman halts a robot nobody feeds, and
  the robot may come to rest by guards of its own. `wheels` says what the frames
  sent leave the robot doing once they are read. RobotDrive implements it as long
  as its link works (`ImplementsGate`, with `wheels <- ~Quiesces` and
  `quiet <- Expired`); what a broken link or a restart of the agent does to the
  robot is RobotDrive's matter, and those who steer are modelled from a robot at
  rest.
* **Autonomy** – every `AutonomyController` and its task. `task` says what a run
  awaits; a cancellation is asked (`doomed`) and lands at the next await, which
  is how `asyncio` does it, and a task cancelled before it began or in its
  `finally` ends with the exception (`broken`). The policy is asked in a thread,
  and the broker's camera hands over its newest frame without waiting; but the
  policy's client is constructed on the event loop and waits there for its
  server, so while a start is at `open` nothing else on the loop moves
  (`LoopFree`).
* **Driving** – `play`, `teleop`, `cmd` and `estop`. One-shot commands go past
  the agent, its gate and its deadman, and wait in the backlog of the
  single-client firmware; one that timed out may still be carried out (`late`),
  and only the firmware's own guards end its motion.
* **WireFrames** – the bytes of a board, the transports that deliver them in
  pieces, the frame buffer and the ASCII codec, CRC-8 included, which is
  arithmetic on the bits of a byte (`Bit`, `Xor`). On the serial line bits flip,
  at most one in a frame, and a line may be entered in the middle.

### Mission Control

* **OpsJobSpec**, **OpsJobs** – the abstract promise of a job (no command
  without consent, no `running` without a command) and the handlers that keep
  it, line of output by line of output.
* **PolicyServer** – the manager of one child process. A stop awaits, times out
  and kills, and raises if even that does not end the child (`ReapTimesOut`),
  with every field kept; a start probes, and takes any listener's answer, be it
  an orphan of an earlier Mission Control or another program (`foreign`); every
  await lets other requests in. A trainer writes to a pipe nobody reads and may
  block in it.
* **Recording** – the telemetry buffer and its retention, demonstration
  recordings and sessions. A handler is suspended only while it reads its body:
  what it checked before is what `awaits` remembers. A step keeps, as history,
  the recording it was checked against and its request.
* **MissionLink** – the link's three parts, closed one after the other, and the
  requests that were checked against the old link and call the new one, or
  overlap on one arm socket: the second `receive` raises, its frame sent.
* **ControlRelay** – a browser's frames, the keeper's repetitions and the
  replies to both on one socket, whose other end may be `lost` before `closed`
  is true here: `aiohttp` learns of it in `receive`.
* **VideoPath** – a frame's way through both drop-oldest queues, with a capture
  or an encoder that raises. The latter ends the agent's pusher and leaves its
  socket open (`"mute"`).

### Workstation

* **Deploy** – the remote commands of a deploy and a rollback, each of which may
  fail with or without its effect; systemd restarts an agent that crashed, not
  one that exited, from whatever `current` names then; `pibot agent start` puts
  one beside it that keeps it off the port.
* **Provision** – the commands that overwrite something, with disks plugged and
  unplugged between their steps. What the guard can tell of a disk depends on
  the operating system (`ReportsInternal`, and `BootsExternal` for a Mac that
  runs from an external disk).
* **Fleet** – the commands that find, remember and reach robots. A command reads
  a file, which may not parse, works on it in memory and writes it back.

The compositions do not interleave their parts: each behaviour exercises one of
them, chosen by `asked` from the constant `Asked` of MCMission or `Ways` of
MCAgent. For MCMission this leaves out interleavings of independent steps only
(a relay has sockets of its own, a job its own record, and the telemetry sockets
meet the arm's requests only in the link itself). In MCAgent the ways to
steer share the gate, so a way named `shared` has autonomy and the control
socket drive at once. In MCWorkstation Deploy and Fleet share the robot's
agents: `pibot agent start` and `stop` are Fleet's commands that take Deploy's
`StartByHand` and `StopAgents`, and in a deploy's behaviour those two actions
are what other terminals do to it; a flash touches other machines.

History variables, read by no action's guard: `from` and `replyFrom` (whose
frame a reply answers), `held` (boards sent an e-stop nobody asked to clear),
`alone` (no clear ran beside a handler), `interrupted` (runs a stop has found),
`runs` (confirmations of jobs), `disturbed`, `patched` and `handed` (policy
server), `fate` and `failures` (snapshots), `checked` and `by` (steps of a
recording), `overlapped` and `answer` (arm sockets), `exit`'s agents, `wrote`, `repeated` and
`shown` (relays), `sent` and `got` (frames), `stayed` (disks plugged since a
command began). Some of them also bound a run.

Known approximations: after a restart of the agent what a previous connection
left unread is dropped with it; a connection closed while queued takes its data
along; a program's `moveL` step is an ordinary move; the status of a task that
is aborted while it awaits its gate may be `failed` or `stopped`; a line in
which two frames are joined because a newline was hit is taken to fail its
checksum (one in 256 would pass); a release is named by the second and two
deploys are taken to be seconds apart; a frame cut in the middle of a line when
its connection dies is lost with it, where the firmware's line buffer could
spoil the next client's first line; a camera that autonomy opens itself, which
is read on the event loop and returns or raises at once here; and `NotLapped`:
no number comes round while a frame, a reply or a caller still carries it,
which 256 commands within one time-out would break.

## 3. What the runs check

| Run | Instance | States | Shows |
|---|---|---|---|
| `drive` | 1 caller, 4 command names (one that does not parse), the plain stops come from the safety layer; deadman 2, firmware window 1, numbers mod 2, rate limit 1, every fault, fair | 1.0 M | `StopsPreempt`, `DeadmanPunctual`, `FirmwareLatchHolds`, `ImplementsGate`, `QuietRobotRests`, `EstopRests` |
| `drive_replies` | 2 callers, drive and ping, numbers mod 3 | 5.0 M | `ReplyComing`, `NoReplyOfAnother` |
| `arm_safety` | 1 joint, 2 clients (e-stop, clear, home), 1 program | 2.8 M | `EstopHolds`, `InterruptedHalts` |
| `arm_live` | 1 joint, 1 client, every request and fault, fair | 0.6 M | `MovesAreReferenced`, `ArmRests` |
| `agent` | 1 operator and 3 policy runs; sequences of 3 commands | 7.9 k | `PolicyIsKnown`, `EndsAtRest`, `AutonomySettles` |
| `frames` | 2 frames, 1 flipped bit, every transport | 41 k | `FramesWhole` |
| `mission` | 2 handlers of a destructive job; 1 client and 2 servers; 4 snapshots; 2 requests, 2 recordings or sessions; 1 switcher, 2 operators of the arm or 1 webview, 2 links, 2 arm sockets; 3 frames of a browser; 4 shots through queues of 2 | 0.2 M | `StreamComplete`, `StreamsEnd`, `KeepsPromise`, `StatusTruthful`, `ServedWasHanded`, `RequestsAndRunsSettle`, `SnapshotsKept`, `RetentionKeepsNewest`, `OnlyLateStepsStray`, `SessionsBounded`, `LinkSettled`, `LinkSettles`, `RepliesInTurn`, `RepeatsLastWord`, `StopGetsThrough`, `LastFrameShown` |
| `workstation` | 2 deploys and a rollback; 2 provisioning commands on 2 device nodes; 1 fleet command on 2 robots | 0.4 M | `ExitZeroMeansDone`, `NothingUnasked`, `WaitsEnd` |

`drive`, `arm_safety`, `mission`, `workstation` and `agent` also check the type
invariant of their modules.
Runs in which TLC finds what the documents rule out:

| Run | Instance | The code |
|---|---|---|
| `deploy_half_sync` | 2 deploys | makes a half-synced release current |
| `arm_estop_sends` | 2 boards, one port fails | never tells the second board |
| `arm_two_runs` | 2 overlapping run requests | lets a stopped program go on |
| `arm_overlap` | 2 operators, 1 link | hands a request the reply to another's frame |

**Bounds.** `MaxWire` and `MaxInbox` bound what is in flight when an operator
acts; two or three items suffice for a command, the stop that follows it and
the reply of an older one, which is what the properties tell apart. The ticker
is not bound by `MaxWire`: a bound there would hide a late stop. `SeqMod`
(256 in the code) is small so that numbers wrap within the run; `NotLapped`
keeps the one assumption that a number is not reused while something carries
it, so the runs and theorems say nothing of a sender that is lapped. The deadlines are one or two time units, enough to tell early, due and
overdue apart; clocks saturate one unit past their deadline, or at
`2 * Deadman + 1` for the host's, so that a late stop would be seen. `Far`
(longest motion) exceeds the watchdog's window where the run is about the two.
One joint carries every per-joint property, since joints interact only through
their board's latch and watchdog; the two runs that need two joints or boards
have them. Two handlers on one destructive job are enough for a confirmation to
overlap a preview, a cancel or another confirmation; two servers for a
restart beside one that will not die; a flush size of two and four snapshots
for full, partial and failing flushes, two of which may fail; two recordings
and two requests for a step that strays from the first to the second; two links
and two arm sockets for a link replaced under a waiting request, two operators
for frames that overlap on one; two-frame queues for drops in both.
Deploys of two releases and a rollback cover a first deploy (no previous
release), a second and a way back, each with and without an agent started by
hand; two device nodes let a disk return under
another's name. Sequences of three commands hold a motion between any two
others. One flipped bit is what a CRC-8 is sure to detect; `Frames.cfg` flips one
altogether, the model and its proof any number, one in a frame.
Callers and clients are interchangeable and used symmetrically in
the safety runs; no symmetry is used under fairness. A deadlock is checked in
the runs of the drive path and the arm, where some party can always act; the
others bound how often people ask for something, after which a system at rest
has nothing left to do.

**Fairness** (`FairSpec`, `ArmFairSpec`). A microcontroller's `loop()` never
blocks, so reading, accepting, watchdog and joint motion are weakly fair, and
the clock goes on. The agent's ticker, reader and the timeout of a waiting
caller are weakly fair while the process runs, as asyncio tasks with nothing
that blocks between their awaits. No operator need ever act, no fault need ever
happen, and an arm handler's thread need not ever send. In the compositions:

* The agent's tasks resume when what they await has happened and the loop is
  free: `asyncio`'s ready queue is first-in-first-out, hence strong fairness of
  each step under `LoopFree`. Sockets time out; nothing is assumed of a policy
  server, which may answer neither an inference nor the client that waits for it
  on the loop.
* Mission Control's handlers and readers resume (weak fairness); a closing
  socket closes, a probe and a stop time out. A trainer ends as long as it can
  write; one that has filled its pipe need not. No command of a job need ever
  print or end, no robot answer, no browser act.
* At the workstation only two things are fair, a probe of the deployed agent
  (ssh and curl bound it) and a listing of the disks. A tunnel, a monitor, a
  remote command and a tool may run for ever.
* The fairness of MCAgent depends on `asked`, because its ways to steer share
  the gate: the deadman of a robot that autonomy steers is fair in that
  behaviour only.

With these:

* `QuietRobotRests` – a robot that moves again and again has an operator who
  commands again and again (or an agent that restarts again and again: each
  accepted connection restarts the firmware's watchdog).
* `EstopRests` – if the host latch stays set the wheels come to rest for good,
  whatever callers send and whatever breaks.
* `ArmRests` – a joint that moves again and again has operators who ask again
  and again; in particular no home runs for ever without an endstop.

**What the safety properties say.** `StopsPreempt` is the hazard of the
`_stopped` flag and of the latch: while the flag is set the deadman emits no
stop, so neither may be set with a drive in flight that no stop follows. It
looks through the wire (`Quiesces`). `ImplementsGate` is an action property: each
step between two states with a working link is a step of the gate or changes
nothing the gate knows, whatever the firmware, the ticker and other callers have
in flight. `DeadmanPunctual` bounds the lateness of the host's stop by one tick.
`ReplyComing` and
`NoReplyOfAnother` relate the futures table to the two streams under timeouts,
late replies and wrapping numbers. `EstopHolds` says that after an e-stop frame
is written, whatever threads still send, the board ends latched and at rest
until it resets or somebody asks to clear. `MovesAreReferenced` ties a joint's
mode to its reference through homing, faults and aborted homes.
`InterruptedHalts` says a run that a stop or e-stop found running starts no
further frame or step, also if the e-stop is cleared at once.

*Autonomy and steering.* `PolicyIsKnown`: with no request under way, the run
that goes on is the one the agent knows, so that the next stop reaches it, and
with none known the robot rests – also after a stop that met a run in
mid-inference, or was itself cut short by a timeout or a `CancelledError`. It is
checked for one operator; two may leave a run that no stop reaches
(`StoppedMeansNoRun` below).
`AutonomySettles`: the deadman works and requests are answered although inference
never returns, which they would not be if inference held the loop. It makes an
exception of a start that waits for its policy's server (`Opening`), which does
hold it (`LoopComesFree`). `EndsAtRest`: a
sequence or session that ends by itself leaves the robot at rest. `FramesWhole`:
telemetry acted on was sent, in order and once, bit errors included; on links
without bit errors so are acknowledgements.

*Mission Control.* `KeepsPromise` is the refinement of OpsJobSpec.
`StreamComplete` and `StreamsEnd`: a log socket loses no last line and does not
outlive its job. `StatusTruthful`: what the policy server's status says when no
request is under way, across failing spawns and slow stops (one client). The
status is as good as the probe: `disturbed` records what makes it wrong, a server
that died since its last spawn, somebody else on the port, or a stop that
raised. That no server is left behind has no such excuse. `ServedWasHanded`: a
run is marked served only when a server was spawned for it, although the handler
does not look at the probe. `RequestsAndRunsSettle`: requests are answered and
runs end, but for a run whose trainer is blocked by its own output
(`RunsSettle`). `SnapshotsKept`, `RetentionKeepsNewest`: nothing written is
lost or doubled but by retention, oldest first, or by an insert that raised.
`OnlyLateStepsStray`: late steps *do* get into recordings they were not sent to
(`DatasetsWhole`); what still holds is that a step strays only from an
earlier recording, was in flight at its end, and is the only one of its request,
and that the frames of a dataset are numbered under its prompt. `SessionsBounded`:
late events stay out of sessions that have ended. `LinkSettled`, `LinkSettles`:
after a connect or disconnect nothing is open but what the link holds (one
switcher at a time, as the interface has it), and telemetry sockets of a closed
client end. `RepliesInTurn`: no break or reconnect shifts the replies of an arm
socket. Overlapping requests do, for as long as the socket lives, and the
interface makes them, a jog and its stop for one: the run `arm_overlap`.
`RepeatsLastWord`, `StopGetsThrough`: the keeper repeats the operator's last
word only, and a stop typed while the robot is silent is relayed.
`LastFrameShown`: as long as frames can be encoded, two lossy queues in series
never lose the last one. An encoder that raises silences the socket for good.

*Workstation.* `ExitZeroMeansDone`: a deploy's or rollback's exit 0 means that an
agent answered, systemd's from the current release or one started by hand, that
systemd's runs no other, and that a deploy's requirements are installed. That
the answer may be the other agent's is what `GateIsLoud` denies. A flash's exit
0 means the image and its configuration; an edit's, a verified transfer's of a
regular file (of anything else nothing is verified, `transfer.py:45`), a key
installation's, theirs. `NothingUnasked`: a dry run overwrites nothing, a
destructive command needs its confirmation, no flash takes a disk of this
machine that the guard can recognize, and rpiboot's none that stayed plugged in
since before. Which it can recognize differs: `lsblk` does not tell internal
disks, `diskutil` does not tell that a whole disk carries the mounted system
(`SystemDiskSpared`). `WaitsEnd`: the two polls that are counted, of the deployed
agent and of the Pi's drive, end whatever happens meanwhile; other commands may
wait for ever.

**Disagreements between code and documents** have a run each where
`PROJECT.json` lists them under `findings`, with the quoted lines. The modules
state more claims of documents that the code does not meet; no run checks
them, and TLC refutes each when it is added to the configuration named:

| Definition | Claim | Instance that refutes it |
|---|---|---|
| `RobotDrive.ReplyIsOwn` | a caller gets the reply to its own command (`agent/control.py:87`): it may be the reply to a stop of the safety layer, or the refusal under number 0 of a line that did not parse | `RobotDrive.cfg` |
| `RobotDrive.LatchClearedByNameOnly` | only `set,estop,0` clears the firmware's latch (`pibot_esp32.ino:11`) | `RobotDrive.cfg` |
| `ArmSystem.WatchdogSparesMoves` | the joints of a move arrive after the seconds asked for (`manager.py:126`): nothing feeds the boards meanwhile, and their watchdog cuts a long move short | `ArmLive.cfg` |
| `ArmSystem.WatchdogSparesHoming` | a quiet host aborts no home (`pibot_arm_stm32.ino:417`) | two joints, `BoardOf <- BothOnOne`, requests home and jvel |
| `ControlRelay.ControlReplyIsOwn` | the relay returns the reply to a frame (`routes_control.py:4`) | `Mission.cfg` |
| `Autonomy.StoppedMeansNoRun` | `DELETE /autonomy` stops it (`docs/autonomy-e2e-signoff.md:61`): of two overlapping starts it stops the one stored last, and the robot drives on by the other | `Agent.cfg` with two callers |
| `Autonomy.LoopComesFree` | a wedged policy server never blocks the event loop (`autonomy.py:11`): the client that waits for its server does, with the deadman held | `Agent.cfg` |
| `PolicyServer.OneServer` | one policy server is managed (`policy_server.py:57`): of two starts at once one leaves a server that nobody knows | `Mission.cfg` with two clients |
| `PolicyServer.RunsSettle` | a fine-tune run ends as done or error (`finetune.py:7`): its trainer may wait to be read while it is waited for | `Mission.cfg` |
| `Recording.DatasetsWhole` | one episode per recorded run (`episode_logger.py:3`): a late step is stored in the next | `Mission.cfg` |
| `Deploy.GateIsLoud` | a deploy whose agent does not come up fails (`service.py:6`): an agent started by hand answers for it | `Workstation.cfg` |
| `Provision.SystemDiskSpared` | the system disk is refused (`devices.py:3`): not the external disk that a Mac runs from | `Workstation.cfg` with `BootsExternal = TRUE` |
| `Deploy.RollbackGoesBack` | rollback goes to the previous release (`service.py:7`) | `Workstation.cfg` with two rollbacks |
| `WireFrames.BitErrorsCaught` | the CRC guards the framing against bit errors (`codec.py:15`) | `Frames.cfg` with `Digits = {49, 51}` |

Two more are visible in the models but have
no run: the STM32 board announces `jstop` in its header comment and dispatches
none (the joint goes on until another guard ends it), and the host marks a
joint homed when the command is *sent*, so its gate accepts moves that the
board, whose reference may be gone, refuses.

## 4. What is proved

TLAPS checks the following for every value of the constants. The proofs rest on
the named assumptions of the modules (`WireAssumption`, `FirmwareAssumption`,
`SafetyAssumption`, `ControlAssumption`; `BoardAssumption`, `HostAssumption`,
`ProgramAssumption`; `AutonomyAssumption`, `DrivingAssumption`; `OpsAssumption`,
`PolicyAssumption`, `RecordingAssumption`, `LinkAssumption`, `VideoAssumption`
and ControlRelay's `ControlAssumption`; `DeployAssumption`,
`ProvisionAssumption`, `FleetAssumption`), which TLC evaluates on every run:
windows, counts and bounds are numbers, positive where the code's are; the tick
is no longer than the deadman; every joint has a board; a null value is no
caller, run, server, node or robot; the own device nodes are not those of
external disks; every robot has one host name; requests and switchers are
finitely many.

Some theorems have a hypothesis besides, because the code promises nothing
without it. Each is named, and each is needed: TLC refutes the property without
it.

| Hypothesis | Theorems | Without it |
|---|---|---|
| `OneLoadAtATime` | `InterruptedRunsHalt` | of two `run` requests that read their files at once the second clears the abort flag of the first (`app.py:1022`, run `arm_two_runs`) |
| `OneCaller` | `RunWithinReach` | a start replaces a run that still goes on (`app.py:228`) |
| `OneClient` | `StatusIsTruthful` | a second start loses the first one's server (`policy_server.py:78`) |
| `OneRequest` | `DemonstrationsWhole` | a step is stored in the recording after its own (`routes_record.py:67`) |
| `LinesParse` | `RepliesCome`, `RepliesAreOwn` | a line the board cannot parse is refused under number 0, which its sender does not await and another may (`pibot_esp32.ino:256`) |
| `OneSwitcher` | `LinkIsSettled` | two connects build two links and keep one (`robot_link.py:107`) |

All but `OneLoadAtATime` speak of a constant; that one is assumed of the
behaviour (`ArmSpec /\ []OneLoadAtATime`) and says no more than that no two
requests are between the look at the slot and the filling of it. Any number of
runs may be asked for, one after the other or while another is under way.
`ArmSafety.cfg` has one run, so it holds there.

**RobotDriveProofs**

| Theorem | Property |
|---|---|
| `TypeCorrect` | `TypeOK` |
| `DeadmanIsPunctual` | `DeadmanPunctual` |
| `StopsArePreemptive` | `StopsPreempt` |
| `GateImplemented` | `ImplementsGate` |
| `FirmwareLatch` | `FirmwareLatchHolds` |
| `RepliesCome` | `ReplyComing` |
| `RepliesAreOwn` | `NoReplyOfAnother` |

That the latch or the flag is set says nothing of a motion frame sent before it,
nor of what the firmware does between; `StopsPreempt` is inductive because it
speaks of both: while the agent process exists with its latch or its flag set and
its link works, the wheels move only if a stop or e-stop is on the wire, and
every drive on the wire is followed by one.
Each action is shown to keep it: a submitted frame is either refused by the
latch or resets the flag, a stop goes behind everything, a read takes the head
of the stream and acts on it, and everything that breaks the link ends the
premise.

`GateImplemented` is the refinement, step by step: a command that is sent passes
the gate (`SentPasses`: a halt makes the stream quiesce, a drive makes it not, and
any other frame leaves it as it is, in both directions), a stop of the safety
layer halts and feeds (`EmittedHalts`), time can only let the deadman expire, and
all that the firmware does by itself can bring the robot to rest and no more
(`BehindGate`). As long as the link works, AgentProofs' theorems about what steers
through the gate so rest on the drive path and not on a convenient picture of it.

`DeadmanPunctual` needs that a dead or delayed ticker is visible in
`tickAge` and that time waits for a due ticker.

The two theorems about replies share `ReplyInv`, and hold as long as every line
sent parses (`UnparsedType` gives the types without that). A caller's number is its own in
three places: no other caller in `submit` has it (`Distinct`), nothing on either
stream that carries it came from somebody else but the safety gate (`Owned`),
and on a working link the futures table maps it to the caller whose frame or
reply is on its way (`Coming`). A new number is fresh by `NotLapped`; every
other step only takes heads and appends tails. The invariant `OneClient` of that
module (the firmware serves one connection) is needed because a firmware that
still served an earlier one could leave a frame unread.

**ArmProofs**

| Theorem | Property |
|---|---|
| `ArmTypeCorrect` | `ArmTypeOK` |
| `MovesReferenced` | `MovesAreReferenced` |
| `ArmEstopHolds` | `EstopHolds` |
| `InterruptedRunsHalt` | `InterruptedHalts` |

`ArmTypeOK` needs `InStep` (a run inside a step has not passed the program's
end), since the end of a step advances the counter. The types also say that a
command about a joint is on the stream of the board that drives it.
`MovesAreReferenced` is inductive over the boards alone: the agent's steps
change no joint. `EstopHolds` follows from `EstopInv`, four named parts:

* `LatchedRests` – a latched board's joints are at rest; without it a board that
  joins `held` while latched could have a joint in motion.
* `FramesMatch` – who may have which frames in hand: only a `clear_estop`
  handler has a `set`, an `estop` handler has nothing but `estop`, a run never
  has a `set`. It is what makes late frames of other threads harmless.
* `ClearsAlone` – while a clear runs no board counts as held and no e-stop
  handler claims to be alone; the overlap in which the code gives no guarantee
  is excluded by this, not by a bound.
* `Latchings` – every held board is latched with no `set` in flight, or has an
  `estop` in flight behind every `set`. Appending a frame other than `set`
  keeps it, reading the head shifts it (`DeliverLatching`, `ReadLatching`).

`InterruptedHalts` follows from `HaltInv`: an interrupted run is under way with
the abort flag set, and only a run inside a step has frames in hand. The flag is
cleared where a run begins and nowhere else, which is when none is interrupted if
no two runs are under way (`OneRunAtATime`). That is derived, not assumed:
`SlotInv` says that a task is the one in the slot and that a request that reads
its file found no task there; with `OneLoadAtATime` a second run under way would
need one or the other twice.

**AgentProofs**

| Theorem | Property |
|---|---|
| `AgentTypeCorrect` | `TypeOK` |
| `RunWithinReach` | `PolicyIsKnown` |
| `EndsSafely` | `EndsAtRest` |

`PolicyIsKnown` speaks of the moments between requests; `KnownInv` extends it to
those within them: every task that goes on is the run the agent knows, a request
that waits for a task to end waits for that one, and while a start reads its
body or waits for its policy the known run, if any, is over. `TasksEnd` says that only running tasks are told to end
and only ended ones count as joined. `RestInv` gives `EndsAtRest`: once the last
stop is sent or the latch met, the wheels rest, and the parts that could set them
going again (a driver beside a player) have not begun.

**OpsJobsProofs**

| Theorem | Property |
|---|---|
| `OpsCorrect` | `OpsTypeOK` and `RunningIsRun` |
| `OpsImplements` | `KeepsPromise` |
| `StreamsAreComplete` | `StreamComplete` |

OpsJobs implements OpsJobSpec: initial states map to initial states (`Shown`
maps a job's record to what the promise speaks of) and every step maps to a
step of the promise or to a stutter (`StepKept`). The one fact the mapping
needs from the invariant is `RunningIsRun`: a job shown as running has a
handler whose command is at work. It has to survive two confirmations of one
job, a preview that ends while the command works, and a cancel: each of them may
show a job as over, or as waiting, while a command is still at work, which the
promise allows; none shows it as running without one.

`StreamComplete` needs `StreamInv`: before a confirmation no job is over
(`RunsKnown`), a job that is over was cancelled or its only handler has logged
its last line (`OverIsOver`), and a socket's lines are the start of the log
unless a confirmation cleared that under its cursor (`SocketsSound`). A socket
that has seen the job end drains once more, and that nothing is logged after it
is what `OverIsOver` gives it.

**RecordingProofs**

| Theorem | Property |
|---|---|
| `SnapshotsAreKept` | `SnapshotsKept` |
| `OldestGoFirst` | `RetentionKeepsNewest` |
| `SessionsSound` | `SessionsBounded` |
| `StraysAreLate` | `OnlyLateStepsStray` |
| `DemonstrationsWhole` | `DatasetsWhole`, of one request at a time |

`MetricsInv` relates the table, the write buffer and the fate of every snapshot
ever written (`Agree`): the table holds some of the first ones in their order,
the buffer exactly those that follow, the two together the ones not lost or
pruned, and a failure lost no more than a buffer. A flush moves the buffer behind the
table, a prune keeps what is younger than every row it drops; both are shown for
tables of any length and any number of flushes that raise. Sessions: an event is appended by the session
current after its body is read, never by one remembered. Demonstrations: while a
recording is active its logger has numbered its steps from 0 under its own
prompt, and `InFlight` says of every step still awaited that it was checked
against this recording or an earlier one, and against this one if its request
has a step in the logger already; so a step that strays is its request's first
(`StraysAreLate`). With one request at a time none can be in flight across a
start, and none strays (`DemonstrationsWhole`).
`HandlersInv` bounds what is counted, for the types.

**MissionProofs**

| Theorem | Property |
|---|---|
| `ServedHanded` | `PolicyTypeOK`, `ServedWasHanded` |
| `StatusIsTruthful` | `StatusTruthful` |
| `KeeperObeys` | `RepeatsLastWord` |
| `NewestFrameKept` | `NewestKept`, the safety half of `LastFrameShown` |
| `LinkIsSettled` | `LinkSettled` |
| `ArmRepliesInTurn` | `RepliesInTurn` |
| `MissionControlSafe` | `TypeOK` and the invariants of every part |
| `MissionControlKeeps` | `KeepsPromise`, `RetentionKeepsNewest`, `NewestKept` |
| `MissionControlTruthful` | `StatusTruthful`, `LinkSettled` |

* `ProbedWasHanded`: a request that awaits the probe has spawned a server with
  its run's checkpoint. No other request takes that back while the probe is
  awaited, whatever stops, crashes or restarts meanwhile.
* `ServerInv` gives `StatusTruthful`: the fields describe the one server that may
  be alive, and what they say of it before the request returns (being spawned,
  probed, stopped or reaped) is what that request is at. A foreign listener
  beside a server is on record in `disturbed`, and a stop that raises leaves the
  fields as they were, of a server that may be alive.
* `VideoInv`: no frame is behind the one captured last, wherever that is – in
  the pusher's queue, in its hand, on the socket, with its header pending, in the
  relay's queue or on the screen (`NewestLast`) – an image follows its header
  (`HeadersPaired`), and a path without a connection holds nothing (`WayInv`). So
  a full queue, which gives up its head, never gives up the newest frame. That a
  frame on its way arrives is the other half, which needs fairness and stays with
  TLC. An encoder that raises ends the premise (`upstream = "up"`), as the end of
  a connection does.
* `KeeperFollows`: on an open socket a drive the keeper holds is what the relay
  wrote last, and the keeper holds nothing when no connection is relayed. It is
  kept because the relay feeds the keeper and writes in one step of the loop.
* `OneLink`: there is no link, or one that is whole and known to `McState`, or
  one of which exactly the parts are left that `disconnect` has not closed yet.
* `OwnInv`: on an arm socket is the frame of the request that reads from it, and
  nothing when none does, unless a frame was sent on it while a reply was awaited
  (`overlapped`). What breaks or closes a socket takes its frames along.
* `RoomFor` bounds the links made by those still asked for, which is what keeps
  `made` within its type.

The last three theorems hold of MCMission, the composition. `PartsHold` shows
that each of its behaviours is one of every part, so that what is proved of a
part holds of the whole.

**WorkstationProofs**

| Theorem | Property |
|---|---|
| `GateSound` | `GatePassed`, a part of `ExitZeroMeansDone` |
| `WorkstationSafe` | `TypeOK`, `ExitZeroMeansDone` |
| `WorkstationTypeCorrect` | `TypeOK` |
| `WorkstationAsks` | `NothingUnasked` |

Deploy: `JobInv` says which release each step of a command works on; `GateInv`
that from the restart on what systemd runs is `current`, restarted by it or not,
and that a deploy's requirements stay installed (`Settled`), whatever agents are
started or stopped by hand. A release under
construction is named by nothing, so neither its half-synced state nor an
interrupted command disturbs the gate.

Provision: no two disks are at one node (`Apart`); what the earlier steps of a
command have established of it (`Confirmed`); and what they have established of
its target (`Aimed`): an own node was judged safe, a disk that stayed plugged in
since before rpiboot is at another node, and the disk judged or mounted is at the
target's node still, if it is plugged in at all. It is kept while disks come and
go because a node that is left can be taken only by a disk that was plugged in
later. `NothingUnasked` follows step by step from `Aimed` and `Confirmed`.

Fleet: `Under` says what a command at each step has done to its copy of the
inventory and found so far, `KeysCount` that a key about to be recorded is
authorized and no robot has it more often than keys were installed, and
`SaidWasDone` is the property itself.

**WireFramesProofs**

| Theorem | Property |
|---|---|
| `WireFramesWhole` | `FramesWhole` |
| `CrcTellsOneByte` | `Crc8` is a byte and differs if one of the two payload bytes does |
| `CleanLinksAreExact` | `BitErrorsCaught`, except on the serial line |

`FramesWhole` speaks of what the host decoded; the bytes it came from are gone by
then. Its inductive invariant `WireInv` therefore says that there is an account
of every byte the link ever carried (`Account`): which frame each byte is of, what
arrived for each frame sent, what the link began with, and how many bytes have
been handed on, up to the end of a line. The bytes in the frame buffer, Bluetooth's
queue and the stream are the next ones of the account (`Held`), and the messages
decoded are frames handed on, in order (`Placed`). Reads and packets move bytes
without changing the account, a frame sent extends it (`SendKeeps`), a drop leaves
a gap behind which nothing follows, and handing a line on moves its end
(`HandsKeeps`). The step that matters is `LineIsAFrame`: a line that is decoded is
all of one frame. It begins with a marker, and no frame has one but in front; a
telemetry line ends at its frame's newline, because a newline inside comes only
from a hit of the star (`OnlyStarBreaks`), before a checksum that is then missing;
and its payload is the one sent, since a payload with a flipped bit fails the
checksum.

That is `CrcTellsOneByte`: adding bits is injective in either byte
(`XorInjective`, from the uniqueness of binary digits), so is a shift with the
polynomial (`ShiftInjective`: the bit shifted out can be told from the lowest
bit), and so is a byte's worth of them. It holds for any change within a byte, not
only of one bit.

`CleanLinksAreExact` says where the documented guarantee (`BitErrorsCaught`) does
hold.

TLC confirmed the strengthened invariants on the instances of the runs before
the proofs stated them in general.

**Only model-checked**: the liveness properties (`QuietRobotRests`,
`EstopRests`, `ArmRests`, `AutonomySettles`, `StreamsEnd`,
`RequestsAndRunsSettle`, `LinkSettles`, `StopGetsThrough`, `LastFrameShown`,
`WaitsEnd`), since the provers have neither fairness nor `ENABLED`. Every
invariant and every other action property of the passing runs is proved.

## 5. What is not modelled

* *Geometry, kinematics, trajectories' values, transforms of training data*:
  floating point, out of reach of the checker and the provers.
* *The JSON framing*: it has no checksum and relies on TCP and BLE; what is left
  is a JSON parser.
* *Device I/O, argument lists of tools, file formats, pages, tables, colours*:
  wording and layout no property is about.
* *The desktop shell and user interface*: a supervising loop with one flag, and
  view state. What the interface sends is what the callers, clients and
  operators of the models send.
* *Telemetry snapshots, token comparison, configuration reading*: no state that
  a later request depends on.
* *ROS 2*: a bridge over a gate of its own, which is the one of AgentSafety.
* *The AVR sketch and the byte bridge*: the former has the guards of the ESP32
  firmware without its network.
* *Recursive and inductive facts about data*: what CRC-8 detects in payloads of
  any length, for one. The model's payloads have two bytes, and what is proved of
  the checksum is proved of those.
