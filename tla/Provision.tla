------------------------------ MODULE Provision ------------------------------
(***************************************************************************)
(* pibot flash, eeprom, clone, restore and firmware: the commands that     *)
(* overwrite a disk, the bootloader or the motor board                     *)
(* (provision/*.py and their handlers in cli.py).  Disks are plugged and   *)
(* unplugged while a command runs, and an external tool may fail half way. *)
(***************************************************************************)
EXTENDS Naturals, FiniteSets

CONSTANTS
  Nodes,         \* device nodes an external disk can be given
  OwnNodes,      \* the nodes of this machine's own two disks
  ReportsInternal, \* macOS, which says which disks are internal
  BootsExternal, \* this machine runs from an external disk
  MaxCommands,   \* bound: commands asked
  PollAttempts   \* looks for the Pi's drive, or for the boot partition

ASSUME ProvisionAssumption ==
  /\ {PollAttempts, MaxCommands} \subseteq Nat \ {0} /\ {ReportsInternal, BootsExternal} \subseteq BOOLEAN
  /\ Nodes \cap OwnNodes = {} /\ "none" \notin Nodes \cup OwnNodes

External == {"stick", "nvme"}
Disks == External \cup {"system", "internal"}

VARIABLES
  at,       \* the node of each external disk that is plugged in
  holds,    \* what each disk holds
  exposed,  \* rpiboot has put the Pi in mass-storage mode
  eeprom,   \* the Pi's bootloader: its version and its configuration
  image,    \* the local file clone writes and restore reads
  board,    \* the motor board's firmware
  built,    \* arduino-cli has a build of the sketch
  cmd,      \* the command under way
  done      \* the last command that ended

provisionVars == <<at, holds, exposed, eeprom, image, board, built, cmd, done>>

Destructive == {"flash", "eeprom-update", "boot-order", "restore"}
Names == Destructive \cup {"clone", "build", "upload", "ota"}
FirstBoot == {"none", "detected", "named"}
NoCmd == [name |-> "none", step |-> "none", confirm |-> FALSE, dry |-> FALSE, spec |-> "none",
          node |-> "none", before |-> {}, tries |-> 0, disk |-> "none", mounted |-> "none", stayed |-> {}]

ProvisionTypeOK ==
  /\ at \in [External -> Nodes \cup {"none"}]
  /\ holds \in [Disks -> {"own", "half", "image", "partly", "configured", "ignored"}]
  /\ {exposed, built} \subseteq BOOLEAN
  /\ eeprom \in [version: {"old", "new"}, config: {"own", "reordered", "order-only"}]
  /\ image \in {"none", "torn", "whole"} /\ board \in {"old", "half", "new"}
  /\ cmd \in [name: Names \cup {"none"}, confirm: BOOLEAN, dry: BOOLEAN, spec: FirstBoot,
              step: {"none", "start", "rpiboot", "poll", "check", "write", "mount", "config"},
              node: Nodes \cup OwnNodes \cup {"none"}, before: SUBSET Nodes,
              tries: 0 .. PollAttempts - 1, disk: Disks \cup {"none"}, mounted: Disks \cup {"none"},
              stayed: SUBSET External]
  /\ done \in [name: Names \cup {"none"}, status: {0, 1}, disk: Disks \cup {"none"},
               spec: FirstBoot, count: 0 .. MaxCommands]

ProvisionInit ==
  /\ at \in {a \in [External -> Nodes \cup {"none"}] : a["nvme"] = "none"}
  /\ holds = [d \in Disks |-> "own"] /\ exposed = FALSE /\ built = FALSE
  /\ eeprom = [version |-> "old", config |-> "own"]
  /\ image = "none" /\ board = "old" /\ cmd = NoCmd
  /\ done = [name |-> "none", status |-> 1, disk |-> "none", spec |-> "none",
             count |-> 0]

-----------------------------------------------------------------------------
(* The disks *)

\* The operating system lists this machine's own disks at nodes that never
\* change, and each external disk at the node it was given.
DiskAt(n) ==
  CASE n \in OwnNodes -> IF n = CHOOSE o \in OwnNodes : TRUE THEN "system" ELSE "internal"
    [] \E d \in External : at[d] = n -> CHOOSE d \in External : at[d] = n
    [] OTHER -> "none"

Plugged == {n \in Nodes : \E d \in External : at[d] = n}

Plug(d, n) ==
  /\ at[d] = "none" /\ n \notin Plugged
  /\ d = "nvme" => exposed
  /\ at' = [at EXCEPT ![d] = n]
  /\ UNCHANGED <<holds, exposed, eeprom, image, board, built, cmd, done>>

\* The Pi leaves mass-storage mode with its cable.
Unplug(d) ==
  /\ at[d] # "none"
  /\ at' = [at EXCEPT ![d] = "none"]
  /\ exposed' = (exposed /\ d # "nvme")
  /\ cmd' = [cmd EXCEPT !.stayed = @ \ {d}, !.disk = IF @ = d THEN "none" ELSE @,
                         !.mounted = IF @ = d THEN "none" ELSE @]
  /\ UNCHANGED <<holds, eeprom, image, board, built, done>>

UnguardedTarget(d) == d \notin {"none", "system"}

\* assert_safe_target.  lsblk tells all that is mounted of a disk and not whether
\* it is internal; diskutil tells that, and of mounts only the whole disk's own,
\* which is never "/".  The command line passes no expected size or model.
SafeTarget(d) ==
  /\ d # "none"
  /\ IF ReportsInternal THEN d # "internal" /\ (d = "system" => BootsExternal)
     ELSE d # "system"

-----------------------------------------------------------------------------
(* One command at a time *)

Ends(status) ==
  /\ cmd' = NoCmd
  /\ done' = [name |-> cmd.name, status |-> status, disk |-> cmd.disk, spec |-> cmd.spec,
              count |-> done.count + 1]

Goes(step) == cmd' = [cmd EXCEPT !.step = step] /\ UNCHANGED done

\* A flash names its target device, or none to go through rpiboot.
Ask ==
  /\ cmd = NoCmd /\ done.count < MaxCommands
  /\ \E name \in Names, confirm, dry \in BOOLEAN, spec \in FirstBoot,
        node \in Nodes \cup OwnNodes \cup {"none"} :
        /\ name # "flash" => spec = "none" /\ node = "none"
        /\ name \notin Destructive => ~confirm
        /\ cmd' = [NoCmd EXCEPT !.name = name, !.step = "start", !.confirm = confirm,
                     !.dry = dry, !.spec = spec, !.node = node]
  /\ UNCHANGED <<at, holds, exposed, eeprom, image, board, built, done>>

Starting(name) == cmd.step = "start" /\ cmd.name = name

\* The destructive commands ask for --confirm or --dry-run.
RefusesUnconfirmed ==
  /\ cmd.step = "start" /\ cmd.name \in Destructive
  /\ ~cmd.confirm /\ ~cmd.dry
  /\ Ends(1)
  /\ UNCHANGED <<at, holds, exposed, eeprom, image, board, built>>

Allowed(name) == Starting(name) /\ (cmd.confirm \/ cmd.dry)

-----------------------------------------------------------------------------
(* flash *)

\* A first-boot configuration without a key is refused.
FlashStarts ==
  /\ Allowed("flash")
  /\ \/ Goes(IF cmd.node = "none" THEN "rpiboot" ELSE "check")
     \/ cmd.spec # "none" /\ Ends(1)
  /\ UNCHANGED <<at, holds, exposed, eeprom, image, board, built>>

\* The nodes are noted before rpiboot, which may fail.
Rpiboot ==
  /\ cmd.step = "rpiboot"
  /\ IF cmd.dry
     THEN Ends(0) /\ UNCHANGED exposed
     ELSE \/ /\ cmd' = [cmd EXCEPT !.step = "poll", !.before = Plugged,
                        !.stayed = {d \in External : at[d] # "none"}]
             /\ exposed' = TRUE
             /\ UNCHANGED done
          \/ Ends(1) /\ UNCHANGED exposed
  /\ UNCHANGED <<at, holds, eeprom, image, board, built>>

\* diff_new_device: the nodes that were not there.
Fresh == Plugged \ cmd.before

PollOnceMore ==
  /\ cmd.step = "poll"
  /\ \/ /\ Cardinality(Fresh) = 1
        /\ cmd' = [cmd EXCEPT !.step = "check", !.node = CHOOSE n \in Fresh : TRUE,
                                !.before = {}, !.tries = 0]
        /\ UNCHANGED done
     \/ /\ Cardinality(Fresh) # 1 /\ cmd.tries < PollAttempts
        /\ cmd' = [cmd EXCEPT !.tries = @ + 1]
        /\ UNCHANGED done
     \/ Cardinality(Fresh) # 1 /\ cmd.tries = PollAttempts /\ Ends(1)
  /\ UNCHANGED <<at, holds, exposed, eeprom, image, board, built>>

\* No new node and several are the same to the poll: it looks again.  A listing
\* that takes too long raises.
Poll ==
  /\ cmd.step = "poll"
  /\ \/ /\ Cardinality(Fresh) = 1
        /\ cmd' = [cmd EXCEPT !.step = "check", !.node = CHOOSE n \in Fresh : TRUE,
                                !.before = {}, !.tries = 0]
        /\ UNCHANGED done
     \/ /\ Cardinality(Fresh) # 1 /\ cmd.tries + 1 < PollAttempts
        /\ cmd' = [cmd EXCEPT !.tries = @ + 1]
        /\ UNCHANGED done
     \/ (Cardinality(Fresh) # 1 => cmd.tries + 1 = PollAttempts) /\ Ends(1)
  /\ UNCHANGED <<at, holds, exposed, eeprom, image, board, built>>

\* The target is found and judged in a fresh listing; then the image file's
\* digest is compared and the disk unmounted, and either may fail.
CheckTarget ==
  LET d == DiskAt(cmd.node) IN
  /\ cmd.step = "check"
  /\ IF SafeTarget(d)
     THEN \/ ~cmd.dry /\ cmd' = [cmd EXCEPT !.step = "write", !.disk = d] /\ UNCHANGED done
          \/ ~cmd.dry /\ Ends(1)
          \/ cmd.dry /\ Ends(0)
     ELSE Ends(1)
  /\ UNCHANGED <<at, holds, exposed, eeprom, image, board, built>>

\* rpi-imager writes the disk that has the node now, or fails part way.
WriteImage ==
  LET d == DiskAt(cmd.node) IN
  /\ cmd.step = "write"
  /\ \/ /\ d # "none"
        /\ holds' = [holds EXCEPT ![d] = "image"]
        /\ IF cmd.spec = "none" THEN Ends(0) ELSE Goes("mount")
     \/ /\ holds' \in {holds} \cup {[holds EXCEPT ![e] = "half"] : e \in {d} \ {"none"}}
        /\ Ends(1)
  /\ UNCHANGED <<at, exposed, eeprom, image, board, built>>

\* The boot partition may not be back yet: the mount is tried again.
MountBoot ==
  /\ cmd.step = "mount"
  /\ \/ /\ DiskAt(cmd.node) # "none" /\ holds[DiskAt(cmd.node)] # "half"
        /\ cmd' = [cmd EXCEPT !.step = "config", !.mounted = DiskAt(cmd.node)]
        /\ UNCHANGED done
     \/ /\ cmd.tries + 1 < PollAttempts
        /\ cmd' = [cmd EXCEPT !.tries = @ + 1]
        /\ UNCHANGED done
     \/ cmd.tries + 1 = PollAttempts /\ Ends(1)
  /\ UNCHANGED <<at, holds, exposed, eeprom, image, board, built>>

\* custom.toml or cloud-init by the flavor found on the partition, or by the
\* one named, which the image may not read.  The directory is made when the
\* partition is gone from it, and the unmount is in a finally.
ApplyFirstBoot ==
  LET d == cmd.mounted
      Becomes(h) == IF d = "none" THEN holds ELSE [holds EXCEPT ![d] = h] IN
  /\ cmd.step = "config"
  /\ \/ \E h \in {"configured"} \cup IF cmd.spec = "named" THEN {"ignored"} ELSE {} :
           holds' = Becomes(h) /\ Ends(0)
     \/ holds' \in {holds, Becomes("partly")} /\ Ends(1)
  /\ UNCHANGED <<at, exposed, eeprom, image, board, built>>

-----------------------------------------------------------------------------
(* eeprom, clone and restore: one command over ssh, which the Pi does not  *)
(* answer in mass-storage mode                                             *)

Answers == ~cmd.dry /\ ~exposed

EepromUpdate ==
  /\ Allowed("eeprom-update")
  /\ \/ /\ Answers
        /\ eeprom' = [eeprom EXCEPT !.version = "new"]
        /\ Ends(0)
     \/ UNCHANGED eeprom /\ Ends(IF cmd.dry THEN 0 ELSE 1)
  /\ UNCHANGED <<at, holds, exposed, image, board, built>>

\* The script applies the file whether or not the configuration was read
\* into it: without it, the order is all that is left.
BootOrder ==
  /\ Allowed("boot-order")
  /\ \/ /\ Answers
        /\ \E c \in {IF eeprom.config = "order-only" THEN "order-only" ELSE "reordered",
                     "order-only"} : eeprom' = [eeprom EXCEPT !.config = c]
        /\ Ends(0)
     \/ UNCHANGED eeprom /\ Ends(IF cmd.dry THEN 0 ELSE 1)
  /\ UNCHANGED <<at, holds, exposed, image, board, built>>

\* dd | gzip: the status is gzip's, so a dd that stopped early exits 0.
Clone ==
  /\ Starting("clone")
  /\ \/ cmd.dry /\ UNCHANGED image /\ Ends(0)
     \/ Answers /\ image' = "whole" /\ Ends(0)
     \/ ~cmd.dry /\ image' = "torn" /\ \E s \in {0, 1} : Ends(s)
  /\ UNCHANGED <<at, holds, exposed, eeprom, board, built>>

\* gunzip | dd: the status is dd's.
Restore ==
  /\ Allowed("restore")
  /\ \/ image # "none" /\ cmd.dry /\ UNCHANGED holds /\ Ends(0)
     \/ /\ image # "none" /\ Answers
        /\ holds' = [holds EXCEPT !["nvme"] = IF image = "whole" THEN "own" ELSE "half"]
        /\ Ends(0)
     \/ /\ holds' \in {holds} \cup
             {[holds EXCEPT !["nvme"] = "half"] : x \in {image} \cap {"torn", "whole"}}
        /\ ~cmd.dry \/ image = "none"
        /\ Ends(1)
  /\ UNCHANGED <<at, exposed, eeprom, image, board, built>>

-----------------------------------------------------------------------------
(* firmware *)

Build ==
  /\ Starting("build")
  /\ \/ built' = TRUE /\ Ends(0)
     \/ UNCHANGED built /\ Ends(1)
  /\ UNCHANGED <<at, holds, exposed, eeprom, image, board>>

\* Over USB: what was built last, which may stop half way.
Upload ==
  /\ Starting("upload")
  /\ \/ cmd.dry /\ UNCHANGED board /\ Ends(0)
     \/ ~cmd.dry /\ built /\ board' = "new" /\ Ends(0)
     \/ ~cmd.dry /\ board' \in {board, "half"} /\ Ends(1)
  /\ UNCHANGED <<at, holds, exposed, eeprom, image, built>>

\* Over WiFi: compiled first, a dry run too.  The board keeps its old image
\* until the new one is complete.
UploadOta ==
  /\ Starting("ota")
  /\ \/ cmd.dry /\ UNCHANGED board /\ Ends(0)
     \/ ~cmd.dry /\ board' = "new" /\ Ends(0)
     \/ UNCHANGED board /\ Ends(1)
  /\ UNCHANGED <<at, holds, exposed, eeprom, image, built>>

-----------------------------------------------------------------------------
ProvisionStep ==
  \/ RefusesUnconfirmed \/ FlashStarts \/ Rpiboot \/ Poll \/ CheckTarget \/ WriteImage
  \/ MountBoot \/ ApplyFirstBoot \/ EepromUpdate \/ BootOrder \/ Clone \/ Restore
  \/ Build \/ Upload \/ UploadOta

ProvisionNext ==
  \/ Ask \/ ProvisionStep
  \/ \E d \in External : Unplug(d) \/ \E n \in Nodes : Plug(d, n)

\* A listing of the disks has a time-out; the tools have none.
ProvisionFair == WF_provisionVars(Poll)

-----------------------------------------------------------------------------
(* Properties *)

\* Nothing is overwritten by a dry run, nor by a destructive command that was
\* not confirmed.  No flash overwrites a disk of this machine that its system
\* lets the guard recognize, and a flash over rpiboot no disk that stayed
\* plugged in since before it began, whatever is plugged and unplugged
\* meanwhile.
NothingUnasked ==
  [][/\ <<holds, eeprom, board>>' # <<holds, eeprom, board>> =>
          ~cmd.dry /\ (cmd.name \in Destructive => cmd.confirm)
     /\ \A d \in Disks : holds'[d] # holds[d] =>
          /\ d = "system" => ReportsInternal /\ BootsExternal
          /\ ReportsInternal => d # "internal"
          /\ d \notin cmd.stayed]_provisionVars

\* "before any write, it refuses the system disk" (devices.py:3-4), also on a
\* Mac that runs from an external disk.
SystemDiskSpared == [][holds'["system"] = holds["system"]]_provisionVars

\* A flash that exits 0 has left the image, and the first-boot configuration
\* that was asked for, on the disk it judged, if that stayed plugged in.
FlashedWhole ==
  done.name = "flash" /\ done.status = 0 /\ done.disk # "none" /\ cmd = NoCmd =>
    CASE done.spec = "none" -> holds[done.disk] = "image"
      [] done.spec = "detected" -> holds[done.disk] = "configured"
      [] done.spec = "named" -> holds[done.disk] \in {"configured", "ignored"}
=============================================================================
