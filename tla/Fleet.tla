-------------------------------- MODULE Fleet --------------------------------
(***************************************************************************)
(* The commands that find robots, remember them and reach them over ssh    *)
(* (discovery.py and tools/pifinder.py, inventory.py, connection/*.py,     *)
(* agent_ctl.py, monitor.py and their handlers in cli.py).  A command      *)
(* reads a file, works on it in memory and writes it back, or runs one     *)
(* program per step, and may be interrupted between any two steps.         *)
(***************************************************************************)
EXTENDS Naturals, FiniteSets

CONSTANTS
  Addrs,     \* addresses; a robot is known by the one it has
  Aliases,   \* names of robots in the inventory, and their host names
  HostName,  \* the host name of the robot at each address
  MaxCalls   \* bound: commands given

ASSUME FleetAssumption ==
  /\ HostName \in [Addrs -> Aliases] /\ MaxCalls \in Nat

VARIABLES
  inventory,   \* inventory.toml: the address each alias has
  config,      \* config.toml: the operator's settings are there, and the identity
  keypair,     \* pibot_ed25519 exists
  authorized,  \* how often each robot's authorized_keys has it
  files,       \* what the transferred file is on this machine and on each robot
  call,        \* the command under way
  result       \* the last command that ended

fleetVars == <<inventory, config, keypair, authorized, files, call, result>>

NoAddr == "nowhere"
Edits == {"add", "rm", "alias", "discover"}
Remote == {"run", "tunnel", "start", "stop", "status", "logs"}
Calls == Edits \cup Remote \cup {"push", "pull", "keys", "monitor"}
Here == "here"
Records == [Aliases -> Addrs \cup {NoAddr}]
Empty == [a \in Aliases |-> NoAddr]
Idle == [name |-> "none", step |-> "none", alias |-> "none", other |-> "none", addr |-> NoAddr,
         hosts |-> Empty, dry |-> FALSE, verify |-> FALSE, regular |-> FALSE,
         once |-> FALSE]

FleetTypeOK ==
  /\ inventory \in Records
  /\ config \in [settings: BOOLEAN, identity: BOOLEAN] /\ keypair \in BOOLEAN
  /\ authorized \in [Addrs -> 0 .. MaxCalls + 1]
  /\ files \in [Addrs \cup {Here} -> {"old", "new", "torn"}]
  /\ call.step \in {"none", "load", "edit", "truncate", "save", "resolve", "ssh", "copy",
                    "verify", "keygen", "append", "record", "write", "poll"}
  /\ call.name \in Calls \cup {"none"}
  /\ call.hosts \in Records /\ call.addr \in Addrs \cup {NoAddr}
  /\ result.status \in 0 .. 2 /\ result.count \in 0 .. MaxCalls

FleetInit ==
  /\ inventory \in {Empty} \cup {[Empty EXCEPT ![x] = a] : x \in Aliases, a \in Addrs}
  /\ config \in [settings: BOOLEAN, identity: BOOLEAN] /\ ~config.identity /\ keypair \in BOOLEAN
  /\ authorized \in [Addrs -> 0 .. IF keypair THEN 1 ELSE 0]
  /\ \E h \in Addrs \cup {Here} :
        files = [p \in Addrs \cup {Here} |-> IF p = h THEN "new" ELSE "old"]
  /\ call = Idle /\ result = [call |-> Idle, status |-> 1, count |-> 0]

-----------------------------------------------------------------------------
Returns(status) ==
  /\ call' = Idle
  /\ result' = [call |-> call, status |-> status, count |-> result.count + 1]

Proceeds(step) == call' = [call EXCEPT !.step = step] /\ UNCHANGED result

Give ==
  /\ call = Idle /\ result.count < MaxCalls
  /\ \E name \in Calls, alias, other \in Aliases, a \in Addrs, dry, verify, regular, once \in BOOLEAN :
        /\ name # "alias" => other = alias
        /\ name # "add" => a = CHOOSE b \in Addrs : TRUE
        /\ dry => name \in {"push", "pull", "keys", "start", "stop"}
        /\ verify => name \in {"push", "pull"}
        /\ regular => verify  \* the local path is a regular file
        /\ once => name = "monitor"
        /\ call' = [Idle EXCEPT !.name = name, !.step = "load", !.alias = alias, !.other = other,
                      !.addr = IF name = "add" THEN a ELSE NoAddr, !.dry = dry, !.verify = verify,
                      !.regular = regular, !.once = once]
  /\ UNCHANGED <<inventory, config, keypair, authorized, files, result>>

\* Inventory.load.  A malformed tunnel or an empty command is refused first,
\* and an inventory or a configuration that cannot be read as well.
Load ==
  /\ call.step = "load"
  /\ \/ /\ call' = [call EXCEPT !.hosts = inventory,
                                !.step = IF call.name \in Edits THEN "edit"
                                         ELSE IF call.name = "keys" THEN "keygen" ELSE "resolve"]
        /\ UNCHANGED result
     \/ Returns(2)
  /\ UNCHANGED <<inventory, config, keypair, authorized, files>>

-----------------------------------------------------------------------------
(* The network scan.  Every probe has its timeout and may miss.            *)

\* ping and two TCP probes each; what the ARP cache still has is added.
Sweep(live) == live \subseteq Addrs

\* DNS, then mDNS: a host name may not be found.
Named(live, named) == named \subseteq live

\* A Raspberry Pi by its MAC, its host name or its ssh banner.
ScorePi(a, named, bannered, mac) == a \in mac \/ a \in named \/ a \in bannered

\* discovered_records and _alias_for: the host name, else a name made of the
\* address, which no alias here is.
Recorded(hosts, named, pis) ==
  {h \in Records : \A x \in Aliases :
     LET found == {a \in pis \cap named : HostName[a] = x}
     IN IF found = {} THEN h[x] = hosts[x] ELSE h[x] \in found}

Discover ==
  /\ call.step = "edit" /\ call.name = "discover"
  /\ \E live, named, bannered, mac \in SUBSET Addrs :
        /\ Sweep(live) /\ Named(live, named)
        /\ {bannered, mac} \subseteq SUBSET live
        /\ \E h \in Recorded(call.hosts, named,
                             {a \in live : ScorePi(a, named, bannered, mac)}) :
              call' = [call EXCEPT !.hosts = h, !.step = "truncate"]
  /\ UNCHANGED <<inventory, config, keypair, authorized, files, result>>

-----------------------------------------------------------------------------
(* The inventory *)

Edited ==
  CASE call.name = "add" -> [call.hosts EXCEPT ![call.alias] = call.addr]
    [] call.name = "rm" -> [call.hosts EXCEPT ![call.alias] = NoAddr]
    [] OTHER -> [[call.hosts EXCEPT ![call.alias] = NoAddr]
                   EXCEPT ![call.other] = call.hosts[call.alias]]

\* rm and alias refuse a name that is not there; a new alias that is taken is
\* overwritten.
EditInventory ==
  /\ call.step = "edit" /\ call.name # "discover"
  /\ IF call.name # "add" /\ call.hosts[call.alias] = NoAddr
     THEN Returns(1)
     ELSE call' = [call EXCEPT !.hosts = Edited, !.step = "truncate"] /\ UNCHANGED result
  /\ UNCHANGED <<inventory, config, keypair, authorized, files>>

\* tomlio.dump opens the file for writing, which empties it, and writes it.
Truncate ==
  /\ call.step = "truncate"
  /\ inventory' = Empty
  /\ Proceeds("save")
  /\ UNCHANGED <<config, keypair, authorized, files>>

Save ==
  /\ call.step = "save"
  /\ inventory' = call.hosts
  /\ Returns(0)
  /\ UNCHANGED <<config, keypair, authorized, files>>

-----------------------------------------------------------------------------
(* Reaching a robot *)

\* A known alias, else the name as an mDNS name, which any robot with that
\* host name may answer and maybe none does.
Resolved(alias) ==
  IF call.hosts[alias] # NoAddr
  THEN {call.hosts[alias]}
  ELSE {NoAddr} \cup {a \in Addrs : HostName[a] = alias}

Resolve ==
  /\ call.step = "resolve"
  /\ \E a \in Resolved(call.alias) :
        call' = [call EXCEPT !.addr = a,
                   !.step = IF call.name \in {"push", "pull"} THEN "copy"
                            ELSE IF call.name = "keys" THEN "append"
                            ELSE IF call.name = "monitor" THEN "poll" ELSE "ssh"]
  /\ UNCHANGED <<inventory, config, keypair, authorized, files, result>>

\* The login is the one given, the one the banner suggests, the default or pi:
\* it may not be the robot's.  ssh then fails, as it does when nothing answers.
LoggedIn == call.addr # NoAddr

\* A dry run prints the command and returns 0.
Previews(step) ==
  /\ call.step = step /\ call.dry /\ Returns(0)
  /\ UNCHANGED <<inventory, config, keypair, authorized, files>>

\* run, connect, tunnel and the agent commands return the status of ssh; each
\* of the agent's scripts ends in an echo, so a start that fails, a stop of
\* nothing and a status that is DOWN all return 0.  What the scripts do on the
\* robot is Deploy's StartByHand and StopAgents.
RunRemote ==
  /\ call.step = "ssh" /\ ~call.dry
  /\ \/ LoggedIn /\ Returns(0)
     \/ Returns(1)
  /\ UNCHANGED <<inventory, config, keypair, authorized, files>>

Source == IF call.name = "push" THEN Here ELSE call.addr
Target == IF call.name = "push" THEN call.addr ELSE Here

\* rsync or scp: it may fail part way, and what it says went well may be torn.
Copy ==
  /\ call.step = "copy" /\ ~call.dry
  /\ \/ /\ LoggedIn
        /\ \E c \in {files[Source], "torn"} : files' = [files EXCEPT ![Target] = c]
        /\ IF call.verify THEN Proceeds("verify") ELSE Returns(0)
     \/ /\ files' \in {files} \cup
             {[files EXCEPT ![t] = "torn"] : t \in {Target} \ {NoAddr}}
        /\ Returns(1)
  /\ UNCHANGED <<inventory, config, keypair, authorized>>

\* The digests of both ends; one that cannot be had is unequal.  Without a
\* regular file at the local path nothing is compared.
Verify ==
  /\ call.step = "verify"
  /\ \/ (call.regular => files[Source] = files[Target]) /\ Returns(0)
     \/ call.regular /\ Returns(1)
  /\ UNCHANGED <<inventory, config, keypair, authorized, files>>

-----------------------------------------------------------------------------
(* keys install *)

Keygen ==
  /\ call.step = "keygen"
  /\ \/ call.dry /\ ~keypair /\ Returns(0) /\ UNCHANGED keypair
     \/ /\ call.dry => keypair
        /\ keypair' = TRUE
        /\ Proceeds("resolve")
     \/ ~keypair /\ ~call.dry /\ Returns(1) /\ UNCHANGED keypair
  /\ UNCHANGED <<inventory, config, authorized, files>>

\* mkdir && touch && chmod && grep || append: what fails before grep also
\* appends.
AppendKey ==
  /\ call.step = "append" /\ ~call.dry
  /\ \/ /\ LoggedIn
        /\ authorized' \in {[authorized EXCEPT ![call.addr] = @ + 1]} \cup
             {authorized : x \in {call.addr} \cap {a \in Addrs : authorized[a] > 0}}
        /\ Proceeds("record")
     \/ UNCHANGED authorized /\ Returns(1)
  /\ UNCHANGED <<inventory, config, keypair, files>>

\* _record_identity: config.toml is read, emptied and written.
RecordIdentity ==
  /\ call.step = "record"
  /\ call' = [call EXCEPT !.step = "write", !.verify = config.settings]
  /\ config' = [settings |-> FALSE, identity |-> FALSE]
  /\ UNCHANGED <<inventory, keypair, authorized, files, result>>

WriteIdentity ==
  /\ call.step = "write"
  /\ config' = [settings |-> call.verify, identity |-> TRUE]
  /\ Returns(0)
  /\ UNCHANGED <<inventory, keypair, authorized, files>>

-----------------------------------------------------------------------------
(* monitor *)

\* check_thresholds raises an alert on a hot, throttled, drained, stopped or
\* policy-less robot, and the poll returns 1 then.  An agent that does not answer
\* ends it; without --once nothing else does.
PollAgent ==
  /\ call.step = "poll"
  /\ \/ /\ call.addr # NoAddr
        /\ IF call.once THEN \E alert \in {0, 1} : Returns(alert) ELSE UNCHANGED <<call, result>>
     \/ Returns(2)
  /\ UNCHANGED <<inventory, config, keypair, authorized, files>>

-----------------------------------------------------------------------------
CallInterrupted ==
  /\ call # Idle
  /\ Returns(1)
  /\ UNCHANGED <<inventory, config, keypair, authorized, files>>

FleetStep ==
  \/ Load \/ Discover \/ EditInventory \/ Truncate \/ Save \/ Resolve
  \/ \E s \in {"ssh", "copy", "append"} : Previews(s)
  \/ RunRemote \/ Copy \/ Verify \/ Keygen \/ AppendKey \/ RecordIdentity \/ WriteIdentity
  \/ PollAgent

\* No step is fair: a tunnel blocks until it is interrupted, a monitor polls,
\* and what runs over ssh has no time-out unless one is given.
FleetNext == Give \/ FleetStep \/ CallInterrupted

-----------------------------------------------------------------------------
(* Properties *)

\* A command that exits 0 has done what it says: an edit of the inventory is
\* saved and has left the other aliases alone, the verified transfer of a
\* regular file is whole, and the key is authorized and recorded beside the
\* operator's settings.
SaidWasDone ==
  LET c == result.call IN
  call = Idle /\ result.status = 0 /\ ~c.dry =>
    /\ c.name \in Edits => inventory = c.hosts
    /\ c.name = "add" => inventory[c.alias] = c.addr
    /\ c.name = "alias" /\ c.alias # c.other => inventory[c.alias] = NoAddr
    /\ c.name \in {"push", "pull"} /\ c.verify /\ c.regular => files[Here] = files[c.addr]
    /\ c.name = "keys" => config.identity /\ authorized[c.addr] > 0
=============================================================================
