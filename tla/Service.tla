------------------------------- MODULE Service -------------------------------
(***************************************************************************)
(* The daemon's process from its start by systemd to its end: run.py, the  *)
(* steps of DeviceManager.load and HomeLinkDaemon.start, stop, and the     *)
(* unit file that service/installer.py writes, next to a setup program     *)
(* that may be run at the same time (module Setup).                        *)
(*                                                                         *)
(* The files are read one after the other, so that each step sees the disk *)
(* as it is at that moment.  systemd is taken to do what the unit file     *)
(* makes it do: Restart=on-failure after RestartSec=5, and at most Burst   *)
(* starts within the start limit interval.  The unit file has              *)
(* StartLimitIntervalSec=120 in its section [Service], where systemd does  *)
(* not know it (it belongs in [Unit]), so that the interval is systemd's   *)
(* default of 10 s.  It begins with its first start, and is over when      *)
(* systemd has waited for 5 s twice since then.                            *)
(***************************************************************************)
EXTENDS Setup

CONSTANT Burst    \* StartLimitBurst

ASSUME ServiceAssumption == Burst \in Nat \ {0}

VARIABLES
  phase,          \* what the process does, or what systemd says of the unit
  starts,         \* starts within the start limit interval
  waits,          \* delays before a restart within that interval
  mem             \* what the process has read so far

unit == <<starts, waits>>
process == <<phase, unit, mem>>
vars == <<setupVars, process>>

Starting == {"begin", "password", "config", "signing", "dh", "peers", "p2p",
             "telegram"}
Up == {"running", "stopping"}
Exits == {"no_config", "no_password", "bad_key", "bad_devices", "stun_error",
          "killed"}
Down == {"inactive", "failed"}

NoMem == [pwd |-> Absent, id |-> Absent, p2p |-> "default",
          signing |-> Absent, dh |-> Absent]

(* So many delays of RestartSec last longer than the interval.             *)
Delays == 2

TypeOK ==
  /\ SetupTypeOK
  /\ phase \in Starting \cup Up \cup Exits \cup Down
  /\ starts \in 0..Burst /\ waits \in 0..Delays - 1
  /\ mem \in [pwd : Password \cup {Absent}, id : Run \cup {Absent}, p2p : P2P,
              signing : Run \cup {Absent}, dh : Run \cup {Absent}]

Init ==
  /\ SetupInit
  /\ phase = "inactive" /\ starts = 0 /\ waits = 0 /\ mem = NoMem

-----------------------------------------------------------------------------
(* systemd starts the process, unless it has done so n times already       *)
(* within the interval.                                                    *)
Launch(n) ==
  /\ phase' = IF n < Burst THEN "begin" ELSE "failed"
  /\ starts' = IF n < Burst THEN n + 1 ELSE n
  /\ mem' = NoMem

(* homelink start, and the last step of setup: no effect on an active unit.*)
StartUnit ==
  IF installed /\ phase \in Down \cup Exits
  THEN Launch(starts) /\ UNCHANGED waits
  ELSE UNCHANGED process

UserStart ==
  /\ installed /\ phase \in Down \cup Exits
  /\ Launch(starts)
  /\ UNCHANGED <<setupVars, waits>>

SetupStarts ==
  /\ step = "start"
  /\ step' = Follows[step]
  /\ StartUnit
  /\ UNCHANGED <<run, chosen, disk, keyring, installed, history>>

AutoRestartAfterKills ==
  /\ phase = "killed"
  /\ IF waits + 1 = Delays
       THEN waits' = 0 /\ Launch(0)
       ELSE waits' = waits + 1 /\ Launch(starts)
  /\ UNCHANGED setupVars

(* Restart=on-failure, after another delay.                                *)
AutoRestart ==
  /\ phase \in Exits
  /\ IF waits + 1 = Delays
       THEN waits' = 0 /\ Launch(0)
       ELSE waits' = waits + 1 /\ Launch(starts)
  /\ UNCHANGED setupVars

(* The interval is over.                                                   *)
IntervalPasses ==
  /\ starts > 0
  /\ starts' = 0 /\ waits' = 0
  /\ UNCHANGED <<setupVars, phase, mem>>

-----------------------------------------------------------------------------
(* The process goes on to its next step, having read something, or exits   *)
(* with a status that systemd takes for a failure.                         *)
GoOn(next, known) ==
  phase' = next /\ mem' = known /\ UNCHANGED <<setupVars, unit>>
Exit(reason) == GoOn(reason, NoMem)

CheckConfig ==
  /\ phase = "begin"
  /\ IF config.id # Absent THEN GoOn("password", mem) ELSE Exit("no_config")

(* get_password_for_service; a service has no terminal to ask at.          *)
ReadPassword ==
  /\ phase = "password"
  /\ IF keyring # Absent
     THEN GoOn("config", [mem EXCEPT !.pwd = keyring])
     ELSE Exit("no_password")

ReadConfig ==
  /\ phase = "config"
  /\ GoOn("signing", [mem EXCEPT !.id = config.id, !.p2p = config.p2p])

(* decrypt_private_key: only the password of its run opens a key file.     *)
Opens(f) == file[f] \in Run /\ chosen[file[f]] = mem.pwd

ReadKey(f, next) ==
  /\ phase = f
  /\ IF Opens(f) THEN GoOn(next, [mem EXCEPT ![f] = file[f]]) ELSE Exit("bad_key")

(* load_devices: the tag must have been made with the present signing.pub. *)
ReadDevices ==
  /\ phase = "peers"
  /\ IF devices \in {Absent, file["pub"]} THEN GoOn("p2p", mem) ELSE Exit("bad_devices")

(* P2PTransport.start with get_public_endpoint: whether a server answers   *)
(* makes no difference to the start, but the loop over the servers unpacks *)
(* pairs, and the default list is one of strings: that raises.             *)
StartP2P ==
  /\ phase = "p2p"
  /\ IF mem.p2p = "default" THEN Exit("stun_error") ELSE GoOn("telegram", mem)

(* TelegramTransport.start never raises: a bot that cannot be reached      *)
(* leaves the daemon running without it.  Then the handlers of messages    *)
(* and signals are registered.                                             *)
StartTelegram == phase = "telegram" /\ GoOn("running", mem)

ProcessStep ==
  \/ CheckConfig \/ ReadPassword \/ ReadConfig
  \/ ReadKey("signing", "dh") \/ ReadKey("dh", "peers")
  \/ ReadDevices \/ StartP2P \/ StartTelegram

(* A device is approved or denied, in a message of the batch that the poll *)
(* loop is at, also while the process stops.  A list that is not there or  *)
(* no JSON is not saved.                                                   *)
ApproveDevice ==
  /\ phase \in Up /\ devices # Absent
  /\ BeginSave("daemon", file["pub"])
  /\ crossed' = (crossed \/ Saving("setup"))
  /\ UNCHANGED <<run, chosen, step, file, config, keyring, installed, complete, process>>

(* The broker catches an exception of the save.                            *)
SaveDevices ==
  /\ \/ OpenTmp("daemon") \/ WriteTmp("daemon") \/ Replace("daemon")
     \/ ReplaceFails("daemon") /\ EndSave("daemon")
  /\ UNCHANGED <<run, chosen, step, file, config, keyring, installed, history, process>>

(* homelink stop: a process that has no handler for SIGTERM yet ends at    *)
(* once; a running one calls stop.  A restart is a stop and a start.       *)
UserStop ==
  /\ phase \notin Down \cup {"stopping"}
  /\ IF phase = "running" THEN GoOn("stopping", mem) ELSE GoOn("inactive", NoMem)

(* _main_loop sees _running after at most 10 s, and the process exits; not *)
(* in the middle of a save, which awaits nothing.                          *)
MainLoopEnds ==
  phase = "stopping" /\ ~Saving("daemon") /\ GoOn("inactive", NoMem)

(* homelink install, at any time; a process that runs goes on.             *)
UserInstall ==
  /\ ~installed /\ installed' = TRUE
  /\ UNCHANGED <<run, chosen, step, disk, keyring, history, process>>

(* homelink remove: the process is stopped first, and systemctl stop waits *)
(* for its end (UserStop, MainLoopEnds); then the unit file goes.          *)
UserRemove ==
  /\ installed /\ phase \in Down /\ installed' = FALSE
  /\ UNCHANGED <<run, chosen, step, disk, keyring, history, process>>

(* The process is killed, out of memory for instance; one that is being    *)
(* stopped is not started again.                                           *)
Kill ==
  /\ phase \in Starting \cup Up
  /\ phase' = IF phase = "stopping" THEN "inactive" ELSE "killed"
  /\ mem' = NoMem
  /\ EndSave("daemon")
  /\ UNCHANGED <<run, chosen, step, file, config, keyring, installed, history, unit>>

(* The machine goes down: the keyring is empty afterwards.                 *)
PowerOff ==
  /\ step' = "idle" /\ keyring' = Absent
  /\ phase' = "inactive" /\ starts' = 0 /\ waits' = 0 /\ mem' = NoMem
  /\ save' = [w \in Writer |-> NoSave]
  /\ UNCHANGED <<run, chosen, file, config, devices, tmp, installed, history>>

(* The owner edits the p2p section: pairs of host and port, an empty list, *)
(* or P2P disabled.                                                        *)
EditConfig ==
  /\ config.id # Absent
  /\ config' = [config EXCEPT !.p2p = "usable"]
  /\ UNCHANGED <<run, chosen, step, file, listVars, keyring, installed, history, process>>

Next ==
  \/ SetupStep /\ UNCHANGED process
  \/ SetupStarts \/ UserStart \/ AutoRestart \/ IntervalPasses
  \/ ProcessStep \/ ApproveDevice \/ SaveDevices \/ UserStop \/ MainLoopEnds
  \/ UserInstall \/ UserRemove \/ Kill \/ PowerOff \/ EditConfig

(* A process gets on with its start and its end, and systemd restarts it;  *)
(* the owner, setup and the machine need not do anything.                  *)
Fairness ==
  /\ WF_vars(ProcessStep) /\ WF_vars(SaveDevices) /\ WF_vars(MainLoopEnds)
  /\ WF_vars(AutoRestart)

Spec == Init /\ [][Next]_vars /\ Fairness

-----------------------------------------------------------------------------
(* When the latest run of init.py has come to its end and could store the  *)
(* password, everything on disk is of that run and DeviceManager.load      *)
(* accepts it, whatever earlier runs left behind.  devices.json needs a    *)
(* condition: no save of a daemon was under way when signing.pub was       *)
(* written, and none went on at the time of setup's own save.  Daemons     *)
(* with the old identity that save before, between or after these two      *)
(* moments do no harm (main of init.py against save_devices).              *)
CompleteSetupLoads ==
  complete =>
    /\ \A f \in KeyFile : file[f] = run
    /\ config.id = run
    /\ keyring \in {Absent, chosen[run]}
    /\ ~crossed => devices = run

(* As long as no password is used for two runs, a running daemon has its   *)
(* id and both its keys from one run of init.py, although it reads them    *)
(* one after the other while they may be replaced, and although a run may  *)
(* have died half-way (DeviceManager.load against the order of init.py).   *)
IdentityIsWhole ==
  /\ phase \in Up
  /\ \A r, s \in 1..run : chosen[r] = chosen[s] => r = s
  => mem.id = mem.signing /\ mem.signing = mem.dh

(* Everything is there that a start needs.                                 *)
Startable ==
  /\ config.id # Absent /\ config.p2p = "usable" /\ keyring # Absent
  /\ \A f \in {"signing", "dh"} : file[f] \in Run /\ chosen[file[f]] = keyring
  /\ devices \in {Absent, file["pub"]}

(* A daemon that has failed to start comes up by itself when the reason is *)
(* gone, unless it is stopped, given up or killed for ever: a start that   *)
(* read some files before and some after the repair is not the last one    *)
(* (Restart=on-failure against the steps of the start).                    *)
Recovers ==
  <>[](Startable /\ phase \notin Down \cup {"stopping", "killed"})
    => []<>(phase = "running")

=============================================================================
