-------------------------------- MODULE Setup --------------------------------
(***************************************************************************)
(* The setup program init.py as far as it changes ~/.homelink, the kernel  *)
(* keyring and the systemd unit.  It may be run again over an old          *)
(* installation and may die between any two writes.                        *)
(*                                                                         *)
(* Every run makes a new identity.  A file is described by the run whose   *)
(* content it has: keys, device id and password of a run are named by its  *)
(* number.  Key files are written in place (truncated, then written);      *)
(* config.json is replaced in one step (module ConfigStore shows what that *)
(* takes), devices.json step by step, because the daemon saves it too      *)
(* (module DeviceList).  dh.pub is left out: nothing reads it.             *)
(***************************************************************************)
EXTENDS Naturals, DeviceList

CONSTANTS
  MaxRun,         \* bound: so many runs of init.py
  Password,       \* passwords the owner may choose
  Torn            \* a file that was truncated and not yet written

ASSUME SetupAssumption ==
  /\ MaxRun \in Nat \ {0}
  /\ Absent # Torn /\ Broken \notin {Absent, Torn}
  /\ Absent \notin Password
  /\ {Absent, Torn, Broken} \cap 0..MaxRun = {}

VARIABLES
  run,            \* number of the latest run, 0 before the first
  chosen,         \* run -> the password chosen in it
  step,           \* what the setup program does next, idle when none runs
  file,           \* signing.key.enc, dh.key.enc and signing.pub
  config,         \* config.json: its device id and its p2p section
  keyring,        \* the password in the kernel keyring
  installed,      \* the unit is installed and enabled
  complete,       \* history: the latest run has written and stored all
  crossed         \* history: a save of the daemon was under way in the latest
                  \* run when signing.pub was written, or during its own save

disk == <<file, config, listVars>>
history == <<complete, crossed>>
setupVars == <<run, chosen, step, disk, keyring, installed, history>>

Run == 1..MaxRun
KeyFile == {"signing", "dh", "pub"}
Tag == Run \cup {Absent, Torn}
Steps == KeyFile \cup {"config", "keyring", "devices", "unit", "start", "idle"}

(* The p2p section decides whether the daemon can start: see StartP2P.     *)
P2P == {"default", "usable"}

ListTypeOK ==
  /\ devices \in Tag \cup {Broken} /\ tmp \in Tag \cup {Broken}
  /\ save \in [Writer -> [pc : {"idle", "tagged", "open", "written"},
                          tag : Tag, fd : Name]]

SetupTypeOK ==
  /\ run \in 0..MaxRun
  /\ chosen \in [Run -> Password \cup {Absent}]
  /\ step \in Steps
  /\ file \in [KeyFile -> Run \cup {Absent, Torn}]
  /\ config \in [id : Run \cup {Absent}, p2p : P2P]
  /\ ListTypeOK
  /\ keyring \in Password \cup {Absent}
  /\ installed \in BOOLEAN /\ complete \in BOOLEAN /\ crossed \in BOOLEAN

SetupInit ==
  /\ run = 0
  /\ chosen = [r \in Run |-> Absent]
  /\ step = "idle"
  /\ file = [f \in KeyFile |-> Absent]
  /\ config = [id |-> Absent, p2p |-> "default"]
  /\ ListInit
  /\ keyring = Absent
  /\ installed = FALSE /\ complete = FALSE /\ crossed = FALSE

-----------------------------------------------------------------------------
FollowsConfigFirst ==
  [idle |-> "config", config |-> "signing", signing |-> "dh", dh |-> "pub",
   pub |-> "keyring", keyring |-> "devices", devices |-> "unit",
   unit |-> "start", start |-> "idle"]

(* The order of the steps of main.                                         *)
Follows ==
  [idle |-> "signing", signing |-> "dh", dh |-> "pub", pub |-> "config",
   config |-> "keyring", keyring |-> "devices", devices |-> "unit",
   unit |-> "start", start |-> "idle"]

(* The prompts are answered and a new identity is generated.               *)
BeginSetup(p) ==
  /\ step = "idle" /\ run < MaxRun
  /\ run' = run + 1
  /\ chosen' = [chosen EXCEPT ![run + 1] = p]
  /\ step' = Follows[step]
  /\ complete' = FALSE /\ crossed' = FALSE
  /\ UNCHANGED <<disk, keyring, installed>>

(* write_bytes of a key file: it is emptied, and written a moment later.   *)
Truncate(f) ==
  /\ step = f /\ file[f] # Torn
  /\ file' = [file EXCEPT ![f] = Torn]
  /\ UNCHANGED <<run, chosen, step, config, listVars, keyring, installed, history>>

WriteKey(f) ==
  /\ step = f /\ file[f] = Torn
  /\ file' = [file EXCEPT ![f] = run]
  /\ step' = Follows[step]
  /\ crossed' = (crossed \/ (f = "pub" /\ Saving("daemon")))
  /\ UNCHANGED <<run, chosen, config, listVars, keyring, installed, complete>>

(* A new configuration: what the owner had set in the old one is gone.     *)
SaveConfig ==
  /\ step = "config"
  /\ config' = [id |-> run, p2p |-> "default"]
  /\ step' = Follows[step]
  /\ UNCHANGED <<run, chosen, file, listVars, keyring, installed, history>>

(* store_password: without keyctl the keyring stays as it is, and setup    *)
(* goes on.                                                                *)
StorePassword ==
  /\ step = "keyring"
  /\ keyring' \in {chosen[run], keyring}
  /\ step' = Follows[step]
  /\ UNCHANGED <<run, chosen, disk, installed, history>>

AddDeviceKeepingTheTag ==
  /\ step = "devices"
  /\ BeginSave("setup", IF devices = Absent THEN file["pub"] ELSE devices)
  /\ crossed' = (crossed \/ Saving("daemon"))
  /\ UNCHANGED <<run, chosen, step, file, config, keyring, installed, complete>>

(* add_device, with a tag of the present signing.pub.                      *)
AddDevice ==
  /\ step = "devices"
  /\ BeginSave("setup", file["pub"])
  /\ crossed' = (crossed \/ Saving("daemon"))
  /\ UNCHANGED <<run, chosen, step, file, config, keyring, installed, complete>>

WriteDevices ==
  /\ OpenTmp("setup") \/ WriteTmp("setup")
  /\ UNCHANGED <<run, chosen, step, file, config, keyring, installed, history>>

DevicesSaved ==
  /\ step = "devices" /\ Replace("setup")
  /\ complete' = (keyring = chosen[run])
  /\ step' = Follows[step]
  /\ UNCHANGED <<run, chosen, file, config, keyring, installed, crossed>>

(* install: when systemctl fails, setup ends without starting the service. *)
InstallUnit ==
  /\ step = "unit"
  /\ \/ installed' = TRUE /\ step' = Follows[step]
     \/ UNCHANGED installed /\ step' = "idle"
  /\ UNCHANGED <<run, chosen, disk, keyring, history>>

(* init.py is interrupted or dies, also of an exception: a devices.json    *)
(* that it cannot parse, a devices.tmp that is not there any more.         *)
Interrupt ==
  /\ step # "idle"
  /\ step' = "idle"
  /\ EndSave("setup")
  /\ UNCHANGED <<run, chosen, file, config, keyring, installed, history>>

(* All steps but the last one, which starts the service.                   *)
SetupStep ==
  \/ \E p \in Password : BeginSetup(p)
  \/ \E f \in KeyFile : Truncate(f) \/ WriteKey(f)
  \/ SaveConfig \/ StorePassword
  \/ AddDevice \/ WriteDevices \/ DevicesSaved
  \/ InstallUnit \/ Interrupt

=============================================================================
