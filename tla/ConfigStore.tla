----------------------------- MODULE ConfigStore -----------------------------
(***************************************************************************)
(* config.json and the programs that change it: init.py, homelink          *)
(* reconfigure-telegram, homectl pair and, through the migration in        *)
(* load_config, every start of the daemon (config/manager.py).  There is a *)
(* config.json to begin with.                                              *)
(*                                                                         *)
(* save_config writes config.tmp and renames it over config.json.  All     *)
(* programs use the same config.tmp and no lock, so the file is modelled   *)
(* as the operating system sees it: two names, the files (inodes) they     *)
(* stand for, and a writer that holds on to the file it has opened.        *)
(* devices.json is saved in the same way by save_devices.                  *)
(***************************************************************************)
EXTENDS Naturals, FiniteSets

CONSTANTS
  Proc,             \* programs that may be running
  Inode,            \* files
  Value             \* what a Telegram setting or a pairing code can be

ASSUME StoreAssumption ==
  /\ IsFiniteSet(Proc) /\ IsFiniteSet(Inode)
  /\ Cardinality(Inode) >= Cardinality(Proc) + 2

VARIABLES
  config,           \* the file named config.json
  tmp,              \* the file named config.tmp, or NoFile
  data,             \* Inode -> a configuration, or Partial
  pc,               \* Proc -> "idle", "loaded", "save", "open", "written"
  command,          \* Proc -> what the program is for
  migrating,        \* programs whose save is that of a migration
  cfg,              \* Proc -> the configuration it has in memory, or NoConfig
  fd,               \* Proc -> the file it writes, or NoFile
  kept,             \* history: each field as it was last saved on purpose
  overlapped        \* history: two programs have run at the same time

files == <<config, tmp, data>>
vars == <<files, pc, command, migrating, cfg, fd, kept, overlapped>>

NoFile == "no file"
NoConfig == [version |-> "none"]
Partial == [version |-> "partial"]
Config == [telegram : Value, pairing : Value, version : {"old", "new"}]
Commands == {"init", "reconfigure", "pair", "start"}

TypeOK ==
  /\ config \in Inode /\ tmp \in (Inode \ {config}) \cup {NoFile}
  /\ data \in [Inode -> Config \cup {Partial}]
  /\ pc \in [Proc -> {"idle", "loaded", "save", "open", "written"}]
  /\ command \in [Proc -> Commands] /\ migrating \in SUBSET Proc
  /\ cfg \in [Proc -> Config \cup {NoConfig}]
  /\ fd \in [Proc -> Inode \cup {NoFile}]
  /\ kept \in Config /\ overlapped \in BOOLEAN

(* A configuration of the previous or of the present version.              *)
Init ==
  /\ config \in Inode /\ tmp = NoFile
  /\ kept \in Config
  /\ data = [i \in Inode |-> IF i = config THEN kept ELSE Partial]
  /\ pc = [p \in Proc |-> "idle"]
  /\ command = [p \in Proc |-> "start"] /\ migrating = {}
  /\ cfg = [p \in Proc |-> NoConfig]
  /\ fd = [p \in Proc |-> NoFile]
  /\ overlapped = FALSE

Running == {p \in Proc : pc[p] # "idle"}

Goto(p, label) == pc' = [pc EXCEPT ![p] = label]

(* A program starts, perhaps while another one is still running.           *)
Enter(p) == /\ pc[p] = "idle"
            /\ overlapped' = (overlapped \/ Running # {})

(* The program ends; "start" is the command of one that does not run.      *)
Leave(p) == /\ Goto(p, "idle")
            /\ command' = [command EXCEPT ![p] = "start"]
            /\ cfg' = [cfg EXCEPT ![p] = NoConfig]
            /\ fd' = [fd EXCEPT ![p] = NoFile]
            /\ migrating' = migrating \ {p}

-----------------------------------------------------------------------------
(* What the programs do with a configuration                               *)

(* init.py builds a new one.                                               *)
Setup(p, c) ==
  /\ Enter(p)
  /\ c.version = "new"
  /\ command' = [command EXCEPT ![p] = "init"]
  /\ cfg' = [cfg EXCEPT ![p] = c]
  /\ Goto(p, "save")
  /\ UNCHANGED <<files, migrating, fd, kept>>

LoadWithoutMigration(p, c) ==
  /\ Enter(p)
  /\ c # "init"
  /\ data[config] # Partial
  /\ command' = [command EXCEPT ![p] = c]
  /\ IF data[config].version = "old" /\ c = "start"
       THEN /\ cfg' = [cfg EXCEPT ![p] = [data[config] EXCEPT !.version = "new"]]
            /\ migrating' = migrating \cup {p} /\ Goto(p, "save")
       ELSE /\ cfg' = [cfg EXCEPT ![p] = data[config]]
            /\ UNCHANGED migrating /\ Goto(p, "loaded")
  /\ UNCHANGED <<files, fd, kept>>

(* The others load it; an old one is migrated, which saves it at once.     *)
Load(p, c) ==
  /\ Enter(p)
  /\ c # "init"
  /\ data[config] # Partial
  /\ command' = [command EXCEPT ![p] = c]
  /\ cfg' = [cfg EXCEPT ![p] = [data[config] EXCEPT !.version = "new"]]
  /\ IF data[config].version = "old"
       THEN migrating' = migrating \cup {p} /\ Goto(p, "save")
       ELSE UNCHANGED migrating /\ Goto(p, "loaded")
  /\ UNCHANGED <<files, fd, kept>>

ChangeFromDefaults(p, v) ==
  /\ pc[p] = "loaded"
  /\ \E w \in Value :
       LET fresh == [telegram |-> w, pairing |-> w, version |-> "new"]
       IN  \/ /\ command[p] = "reconfigure"
              /\ cfg' = [cfg EXCEPT ![p] = [fresh EXCEPT !.telegram = v]]
           \/ /\ command[p] = "pair"
              /\ cfg' = [cfg EXCEPT ![p] = [fresh EXCEPT !.pairing = v]]
  /\ Goto(p, "save")
  /\ UNCHANGED <<files, command, migrating, fd, kept, overlapped>>

(* reconfigure_telegram, after its prompts; _pair, with a new code.        *)
Change(p, v) ==
  /\ pc[p] = "loaded"
  /\ \/ /\ command[p] = "reconfigure"
        /\ cfg' = [cfg EXCEPT ![p].telegram = v]
     \/ /\ command[p] = "pair"
        /\ cfg' = [cfg EXCEPT ![p].pairing = v]
  /\ Goto(p, "save")
  /\ UNCHANGED <<files, command, migrating, fd, kept, overlapped>>

(* The daemon has its configuration; or the user stops at a prompt; or a   *)
(* program is killed, or fails, wherever it is.                            *)
Quit(p) ==
  /\ pc[p] # "idle"
  /\ Leave(p)
  /\ UNCHANGED <<files, kept, overlapped>>

-----------------------------------------------------------------------------
(* save_config                                                             *)

OpenInPlace(p) ==
  /\ pc[p] = "save"
  /\ data' = [data EXCEPT ![config] = Partial]
  /\ fd' = [fd EXCEPT ![p] = config]
  /\ Goto(p, "open")
  /\ UNCHANGED <<config, tmp, command, migrating, cfg, kept, overlapped>>

(* write_text opens config.tmp: the one that is there is cut to nothing,   *)
(* otherwise there is a new one.                                           *)
Open(p) ==
  /\ pc[p] = "save"
  /\ \E i \in Inode :
       /\ IF tmp # NoFile THEN i = tmp ELSE i \notin {config} \cup {fd[q] : q \in Proc}
       /\ tmp' = i
       /\ data' = [data EXCEPT ![i] = Partial]
       /\ fd' = [fd EXCEPT ![p] = i]
  /\ Goto(p, "open")
  /\ UNCHANGED <<config, command, migrating, cfg, kept, overlapped>>

(* write_text writes what it has opened, whatever its name is by now.  If  *)
(* another program has written it in the meantime, the rest of a longer    *)
(* text stays behind the new one, and the file is no JSON any more.        *)
Write(p) ==
  /\ pc[p] = "open"
  /\ \E c \in IF data[fd[p]] = Partial THEN {cfg[p]} ELSE {cfg[p], Partial} :
       data' = [data EXCEPT ![fd[p]] = c]
  /\ fd' = [fd EXCEPT ![p] = NoFile]
  /\ Goto(p, "written")
  /\ UNCHANGED <<config, tmp, command, migrating, cfg, kept, overlapped>>

(* The fields that this save was for.                                      *)
Purpose(p) ==
  IF p \in migrating THEN [kept EXCEPT !.version = "new"]
  ELSE CASE command[p] = "init" -> cfg[p]
         [] command[p] = "reconfigure" -> [kept EXCEPT !.telegram = cfg[p].telegram]
         [] OTHER -> [kept EXCEPT !.pairing = cfg[p].pairing]

(* After the save of a migration the program does what it is for.          *)
GoOn(p) ==
  IF p \in migrating
    THEN /\ Goto(p, "loaded") /\ migrating' = migrating \ {p}
         /\ UNCHANGED <<command, cfg, fd>>
    ELSE Leave(p)

ReplaceByCopy(p) ==
  /\ pc[p] = "written" /\ tmp # NoFile
  /\ config' = tmp
  /\ data' = [data EXCEPT ![config] = Partial]
  /\ kept' = Purpose(p)
  /\ GoOn(p)
  /\ UNCHANGED <<tmp, overlapped>>

(* replace: config.tmp becomes config.json, and the file that had this     *)
(* name is gone.                                                           *)
Replace(p) ==
  /\ pc[p] = "written" /\ tmp # NoFile
  /\ config' = tmp /\ tmp' = NoFile
  /\ data' = [data EXCEPT ![config] = Partial]
  /\ kept' = Purpose(p)
  /\ GoOn(p)
  /\ UNCHANGED overlapped

(* chmod or replace finds no config.tmp: another program has renamed it.   *)
ReplaceFails(p) ==
  /\ pc[p] = "written" /\ tmp = NoFile
  /\ Leave(p)
  /\ UNCHANGED <<files, kept, overlapped>>

Next ==
  \E p \in Proc :
    \/ \E c \in Config : Setup(p, c)
    \/ \E c \in Commands : Load(p, c)
    \/ \E v \in Value : Change(p, v)
    \/ Quit(p) \/ Open(p) \/ Write(p) \/ Replace(p) \/ ReplaceFails(p)

Spec == Init /\ [][Next]_vars

-----------------------------------------------------------------------------
(* Properties                                                              *)

(* A program finds a whole configuration whenever it opens config.json,    *)
(* also when another one died in the middle of a save and left config.tmp  *)
(* behind (manager.py save_config), as long as they run one at a time.     *)
WholeWhenAlone == ~overlapped => data[config] # Partial

(* What a command changed stays as it is until a command changes it again: *)
(* no save takes back a field that it is not about, nor does a save that   *)
(* was cut short, again when the programs run one at a time.               *)
ChangesAreKept == ~overlapped => data[config] = kept

(* A migrated configuration does not become an old one again, also when a  *)
(* program that loaded it before the migration saves it afterwards.        *)
MigrationIsFinal ==
  [][data[config].version # "old" => data'[config'].version # "old"]_vars

=============================================================================
