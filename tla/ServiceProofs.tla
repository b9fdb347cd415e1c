---------------------------- MODULE ServiceProofs ----------------------------
(***************************************************************************)
(* Proofs about Setup and Service: their types, what a finished setup      *)
(* leaves on disk, and that a daemon has its identity from one run.        *)
(*                                                                         *)
(* The argument for the identity.  Key files are written before            *)
(* config.json, and config.json before the keyring.  So the password of    *)
(* the keyring is of a run no later than the one of config.json, and the   *)
(* key files are of runs no earlier than that one.  A daemon reads the     *)
(* password, then config.json, then the keys, and all of these only get    *)
(* newer: the runs it reads from are in this order too.  A key file opens  *)
(* only with the password of its own run, so when every run has its own    *)
(* password, the last run in this order is the first one.                  *)
(*                                                                         *)
(* The argument for devices.json.  From the moment that signing.pub is     *)
(* written, and unless a daemon's save was under way then or meets that of *)
(* setup, only one program saves at a time, and it has read that           *)
(* signing.pub: it writes the devices.tmp it has opened, and puts it in    *)
(* place.                                                                  *)
(***************************************************************************)
EXTENDS Service, TLAPS

(* Some run up to the i-th had the password p.                             *)
ChosenUpTo(p, i) == \E r \in Run : r <= i /\ chosen[r] = p

(* Everything there is, is of a run that has begun.                        *)
Begun ==
  /\ \A r \in Run : r <= run => chosen[r] \in Password
  /\ step # "idle" => run # 0
  /\ \A f \in KeyFile : file[f] \in Run => file[f] <= run
  /\ config.id \in Run => config.id <= run

AfterSigning == {"dh", "pub", "config", "keyring", "devices", "unit", "start"}
AfterDh == AfterSigning \ {"dh"}
AfterPub == AfterDh \ {"pub"}
AfterConfig == AfterPub \ {"config"}

(* What the present run has written by the step it has got to.             *)
Written ==
  /\ step \in AfterSigning => file["signing"] = run
  /\ step \in AfterDh => file["dh"] = run
  /\ step \in AfterPub => file["pub"] = run
  /\ step \in AfterConfig => config.id = run

KeysAreNewer ==
  \A f \in {"signing", "dh"} :
    config.id \in Run /\ file[f] \in Run => config.id <= file[f]

PasswordIsOlder ==
  keyring # Absent => config.id \in Run /\ ChosenUpTo(keyring, config.id)

(* signing.pub is of the latest run, and stays so during this run.         *)
Current == step \in AfterPub \/ complete

(* A save that knows the latest signing.pub and has devices.tmp to itself. *)
Sound(w) ==
  /\ save[w].pc \in {"tagged", "open"} => save[w].tag = run
  /\ save[w].pc = "open" => save[w].fd = "tmp" /\ tmp = Broken
  /\ save[w].pc = "written" => tmp = run

(* Setup saves in its step for it; uncrossed saves are sound, one by one.  *)
Uncrossed ==
  /\ Saving("setup") => step = "devices"
  /\ Current /\ ~crossed =>
       /\ ~Saving("setup") \/ ~Saving("daemon")
       /\ \A w \in Writer : Sound(w)

Completed ==
  complete =>
    /\ step \in {"unit", "start", "idle"}
    /\ CompleteSetupLoads

KnowsPassword == {"config", "signing", "dh", "peers", "p2p", "telegram"} \cup Up
KnowsId == KnowsPassword \ {"config"}
KnowsSigning == KnowsId \ {"signing"}
KnowsDh == KnowsSigning \ {"dh"}

(* A key that the daemon has opened.                                       *)
Opened(key) ==
  key \in Run /\ key <= run /\ mem.id <= key /\ chosen[key] = mem.pwd

Remembered ==
  /\ phase \in KnowsPassword => config.id \in Run /\ ChosenUpTo(mem.pwd, config.id)
  /\ phase \in KnowsId =>
       mem.id \in Run /\ mem.id <= config.id /\ ChosenUpTo(mem.pwd, mem.id)
  /\ phase \in KnowsSigning => Opened(mem.signing)
  /\ phase \in KnowsDh => Opened(mem.dh)

SetupInv ==
  /\ SetupTypeOK /\ Begun /\ Written /\ KeysAreNewer /\ PasswordIsOlder
  /\ Uncrossed /\ Completed

ServiceInv == TypeOK /\ SetupInv /\ Remembered

-----------------------------------------------------------------------------
(* The constants, as the proofs use them.                                  *)
LEMMA RunFacts ==
  /\ MaxRun \in Nat /\ MaxRun # 0
  /\ \A r \in Run : r \in Nat /\ 1 <= r /\ r <= MaxRun
  /\ \A n \in Nat : n + 1 <= MaxRun => n + 1 \in Run
  /\ \A n \in 0..MaxRun : n # 0 => n \in Run
  /\ Absent \notin Run /\ Torn \notin Run /\ Absent # Torn
  /\ Absent \notin Password
BY SetupAssumption DEF SetupAssumption, Run

(* The invariant of the setup, and of the daemon, holds at the beginning.  *)
LEMMA ServiceBegins == Init => ServiceInv
<1> SUFFICES ASSUME Init PROVE ServiceInv
  OBVIOUS
<1> USE RunFacts DEF Init, SetupInit, NoMem
<1>1. SetupTypeOK
  <2>1. run \in 0..MaxRun /\ chosen \in [Run -> Password \cup {Absent}]
    OBVIOUS
  <2>2. step \in Steps /\ file \in [KeyFile -> Run \cup {Absent, Torn}]
    BY DEF Steps
  <2>3. config \in [id : Run \cup {Absent}, p2p : P2P]
    BY DEF P2P
  <2>4. ListTypeOK
    BY DEF ListInit, ListTypeOK, NoSave, Tag, Name
  <2>. QED
    BY <2>1, <2>2, <2>3, <2>4 DEF SetupTypeOK
<1>2. TypeOK
  BY <1>1, ServiceAssumption DEF ServiceAssumption, TypeOK, P2P, Down, Delays
<1>3. Begun /\ Written /\ KeysAreNewer /\ PasswordIsOlder /\ Completed
  BY DEF Begun, Written, KeysAreNewer, PasswordIsOlder, Completed, KeyFile,
         AfterSigning, AfterDh, AfterPub, AfterConfig
<1>4. Remembered
  BY DEF Remembered, KnowsPassword, KnowsId, KnowsSigning, KnowsDh, Up
<1>5. Uncrossed
  <2>1. \A w \in Writer : save[w].pc = "idle"
    BY DEF ListInit, NoSave
  <2>. QED
    BY <2>1 DEF Uncrossed, Current, Saving, Writer, AfterPub, AfterDh, AfterSigning
<1>. QED
  BY <1>1, <1>2, <1>3, <1>4, <1>5 DEF ServiceInv, SetupInv

-----------------------------------------------------------------------------
(* The device list                                                         *)

(* A step that leaves the list alone keeps its types.                      *)
LEMMA ListTypesStay ==
  ASSUME ListTypeOK, UNCHANGED listVars
  PROVE  ListTypeOK'
BY DEF ListTypeOK, listVars

(* A step that leaves the list alone crosses no save.                      *)
LEMMA UncrossedStays ==
  ASSUME Uncrossed, UNCHANGED <<listVars, run, crossed>>,
         Current' => Current, Saving("setup") => step' = "devices"
  PROVE  Uncrossed'
BY DEF Uncrossed, Sound, Saving, listVars

(* The steps of a save keep the types.                                     *)
LEMMA SaveTypes ==
  ASSUME ListTypeOK, NEW w \in Writer,
         \/ \E pub \in Tag : BeginSave(w, pub)
         \/ OpenTmp(w) \/ WriteTmp(w) \/ Replace(w) \/ EndSave(w)
  PROVE  ListTypeOK'
<1> DEFINE Save == [pc : {"idle", "tagged", "open", "written"}, tag : Tag, fd : Name]
           Doc == Tag \cup {Broken}
<1>0. /\ devices \in Doc /\ tmp \in Doc /\ save \in [Writer -> Save]
      /\ save[w] \in Save /\ save[w].tag \in Tag
      /\ Absent \in Tag /\ Broken \in Doc /\ NoSave \in Save
  BY DEF ListTypeOK, Tag, NoSave, Name
<1>1. CASE \E pub \in Tag : BeginSave(w, pub)
  <2>1. PICK pub \in Tag : BeginSave(w, pub)
    BY <1>1
  <2>2. [pc |-> "tagged", tag |-> pub, fd |-> "none"] \in Save
    BY DEF Name
  <2>. QED
    BY <1>0, <2>1, <2>2 DEF BeginSave, ListTypeOK
<1>2. CASE OpenTmp(w)
  <2>1. [save[w] EXCEPT !.pc = "open", !.fd = "tmp"] \in Save
    BY <1>0 DEF Name
  <2>2. save' = [save EXCEPT ![w] = [save[w] EXCEPT !.pc = "open", !.fd = "tmp"]]
    BY <1>0, <1>2 DEF OpenTmp
  <2>. QED
    BY <1>0, <1>2, <2>1, <2>2 DEF OpenTmp, ListTypeOK
<1>3. CASE WriteTmp(w)
  <2>1. [save[w] EXCEPT !.pc = "written", !.fd = "none"] \in Save
    BY <1>0 DEF Name
  <2>2. save' = [save EXCEPT ![w] = [save[w] EXCEPT !.pc = "written", !.fd = "none"]]
    BY <1>0, <1>3 DEF WriteTmp
  <2>3. devices' \in Doc /\ tmp' \in Doc
    BY <1>0, <1>3 DEF WriteTmp
  <2>. QED
    BY <1>0, <2>1, <2>2, <2>3 DEF ListTypeOK
<1>4. CASE Replace(w)
  <2> DEFINE Renamed == [none |-> "none", tmp |-> "list", list |-> "gone", gone |-> "gone"]
  <2>1. \A v \in Writer : [save[v] EXCEPT !.fd = Renamed[save[v].fd]] \in Save
    <3>1. \A v \in Writer : save[v] \in Save /\ save[v].fd \in Name
      BY <1>0
    <3>2. \A n \in Name : Renamed[n] \in Name
      BY DEF Name
    <3>. QED
      BY <3>1, <3>2
  <2>2. save' = [v \in Writer |->
                   IF v = w THEN NoSave ELSE [save[v] EXCEPT !.fd = Renamed[save[v].fd]]]
    BY <1>4 DEF Replace
  <2>3. save' \in [Writer -> Save]
    BY <1>0, <2>1, <2>2
  <2>. QED
    BY <1>0, <1>4, <2>3 DEF Replace, ListTypeOK
<1>5. CASE EndSave(w)
  BY <1>0, <1>5 DEF EndSave, ListTypeOK
<1>. QED
  BY <1>1, <1>2, <1>3, <1>4, <1>5

(* A sound save that is the only one stays so, and what it puts in place   *)
(* has the tag of the latest run.                                          *)
LEMMA SoundSaves ==
  ASSUME ListTypeOK, NEW w \in Writer, NEW v \in Writer, v # w, ~Saving(v),
         Sound(w), run' = run,
         OpenTmp(w) \/ WriteTmp(w) \/ Replace(w) \/ EndSave(w)
  PROVE  /\ ~Saving(v)' /\ Sound(w)'
         /\ devices' = devices \/ devices' = run
<1>0. save \in [Writer -> [pc : {"idle", "tagged", "open", "written"}, tag : Tag, fd : Name]]
  BY DEF ListTypeOK
<1>1. CASE OpenTmp(w)
  <2>1. /\ save'[w].pc = "open" /\ save'[w].fd = "tmp" /\ save'[w].tag = save[w].tag
        /\ save'[v] = save[v] /\ save[w].pc = "tagged"
        /\ tmp' = Broken /\ devices' = devices
    BY <1>0, <1>1 DEF OpenTmp
  <2>. QED
    BY <2>1 DEF Saving, Sound
<1>2. CASE WriteTmp(w)
  <2>1. /\ save'[w].pc = "written" /\ save'[v] = save[v] /\ save[w].pc = "open"
    BY <1>0, <1>2 DEF WriteTmp
  <2>2. save[w].fd = "tmp" /\ tmp = Broken /\ save[w].tag = run
    BY <2>1 DEF Sound
  <2>3. tmp' = run /\ devices' = devices
    BY <1>2, <2>2 DEF WriteTmp
  <2>. QED
    BY <2>1, <2>3 DEF Saving, Sound
<1>3. CASE Replace(w)
  <2>1. /\ save'[w] = NoSave /\ save'[v].pc = save[v].pc
        /\ save[w].pc = "written" /\ devices' = tmp
    BY <1>0, <1>3 DEF Replace
  <2>. QED
    BY <2>1 DEF Saving, Sound, NoSave
<1>4. CASE EndSave(w)
  <2>1. save'[w] = NoSave /\ save'[v] = save[v] /\ devices' = devices
    BY <1>0, <1>4 DEF EndSave
  <2>. QED
    BY <2>1 DEF Saving, Sound, NoSave
<1>. QED
  BY <1>1, <1>2, <1>3, <1>4

(* What does not save is sound.                                            *)
LEMMA IdleIsSound ==
  ASSUME NEW w, ~Saving(w)
  PROVE  Sound(w)
BY DEF Saving, Sound

(* A save begins, and takes the latest signing.pub, or is crossed.         *)
LEMMA BegunSaves ==
  ASSUME SetupInv, run' = run, step' = step, complete' = complete,
         NEW w \in Writer, NEW v \in Writer, v # w, BeginSave(w, file["pub"]),
         crossed' = (crossed \/ Saving(v)),
         w = "setup" => step = "devices"
  PROVE  ListTypeOK' /\ Uncrossed'
<1>0. /\ ListTypeOK /\ file["pub"] \in Tag
  BY DEF SetupInv, SetupTypeOK, KeyFile, Tag
<1>1. ListTypeOK'
  BY <1>0, SaveTypes
<1>2. /\ save'[w] = [pc |-> "tagged", tag |-> file["pub"], fd |-> "none"]
      /\ save'[v] = save[v]
  BY <1>0 DEF BeginSave, ListTypeOK
<1>3. Saving("setup")' => step' = "devices"
  BY <1>2 DEF SetupInv, Uncrossed, Saving, Writer
<1>4. ASSUME Current', ~crossed'
      PROVE  ~Saving(v)' /\ Sound(w)' /\ Sound(v)'
  <2>1. ~Saving(v) /\ Current
    BY <1>4 DEF Current
  <2>2. file["pub"] = run
    BY <2>1 DEF SetupInv, Current, Written, Completed, CompleteSetupLoads, KeyFile
  <2>3. ~Saving(v)'
    BY <1>2, <2>1 DEF Saving
  <2>4. Sound(w)'
    BY <1>2, <2>2 DEF Sound
  <2>5. Sound(v)'
    BY <2>3 DEF Saving, Sound
  <2>. QED
    BY <2>3, <2>4, <2>5
<1>. QED
  BY <1>1, <1>3, <1>4 DEF Uncrossed, Writer

(* A save goes on or ends.                                                 *)
LEMMA SavesGoOn ==
  ASSUME SetupInv, run' = run, crossed' = crossed,
         NEW w \in Writer, NEW v \in Writer, v # w,
         OpenTmp(w) \/ WriteTmp(w) \/ Replace(w) \/ EndSave(w),
         Current' => Current,
         Saving("setup")' => step' = "devices",
         w = "setup" => Saving("setup") \/ ~Saving("setup")'
  PROVE  /\ ListTypeOK' /\ Uncrossed'
         /\ EndSave(w) => devices' = devices
         /\ Current /\ ~crossed /\ Saving(w) => devices' = devices \/ devices' = run
<1>0. ListTypeOK
  BY DEF SetupInv, SetupTypeOK
<1>1. ListTypeOK'
  BY <1>0, SaveTypes
<1>2. EndSave(w) => devices' = devices
  BY DEF EndSave
<1>3. ASSUME Current, ~crossed, Saving(w)
      PROVE  ~Saving(v)' /\ Sound(w)' /\ (devices' = devices \/ devices' = run)
  <2>1. ~Saving(v) /\ Sound(w)
    BY <1>3 DEF SetupInv, Uncrossed, Writer
  <2>. QED
    BY <1>0, <2>1, SoundSaves
<1>4. ASSUME Current, ~crossed, ~Saving(w)
      PROVE  ~Saving(w)' /\ Sound(w)' /\ Sound(v)'
  <2>1. EndSave(w)
    BY <1>4 DEF OpenTmp, WriteTmp, Replace, Saving
  <2>2. save'[w] = NoSave /\ save'[v] = save[v] /\ tmp' = tmp
    BY <1>0, <2>1 DEF EndSave, ListTypeOK
  <2>3. Sound(v)
    BY <1>4 DEF SetupInv, Uncrossed
  <2>. QED
    BY <2>2, <2>3 DEF Saving, Sound, NoSave
<1>5. ASSUME Current', ~crossed'
      PROVE  (~Saving(w)' \/ ~Saving(v)') /\ Sound(w)' /\ Sound(v)'
  <2>1. Current /\ ~crossed
    BY <1>5
  <2>2. CASE Saving(w)
    <3>1. ~Saving(v)' /\ Sound(w)'
      BY <1>3, <2>1, <2>2
    <3>2. Sound(v)'
      BY <3>1 DEF Saving, Sound
    <3>. QED
      BY <3>1, <3>2
  <2>3. CASE ~Saving(w)
    BY <1>4, <2>1, <2>3
  <2>. QED
    BY <2>2, <2>3
<1>6. Uncrossed'
  BY <1>5 DEF Uncrossed, Writer
<1>. QED
  BY <1>1, <1>2, <1>3, <1>6

-----------------------------------------------------------------------------
(* The choice of a new password leaves those of the earlier runs alone.    *)
LEMMA EarlierPasswordsStay ==
  ASSUME SetupTypeOK, NEW p \in Password, BeginSetup(p),
         NEW q, NEW i \in Run, i <= run, ChosenUpTo(q, i)
  PROVE  ChosenUpTo(q, i)'
<1>1. PICK r \in Run : r <= i /\ chosen[r] = q
  BY DEF ChosenUpTo
<1>2. chosen'[r] = chosen[r]
  BY <1>1, RunFacts DEF BeginSetup, SetupTypeOK
<1>. QED
  BY <1>1, <1>2 DEF ChosenUpTo

(* A new run of the setup program begins.                                  *)
LEMMA BeginSetupKeeps ==
  ASSUME SetupInv, NEW p \in Password, BeginSetup(p)
  PROVE  SetupInv'
<1> USE RunFacts
<1> USE DEF SetupInv, BeginSetup, disk, Follows
<1>0. run + 1 \in Run
  BY DEF SetupTypeOK
<1>1. SetupTypeOK'
  <2>1. chosen' \in [Run -> Password \cup {Absent}]
    BY <1>0 DEF SetupTypeOK
  <2>2. run' \in 0..MaxRun /\ step' \in Steps
    BY <1>0 DEF SetupTypeOK, Steps, KeyFile
  <2>3. ListTypeOK'
    BY ListTypesStay DEF SetupTypeOK
  <2>. QED
    BY <2>1, <2>2, <2>3 DEF SetupTypeOK
<1>2. Begun'
  <2>1. ASSUME NEW r \in Run, r <= run' PROVE chosen'[r] \in Password
    <3>1. CASE r = run + 1
      BY <3>1, <1>0 DEF SetupTypeOK
    <3>2. CASE r # run + 1
      BY <2>1, <3>2, <1>0 DEF SetupTypeOK, Begun
    <3>. QED
      BY <3>1, <3>2
  <2>2. \A f \in KeyFile : file[f] \in Run => file[f] <= run'
    BY DEF SetupTypeOK, Begun
  <2>3. run' # 0 /\ (config.id \in Run => config.id <= run')
    BY DEF SetupTypeOK, Begun
  <2>. QED
    BY <2>1, <2>2, <2>3 DEF Begun
<1>3. Written' /\ KeysAreNewer' /\ Completed'
  BY DEF Written, KeysAreNewer, Completed, AfterSigning, AfterDh, AfterPub, AfterConfig
<1>4. PasswordIsOlder'
  <2>1. SUFFICES ASSUME keyring # Absent
                 PROVE  config.id \in Run /\ ChosenUpTo(keyring, config.id)'
    BY DEF PasswordIsOlder, ChosenUpTo
  <2>2. config.id \in Run /\ config.id <= run /\ ChosenUpTo(keyring, config.id)
    BY <2>1 DEF PasswordIsOlder, Begun
  <2>. QED
    BY <2>2, EarlierPasswordsStay DEF ChosenUpTo
<1>5. Uncrossed'
  <2>1. ~Saving("setup")' /\ ~Current'
    BY DEF Uncrossed, Saving, Current, listVars, AfterPub, AfterDh, AfterSigning
  <2>. QED
    BY <2>1 DEF Uncrossed
<1>. QED
  BY <1>1, <1>2, <1>3, <1>4, <1>5

(* A key file is emptied or written.                                       *)
LEMMA KeyFilesKeep ==
  ASSUME SetupInv, NEW f \in KeyFile, Truncate(f) \/ WriteKey(f)
  PROVE  SetupInv'
<1> USE RunFacts
<1> USE DEF SetupInv
<1>1. CASE Truncate(f)
  <2> USE <1>1 DEF Truncate
  <2>1. SetupTypeOK'
    BY ListTypesStay DEF SetupTypeOK, history
  <2>2. Begun' /\ KeysAreNewer'
    BY DEF SetupTypeOK, Begun, KeysAreNewer, KeyFile
  <2>3. Written' /\ Completed'
    BY DEF SetupTypeOK, Written, Completed, KeyFile, history,
           AfterSigning, AfterDh, AfterPub, AfterConfig
  <2>4. PasswordIsOlder'
    BY DEF PasswordIsOlder, ChosenUpTo
  <2>5. Uncrossed'
    <3>1. Current' => Current
      BY DEF Current, history
    <3>. QED
      BY <3>1, UncrossedStays DEF Uncrossed, history
  <2>. QED
    BY <2>1, <2>2, <2>3, <2>4, <2>5
<1>2. CASE WriteKey(f)
  <2> USE <1>2 DEF WriteKey, Follows
  <2>0. run \in Run /\ step # "idle"
    BY DEF SetupTypeOK, Begun, KeyFile
  <2>1. SetupTypeOK'
    <3>1. crossed' \in BOOLEAN
      BY ZenonT(10) DEF SetupTypeOK
    <3>2. step' \in Steps /\ file' \in [KeyFile -> Run \cup {Absent, Torn}]
      BY <2>0 DEF SetupTypeOK, Steps, KeyFile
    <3>3. ListTypeOK'
      BY ListTypesStay DEF SetupTypeOK
    <3>. QED
      BY <3>1, <3>2, <3>3 DEF SetupTypeOK
  <2>2. Begun' /\ KeysAreNewer'
    BY <2>0 DEF SetupTypeOK, Begun, KeysAreNewer, KeyFile
  <2>3. Written' /\ Completed'
    BY DEF SetupTypeOK, Written, Completed, KeyFile,
           AfterSigning, AfterDh, AfterPub, AfterConfig
  <2>4. PasswordIsOlder'
    BY DEF PasswordIsOlder, ChosenUpTo
  <2>5. Uncrossed'
    <3>1. step \in KeyFile /\ ~complete /\ ~Current
      BY DEF Completed, KeyFile, Current, AfterPub, AfterDh, AfterSigning
    <3>2. ~Saving("setup") /\ \A w : Saving(w)' = Saving(w)
      BY <3>1 DEF Uncrossed, KeyFile, Saving, listVars
    <3>3. CASE f # "pub"
      <4>1. ~Current'
        BY <3>1, <3>3 DEF Current, KeyFile, AfterPub, AfterDh, AfterSigning
      <4>. QED
        BY <3>2, <4>1 DEF Uncrossed
    <3>4. CASE f = "pub"
      <4>1. ~crossed' => ~Saving("daemon")
        BY <3>4
      <4>2. ~crossed' => \A w \in Writer : ~Saving(w)'
        BY <3>2, <4>1 DEF Writer
      <4>3. ~crossed' => \A w \in Writer : Sound(w)'
        BY <4>2 DEF Saving, Sound
      <4>. QED
        BY <3>2, <4>2, <4>3 DEF Uncrossed, Writer
    <3>. QED
      BY <3>3, <3>4
  <2>. QED
    BY <2>1, <2>2, <2>3, <2>4, <2>5
<1>. QED
  BY <1>1, <1>2

(* config.json and the password follow the keys.                           *)
LEMMA SaveConfigKeeps ==
  ASSUME SetupInv, SaveConfig
  PROVE  SetupInv'
<1> USE RunFacts
<1> USE DEF SetupInv, SaveConfig, Follows
<1>0. /\ run \in Run
      /\ file["signing"] = run /\ file["dh"] = run /\ file["pub"] = run
      /\ config' = [id |-> run, p2p |-> "default"]
      /\ ~complete
  BY DEF SetupTypeOK, Begun, Written, Completed, AfterSigning, AfterDh, AfterPub
<1>1. SetupTypeOK'
  <2>1. step' \in Steps /\ config' \in [id : Run \cup {Absent}, p2p : P2P]
    BY <1>0 DEF Steps, P2P
  <2>. QED
    BY <2>1, ListTypesStay DEF SetupTypeOK, history
<1>2. Begun' /\ KeysAreNewer' /\ Written' /\ Completed'
  BY <1>0 DEF SetupTypeOK, Begun, KeysAreNewer, Written, Completed, history,
              AfterSigning, AfterDh, AfterPub, AfterConfig
<1>3. PasswordIsOlder'
  <2>1. ASSUME keyring # Absent PROVE ChosenUpTo(keyring, run)'
    <3>1. PICK r \in Run : r <= config.id /\ chosen[r] = keyring
      BY <2>1 DEF PasswordIsOlder, ChosenUpTo
    <3>2. r <= run
      BY <3>1, <2>1, <1>0 DEF PasswordIsOlder, Begun
    <3>. QED
      BY <3>1, <3>2 DEF ChosenUpTo
  <2>. QED
    BY <2>1, <1>0 DEF PasswordIsOlder, ChosenUpTo
<1>4. Uncrossed'
  <2>1. Current /\ ~Saving("setup")
    BY DEF Current, Uncrossed, AfterPub, AfterDh, AfterSigning
  <2>. QED
    BY <2>1, UncrossedStays DEF history
<1>. QED
  BY <1>1, <1>2, <1>3, <1>4

LEMMA StorePasswordKeeps ==
  ASSUME SetupInv, StorePassword
  PROVE  SetupInv'
<1> USE RunFacts
<1> USE DEF SetupInv, StorePassword, disk, Follows
<1>0. run \in Run /\ config.id = run /\ ~complete /\ chosen[run] \in Password
  BY DEF SetupTypeOK, Begun, Written, Completed, AfterSigning, AfterDh, AfterPub, AfterConfig
<1>1. SetupTypeOK'
  <2>1. step' \in Steps /\ keyring' \in Password \cup {Absent}
    BY <1>0 DEF SetupTypeOK, Steps
  <2>. QED
    BY <2>1, ListTypesStay DEF SetupTypeOK, history
<1>2. Begun' /\ KeysAreNewer' /\ Written' /\ Completed'
  BY <1>0 DEF Begun, KeysAreNewer, Written, Completed, history,
              AfterSigning, AfterDh, AfterPub, AfterConfig
<1>3. PasswordIsOlder'
  <2>1. CASE keyring' = chosen[run]
    BY <2>1, <1>0 DEF PasswordIsOlder, ChosenUpTo
  <2>2. CASE keyring' = keyring
    BY <2>2 DEF PasswordIsOlder, ChosenUpTo
  <2>. QED
    BY <2>1, <2>2
<1>4. Uncrossed'
  <2>1. Current /\ ~Saving("setup")
    BY DEF Current, Uncrossed, AfterPub, AfterDh, AfterSigning
  <2>. QED
    BY <2>1, UncrossedStays DEF history
<1>. QED
  BY <1>1, <1>2, <1>3, <1>4

(* Setup's own save: it begins with the signing.pub of this run, and at    *)
(* its end the setup may be complete.                                      *)
LEMMA AddDeviceKeeps ==
  ASSUME SetupInv, AddDevice \/ WriteDevices \/ DevicesSaved
  PROVE  SetupInv'
<1> USE RunFacts
<1> USE DEF SetupInv
<1>0. /\ step = "devices" /\ run \in Run /\ config.id = run /\ ~complete /\ Current
      /\ \A f \in KeyFile : file[f] = run
      /\ UNCHANGED <<run, chosen, file, config, keyring, installed>>
  <2>1. step = "devices"
    BY DEF AddDevice, WriteDevices, DevicesSaved, OpenTmp, WriteTmp, Uncrossed, Saving
  <2>. QED
    BY <2>1 DEF SetupTypeOK, Begun, Written, KeyFile, Completed, Current,
                AfterSigning, AfterDh, AfterPub, AfterConfig,
                AddDevice, WriteDevices, DevicesSaved
<1>1. /\ ListTypeOK' /\ Uncrossed' /\ step' \in {"devices", "unit"}
      /\ complete' \in BOOLEAN /\ crossed' \in BOOLEAN
      /\ complete' => /\ step' = "unit" /\ keyring' = chosen[run]
                      /\ ~crossed' => devices' = run
  <2>1. CASE AddDevice
    <3>1. crossed' \in BOOLEAN
      BY <2>1, ZenonT(10) DEF AddDevice, SetupTypeOK
    <3>2. step' = step /\ complete' = complete /\ BeginSave("setup", file["pub"])
      BY <2>1 DEF AddDevice
    <3>3. ListTypeOK' /\ Uncrossed'
      BY <1>0, <2>1, <3>2, BegunSaves DEF AddDevice, Writer
    <3>. QED
      BY <1>0, <3>1, <3>2, <3>3 DEF SetupTypeOK
  <2>2. CASE WriteDevices
    <3>1. /\ step' = step /\ complete' = complete /\ crossed' = crossed
          /\ OpenTmp("setup") \/ WriteTmp("setup")
      BY <2>2 DEF WriteDevices, history
    <3>2. Saving("setup")
      BY <3>1 DEF OpenTmp, WriteTmp, Saving
    <3>3. ListTypeOK' /\ Uncrossed'
      BY <1>0, <3>1, <3>2, SavesGoOn DEF Writer
    <3>. QED
      BY <1>0, <3>1, <3>3 DEF SetupTypeOK
  <2>3. CASE DevicesSaved
    <3>1. /\ step' = "unit" /\ complete' = (keyring = chosen[run]) /\ crossed' = crossed
          /\ Replace("setup") /\ save["setup"].pc = "written" /\ devices' = tmp
      BY <1>0, <2>3 DEF DevicesSaved, Follows, Replace
    <3>2. Saving("setup") /\ ~Saving("setup")'
      <4>1. save'["setup"] = NoSave
        BY <3>1 DEF Replace, Writer
      <4>. QED
        BY <3>1, <4>1 DEF Saving, NoSave
    <3>3. ListTypeOK' /\ Uncrossed'
      BY <1>0, <3>1, <3>2, SavesGoOn DEF Writer
    <3>4. ~crossed => tmp = run
      BY <1>0, <3>1 DEF Uncrossed, Sound, Writer
    <3>5. complete' \in BOOLEAN
      BY <3>1, ZenonT(10)
    <3>. QED
      BY <1>0, <3>1, <3>3, <3>4, <3>5 DEF SetupTypeOK
  <2>. QED
    BY <2>1, <2>2, <2>3
<1>2. SetupTypeOK'
  BY <1>0, <1>1 DEF SetupTypeOK, Steps
<1>3. Begun' /\ KeysAreNewer' /\ Written'
  BY <1>0, <1>1 DEF Begun, KeysAreNewer, Written, KeyFile,
                    AfterSigning, AfterDh, AfterPub, AfterConfig
<1>4. PasswordIsOlder'
  BY <1>0 DEF PasswordIsOlder, ChosenUpTo
<1>5. Completed'
  BY <1>0, <1>1 DEF Completed, CompleteSetupLoads, KeyFile
<1>. QED
  BY <1>1, <1>2, <1>3, <1>4, <1>5

(* What neither writes a key nor config.json nor the keyring.              *)
LEMMA OtherSetupStepsKeep ==
  ASSUME SetupInv, InstallUnit \/ Interrupt \/ SetupStarts
  PROVE  SetupInv'
<1> USE DEF SetupInv, disk, Follows
<1> DEFINE Fits ==
             /\ step # "idle" /\ step' \in {"start", "idle"}
             /\ step \in AfterConfig \/ step' = "idle"
             /\ installed' \in BOOLEAN
             /\ UNCHANGED <<run, chosen, file, config, devices, keyring, complete, crossed>>
<1>1. Fits
  <2>1. CASE InstallUnit
    BY <2>1 DEF InstallUnit, SetupTypeOK, AfterSigning, AfterDh, AfterPub, AfterConfig,
                history, listVars
  <2>2. CASE Interrupt
    BY <2>2 DEF Interrupt, SetupTypeOK, history, EndSave
  <2>3. CASE SetupStarts
    BY <2>3 DEF SetupStarts, SetupTypeOK, history, listVars
  <2>. QED
    BY <2>1, <2>2, <2>3
<1>2. ListTypeOK' /\ Uncrossed'
  <2>1. Current' => Current
    BY <1>1 DEF Current, AfterConfig, AfterPub, AfterDh, AfterSigning
  <2>2. CASE Interrupt
    <3>1. ~Saving("setup")' /\ EndSave("setup")
      BY <2>2 DEF Interrupt, EndSave, Saving, NoSave, Writer, SetupTypeOK, ListTypeOK
    <3>. QED
      BY <1>1, <2>1, <3>1, SavesGoOn DEF Writer
  <2>3. CASE InstallUnit \/ SetupStarts
    <3>1. UNCHANGED listVars /\ ~Saving("setup")
      BY <2>3 DEF InstallUnit, SetupStarts, Uncrossed
    <3>. QED
      BY <1>1, <2>1, <3>1, ListTypesStay, UncrossedStays DEF SetupTypeOK
  <2>. QED
    BY <2>2, <2>3
<1>3. SetupTypeOK'
  BY <1>1, <1>2 DEF SetupTypeOK, Steps
<1>4. Begun' /\ KeysAreNewer'
  BY <1>1 DEF Begun, KeysAreNewer
<1>5. Written'
  BY <1>1 DEF Written, AfterSigning, AfterDh, AfterPub, AfterConfig
<1>6. PasswordIsOlder' /\ Completed'
  BY <1>1 DEF PasswordIsOlder, Completed, CompleteSetupLoads, ChosenUpTo
<1>. QED
  BY <1>2, <1>3, <1>4, <1>5, <1>6

(* A save of the daemon.                                                   *)
LEMMA DaemonSavesKeep ==
  ASSUME SetupInv, ApproveDevice \/ SaveDevices \/ Kill
  PROVE  SetupInv'
<1> USE DEF SetupInv
<1>0. /\ UNCHANGED <<run, chosen, step, file, config, keyring, installed, complete>>
      /\ Current' = Current
  BY DEF ApproveDevice, SaveDevices, Kill, history, Current
<1>1. /\ ListTypeOK' /\ Uncrossed' /\ crossed' \in BOOLEAN
      /\ complete /\ ~crossed' => devices' = run
  <2>0. complete /\ ~crossed => devices = run
    BY DEF Completed, CompleteSetupLoads
  <2>1. CASE ApproveDevice
    <3>1. crossed' \in BOOLEAN
      BY <2>1, ZenonT(10) DEF ApproveDevice, SetupTypeOK
    <3>2. ListTypeOK' /\ Uncrossed'
      BY <1>0, <2>1, BegunSaves DEF ApproveDevice, Writer
    <3>3. devices' = devices /\ (~crossed' => ~crossed)
      BY <2>1 DEF ApproveDevice, BeginSave
    <3>. QED
      BY <2>0, <3>1, <3>2, <3>3
  <2>2. CASE SaveDevices \/ Kill
    <3>1. /\ crossed' = crossed
          /\ OpenTmp("daemon") \/ WriteTmp("daemon") \/ Replace("daemon") \/ EndSave("daemon")
          /\ ~EndSave("daemon") => Saving("daemon")
      BY <2>2 DEF SaveDevices, Kill, history, OpenTmp, WriteTmp, Replace, Saving
    <3>2. Saving("setup")' => step' = "devices"
      <4>1. save'["setup"].pc = save["setup"].pc
        BY <3>1 DEF OpenTmp, WriteTmp, Replace, EndSave, Writer, SetupTypeOK, ListTypeOK
      <4>. QED
        BY <1>0, <4>1 DEF Uncrossed, Saving
    <3>3. /\ ListTypeOK' /\ Uncrossed'
          /\ EndSave("daemon") => devices' = devices
          /\ Current /\ ~crossed /\ Saving("daemon") => devices' = devices \/ devices' = run
      BY <1>0, <3>1, <3>2, SavesGoOn DEF Writer
    <3>4. complete /\ ~crossed => devices' = run
      BY <2>0, <3>1, <3>3 DEF Current
    <3>. QED
      BY <3>1, <3>3, <3>4 DEF SetupTypeOK
  <2>. QED
    BY <2>1, <2>2
<1>2. SetupTypeOK'
  BY <1>0, <1>1 DEF SetupTypeOK
<1>3. Begun' /\ KeysAreNewer' /\ Written' /\ PasswordIsOlder'
  BY <1>0 DEF Begun, KeysAreNewer, Written, PasswordIsOlder, ChosenUpTo
<1>4. Completed'
  BY <1>0, <1>1 DEF Completed, CompleteSetupLoads
<1>. QED
  BY <1>1, <1>2, <1>3, <1>4

(* What the owner and the machine do to the disk.                          *)
LEMMA ConfigAndPowerKeep ==
  ASSUME SetupInv, EditConfig \/ PowerOff
  PROVE  SetupInv'
<1> USE RunFacts
<1> USE DEF SetupInv, disk
<1>2. CASE EditConfig
  <2> USE <1>2 DEF EditConfig
  <2>1. SetupTypeOK' /\ config'.id = config.id
    BY ListTypesStay DEF SetupTypeOK, P2P, history
  <2>2. Begun' /\ KeysAreNewer' /\ Written' /\ PasswordIsOlder' /\ Completed'
    BY <2>1 DEF Begun, KeysAreNewer, Written, PasswordIsOlder, ChosenUpTo, Completed,
                CompleteSetupLoads, history, listVars
  <2>3. Uncrossed'
    <3>1. Current' => Current
      BY DEF Current, history
    <3>. QED
      BY <3>1, UncrossedStays DEF Uncrossed, history
  <2>. QED
    BY <2>1, <2>2, <2>3
<1>3. CASE PowerOff
  <2> USE <1>3 DEF PowerOff
  <2>0. \A w \in Writer : save'[w] = NoSave
    OBVIOUS
  <2>1. SetupTypeOK'
    <3>1. ListTypeOK'
      <4>1. save' \in [Writer -> [pc : {"idle", "tagged", "open", "written"}, tag : Tag, fd : Name]]
        BY DEF NoSave, Tag, Name
      <4>. QED
        BY <4>1 DEF SetupTypeOK, ListTypeOK
    <3>. QED
      BY <3>1 DEF SetupTypeOK, Steps, history
  <2>2. Begun' /\ KeysAreNewer' /\ PasswordIsOlder'
    BY DEF Begun, KeysAreNewer, PasswordIsOlder
  <2>3. Written' /\ Completed'
    BY DEF Written, Completed, CompleteSetupLoads, history,
           AfterSigning, AfterDh, AfterPub, AfterConfig
  <2>4. Uncrossed'
    <3>1. \A w \in Writer : ~Saving(w)' /\ Sound(w)'
      BY <2>0 DEF Saving, Sound, NoSave
    <3>. QED
      BY <3>1 DEF Uncrossed, Writer
  <2>. QED
    BY <2>1, <2>2, <2>3, <2>4
<1>. QED
  BY <1>2, <1>3

LEMMA InstallAndRemoveKeep ==
  ASSUME SetupInv, UserInstall \/ UserRemove
  PROVE  SetupInv'
<1>1. installed' \in BOOLEAN
  BY DEF UserInstall, UserRemove
<1>2. UNCHANGED <<run, chosen, step, file, config, listVars, keyring, complete, crossed>>
  BY DEF UserInstall, UserRemove, disk, history
<1>3. ListTypeOK' /\ Uncrossed'
  <2>1. Current' => Current
    BY <1>2 DEF Current
  <2>. QED
    BY <1>2, <2>1, ListTypesStay, UncrossedStays DEF SetupInv, SetupTypeOK, Uncrossed
<1>4. SetupTypeOK' /\ Begun' /\ Written' /\ KeysAreNewer'
  BY <1>1, <1>2, <1>3 DEF SetupInv, SetupTypeOK, Begun, Written, KeysAreNewer
<1>5. PasswordIsOlder' /\ Completed'
  BY <1>2 DEF SetupInv, PasswordIsOlder, Completed, CompleteSetupLoads, ChosenUpTo, listVars
<1>. QED
  BY <1>3, <1>4, <1>5 DEF SetupInv

(* All steps of the daemon and of systemd that leave the setup alone.      *)
LEMMA UntouchedSetupKeeps ==
  ASSUME SetupInv, UNCHANGED setupVars
  PROVE  SetupInv'
<1>1. /\ UNCHANGED <<run, chosen, step, file, config, keyring, installed, complete, crossed>>
      /\ UNCHANGED listVars /\ devices' = devices
  BY DEF setupVars, disk, history, listVars
<1>2. ListTypeOK' /\ Uncrossed'
  <2>1. Current' => Current
    BY <1>1 DEF Current
  <2>. QED
    BY <1>1, <2>1, ListTypesStay, UncrossedStays DEF SetupInv, SetupTypeOK, Uncrossed
<1>3. SetupTypeOK'
  BY <1>1, <1>2 DEF SetupInv, SetupTypeOK
<1>4. Begun' /\ Written' /\ KeysAreNewer' /\ PasswordIsOlder' /\ Completed'
  BY <1>1 DEF SetupInv, Begun, Written, KeysAreNewer, PasswordIsOlder, Completed,
              CompleteSetupLoads, ChosenUpTo
<1>. QED
  BY <1>2, <1>3, <1>4 DEF SetupInv

LEMMA SetupKept ==
  ASSUME SetupInv, [Next]_vars
  PROVE  SetupInv'
<1>1. CASE SetupStep
  BY <1>1, BeginSetupKeeps, KeyFilesKeep, SaveConfigKeeps, StorePasswordKeeps,
     AddDeviceKeeps, OtherSetupStepsKeep DEF SetupStep
<1>2. CASE SetupStarts
  BY <1>2, OtherSetupStepsKeep
<1>3. CASE EditConfig \/ PowerOff
  BY <1>3, ConfigAndPowerKeep
<1>6. CASE ApproveDevice \/ SaveDevices \/ Kill
  BY <1>6, DaemonSavesKeep
<1>4. CASE UserInstall \/ UserRemove
  BY <1>4, InstallAndRemoveKeep
<1>5. CASE \/ UserStart \/ AutoRestart \/ IntervalPasses \/ ProcessStep
           \/ UserStop \/ MainLoopEnds \/ UNCHANGED vars
  <2>1. UNCHANGED setupVars
    BY <1>5 DEF UserStart, AutoRestart, IntervalPasses, ProcessStep, UserStop,
                MainLoopEnds, vars, CheckConfig, ReadPassword, ReadConfig,
                ReadKey, ReadDevices, StartP2P, StartTelegram, GoOn, Exit
  <2>. QED
    BY <2>1, UntouchedSetupKeeps
<1>. QED
  BY <1>1, <1>2, <1>3, <1>4, <1>5, <1>6 DEF Next

-----------------------------------------------------------------------------
(* Types of the process.                                                   *)
LEMMA LaunchTypes ==
  ASSUME NEW n \in 0..Burst, Launch(n)
  PROVE  phase' \in {"begin", "failed"} /\ starts' \in 0..Burst /\ mem' = NoMem
BY ServiceAssumption DEF ServiceAssumption, Launch

LEMMA TypesKept ==
  ASSUME TypeOK, SetupTypeOK', [Next]_vars
  PROVE  TypeOK'
<1> DEFINE Mem == [pwd : Password \cup {Absent}, id : Run \cup {Absent}, p2p : P2P,
                   signing : Run \cup {Absent}, dh : Run \cup {Absent}]
           Phase == Starting \cup Up \cup Exits \cup Down
<1> SUFFICES phase' \in Phase /\ starts' \in 0..Burst /\ waits' \in 0..1 /\ mem' \in Mem
  BY DEF TypeOK, Delays
<1>0. NoMem \in Mem
  BY DEF NoMem, P2P
<1>a. starts \in 0..Burst /\ 0 \in 0..Burst /\ waits \in 0..1
  BY ServiceAssumption DEF ServiceAssumption, TypeOK, Delays
<1>1. CASE \/ Launch(starts) /\ UNCHANGED waits
           \/ AutoRestart
  <2>1. waits' \in 0..1 /\ \E n \in 0..Burst : Launch(n)
    BY <1>1, <1>a DEF AutoRestart, Delays
  <2>. QED
    BY <1>0, <2>1, LaunchTypes DEF Starting, Down
<1>2. CASE UNCHANGED process
  BY <1>2, <1>a DEF TypeOK, process, unit
<1>3. CASE IntervalPasses \/ PowerOff
  BY <1>3, <1>0, <1>a, ServiceAssumption
  DEF ServiceAssumption, IntervalPasses, PowerOff, TypeOK, Down
<1>4. ASSUME NEW next \in Phase, GoOn(next, mem) \/ Exit(next)
      PROVE  phase' \in Phase /\ starts' \in 0..Burst /\ waits' \in 0..1 /\ mem' \in Mem
  BY <1>4, <1>0, <1>a DEF GoOn, Exit, TypeOK, unit
<1>5. CASE CheckConfig \/ ReadDevices \/ StartP2P \/ StartTelegram
           \/ UserStop \/ MainLoopEnds
  <2>1. \E next \in Phase : GoOn(next, mem) \/ Exit(next)
    BY <1>5 DEF CheckConfig, ReadDevices, StartP2P, StartTelegram, UserStop,
                MainLoopEnds, Exit, Starting, Up, Exits, Down
  <2>. QED
    BY <2>1, <1>4
<1>6. CASE ReadPassword
  <2>1. \/ Exit("no_password")
        \/ GoOn("config", [mem EXCEPT !.pwd = keyring])
    BY <1>6 DEF ReadPassword
  <2>2. [mem EXCEPT !.pwd = keyring] \in Mem
    BY DEF TypeOK, SetupTypeOK
  <2>. QED
    BY <2>1, <2>2, <1>4, <1>a DEF GoOn, TypeOK, Starting, Exits, unit
<1>7. CASE ReadConfig
  <2>1. [mem EXCEPT !.id = config.id, !.p2p = config.p2p] \in Mem
    BY DEF TypeOK, SetupTypeOK
  <2>. QED
    BY <1>7, <2>1, <1>a DEF ReadConfig, GoOn, TypeOK, Starting, unit
<1>8. CASE ReadKey("signing", "dh") \/ ReadKey("dh", "peers")
  <2>1. ASSUME NEW r \in Run
        PROVE  [mem EXCEPT !.signing = r] \in Mem /\ [mem EXCEPT !.dh = r] \in Mem
    BY DEF TypeOK
  <2>2. \/ Exit("bad_key")
        \/ \E r \in Run : GoOn("dh", [mem EXCEPT !.signing = r])
        \/ \E r \in Run : GoOn("peers", [mem EXCEPT !.dh = r])
    BY <1>8 DEF ReadKey, Opens
  <2>. QED
    BY <2>1, <2>2, <1>4, <1>a DEF GoOn, TypeOK, Starting, Exits, unit
<1>9. CASE Kill
  BY <1>9, <1>0, <1>a DEF Kill, Exits, Down, unit
<1>. QED
  BY <1>1, <1>2, <1>3, <1>5, <1>6, <1>7, <1>8, <1>9
  DEF Next, ProcessStep, SetupStarts, StartUnit, UserStart, ApproveDevice, SaveDevices,
      EditConfig, UserInstall, UserRemove, vars

-----------------------------------------------------------------------------
(* What the daemon has read only gets older.                               *)
LEMMA RunsOnlyAdvance ==
  ASSUME SetupInv, [Next]_vars
  PROVE  /\ run <= run'
         /\ \A r \in Run : r <= run => chosen'[r] = chosen[r]
         /\ config.id \in Run => config'.id \in Run /\ config.id <= config'.id
<1> USE RunFacts
<1>1. CASE \E p \in Password : BeginSetup(p)
  BY <1>1 DEF BeginSetup, SetupInv, SetupTypeOK, disk
<1>2. CASE SaveConfig
  BY <1>2 DEF SaveConfig, SetupInv, SetupTypeOK, Begun
<1>3. CASE EditConfig
  BY <1>3 DEF EditConfig, SetupInv, SetupTypeOK
<1>4. CASE UNCHANGED <<run, chosen, config>>
  BY <1>4 DEF SetupInv, SetupTypeOK
<1>. QED
  BY <1>1, <1>2, <1>3, <1>4
  DEF Next, SetupStep, Truncate, WriteKey, StorePassword, AddDevice, WriteDevices,
      DevicesSaved, InstallUnit,
      Interrupt, SetupStarts, UserStart, AutoRestart, IntervalPasses, ProcessStep,
      ApproveDevice, SaveDevices, UserStop, MainLoopEnds, Kill, PowerOff, vars, setupVars, disk,
      UserInstall, UserRemove,
      CheckConfig, ReadPassword, ReadConfig, ReadKey, ReadDevices, StartP2P,
      StartTelegram, GoOn, Exit

(* So what holds of the memory stays true as long as it is not changed.    *)
LEMMA MemoryKeeps ==
  ASSUME SetupInv, Remembered, [Next]_vars, mem' = mem,
         phase' = phase \/ (phase = "running" /\ phase' = "stopping")
  PROVE  Remembered'
<1> USE RunFacts, RunsOnlyAdvance
<1>0. run \in Nat /\ (config.id \in Run => config.id <= run)
  BY DEF SetupInv, SetupTypeOK, Begun
<1>1. /\ phase' \in KnowsPassword => phase \in KnowsPassword
      /\ phase' \in KnowsId => phase \in KnowsId
      /\ phase' \in KnowsSigning => phase \in KnowsSigning
      /\ phase' \in KnowsDh => phase \in KnowsDh
      /\ phase \in KnowsId => phase \in KnowsPassword
      /\ phase \in KnowsDh => phase \in KnowsSigning
      /\ phase \in KnowsSigning => phase \in KnowsId
  BY DEF KnowsPassword, KnowsId, KnowsSigning, KnowsDh, Up
<1>2. ASSUME NEW i \in Run, i <= config.id, config.id \in Run, ChosenUpTo(mem.pwd, i)
      PROVE  ChosenUpTo(mem.pwd, i)'
  <2>1. PICK r \in Run : r <= i /\ chosen[r] = mem.pwd
    BY <1>2 DEF ChosenUpTo
  <2>2. chosen'[r] = chosen[r]
    BY <2>1, <1>2, <1>0
  <2>. QED
    BY <2>1, <2>2 DEF ChosenUpTo
<1>3. ASSUME phase \in KnowsPassword
      PROVE  config'.id \in Run /\ ChosenUpTo(mem.pwd, config.id)'
  <2>1. PICK r \in Run : r <= config.id /\ chosen[r] = mem.pwd
    BY <1>3 DEF Remembered, ChosenUpTo
  <2>2. config.id \in Run /\ config'.id \in Run /\ config.id <= config'.id
    BY <1>3 DEF Remembered
  <2>3. chosen'[r] = mem.pwd /\ r <= config'.id
    BY <2>1, <2>2, <1>0
  <2>. QED
    BY <2>2, <2>3 DEF ChosenUpTo
<1>4. ASSUME phase \in KnowsId
      PROVE  mem.id \in Run /\ mem.id <= config'.id /\ ChosenUpTo(mem.pwd, mem.id)'
  <2>1. /\ mem.id \in Run /\ mem.id <= config.id /\ config.id \in Run
        /\ ChosenUpTo(mem.pwd, mem.id)
    BY <1>4, <1>1 DEF Remembered
  <2>. QED
    BY <2>1, <1>2 DEF ChosenUpTo
<1>5. ASSUME NEW key, Opened(key)
      PROVE  Opened(key)'
  BY <1>5, <1>0, SetupKept DEF Opened, SetupInv, SetupTypeOK
<1>. QED
  BY <1>1, <1>3, <1>4, <1>5 DEF Remembered, ChosenUpTo

(* A step of the start that reads something.                               *)
LEMMA ReadingKeeps ==
  ASSUME TypeOK, SetupInv, Remembered, ProcessStep
  PROVE  Remembered'
<1> USE RunFacts
<1> USE DEF GoOn, Exit
<1>0. ASSUME phase' \notin KnowsPassword
      PROVE  Remembered'
  BY <1>0 DEF Remembered, KnowsPassword, KnowsId, KnowsSigning, KnowsDh
<1>1. UNCHANGED setupVars
  BY DEF ProcessStep, CheckConfig, ReadPassword, ReadConfig, ReadKey, ReadDevices,
         StartP2P, StartTelegram
<1> USE DEF setupVars, disk
<1>2. CASE phase' \notin KnowsPassword
  BY <1>2, <1>0
<1>3. CASE ReadPassword /\ phase' \in KnowsPassword
  <2>1. phase' = "config" /\ keyring # Absent /\ mem' = [mem EXCEPT !.pwd = keyring]
    BY <1>3 DEF ReadPassword, KnowsPassword, Up
  <2>2. mem'.pwd = keyring
    BY <2>1 DEF TypeOK
  <2>. QED
    BY <1>1, <2>1, <2>2
    DEF Remembered, SetupInv, PasswordIsOlder, ChosenUpTo, KnowsId, KnowsSigning, KnowsDh
<1>4. CASE ReadConfig
  <2>1. /\ phase = "config" /\ phase' = "signing"
        /\ mem' = [mem EXCEPT !.id = config.id, !.p2p = config.p2p]
    BY <1>4 DEF ReadConfig
  <2>2. mem'.pwd = mem.pwd /\ mem'.id = config.id
    BY <2>1 DEF TypeOK
  <2>3. config.id \in Run /\ ChosenUpTo(mem.pwd, config.id)
    BY <2>1 DEF Remembered, KnowsPassword
  <2>. QED
    BY <1>1, <2>1, <2>2, <2>3
    DEF Remembered, ChosenUpTo, KnowsPassword, KnowsId, KnowsSigning, KnowsDh
<1>5. CASE ReadKey("signing", "dh") /\ phase' \in KnowsPassword
  <2>1. /\ phase = "signing" /\ phase' = "dh"
        /\ mem' = [mem EXCEPT !.signing = file["signing"]]
        /\ file["signing"] \in Run /\ chosen[file["signing"]] = mem.pwd
    BY <1>5 DEF ReadKey, Opens, KnowsPassword, Up
  <2>2. mem'.pwd = mem.pwd /\ mem'.id = mem.id /\ mem'.signing = file["signing"]
    BY <2>1 DEF TypeOK
  <2>3. /\ config.id \in Run /\ ChosenUpTo(mem.pwd, config.id)
        /\ mem.id \in Run /\ mem.id <= config.id /\ ChosenUpTo(mem.pwd, mem.id)
    BY <2>1 DEF Remembered, KnowsPassword, KnowsId
  <2>4. file["signing"] <= run /\ mem.id <= file["signing"]
    BY <2>1, <2>3 DEF SetupInv, Begun, KeysAreNewer, KeyFile
  <2>. QED
    BY <1>1, <2>1, <2>2, <2>3, <2>4
    DEF Remembered, Opened, ChosenUpTo, KnowsPassword, KnowsId, KnowsSigning, KnowsDh
<1>6. CASE ReadKey("dh", "peers") /\ phase' \in KnowsPassword
  <2>1. /\ phase = "dh" /\ phase' = "peers"
        /\ mem' = [mem EXCEPT !.dh = file["dh"]]
        /\ file["dh"] \in Run /\ chosen[file["dh"]] = mem.pwd
    BY <1>6 DEF ReadKey, Opens, KnowsPassword, Up
  <2>2. mem'.pwd = mem.pwd /\ mem'.id = mem.id /\ mem'.signing = mem.signing /\ mem'.dh = file["dh"]
    BY <2>1 DEF TypeOK
  <2>3. /\ config.id \in Run /\ ChosenUpTo(mem.pwd, config.id)
        /\ mem.id \in Run /\ mem.id <= config.id /\ ChosenUpTo(mem.pwd, mem.id)
        /\ Opened(mem.signing)
    BY <2>1 DEF Remembered, KnowsPassword, KnowsId, KnowsSigning
  <2>4. file["dh"] <= run /\ mem.id <= file["dh"]
    BY <2>1, <2>3 DEF SetupInv, Begun, KeysAreNewer, KeyFile
  <2>. QED
    BY <1>1, <2>1, <2>2, <2>3, <2>4
    DEF Remembered, Opened, ChosenUpTo, KnowsPassword, KnowsId, KnowsSigning, KnowsDh
<1>7. CASE (ReadDevices \/ StartP2P \/ StartTelegram) /\ phase' \in KnowsPassword
  <2>1. phase \in {"peers", "p2p", "telegram"} /\ mem' = mem
    BY <1>7 DEF ReadDevices, StartP2P, StartTelegram, KnowsPassword, Up
  <2>. QED
    BY <1>1, <2>1
    DEF Remembered, Opened, ChosenUpTo, KnowsPassword, KnowsId, KnowsSigning, KnowsDh, Up
<1>8. CASE CheckConfig
  BY <1>8, <1>0 DEF CheckConfig, KnowsPassword, Up
<1>. QED
  BY <1>2, <1>3, <1>4, <1>5, <1>6, <1>7, <1>8 DEF ProcessStep

LEMMA RememberedKept ==
  ASSUME TypeOK, SetupInv, Remembered, [Next]_vars
  PROVE  Remembered'
<1>0. ASSUME phase' \notin KnowsPassword
      PROVE  Remembered'
  BY <1>0 DEF Remembered, KnowsPassword, KnowsId, KnowsSigning, KnowsDh
<1>1. CASE (\E n : Launch(n)) \/ AutoRestart \/ PowerOff \/ Kill \/ MainLoopEnds
  BY <1>1, <1>0 DEF AutoRestart, Launch, PowerOff, Kill, MainLoopEnds, GoOn, Exit, KnowsPassword, Up
<1>2. CASE \/ UNCHANGED process \/ IntervalPasses
  BY <1>2, MemoryKeeps DEF IntervalPasses, process
<1>3. CASE UserStop
  <2>1. \/ phase' \notin KnowsPassword
        \/ mem' = mem /\ phase = "running" /\ phase' = "stopping"
    BY <1>3 DEF UserStop, GoOn, KnowsPassword, Up
  <2>. QED
    BY <2>1, <1>0, MemoryKeeps
<1>4. CASE ProcessStep
  BY <1>4, ReadingKeeps
<1>. QED
  BY <1>1, <1>2, <1>3, <1>4
  DEF Next, SetupStarts, StartUnit, UserStart, ApproveDevice, SaveDevices, EditConfig,
      UserInstall, UserRemove, vars

-----------------------------------------------------------------------------
(* The runs of what a daemon has in memory and on disk are in order at     *)
(* every step of setup and daemon (main of init.py, DeviceManager.load).   *)
THEOREM ServiceInvariant == Spec => []ServiceInv
<1>1. Init => ServiceInv
  BY ServiceBegins
<1>2. ServiceInv /\ [Next]_vars => ServiceInv'
  <2> SUFFICES ASSUME ServiceInv, [Next]_vars PROVE ServiceInv'
    OBVIOUS
  <2>1. SetupInv'
    BY SetupKept DEF ServiceInv
  <2>2. TypeOK'
    BY <2>1, TypesKept DEF ServiceInv, SetupInv
  <2>3. Remembered'
    BY RememberedKept DEF ServiceInv
  <2>. QED
    BY <2>1, <2>2, <2>3 DEF ServiceInv
<1>. QED
  BY <1>1, <1>2, PTL DEF Spec

(* Files, keyring, unit and process have their types.                      *)
THEOREM ServiceTypes == Spec => []TypeOK
BY ServiceInvariant, PTL DEF ServiceInv

(* What a finished run of init.py leaves can be loaded, whatever earlier   *)
(* runs have written, and a running daemon too, as long as no save of its  *)
(* devices.json crosses setup's signing.pub or setup's own save.           *)
THEOREM CompleteSetupsLoad == Spec => []CompleteSetupLoads
<1>1. ServiceInv => CompleteSetupLoads
  BY DEF ServiceInv, SetupInv, Completed, CompleteSetupLoads
<1>. QED
  BY <1>1, ServiceInvariant, PTL

(* A daemon has its id and its keys from one run of init.py, when no       *)
(* password was used for two of them.                                      *)
THEOREM IdentitiesAreWhole == Spec => []IdentityIsWhole
<1>1. ServiceInv => IdentityIsWhole
  <2>1. SUFFICES ASSUME ServiceInv, phase \in Up,
                        \A r, s \in 1..run : chosen[r] = chosen[s] => r = s
                 PROVE  mem.id = mem.signing /\ mem.signing = mem.dh
    BY DEF IdentityIsWhole
  <2>2. /\ mem.id \in Run /\ mem.id <= config.id /\ config.id <= run
        /\ ChosenUpTo(mem.pwd, mem.id) /\ Opened(mem.signing) /\ Opened(mem.dh)
    BY <2>1 DEF ServiceInv, SetupInv, Begun, Remembered, KnowsPassword, KnowsId,
                KnowsSigning, KnowsDh, Up
  <2>3. PICK r \in Run : r <= mem.id /\ chosen[r] = mem.pwd
    BY <2>2 DEF ChosenUpTo
  <2>4. config.id \in Run /\ run \in Nat
    BY <2>1 DEF ServiceInv, SetupInv, SetupTypeOK, Remembered, KnowsPassword, Up
  <2>5. r \in 1..run /\ mem.signing \in 1..run /\ mem.dh \in 1..run
    BY <2>2, <2>3, <2>4, RunFacts DEF Opened
  <2>6. r = mem.signing /\ r = mem.dh
    BY <2>1, <2>2, <2>3, <2>5 DEF Opened
  <2>. QED
    BY <2>2, <2>3, <2>6, RunFacts DEF Opened
<1>. QED
  BY <1>1, ServiceInvariant, PTL
=============================================================================
