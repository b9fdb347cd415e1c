------------------------- MODULE ConfigManagerProofs -------------------------
(***************************************************************************)
(* Proofs about the two files of config/manager.py: devices.json with the  *)
(* memory of the daemon (DeviceRegistry), for any set of devices, and      *)
(* config.json with the programs that save it (ConfigStore), for any       *)
(* number of programs, files and values.                                   *)
(***************************************************************************)
EXTENDS DeviceRegistry, ConfigStore, TLAPS

(***************************************************************************)
(* DeviceRegistry                                                          *)
(***************************************************************************)

(* A damaged entry is unknown to the memory, unless the damage came later. *)
DamagedIsUnknown ==
  \A d \in Device : entry[d] = "damaged" => peers[d] = "none" \/ d \in edited

(* The properties of the runs, and what keeps them: a daemon that is down  *)
(* has no peers in memory, and no damaged entry is ever approved.          *)
RegInv ==
  /\ RegistryTypeOK
  /\ ~up => peers = Nobody
  /\ ApprovalIsDurable
  /\ DeniedStaysOut
  /\ DamagedIsUnknown

(* Every initial state satisfies the invariant.                            *)
LEMMA InitReg == RegistryInit => RegInv
BY DEF RegistryInit, RegInv, RegistryTypeOK, Nobody, Entries, ApprovalIsDurable, DeniedStaysOut, DamagedIsUnknown, NoAnswer

(* The file after approve_device: a device that is not listed is not added. *)
LEMMA RewriteTypes ==
  ASSUME RegistryTypeOK, DeniedStaysOut, NEW d \in Device, Rewrite(d)
  PROVE  /\ entry' \in [Device -> Entries]
         /\ mac' = "good"
         /\ DeniedStaysOut'
<1>1. /\ entry[d] \in Entries
      /\ entry' = [entry EXCEPT ![d] = IF entry[d] = "damaged" THEN entry[d] ELSE "approved"]
  BY DEF Rewrite, RegistryTypeOK
<1>2. entry' \in [Device -> Entries]
  BY <1>1 DEF RegistryTypeOK, Entries
<1>3. DeniedStaysOut'
  BY <1>1 DEF Rewrite, DeniedStaysOut, RegistryTypeOK
<1>4. QED
  BY <1>2, <1>3 DEF Rewrite

(* What a successful or refused admin_approval leaves behind, whatever the *)
(* chat is told.                                                           *)
LEMMA EffectReg ==
  ASSUME RegInv, NEW d \in Device, Approve(d) \/ Deny(d) \/ NoEffect,
         answer' \in {NoAnswer} \cup (Device \X Verbs)
  PROVE  RegInv'
<1>1. CASE Approve(d)
  <2>1. RegistryTypeOK'
    BY <1>1, RewriteTypes DEF RegInv, RegistryTypeOK, Approve, Rewrite
  <2>2. (~up => peers = Nobody)'
    BY <1>1 DEF Approve
  <2>3. ApprovalIsDurable'
    BY <1>1 DEF RegInv, RegistryTypeOK, Approve, Rewrite, ApprovalIsDurable, DamagedIsUnknown
  <2>4. DeniedStaysOut'
    BY <1>1, RewriteTypes DEF RegInv, Approve
  <2>5. DamagedIsUnknown'
    BY <1>1 DEF RegInv, RegistryTypeOK, Approve, Rewrite, DamagedIsUnknown
  <2>6. QED
    BY <2>1, <2>2, <2>3, <2>4, <2>5 DEF RegInv
<1>2. CASE Deny(d)
  BY <1>2 DEF RegInv, RegistryTypeOK, Deny, Delist, Entries, Nobody, ApprovalIsDurable, DeniedStaysOut, DamagedIsUnknown
<1>3. CASE NoEffect
  BY <1>3 DEF RegInv, RegistryTypeOK, NoEffect, disk, Entries, Nobody, ApprovalIsDurable, DeniedStaysOut, DamagedIsUnknown
<1>4. QED
  BY <1>1, <1>2, <1>3

(* A command of the chat preserves the invariant.                          *)
LEMMA ChatReg ==
  ASSUME RegInv, NEW d \in Device, ChatApprove(d) \/ ChatDeny(d)
  PROVE  RegInv'
<1>1. ASSUME NEW v \in Verbs, Says(d, v)
      PROVE  answer' \in {NoAnswer} \cup (Device \X Verbs)
  BY <1>1 DEF Says
<1>2. CASE Unlisted(d) \/ AlreadyApproved(d)
  <2>1. NoEffect
    BY <1>2 DEF Unlisted, AlreadyApproved, NoEffect
  <2>2. answer' \in {NoAnswer} \cup (Device \X Verbs)
    BY <1>1, <1>2 DEF Unlisted, AlreadyApproved, Verbs
  <2>3. QED
    BY <2>1, <2>2, EffectReg
<1>3. CASE (Approve(d) \/ NoEffect) /\ Says(d, "approved")
  BY <1>1, <1>3, EffectReg DEF Verbs
<1>4. CASE (Deny(d) \/ NoEffect) /\ Says(d, "denied")
  BY <1>1, <1>4, EffectReg DEF Verbs
<1>5. QED
  BY <1>2, <1>3, <1>4 DEF ChatApprove, ChatDeny

(* Every step preserves the invariant.                                     *)
LEMMA NextReg == RegInv /\ [RegistryNext]_registryVars => RegInv'
<1> SUFFICES ASSUME RegInv, [RegistryNext]_registryVars
             PROVE  RegInv'
  OBVIOUS
<1> USE DEF RegInv, RegistryTypeOK, Entries, Nobody, ApprovalIsDurable, DeniedStaysOut, DamagedIsUnknown
<1>1. CASE Garble
  BY <1>1 DEF Garble
<1>2. CASE Start
  BY <1>2 DEF Start, disk
<1>3. CASE StartFails
  BY <1>3 DEF StartFails, registryVars, disk
<1>4. CASE Exit
  BY <1>4 DEF Exit, disk
<1>5. ASSUME NEW d \in Device, NEW e \in Entries, Edit(d, e)
      PROVE  RegInv'
  BY <1>5 DEF Edit
<1>6. ASSUME NEW d \in Device, PeerApproval(d)
      PROVE  RegInv'
  <2>1. answer' \in {NoAnswer} \cup (Device \X Verbs)
    BY <1>6 DEF PeerApproval
  <2>2. Approve(d) \/ Deny(d) \/ NoEffect
    BY <1>6 DEF PeerApproval
  <2>3. QED
    BY <2>1, <2>2, EffectReg
<1>7. ASSUME NEW d \in Device, DieAfterSave(d)
      PROVE  RegInv'
  <2>1. up' = FALSE /\ peers' = Nobody /\ answer' = NoAnswer
    BY <1>7 DEF DieAfterSave
  <2>2. CASE Rewrite(d)
    BY <2>1, <2>2, RewriteTypes DEF Rewrite
  <2>3. CASE Delist(d)
    <3>1. entry' = [entry EXCEPT ![d] = "none"] /\ denied' = denied \cup {d}
      BY <2>3 DEF Delist
    <3>2. RegistryTypeOK'
      <4>1. /\ readable' = readable /\ mac' = "good" /\ edited' = edited
            /\ up' \in BOOLEAN /\ peers' = Nobody /\ answer' = NoAnswer
        BY <2>1, <2>3 DEF Delist
      <4>2. entry' \in [Device -> Entries] /\ denied' \in SUBSET Device
        BY <3>1
      <4>3. peers' \in [Device -> {"none", "pending", "approved"}]
        BY <4>1
      <4> QED  BY <4>1, <4>2, <4>3
    <3>3. DeniedStaysOut'
      BY <3>1
    <3>4. QED
      BY <2>1, <3>2, <3>3
  <2>4. QED
    BY <1>7, <2>2, <2>3 DEF DieAfterSave
<1>8. ASSUME NEW d \in Device, ChatApprove(d) \/ ChatDeny(d)
      PROVE  RegInv'
  BY <1>8, ChatReg
<1>9. CASE UNCHANGED registryVars
  BY <1>9 DEF registryVars, disk
<1>10. QED
  BY <1>1, <1>2, <1>3, <1>4, <1>5, <1>6, <1>7, <1>8, <1>9 DEF RegistryNext

(* The invariant holds in every reachable state.                           *)
THEOREM RegistryInvariant == RegistrySpec => []RegInv
BY InitReg, NextReg, PTL DEF RegistrySpec

(* Types of the registry in memory and on disk.                            *)
THEOREM RegistryTypes == RegistrySpec => []RegistryTypeOK
<1>1. RegInv => RegistryTypeOK
  BY DEF RegInv
<1>2. QED
  BY <1>1, RegistryInvariant, PTL

(* A peer that is approved in memory is approved on disk, unless the owner *)
(* edited or the daemon removed its entry (approve_peer, approve_device).  *)
THEOREM ApprovalsAreDurable == RegistrySpec => []ApprovalIsDurable
<1>1. RegInv => ApprovalIsDurable
  BY DEF RegInv
<1>2. QED
  BY <1>1, RegistryInvariant, PTL

(* A denied device stays off the list until the owner lists it again       *)
(* (remove_device, approve_device).                                        *)
THEOREM DeniedDevicesStayOut == RegistrySpec => []DeniedStaysOut
<1>1. RegInv => DeniedStaysOut
  BY DEF RegInv
<1>2. QED
  BY <1>1, RegistryInvariant, PTL

(* A running daemon approves only devices that the file lists at that      *)
(* moment (approve_device returns False for any other).                    *)
THEOREM OnlyListedDevicesAreApproved == RegistrySpec => OnlyListedIsApproved
<1>1. RegInv /\ [RegistryNext]_registryVars =>
        [up => \A d \in Device :
           peers[d] # "approved" /\ peers'[d] = "approved" => entry[d] # "none"]_registryVars
  <2> SUFFICES ASSUME RegInv, RegistryNext, up, NEW d \in Device,
                      peers[d] # "approved", peers'[d] = "approved"
               PROVE  entry[d] # "none"
    OBVIOUS
  <2>1. ASSUME NEW c \in Device, Approve(c) PROVE entry[d] # "none"
    BY <2>1 DEF Approve, Rewrite, RegInv, RegistryTypeOK
  <2>2. ASSUME NEW c \in Device, Deny(c) \/ NoEffect PROVE FALSE
    BY <2>2 DEF Deny, NoEffect
  <2>3. ASSUME NEW c \in Device, Unlisted(c) \/ AlreadyApproved(c) PROVE FALSE
    BY <2>3 DEF Unlisted, AlreadyApproved
  <2>4. ASSUME Garble \/ Start \/ StartFails \/ Exit PROVE FALSE
    BY <2>4 DEF Garble, Start, StartFails, Exit, registryVars, Nobody
  <2>5. ASSUME NEW c \in Device, NEW e \in Entries, Edit(c, e) PROVE FALSE
    BY <2>5 DEF Edit
  <2>6. ASSUME NEW c \in Device, DieAfterSave(c) PROVE FALSE
    BY <2>6 DEF DieAfterSave, Nobody
  <2>7. ASSUME NEW c \in Device, PeerApproval(c) \/ ChatApprove(c) \/ ChatDeny(c)
        PROVE  entry[d] # "none"
    BY <2>1, <2>2, <2>3, <2>7 DEF PeerApproval, ChatApprove, ChatDeny
  <2>8. QED
    BY <2>4, <2>5, <2>6, <2>7 DEF RegistryNext
<1>2. QED
  BY <1>1, RegistryInvariant, PTL DEF RegistrySpec, OnlyListedIsApproved

(***************************************************************************)
(* ConfigStore                                                             *)
(***************************************************************************)

Saving == {"save", "open", "written"}

(* A program that runs has a configuration of the present version in       *)
(* memory, and one that writes has a file for it.                          *)
MemoryInv ==
  \A p \in Proc :
    /\ pc[p] = "idle" => p \notin migrating
    /\ pc[p] # "idle" => cfg[p] \in Config /\ cfg[p].version = "new"
    /\ pc[p] = "open" => fd[p] \in Inode

(* Only config.json itself can be of the previous version: nobody writes   *)
(* one.                                                                    *)
OldInPlaceOnly == \A i \in Inode \ {config} : data[i].version # "old"

(* How far p has got with a save, when nobody else was there.              *)
SoloInv(p) ==
  /\ pc[p] = "loaded" => cfg[p] = kept /\ p \notin migrating
  /\ pc[p] \in Saving => cfg[p] = Purpose(p)
  /\ pc[p] = "open" => fd[p] = tmp /\ tmp # config /\ data[tmp] = Partial
  /\ pc[p] = "written" => tmp = NoFile \/ data[tmp] = cfg[p]

AloneInv ==
  ~overlapped =>
    /\ \A p, q \in Running : p = q
    /\ data[config] = kept
    /\ \A p \in Proc : SoloInv(p)

StoreInv == TypeOK /\ MemoryInv /\ OldInPlaceOnly /\ AloneInv

-----------------------------------------------------------------------------
(* Every initial state satisfies the invariant.                            *)
LEMMA StoreBegins == Init => StoreInv
<1> SUFFICES ASSUME Init PROVE StoreInv
  OBVIOUS
<1>1. TypeOK
  <2>1. overlapped \in BOOLEAN
    BY ZenonT(10) DEF Init
  <2>2. data \in [Inode -> Config \cup {Partial}]
    BY DEF Init
  <2> QED  BY <2>1, <2>2 DEF Init, TypeOK, Commands
<1>2. MemoryInv /\ OldInPlaceOnly
  BY DEF Init, MemoryInv, OldInPlaceOnly, Partial
<1>3. AloneInv
  BY DEF Init, AloneInv, Running, SoloInv, Saving
<1> QED  BY <1>1, <1>2, <1>3 DEF StoreInv

(* A configuration is not a partial one.                                   *)
LEMMA ConfigFields ==
  ASSUME NEW c \in Config
  PROVE  /\ c.telegram \in Value /\ c.pairing \in Value /\ c.version \in {"old", "new"}
         /\ c # Partial
         /\ [c EXCEPT !.version = "new"] \in Config
         /\ [c EXCEPT !.version = "new"].version = "new"
         /\ c.version = "new" => [c EXCEPT !.version = "new"] = c
         /\ \A v \in Value : [c EXCEPT !.telegram = v] \in Config
         /\ \A v \in Value : [c EXCEPT !.pairing = v] \in Config
BY DEF Config, Partial

(* What a save was for is a configuration.                                 *)
LEMMA PurposeIsConfig ==
  ASSUME NEW p, kept \in Config, cfg[p] \in Config
  PROVE  Purpose(p) \in Config
<1>1. CASE p \in migrating
  BY <1>1, ConfigFields DEF Purpose
<1>2. CASE p \notin migrating
  <2>1. \/ Purpose(p) = cfg[p]
        \/ Purpose(p) = [kept EXCEPT !.telegram = cfg[p].telegram]
        \/ Purpose(p) = [kept EXCEPT !.pairing = cfg[p].pairing]
    BY <1>2 DEF Purpose
  <2>2. cfg[p].telegram \in Value /\ cfg[p].pairing \in Value
    BY ConfigFields
  <2>3. /\ [kept EXCEPT !.telegram = cfg[p].telegram] \in Config
        /\ [kept EXCEPT !.pairing = cfg[p].pairing] \in Config
    BY <2>2, ConfigFields
  <2> QED  BY <2>1, <2>3
<1> QED  BY <1>1, <1>2

(* When programs run one at a time, all but p are idle while p runs.       *)
LEMMA OthersAreIdle ==
  ASSUME StoreInv, ~overlapped, NEW p \in Proc, pc[p] # "idle",
         NEW q \in Proc, q # p
  PROVE  pc[q] = "idle"
BY DEF StoreInv, AloneInv, Running

(* While p is the only one that runs, a step of p need only be looked at   *)
(* from where p stands.                                                    *)
LEMMA AloneStep ==
  ASSUME TypeOK, NEW p \in Proc, NEW label, Goto(p, label),
         ~overlapped' => /\ \A q \in Proc \ {p} : pc[q] = "idle"
                         /\ data'[config'] = kept'
                         /\ SoloInv(p)'
  PROVE  AloneInv'
<1> SUFFICES ASSUME ~overlapped'
             PROVE  /\ \A q, r \in Running' : q = r
                    /\ data'[config'] = kept'
                    /\ \A q \in Proc : SoloInv(q)'
  BY DEF AloneInv
<1>1. \A q \in Proc \ {p} : pc'[q] = "idle"
  BY DEF TypeOK, Goto
<1>2. \A q \in Proc \ {p} : SoloInv(q)'
  BY <1>1 DEF SoloInv, Saving
<1> QED  BY <1>1, <1>2 DEF Running

(* What a program has in memory after it has entered or changed it.        *)
LEMMA MemoryStep ==
  ASSUME StoreInv, NEW p \in Proc, NEW c \in Config, c.version = "new",
         NEW label \in {"loaded", "save"}, Goto(p, label),
         cfg' = [cfg EXCEPT ![p] = c], fd' = fd,
         migrating' = migrating \/ migrating' = migrating \cup {p}
  PROVE  /\ MemoryInv'
         /\ pc' \in [Proc -> {"idle", "loaded", "save", "open", "written"}]
         /\ cfg' \in [Proc -> Config \cup {NoConfig}]
         /\ migrating' \in SUBSET Proc
BY DEF StoreInv, TypeOK, MemoryInv, Goto

(* After Leave, p is idle, whatever it was about.                          *)
LEMMA LeaveStep ==
  ASSUME StoreInv, NEW p \in Proc, Leave(p)
  PROVE  /\ MemoryInv'
         /\ pc' \in [Proc -> {"idle", "loaded", "save", "open", "written"}]
         /\ command' \in [Proc -> Commands]
         /\ cfg' \in [Proc -> Config \cup {NoConfig}]
         /\ fd' \in [Proc -> Inode \cup {NoFile}]
         /\ migrating' \in SUBSET Proc
         /\ pc'[p] = "idle"
BY DEF StoreInv, TypeOK, MemoryInv, Leave, Goto, Commands

-----------------------------------------------------------------------------
(* A program that enters while no other one runs does not overlap.         *)
LEMMA EnterAlone ==
  ASSUME StoreInv, NEW p \in Proc, Enter(p)
  PROVE  /\ overlapped' \in BOOLEAN
         /\ ~overlapped' => ~overlapped /\ \A q \in Proc \ {p} : pc[q] = "idle"
<1>1. overlapped' = (overlapped \/ Running # {})
  BY DEF Enter
<1>2. overlapped' \in BOOLEAN
  BY <1>1, ZenonT(10)
<1>3. ~overlapped' => ~overlapped /\ Running = {}
  BY <1>1, ZenonT(10)
<1> QED  BY <1>2, <1>3 DEF Running

(* init.py: its purpose is the whole configuration it has built.           *)
LEMMA SetupKeepsInv ==
  ASSUME StoreInv, NEW p \in Proc, NEW c \in Config, Setup(p, c)
  PROVE  StoreInv'
<1>1. /\ overlapped' \in BOOLEAN
      /\ ~overlapped' => ~overlapped /\ \A q \in Proc \ {p} : pc[q] = "idle"
  BY EnterAlone DEF Setup
<1>2. /\ MemoryInv'
      /\ pc' \in [Proc -> {"idle", "loaded", "save", "open", "written"}]
      /\ cfg' \in [Proc -> Config \cup {NoConfig}]
      /\ migrating' \in SUBSET Proc
  BY MemoryStep DEF Setup
<1>3. TypeOK'
  BY <1>1, <1>2 DEF StoreInv, TypeOK, Setup, files, Commands
<1>4. OldInPlaceOnly'
  BY DEF StoreInv, OldInPlaceOnly, Setup, files
<1>5. ASSUME ~overlapped' PROVE SoloInv(p)'
  <2>1. p \notin migrating
    BY DEF StoreInv, MemoryInv, Setup, Enter
  <2>2. pc'[p] = "save" /\ command'[p] = "init" /\ cfg'[p] = c /\ migrating' = migrating
    BY DEF StoreInv, TypeOK, Setup, Goto
  <2> QED  BY <2>1, <2>2 DEF SoloInv, Purpose, Saving
<1>6. ASSUME ~overlapped' PROVE data'[config'] = kept'
  BY <1>1, <1>6 DEF StoreInv, AloneInv, Setup, files
<1>7. AloneInv'
  BY <1>1, <1>5, <1>6, AloneStep DEF StoreInv, Setup
<1> QED  BY <1>2, <1>3, <1>4, <1>7 DEF StoreInv

(* A load that migrates is about the version only; any other has in memory *)
(* what the file has.                                                      *)
LEMMA LoadKeepsInv ==
  ASSUME StoreInv, NEW p \in Proc, NEW c \in Commands, Load(p, c)
  PROVE  StoreInv'
<1> DEFINE whole == data[config]
           loaded == [whole EXCEPT !.version = "new"]
<1>1. /\ overlapped' \in BOOLEAN
      /\ ~overlapped' => ~overlapped /\ \A q \in Proc \ {p} : pc[q] = "idle"
  BY EnterAlone DEF Load
<1>2. whole \in Config
  BY DEF StoreInv, TypeOK, Load
<1>3. loaded \in Config /\ loaded.version = "new"
  BY <1>2, ConfigFields
<1>4. cfg' = [cfg EXCEPT ![p] = loaded] /\ fd' = fd
  BY DEF Load
<1>5. \/ whole.version = "old" /\ migrating' = migrating \cup {p} /\ Goto(p, "save")
      \/ whole.version # "old" /\ migrating' = migrating /\ Goto(p, "loaded")
  BY DEF Load
<1> HIDE DEF loaded
<1>6. /\ MemoryInv'
      /\ pc' \in [Proc -> {"idle", "loaded", "save", "open", "written"}]
      /\ cfg' \in [Proc -> Config \cup {NoConfig}]
      /\ migrating' \in SUBSET Proc
  BY <1>3, <1>4, <1>5, MemoryStep
<1>7. TypeOK'
  BY <1>1, <1>6 DEF StoreInv, TypeOK, Load, files, Commands
<1>8. OldInPlaceOnly'
  BY DEF StoreInv, OldInPlaceOnly, Load, files
<1>9. ASSUME ~overlapped' PROVE data'[config'] = kept' /\ SoloInv(p)'
  <2>1. whole = kept /\ kept' = kept /\ data'[config'] = kept
    BY <1>1, <1>9 DEF StoreInv, AloneInv, Load, files
  <2>2. p \notin migrating
    BY DEF StoreInv, MemoryInv, Load, Enter
  <2>3. cfg'[p] = loaded
    BY <1>4 DEF StoreInv, TypeOK
  <2>4. CASE whole.version = "old"
    <3>1. pc'[p] = "save" /\ p \in migrating'
      BY <1>5, <2>4 DEF StoreInv, TypeOK, Goto
    <3>2. Purpose(p)' = [kept' EXCEPT !.version = "new"]
      BY <3>1 DEF Purpose
    <3>3. Purpose(p)' = loaded
      BY <2>1, <3>2 DEF loaded
    <3> QED  BY <2>1, <2>3, <3>1, <3>3 DEF SoloInv, Saving
  <2>5. CASE whole.version # "old"
    <3>1. pc'[p] = "loaded" /\ p \notin migrating'
      BY <1>5, <2>2, <2>5 DEF StoreInv, TypeOK, Goto
    <3>2. loaded = whole
      BY <1>2, <2>5, ConfigFields DEF loaded
    <3> QED  BY <2>1, <2>3, <3>1, <3>2 DEF SoloInv, Saving
  <2> QED  BY <2>1, <2>4, <2>5
<1>10. AloneInv'
  BY <1>1, <1>5, <1>9, AloneStep DEF StoreInv
<1> QED  BY <1>6, <1>7, <1>8, <1>10 DEF StoreInv

(* A change touches the field that the command is about and no other.      *)
LEMMA ChangeKeepsInv ==
  ASSUME StoreInv, NEW p \in Proc, NEW v \in Value, Change(p, v)
  PROVE  StoreInv'
<1> DEFINE new == cfg'[p]
<1>1. cfg[p] \in Config /\ cfg[p].version = "new" /\ pc[p] = "loaded"
  BY DEF StoreInv, MemoryInv, Change
<1>2. \/ command[p] = "reconfigure" /\ new = [cfg[p] EXCEPT !.telegram = v]
      \/ command[p] = "pair" /\ new = [cfg[p] EXCEPT !.pairing = v]
  <2>1. cfg \in [Proc -> Config \cup {NoConfig}]
    BY DEF StoreInv, TypeOK
  <2>2. CASE command[p] = "reconfigure" /\ cfg' = [cfg EXCEPT ![p].telegram = v]
    BY <2>1, <2>2
  <2>3. CASE command[p] = "pair" /\ cfg' = [cfg EXCEPT ![p].pairing = v]
    BY <2>1, <2>3
  <2> QED  BY <2>2, <2>3 DEF Change
<1>3. new \in Config /\ new.version = "new"
  <2> HIDE DEF new
  <2>1. ASSUME NEW c \in Config
        PROVE  /\ [c EXCEPT !.telegram = v] \in Config
               /\ [c EXCEPT !.telegram = v].version = c.version
               /\ [c EXCEPT !.pairing = v] \in Config
               /\ [c EXCEPT !.pairing = v].version = c.version
    BY DEF Config
  <2> QED  BY <1>1, <1>2, <2>1
<1>4. cfg' = [cfg EXCEPT ![p] = new] /\ fd' = fd /\ migrating' = migrating
  BY DEF StoreInv, TypeOK, Change
<1>5. Goto(p, "save")
  BY DEF Change
<1> HIDE DEF new
<1>6. /\ MemoryInv'
      /\ pc' \in [Proc -> {"idle", "loaded", "save", "open", "written"}]
      /\ cfg' \in [Proc -> Config \cup {NoConfig}]
      /\ migrating' \in SUBSET Proc
  BY <1>3, <1>4, <1>5, MemoryStep
<1>7. TypeOK'
  BY <1>6 DEF StoreInv, TypeOK, Change, files
<1>8. OldInPlaceOnly'
  BY DEF StoreInv, OldInPlaceOnly, Change, files
<1>9. ASSUME ~overlapped'
      PROVE  /\ \A q \in Proc \ {p} : pc[q] = "idle"
             /\ data'[config'] = kept' /\ SoloInv(p)'
  <2>1. ~overlapped /\ kept' = kept /\ command' = command /\ data' = data /\ config' = config
    BY <1>9 DEF Change, files
  <2>2. data'[config'] = kept' /\ cfg[p] = kept /\ p \notin migrating
    BY <1>1, <2>1 DEF StoreInv, AloneInv, SoloInv
  <2>3. \A q \in Proc \ {p} : pc[q] = "idle"
    BY <1>1, <2>1, OthersAreIdle
  <2>4. pc'[p] = "save" /\ cfg'[p] = new
    BY <1>4, <1>5 DEF StoreInv, TypeOK, Goto
  <2>5. CASE command[p] = "reconfigure"
    <3>1. new = [kept EXCEPT !.telegram = v] /\ kept \in Config
      BY <1>2, <2>2, <2>5, <1>1
    <3>2. new.telegram = v
      BY <3>1 DEF Config
    <3> QED  BY <1>4, <2>1, <2>2, <2>3, <2>4, <2>5, <3>1, <3>2 DEF SoloInv, Saving, Purpose
  <2>6. CASE command[p] = "pair"
    <3>1. new = [kept EXCEPT !.pairing = v] /\ kept \in Config
      BY <1>2, <2>2, <2>6, <1>1
    <3>2. new.pairing = v
      BY <3>1 DEF Config
    <3> QED  BY <1>4, <2>1, <2>2, <2>3, <2>4, <2>6, <3>1, <3>2 DEF SoloInv, Saving, Purpose
  <2> QED  BY <1>2, <2>5, <2>6
<1>10. AloneInv'
  BY <1>5, <1>9, AloneStep DEF StoreInv
<1> QED  BY <1>6, <1>7, <1>8, <1>10 DEF StoreInv

(* A program that dies leaves config.json to the next one as it is.        *)
LEMMA QuitKeepsInv ==
  ASSUME StoreInv, NEW p \in Proc, Quit(p)
  PROVE  StoreInv'
<1>1. Leave(p) /\ UNCHANGED <<config, tmp, data, kept, overlapped>> /\ pc[p] # "idle"
  BY DEF Quit, files
<1>2. /\ MemoryInv'
      /\ pc' \in [Proc -> {"idle", "loaded", "save", "open", "written"}]
      /\ command' \in [Proc -> Commands]
      /\ cfg' \in [Proc -> Config \cup {NoConfig}]
      /\ fd' \in [Proc -> Inode \cup {NoFile}]
      /\ migrating' \in SUBSET Proc
      /\ pc'[p] = "idle"
  BY <1>1, LeaveStep
<1>3. TypeOK'
  BY <1>1, <1>2 DEF StoreInv, TypeOK
<1>4. OldInPlaceOnly'
  BY <1>1 DEF StoreInv, OldInPlaceOnly
<1>5. SoloInv(p)'
  BY <1>2 DEF SoloInv, Saving
<1>6. AloneInv'
  BY <1>1, <1>5, AloneStep, OthersAreIdle DEF StoreInv, AloneInv, Leave
<1> QED  BY <1>2, <1>3, <1>4, <1>6 DEF StoreInv

(* config.tmp is never the file named config.json.                         *)
LEMMA OpenKeepsInv ==
  ASSUME StoreInv, NEW p \in Proc, Open(p)
  PROVE  StoreInv'
<1> PICK i \in Inode :
      /\ IF tmp # NoFile THEN i = tmp ELSE i \notin {config} \cup {fd[q] : q \in Proc}
      /\ tmp' = i
      /\ data' = [data EXCEPT ![i] = Partial]
      /\ fd' = [fd EXCEPT ![p] = i]
  BY DEF Open
<1>1. /\ pc[p] = "save" /\ Goto(p, "open")
      /\ UNCHANGED <<config, command, migrating, cfg, kept, overlapped>>
  BY DEF Open
<1>2. i # config
  BY DEF StoreInv, TypeOK
<1>3. pc'[p] = "open" /\ fd'[p] = i /\ data'[i] = Partial /\ data'[config] = data[config]
  BY <1>1, <1>2 DEF StoreInv, TypeOK, Goto
<1>4. TypeOK'
  BY <1>1, <1>2 DEF StoreInv, TypeOK, Goto
<1>5. MemoryInv'
  BY <1>1, <1>3 DEF StoreInv, TypeOK, MemoryInv, Goto
<1>6. OldInPlaceOnly'
  BY <1>1, <1>2 DEF StoreInv, TypeOK, OldInPlaceOnly, Partial
<1>7. ASSUME ~overlapped'
      PROVE  /\ \A q \in Proc \ {p} : pc[q] = "idle"
             /\ data'[config'] = kept' /\ SoloInv(p)'
  <2>1. ~overlapped
    BY <1>1, <1>7
  <2>2. \A q \in Proc \ {p} : pc[q] = "idle"
    BY <1>1, <2>1, OthersAreIdle
  <2>3. data[config] = kept /\ cfg[p] = Purpose(p)
    BY <1>1, <2>1 DEF StoreInv, AloneInv, SoloInv, Saving
  <2>4. Purpose(p)' = Purpose(p)
    BY <1>1 DEF Purpose
  <2> QED  BY <1>1, <1>2, <1>3, <2>2, <2>3, <2>4 DEF SoloInv, Saving
<1>8. AloneInv'
  BY <1>1, <1>7, AloneStep DEF StoreInv
<1> QED  BY <1>4, <1>5, <1>6, <1>8 DEF StoreInv

(* Undisturbed, config.tmp becomes what the program has in memory.         *)
LEMMA WriteKeepsInv ==
  ASSUME StoreInv, NEW p \in Proc, Write(p)
  PROVE  StoreInv'
<1> PICK c \in IF data[fd[p]] = Partial THEN {cfg[p]} ELSE {cfg[p], Partial} :
      data' = [data EXCEPT ![fd[p]] = c]
  BY DEF Write
<1>1. /\ pc[p] = "open" /\ Goto(p, "written") /\ fd' = [fd EXCEPT ![p] = NoFile]
      /\ UNCHANGED <<config, tmp, command, migrating, cfg, kept, overlapped>>
  BY DEF Write
<1>2. fd[p] \in Inode /\ cfg[p] \in Config /\ cfg[p].version = "new"
  BY <1>1 DEF StoreInv, MemoryInv
<1>3. c \in Config \cup {Partial} /\ c.version # "old"
  BY <1>2 DEF Partial
<1>4. TypeOK'
  BY <1>1, <1>2, <1>3 DEF StoreInv, TypeOK, Goto
<1>5. MemoryInv'
  BY <1>1 DEF StoreInv, TypeOK, MemoryInv, Goto
<1>6. OldInPlaceOnly'
  BY <1>1, <1>2, <1>3 DEF StoreInv, TypeOK, OldInPlaceOnly
<1>7. ASSUME ~overlapped'
      PROVE  /\ \A q \in Proc \ {p} : pc[q] = "idle"
             /\ data'[config'] = kept' /\ SoloInv(p)'
  <2>1. ~overlapped
    BY <1>1, <1>7
  <2>2. \A q \in Proc \ {p} : pc[q] = "idle"
    BY <1>1, <2>1, OthersAreIdle
  <2>3. /\ data[config] = kept /\ cfg[p] = Purpose(p)
        /\ fd[p] = tmp /\ tmp # config /\ data[tmp] = Partial
    BY <1>1, <2>1 DEF StoreInv, AloneInv, SoloInv, Saving
  <2>4. c = cfg[p]
    BY <2>3
  <2>5. data'[tmp] = cfg[p] /\ data'[config] = kept
    BY <1>2, <2>3, <2>4 DEF StoreInv, TypeOK
  <2>6. pc'[p] = "written"
    BY <1>1 DEF StoreInv, TypeOK, Goto
  <2> QED  BY <1>1, <2>2, <2>3, <2>5, <2>6 DEF SoloInv, Saving, Purpose
<1>8. AloneInv'
  BY <1>1, <1>7, AloneStep DEF StoreInv
<1> QED  BY <1>4, <1>5, <1>6, <1>8 DEF StoreInv

(* What replaces config.json is what the save was for.                     *)
LEMMA ReplaceKeepsInv ==
  ASSUME StoreInv, NEW p \in Proc, Replace(p)
  PROVE  StoreInv'
<1>1. /\ pc[p] = "written" /\ tmp \in Inode /\ tmp # config
      /\ config' = tmp /\ tmp' = NoFile /\ data' = [data EXCEPT ![config] = Partial]
      /\ kept' = Purpose(p) /\ overlapped' = overlapped
  BY DEF StoreInv, TypeOK, Replace
<1>2. cfg[p] \in Config
  BY <1>1 DEF StoreInv, MemoryInv
<1>3. kept' \in Config
  BY <1>1, <1>2, PurposeIsConfig DEF StoreInv, TypeOK
<1>4. /\ config' \in Inode /\ tmp' \in (Inode \ {config'}) \cup {NoFile}
      /\ data' \in [Inode -> Config \cup {Partial}]
  BY <1>1 DEF StoreInv, TypeOK
<1>5. OldInPlaceOnly'
  BY <1>1 DEF StoreInv, TypeOK, OldInPlaceOnly, Partial
<1>6. ASSUME ~overlapped'
      PROVE  /\ \A q \in Proc \ {p} : pc[q] = "idle"
             /\ data'[config'] = kept' /\ cfg[p] = kept'
  <2>1. ~overlapped
    BY <1>1, <1>6
  <2>2. \A q \in Proc \ {p} : pc[q] = "idle"
    BY <1>1, <2>1, OthersAreIdle
  <2>3. cfg[p] = Purpose(p) /\ (tmp = NoFile \/ data[tmp] = cfg[p])
    BY <1>1, <2>1 DEF StoreInv, AloneInv, SoloInv, Saving
  <2>4. data'[config'] = data[tmp] /\ tmp # NoFile
    BY <1>1 DEF StoreInv, TypeOK, Replace
  <2> QED  BY <1>1, <2>2, <2>3, <2>4
<1>7. CASE p \in migrating
  <2>1. /\ Goto(p, "loaded") /\ migrating' = migrating \ {p}
        /\ command' = command /\ cfg' = cfg /\ fd' = fd
    BY <1>7 DEF Replace, GoOn
  <2>2. pc'[p] = "loaded" /\ p \notin migrating'
    BY <2>1 DEF StoreInv, TypeOK, Goto
  <2>3. TypeOK'
    BY <1>1, <1>3, <1>4, <2>1 DEF StoreInv, TypeOK, Goto
  <2>4. MemoryInv'
    BY <1>1, <2>1 DEF StoreInv, TypeOK, MemoryInv, Goto
  <2>5. ~overlapped' => SoloInv(p)'
    BY <1>6, <2>1, <2>2 DEF SoloInv, Saving
  <2>6. AloneInv'
    BY <1>6, <2>1, <2>5, AloneStep DEF StoreInv
  <2> QED  BY <1>5, <2>3, <2>4, <2>6 DEF StoreInv
<1>8. CASE p \notin migrating
  <2>1. Leave(p)
    BY <1>8 DEF Replace, GoOn
  <2>2. /\ MemoryInv'
        /\ pc' \in [Proc -> {"idle", "loaded", "save", "open", "written"}]
        /\ command' \in [Proc -> Commands]
        /\ cfg' \in [Proc -> Config \cup {NoConfig}]
        /\ fd' \in [Proc -> Inode \cup {NoFile}]
        /\ migrating' \in SUBSET Proc
        /\ pc'[p] = "idle"
    BY <2>1, LeaveStep
  <2>3. TypeOK'
    BY <1>1, <1>3, <1>4, <2>2 DEF StoreInv, TypeOK
  <2>4. SoloInv(p)'
    BY <2>2 DEF SoloInv, Saving
  <2>5. AloneInv'
    BY <1>6, <2>1, <2>4, AloneStep DEF StoreInv, Leave
  <2> QED  BY <1>5, <2>2, <2>3, <2>5 DEF StoreInv
<1> QED  BY <1>7, <1>8

(* A save that finds no config.tmp ends like any other program that dies.  *)
LEMMA ReplaceFailsKeepsInv ==
  ASSUME StoreInv, NEW p \in Proc, ReplaceFails(p)
  PROVE  StoreInv'
<1>1. Quit(p)
  BY DEF ReplaceFails, Quit
<1> QED  BY <1>1, QuitKeepsInv

-----------------------------------------------------------------------------
(* Every step preserves the invariant.                                     *)
LEMMA StoreNext == StoreInv /\ [Next]_vars => StoreInv'
<1> SUFFICES ASSUME StoreInv, [Next]_vars PROVE StoreInv'
  OBVIOUS
<1>1. ASSUME NEW p \in Proc, NEW c \in Config, Setup(p, c) PROVE StoreInv'
  BY <1>1, SetupKeepsInv
<1>2. ASSUME NEW p \in Proc, NEW c \in Commands, Load(p, c) PROVE StoreInv'
  BY <1>2, LoadKeepsInv
<1>3. ASSUME NEW p \in Proc, NEW v \in Value, Change(p, v) PROVE StoreInv'
  BY <1>3, ChangeKeepsInv
<1>4. ASSUME NEW p \in Proc, Quit(p) PROVE StoreInv'
  BY <1>4, QuitKeepsInv
<1>5. ASSUME NEW p \in Proc, Open(p) PROVE StoreInv'
  BY <1>5, OpenKeepsInv
<1>6. ASSUME NEW p \in Proc, Write(p) PROVE StoreInv'
  BY <1>6, WriteKeepsInv
<1>7. ASSUME NEW p \in Proc, Replace(p) PROVE StoreInv'
  BY <1>7, ReplaceKeepsInv
<1>8. ASSUME NEW p \in Proc, ReplaceFails(p) PROVE StoreInv'
  BY <1>8, ReplaceFailsKeepsInv
<1>9. CASE UNCHANGED vars
  BY <1>9 DEF StoreInv, TypeOK, MemoryInv, OldInPlaceOnly, AloneInv, SoloInv, Running,
              Purpose, vars, files
<1> QED  BY <1>1, <1>2, <1>3, <1>4, <1>5, <1>6, <1>7, <1>8, <1>9 DEF Next

(* The invariant holds in every reachable state, of any number of programs.*)
THEOREM StoreInvariant == Spec => []StoreInv
BY StoreBegins, StoreNext, PTL DEF Spec

(* Types of the files and of the programs.                                 *)
THEOREM StoreTypes == Spec => []TypeOK
<1>1. StoreInv => TypeOK
  BY DEF StoreInv
<1> QED  BY <1>1, StoreInvariant, PTL

(* Programs that run one at a time always find a whole config.json         *)
(* (save_config), wherever an earlier one was cut short.                   *)
THEOREM FileIsWholeWhenAlone == Spec => []WholeWhenAlone
<1>1. StoreInv => WholeWhenAlone
  BY ConfigFields DEF StoreInv, TypeOK, AloneInv, WholeWhenAlone
<1> QED  BY <1>1, StoreInvariant, PTL

(* And they find every field as it was last changed on purpose.            *)
THEOREM NoSaveTakesBack == Spec => []ChangesAreKept
<1>1. StoreInv => ChangesAreKept
  BY DEF StoreInv, AloneInv, ChangesAreKept
<1> QED  BY <1>1, StoreInvariant, PTL

(* No step of any program, overlapping or not, brings a configuration of   *)
(* the previous version back (load_config, save_config).                   *)
THEOREM MigrationStays == Spec => MigrationIsFinal
<1> DEFINE Kept == data[config].version # "old" => data'[config'].version # "old"
<1>1. StoreInv /\ [Next]_vars => [Kept]_vars
  <2> SUFFICES ASSUME StoreInv, Next PROVE Kept
    BY DEF Kept
  <2> PICK p \in Proc :
        \/ \E c \in Config : Setup(p, c)
        \/ \E c \in Commands : Load(p, c)
        \/ \E v \in Value : Change(p, v)
        \/ Quit(p) \/ Open(p) \/ Write(p) \/ Replace(p) \/ ReplaceFails(p)
    BY DEF Next
  <2>1. CASE Open(p)
    BY <2>1 DEF StoreInv, TypeOK, Open, Partial
  <2>2. CASE Write(p)
    <3>1. cfg[p].version = "new" /\ fd[p] \in Inode /\ config' = config
      BY <2>2 DEF StoreInv, MemoryInv, Write
    <3>2. data'[config] = data[config] \/ data'[config] = Partial \/ data'[config] = cfg[p]
      BY <2>2, <3>1 DEF StoreInv, TypeOK, Write
    <3> QED  BY <3>1, <3>2 DEF Partial
  <2>3. CASE Replace(p)
    BY <2>3 DEF StoreInv, TypeOK, OldInPlaceOnly, Replace
  <2>4. CASE UNCHANGED <<config, data>>
    BY <2>4
  <2>5. ASSUME ~Open(p), ~Write(p), ~Replace(p) PROVE UNCHANGED <<config, data>>
    BY <2>5 DEF Setup, Load, Change, Quit, ReplaceFails, files
  <2> QED  BY <2>1, <2>2, <2>3, <2>4, <2>5
<1> QED  BY <1>1, StoreInvariant, PTL DEF Spec, MigrationIsFinal

=============================================================================
