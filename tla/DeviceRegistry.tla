--------------------------- MODULE DeviceRegistry ---------------------------
(***************************************************************************)
(* Who is approved: DeviceManager._peers in the memory of the daemon       *)
(* against devices.json on disk (config/manager.py), under the commands    *)
(* /approve and /deny of the chat, admin_approval messages of peers, edits *)
(* of the file by its owner, failing writes, crashes and restarts.         *)
(*                                                                         *)
(* No code path of the daemon lists a new device: the owner does, with an  *)
(* editor.  The read, the write of devices.tmp and its replacement are one *)
(* synchronous piece of code; a crash or an error before the replacement   *)
(* leaves devices.json as it was, a crash after it loses only the memory.  *)
(* A setup program that saves the list at the same time is in Service.     *)
(* Our own entry is not among Device: nothing here depends on it.          *)
(***************************************************************************)
EXTENDS FiniteSets

CONSTANT Device     \* ids that _DEVICE_ID_RE accepts, other than our own

VARIABLES
  up,               \* the daemon has loaded the peers and runs
  readable,         \* devices.json is JSON
  mac,              \* its tag: "none", "good", or "stale" after an edit
  entry,            \* its devices: Device -> Entries
  peers,            \* _peers: Device -> "none", "pending", "approved"
  answer,           \* what the chat was just told: <<device, verb>> or NoAnswer
  edited,           \* history: entries edited by the owner since the start
  denied            \* history: entries the daemon removed and nobody put back

disk == <<readable, mac, entry>>
registryVars == <<up, disk, peers, answer, edited, denied>>

(* "damaged": an entry that DeviceIdentity.from_public_dict refuses.       *)
Entries == {"none", "pending", "approved", "damaged"}
Verbs == {"unknown", "already", "approved", "denied"}
NoAnswer == <<>>

RegistryTypeOK ==
  /\ up \in BOOLEAN /\ readable \in BOOLEAN
  /\ mac \in {"none", "good", "stale"}
  /\ entry \in [Device -> Entries]
  /\ peers \in [Device -> {"none", "pending", "approved"}]
  /\ answer \in {NoAnswer} \cup (Device \X Verbs)
  /\ edited \in SUBSET Device /\ denied \in SUBSET Device

Nobody == [d \in Device |-> "none"]

(* init.py has written the file, with a good tag.                          *)
RegistryInit ==
  /\ up = FALSE /\ readable = TRUE /\ mac = "good"
  /\ entry = Nobody /\ peers = Nobody
  /\ answer = NoAnswer /\ edited = {} /\ denied = {}

-----------------------------------------------------------------------------
(* The owner                                                               *)

(* An edit leaves the tag behind, or drops it.                             *)
Edit(d, e) ==
  /\ readable' = TRUE
  /\ entry' = [entry EXCEPT ![d] = e]
  /\ mac' \in IF mac = "none" THEN {"none"} ELSE {"none", "stale"}
  /\ edited' = edited \cup {d}
  /\ denied' = denied \ {d}
  /\ answer' = NoAnswer
  /\ UNCHANGED <<up, peers>>

(* An edit that leaves no JSON behind.                                     *)
Garble ==
  /\ readable' = FALSE
  /\ answer' = NoAnswer
  /\ UNCHANGED <<up, mac, entry, peers, edited, denied>>

-----------------------------------------------------------------------------
(* The life of the daemon                                                  *)

(* _load_peers: a file without a tag is taken as it is, a damaged entry is *)
(* skipped.                                                                *)
Start ==
  /\ ~up /\ readable /\ mac # "stale"
  /\ up' = TRUE
  /\ peers' = [d \in Device |-> IF entry[d] = "damaged" THEN "none" ELSE entry[d]]
  /\ edited' = {} /\ answer' = NoAnswer
  /\ UNCHANGED <<disk, denied>>

(* load_devices raises: the process ends.  systemd tries again, at most    *)
(* three times in two minutes, and then whoever starts the service does.   *)
StartFails == /\ ~up
              /\ ~readable \/ mac = "stale"
              /\ UNCHANGED registryVars

Exit ==
  /\ up
  /\ up' = FALSE /\ peers' = Nobody /\ answer' = NoAnswer
  /\ UNCHANGED <<disk, edited, denied>>

-----------------------------------------------------------------------------
(* _handle_admin_approval                                                  *)

RewriteListing(d) ==
  /\ readable
  /\ entry' = [entry EXCEPT ![d] = IF @ = "damaged" THEN @ ELSE "approved"]
  /\ mac' = "good"
  /\ UNCHANGED <<readable, edited, denied>>

(* approve_device, up to the replacement of the file: the entry was read   *)
(* without a look at the tag, the tag that is written is good.             *)
Rewrite(d) ==
  /\ readable /\ entry[d] # "none"
  /\ entry' = [entry EXCEPT ![d] = IF @ = "damaged" THEN @ ELSE "approved"]
  /\ mac' = "good"
  /\ UNCHANGED <<readable, edited, denied>>

ApproveForgettingTheFile(d) ==
  /\ up
  /\ peers' = [peers EXCEPT ![d] = IF @ = "none" THEN @ ELSE "approved"]
  /\ UNCHANGED <<up, disk, edited, denied>>

(* approve_peer: the memory follows a successful save.                     *)
Approve(d) ==
  /\ up
  /\ Rewrite(d)
  /\ peers' = [peers EXCEPT ![d] = IF @ = "none" THEN @ ELSE "approved"]
  /\ UNCHANGED up

(* remove_device, up to the replacement of the file.                       *)
Delist(d) ==
  /\ readable /\ entry[d] # "none"
  /\ entry' = [entry EXCEPT ![d] = "none"]
  /\ mac' = "good"
  /\ denied' = denied \cup {d}
  /\ UNCHANGED <<readable, edited>>

(* The denial touches the file only: _peers stays as it is.                *)
Deny(d) == /\ up
           /\ Delist(d)
           /\ UNCHANGED <<up, peers>>

(* The device is not listed, the file is no JSON, or the write fails: the  *)
(* handler returns or raises, dispatch swallows it, nothing has changed.   *)
NoEffect == up /\ UNCHANGED <<up, disk, peers, edited, denied>>

(* admin_approval in a signed message of a peer: dispatched as it is.      *)
PeerApproval(d) == /\ Approve(d) \/ Deny(d) \/ NoEffect
                   /\ answer' = NoAnswer

(* The process dies after the replacement and before anything else.        *)
DieAfterSave(d) ==
  /\ up
  /\ Rewrite(d) \/ Delist(d)
  /\ up' = FALSE /\ peers' = Nobody /\ answer' = NoAnswer

-----------------------------------------------------------------------------
(* _handle_approve: /approve and /deny in the chat                         *)

(* The answer, unless sendMessage fails.                                   *)
Says(d, verb) == answer' \in {NoAnswer, <<d, verb>>}

Unlisted(d) == /\ up /\ peers[d] = "none"
               /\ Says(d, "unknown")
               /\ UNCHANGED <<up, disk, peers, edited, denied>>

AlreadyApproved(d) == /\ up /\ peers[d] = "approved"
                      /\ Says(d, "already")
                      /\ UNCHANGED <<up, disk, peers, edited, denied>>

ChatApprove(d) ==
  \/ Unlisted(d)
  \/ AlreadyApproved(d)
  \/ /\ peers[d] = "pending"
     /\ Approve(d) \/ NoEffect
     /\ Says(d, "approved")

ChatDeny(d) ==
  \/ Unlisted(d)
  \/ /\ peers[d] # "none"
     /\ Deny(d) \/ NoEffect
     /\ Says(d, "denied")

RegistryNext ==
  \/ Garble \/ Start \/ StartFails \/ Exit
  \/ \E d \in Device :
       \/ \E e \in Entries : Edit(d, e)
       \/ PeerApproval(d) \/ DieAfterSave(d)
       \/ ChatApprove(d) \/ ChatDeny(d)

RegistrySpec == RegistryInit /\ [][RegistryNext]_registryVars

-----------------------------------------------------------------------------
(* Properties                                                              *)

(* What the daemon acts on in memory is what a restart would find: a peer  *)
(* approved in memory is approved on disk, whatever write failed or crash  *)
(* came in between, unless the owner edited or the daemon removed its      *)
(* entry (device.py approve_peer saves first).                             *)
ApprovalIsDurable ==
  \A d \in Device :
    peers[d] = "approved" => entry[d] = "approved" \/ d \in edited \cup denied

(* A device that was denied stays off the list through crashes, restarts   *)
(* and approvals that still find it in memory, until the owner lists it.   *)
DeniedStaysOut == \A d \in denied : entry[d] = "none"

(* transport.py:19 "CANNOT approve devices without a pending pairing       *)
(* request in devices.json": a running daemon approves only what the file  *)
(* lists at that moment, also when its memory is behind the file.          *)
OnlyListedIsApproved ==
  [][up => \A d \in Device :
       peers[d] # "approved" /\ peers'[d] = "approved" => entry[d] # "none"]_registryVars

=============================================================================
