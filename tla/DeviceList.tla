----------------------------- MODULE DeviceList -----------------------------
(***************************************************************************)
(* devices.json and the two programs that save it: init.py, which enters   *)
(* the machine itself, and the daemon, which approves and removes devices  *)
(* (ConfigManager.save_devices).                                           *)
(*                                                                         *)
(* A save reads signing.pub for the tag, writes devices.tmp and renames it *)
(* over devices.json.  Both programs use the same devices.tmp and no lock, *)
(* so a writer holds on to the file it has opened, which may have got      *)
(* another name by the time it writes.  Of a list only its tag is kept:    *)
(* the signing.pub it was made with.  Only one task of the daemon saves at *)
(* a time, since save_devices awaits nothing.                              *)
(***************************************************************************)

CONSTANTS
  Absent,         \* there is no such file
  Broken          \* a list that is empty or garbled, no JSON

VARIABLES
  devices,        \* devices.json: the signing.pub its tag was made with
  tmp,            \* devices.tmp, likewise
  save            \* writer -> how far its save is

listVars == <<devices, tmp, save>>

Writer == {"setup", "daemon"}

(* What the file that a writer has open is called by now.                  *)
Name == {"none", "tmp", "list", "gone"}

NoSave == [pc |-> "idle", tag |-> Absent, fd |-> "none"]

ListInit == devices = Absent /\ tmp = Absent /\ save = [w \in Writer |-> NoSave]

Saving(w) == save[w].pc # "idle"

(* add_device, approve_device and remove_device read the list first,       *)
(* without a look at its tag; then save_devices reads signing.pub.         *)
BeginSave(w, pub) ==
  /\ ~Saving(w) /\ devices # Broken
  /\ save' = [save EXCEPT ![w] = [pc |-> "tagged", tag |-> pub, fd |-> "none"]]
  /\ UNCHANGED <<devices, tmp>>

(* write_text opens devices.tmp and cuts it to nothing.                    *)
OpenTmp(w) ==
  /\ save[w].pc = "tagged"
  /\ tmp' = Broken
  /\ save' = [save EXCEPT ![w].pc = "open", ![w].fd = "tmp"]
  /\ UNCHANGED devices

(* It writes what it has opened; over a longer text of the other writer    *)
(* the rest of that text stays behind.                                     *)
WriteTmp(w) ==
  /\ save[w].pc = "open"
  /\ LET Over(old) == IF old = Broken THEN {save[w].tag} ELSE {save[w].tag, Broken}
     IN  /\ tmp' \in IF save[w].fd = "tmp" THEN Over(tmp) ELSE {tmp}
         /\ devices' \in IF save[w].fd = "list" THEN Over(devices) ELSE {devices}
  /\ save' = [save EXCEPT ![w].pc = "written", ![w].fd = "none"]

(* replace: what is called devices.tmp now becomes devices.json.           *)
Replace(w) ==
  /\ save[w].pc = "written" /\ tmp # Absent
  /\ devices' = tmp /\ tmp' = Absent
  /\ LET Renamed == [none |-> "none", tmp |-> "list", list |-> "gone", gone |-> "gone"]
     IN  save' = [v \in Writer |->
                    IF v = w THEN NoSave ELSE [save[v] EXCEPT !.fd = Renamed[@]]]

(* chmod or replace finds no devices.tmp: the other writer has renamed it. *)
ReplaceFails(w) == save[w].pc = "written" /\ tmp = Absent

(* The save ends where it is.                                              *)
EndSave(w) ==
  /\ save' = [save EXCEPT ![w] = NoSave]
  /\ UNCHANGED <<devices, tmp>>

=============================================================================
