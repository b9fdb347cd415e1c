----------------------------- MODULE FileReceive -----------------------------
(***************************************************************************)
(* The receiving side of homelink/files/transfer.py: handle_offer,         *)
(* handle_chunk and handle_complete against the downloads directory.       *)
(*                                                                         *)
(* Each handler runs to its verdict without giving way to another one, so  *)
(* it is one step.  The messages of the transfers that peers have announced *)
(* are lost, repeated and reordered by the relays: any chunk of any        *)
(* announced transfer may arrive at any time, or arrive damaged.           *)
(*                                                                         *)
(* A file is the sequence of its bytes; what a seek past the end leaves    *)
(* unwritten reads as Hole (the zero byte).  A digest stands for the bytes *)
(* it was computed from: comparing digests is comparing contents.          *)
(***************************************************************************)
EXTENDS Integers, Sequences, FiniteSets

CONSTANTS
  Tid,              \* transfer ids
  Name,             \* names that _safe_dest accepts
  Byte,             \* non-zero bytes
  NameOf,           \* Tid -> the name a transfer is offered under
  ContentOf,        \* Tid -> the bytes a transfer carries
  ChunkSize,        \* CHUNK_SIZE
  MaxSize,          \* max_file_size
  MaxActive,        \* MAX_CONCURRENT_RECV
  Leftovers         \* contents a file may have before the daemon runs

Hole == 0
Absent == <<-1>>        \* no file: not a sequence of bytes

ASSUME ReceiveAssumption ==
  /\ ChunkSize \in Nat \ {0} /\ MaxSize \in Nat /\ MaxActive \in Nat
  /\ Byte \subseteq Nat \ {Hole}
  /\ NameOf \in [Tid -> Name]
  /\ ContentOf \in [Tid -> Seq(Byte)]
  /\ Leftovers \subseteq Seq(Byte)

VARIABLES
  state,            \* Tid -> "none" or session.state
  resume,           \* Tid -> session.resume_offset
  disk,             \* Name -> bytes of the file, or Absent
  old,              \* history: names whose file was written by somebody else
  moved             \* history: names whose file was removed by somebody else

vars == <<state, resume, disk, old, moved>>

File == Seq(Byte \cup {Hole})
States == {"none", "ACTIVE", "COMPLETE", "FAILED"}

TypeOK ==
  /\ state \in [Tid -> States]
  /\ resume \in [Tid -> Nat]
  /\ disk \in [Name -> File \cup {Absent}]
  /\ old \in SUBSET Name /\ moved \in SUBSET Name

Init ==
  /\ state = [t \in Tid |-> "none"]
  /\ resume = [t \in Tid |-> 0]
  /\ disk \in [Name -> Leftovers \cup {Absent}]
  /\ old = {n \in Name : disk[n] # Absent}
  /\ moved = {}

-----------------------------------------------------------------------------
(* Files and chunks                                                        *)

SmallerOf(a, b) == IF a < b THEN a ELSE b
LargerOf(a, b) == IF a > b THEN a ELSE b

(* _count_chunks.                                                          *)
CountChunks(size) == LargerOf(1, (size + ChunkSize - 1) \div ChunkSize)

Total(t) == CountChunks(Len(ContentOf[t]))

(* The data of chunk i, as _stream_chunks reads it.                        *)
ChunkOf(t, i) ==
  SubSeq(ContentOf[t], i * ChunkSize + 1,
         SmallerOf((i + 1) * ChunkSize, Len(ContentOf[t])))

Bytes(n) == IF disk[n] = Absent THEN <<>> ELSE disk[n]

AfterWriteAppending(file, offset, data) == file \o data

(* lseek(offset) and write(data): writing no byte does not extend a file.  *)
AfterWrite(file, offset, data) ==
  LET end == IF data = <<>> THEN Len(file) ELSE LargerOf(Len(file), offset + Len(data))
  IN  [p \in 1..end |->
        IF p \in (offset + 1)..(offset + Len(data)) THEN data[p - offset]
        ELSE IF p <= Len(file) THEN file[p]
        ELSE Hole]

-----------------------------------------------------------------------------
(* handle_offer                                                            *)

Active == {t \in Tid : state[t] = "ACTIVE"}

AcceptBeyondTheCap(t) ==
  /\ Cardinality(Active) <= MaxActive
  /\ Len(ContentOf[t]) <= MaxSize
  /\ LET n == NameOf[t]
     IN  /\ disk' = [disk EXCEPT ![n] = Bytes(n)]
         /\ resume' = [resume EXCEPT ![t] = Len(Bytes(n)) \div ChunkSize]
  /\ state' = [state EXCEPT ![t] = "ACTIVE"]
  /\ UNCHANGED <<old, moved>>

AcceptRepeatingTheLastChunk(t) ==
  /\ Cardinality(Active) < MaxActive
  /\ Len(ContentOf[t]) <= MaxSize
  /\ LET n == NameOf[t]
     IN  /\ disk' = [disk EXCEPT ![n] = Bytes(n)]
         /\ resume' = [resume EXCEPT ![t] = Len(Bytes(n)) \div ChunkSize - 1]
  /\ state' = [state EXCEPT ![t] = "ACTIVE"]
  /\ UNCHANGED <<old, moved>>

(* Accepted: the offset to resume from is the number of whole chunks that  *)
(* any existing file of that name could hold; a missing file is created.   *)
(* An id that is offered again starts a new session in place of its old    *)
(* one, whatever became of that.                                           *)
AcceptOffer(t) ==
  /\ Cardinality(Active) < MaxActive
  /\ Len(ContentOf[t]) <= MaxSize
  /\ LET n == NameOf[t]
     IN  /\ disk' = [disk EXCEPT ![n] = Bytes(n)]
         /\ resume' = [resume EXCEPT ![t] = Len(Bytes(n)) \div ChunkSize]
  /\ state' = [state EXCEPT ![t] = "ACTIVE"]
  /\ UNCHANGED <<old, moved>>

(* Too many active transfers, too large, over the rate, or the file cannot *)
(* be created: refused without a trace.                                    *)
RejectOffer(t) == UNCHANGED vars

HandleOffer(t) == AcceptOffer(t) \/ RejectOffer(t)

-----------------------------------------------------------------------------
(* handle_chunk                                                            *)

(* The chunk lands at its own offset.  The state of the session is not     *)
(* looked at: a chunk is also written after COMPLETE or FAILED, and        *)
(* creates the file anew when it is gone.                                  *)
WriteChunk(t, i) ==
  /\ state[t] # "none"
  /\ disk' = [disk EXCEPT ![NameOf[t]] =
                AfterWrite(Bytes(NameOf[t]), i * ChunkSize, ChunkOf(t, i))]
  /\ UNCHANGED <<state, resume, old, moved>>

(* The write fails (a full disk), or ends short of the whole chunk: os.open *)
(* may have created the file, and a part of the data may be on disk.  Only *)
(* a write that raises is noticed.                                         *)
WriteFails(t, i) ==
  /\ state[t] # "none"
  /\ \E k \in 0..Len(ChunkOf(t, i)) :
       disk' = [disk EXCEPT ![NameOf[t]] =
                  AfterWrite(Bytes(NameOf[t]), i * ChunkSize, SubSeq(ChunkOf(t, i), 1, k))]
  /\ state' \in {state, [state EXCEPT ![t] = "FAILED"]}
  /\ UNCHANGED <<resume, old, moved>>

(* Damaged on the way: the digest of the chunk or its index is wrong.      *)
RefuseChunk(t) ==
  /\ state[t] # "none"
  /\ state' = [state EXCEPT ![t] = "FAILED"]
  /\ UNCHANGED <<resume, disk, old, moved>>

-----------------------------------------------------------------------------
(* handle_complete                                                         *)

VerifyLength(t) ==
  /\ state[t] # "none"
  /\ disk[NameOf[t]] # Absent
  /\ Len(disk[NameOf[t]]) = Len(ContentOf[t])
  /\ state' = [state EXCEPT ![t] = "COMPLETE"]
  /\ UNCHANGED <<resume, disk, old, moved>>

VerifyOk(t) ==
  /\ state[t] # "none"
  /\ disk[NameOf[t]] # Absent
  /\ disk[NameOf[t]] = ContentOf[t]
  /\ state' = [state EXCEPT ![t] = "COMPLETE"]
  /\ UNCHANGED <<resume, disk, old, moved>>

(* The file is deleted, whichever transfer wrote it.                       *)
VerifyFail(t) ==
  /\ state[t] # "none"
  /\ disk[NameOf[t]] # Absent
  /\ disk[NameOf[t]] # ContentOf[t]
  /\ state' = [state EXCEPT ![t] = "FAILED"]
  /\ disk' = [disk EXCEPT ![NameOf[t]] = Absent]
  /\ UNCHANGED <<resume, old, moved>>

(* A file that is gone cannot be hashed: the handler raises.               *)
VerifyRaises(t) ==
  /\ state[t] # "none"
  /\ disk[NameOf[t]] = Absent
  /\ UNCHANGED vars

HandleComplete(t) == VerifyOk(t) \/ VerifyFail(t) \/ VerifyRaises(t)

-----------------------------------------------------------------------------
(* Everything else                                                         *)

(* file_abort from the sender: the daemon registers no handler for it.     *)
HandleAbort(t) == state[t] # "none" /\ UNCHANGED vars

(* rm_request, or the user moves a file away.                              *)
Remove(n) ==
  /\ disk[n] # Absent
  /\ disk' = [disk EXCEPT ![n] = Absent]
  /\ moved' = moved \cup {n}
  /\ UNCHANGED <<state, resume, old>>

(* The process ends and a new one starts: sessions are in memory only.     *)
Restart ==
  /\ state' = [t \in Tid |-> "none"]
  /\ resume' = [t \in Tid |-> 0]
  /\ UNCHANGED <<disk, old, moved>>

Next ==
  \/ \E t \in Tid :
       \/ HandleOffer(t)
       \/ \E i \in 0..(Total(t) - 1) : WriteChunk(t, i) \/ WriteFails(t, i)
       \/ RefuseChunk(t)
       \/ HandleComplete(t)
       \/ HandleAbort(t)
  \/ \E n \in Name : Remove(n)
  \/ Restart

Spec == Init /\ [][Next]_vars

-----------------------------------------------------------------------------
(* Properties                                                              *)

(* The file of t is written by nobody but t.                               *)
Sole(t) == /\ \A u \in Tid \ {t} : NameOf[u] # NameOf[t]
           /\ NameOf[t] \notin old

(* Never more than MAX_CONCURRENT_RECV sessions are active (SA-07), also   *)
(* when ids are offered again or failed transfers come back.               *)
ActiveBound == Cardinality(Active) <= MaxActive

(* A transfer that was verified stays verified: late, repeated, reordered  *)
(* or truncated chunks never change the file of a COMPLETE transfer that   *)
(* is alone under its name, as long as nobody removes it.                  *)
CompleteFileIntact ==
  \A t \in Tid :
    state[t] = "COMPLETE" /\ Sole(t) /\ NameOf[t] \notin moved
      => disk[NameOf[t]] = ContentOf[t]

(* Whatever was lost or cut short, the file of such a transfer holds only  *)
(* its own bytes, each in its place, and holes: never a byte elsewhere,    *)
(* never more bytes than were offered.                                     *)
OwnBytesInPlace ==
  \A t \in Tid :
    Sole(t) =>
      LET file == Bytes(NameOf[t])
      IN  /\ Len(file) <= Len(ContentOf[t])
          /\ \A p \in 1..Len(file) : file[p] \in {ContentOf[t][p], Hole}

-----------------------------------------------------------------------------
(* What the protocol description says                                      *)

(* protocol.py:20 "receiver sends resume_offset in FILE_ACCEPT; sender     *)
(* skips chunks below offset": what lies below the offset of an active     *)
(* session is what the sender would have sent, even when nobody else ever  *)
(* wrote or removed the file.                                              *)
ResumePrefixValid ==
  \A t \in Tid :
    state[t] = "ACTIVE" /\ Sole(t) /\ NameOf[t] \notin moved =>
      \A p \in 1..SmallerOf(resume[t] * ChunkSize, Len(ContentOf[t])) :
        p <= Len(Bytes(NameOf[t])) /\ Bytes(NameOf[t])[p] = ContentOf[t][p]

=============================================================================
