-------------------------- MODULE FileReceiveProofs --------------------------
(***************************************************************************)
(* Proofs about FileReceive, for any transfers, names, contents, sizes of  *)
(* chunks and caps.                                                        *)
(*                                                                         *)
(* Everything rests on one fact about a chunk: cut to any length, it has   *)
(* the bytes of its transfer at the places it is written to                *)
(* (ChunkIsInPlace).  So a write never puts a byte elsewhere, and a write  *)
(* over the whole content changes nothing.                                 *)
(***************************************************************************)
EXTENDS FileReceive, FiniteSetTheorems, SequenceTheorems, TLAPS

(* The properties of the run, with what the cap needs to be counted.       *)
ReceiveInv ==
  /\ TypeOK
  /\ IsFiniteSet(Active) /\ ActiveBound
  /\ CompleteFileIntact
  /\ OwnBytesInPlace

(* The bytes of data, written at offset, are those of content there.       *)
InPlace(content, offset, data) ==
  /\ data \in Seq(Byte) /\ offset \in Nat
  /\ \A j \in 1..Len(data) :
       offset + j \in 1..Len(content) /\ data[j] = content[offset + j]

(* What OwnBytesInPlace says of one file.                                  *)
HoldsOnlyOf(file, content) ==
  /\ Len(file) <= Len(content)
  /\ \A p \in 1..Len(file) : file[p] \in {content[p], Hole}

-----------------------------------------------------------------------------
(* Files and chunks                                                        *)

(* The mark of a missing file is no sequence of bytes.                     *)
LEMMA AbsentIsNoFile == Absent \notin File
<1> SUFFICES ASSUME Absent \in Seq(Byte \cup {Hole}) PROVE FALSE
  BY DEF File
<1>1. Len(Absent) = 1 /\ Absent[1] = -1
  BY DEF Absent
<1>2. Absent[1] \in Byte \cup {Hole}
  BY <1>1, ElementOfSeq
<1> QED  BY <1>1, <1>2, ReceiveAssumption DEF Hole

(* What can be read under a name is a sequence of bytes.                   *)
LEMMA BytesAreAFile ==
  ASSUME TypeOK, NEW n \in Name
  PROVE  Bytes(n) \in File /\ Bytes(n) # Absent
<1>1. disk[n] \in File \cup {Absent}
  BY DEF TypeOK
<1>2. <<>> \in File
  BY DEF File
<1> QED  BY <1>1, <1>2, AbsentIsNoFile DEF Bytes

(* The first byte of a chunk has a place at or behind the start.           *)
LEMMA OffsetType ==
  ASSUME NEW i \in Nat
  PROVE  i * ChunkSize \in Nat /\ (i + 1) * ChunkSize \in Nat
BY ReceiveAssumption

(* A chunk, or the beginning of one, has its bytes from their places.      *)
LEMMA ChunkIsInPlace ==
  ASSUME NEW t \in Tid, NEW i \in Nat, NEW k \in 0..Len(ChunkOf(t, i))
  PROVE  /\ InPlace(ContentOf[t], i * ChunkSize, ChunkOf(t, i))
         /\ InPlace(ContentOf[t], i * ChunkSize, SubSeq(ChunkOf(t, i), 1, k))
<1> DEFINE content == ContentOf[t]
           first == i * ChunkSize
           next == (i + 1) * ChunkSize
           last == SmallerOf(next, Len(content))
           chunk == SubSeq(content, first + 1, last)
<1>1. content \in Seq(Byte) /\ Len(content) \in Nat
  BY ReceiveAssumption
<1>2. first \in Nat /\ last \in Nat /\ last <= Len(content)
  <2>1. first \in Nat /\ next \in Nat
    BY OffsetType
  <2> HIDE DEF next
  <2> QED  BY <1>1, <2>1 DEF SmallerOf
<1>3. chunk = ChunkOf(t, i)
  BY DEF ChunkOf
<1> HIDE DEF first, last, content
<1>4. \A j \in (first + 1)..last : content[j] \in Byte
  BY <1>1, <1>2, ElementOfSeq
<1>5. /\ chunk \in Seq(Byte)
      /\ Len(chunk) = IF first + 1 <= last THEN last - (first + 1) + 1 ELSE 0
      /\ \A j \in 1..(last - (first + 1) + 1) : chunk[j] = content[first + 1 + j - 1]
  BY <1>2, <1>4, SubSeqProperties
<1>6. InPlace(content, first, chunk)
  BY <1>1, <1>2, <1>5 DEF InPlace
<1> HIDE DEF chunk
<1>7. k \in 0..Len(chunk) /\ Len(chunk) \in Nat
  BY <1>3, <1>5, <1>6
<1>8. \A j \in 1..k : chunk[j] \in Byte
  BY <1>5, <1>7, ElementOfSeq
<1> DEFINE cut == SubSeq(chunk, 1, k)
<1>9. /\ cut \in Seq(Byte)
      /\ Len(cut) = k
      /\ \A j \in 1..k : cut[j] = chunk[j]
  BY <1>7, <1>8, SubSeqProperties
<1>10. InPlace(content, first, cut)
  BY <1>6, <1>7, <1>9 DEF InPlace
<1> QED  BY <1>3, <1>6, <1>10 DEF content, first

(* The byte at p when data has been written to file at offset.             *)
Overlay(file, offset, data, p) ==
  IF p \in (offset + 1)..(offset + Len(data)) THEN data[p - offset]
  ELSE IF p <= Len(file) THEN file[p]
  ELSE Hole

(* The length and the bytes of a file after a write.                       *)
LEMMA WriteIsAFile ==
  ASSUME NEW file \in File, NEW offset \in Nat, NEW data \in Seq(Byte)
  PROVE  /\ AfterWrite(file, offset, data) \in File
         /\ Len(AfterWrite(file, offset, data)) \in Nat
         /\ Len(AfterWrite(file, offset, data)) =
              IF data = <<>> THEN Len(file) ELSE LargerOf(Len(file), offset + Len(data))
         /\ \A p \in 1..Len(AfterWrite(file, offset, data)) :
              AfterWrite(file, offset, data)[p] = Overlay(file, offset, data, p)
<1> DEFINE end == IF data = <<>> THEN Len(file) ELSE LargerOf(Len(file), offset + Len(data))
           byte(p) == Overlay(file, offset, data, p)
           after == [p \in 1..end |-> byte(p)]
<1>1. AfterWrite(file, offset, data) = after
  BY DEF AfterWrite, Overlay
<1>2. Len(file) \in Nat /\ Len(data) \in Nat /\ end \in Nat
  BY DEF File, LargerOf
<1>3. \A p \in 1..end : byte(p) \in Byte \cup {Hole}
  <2> SUFFICES ASSUME NEW p \in 1..end PROVE byte(p) \in Byte \cup {Hole}
    OBVIOUS
  <2>1. CASE p \in (offset + 1)..(offset + Len(data))
    <3>1. p - offset \in 1..Len(data)
      BY <1>2, <2>1
    <3>2. data[p - offset] \in Byte
      BY <3>1, ElementOfSeq
    <3> QED  BY <2>1, <3>2 DEF Overlay
  <2>2. CASE p \notin (offset + 1)..(offset + Len(data)) /\ p <= Len(file)
    <3>1. p \in 1..Len(file)
      BY <1>2, <2>2
    <3>2. file[p] \in Byte \cup {Hole}
      BY <3>1, ElementOfSeq DEF File
    <3> QED  BY <2>2, <3>2 DEF Overlay
  <2> QED  BY <2>1, <2>2 DEF Overlay
<1> HIDE DEF end, byte
<1>4. after \in [1..end -> Byte \cup {Hole}]
  BY <1>3
<1>5. after \in File /\ Len(after) = end
  BY <1>2, <1>4 DEF File
<1>6. \A p \in 1..end : after[p] = byte(p)
  OBVIOUS
<1> QED  BY <1>1, <1>2, <1>5, <1>6 DEF end, byte

(* Bytes in place and holes are all that a write of bytes in place leaves. *)
LEMMA WriteKeepsPlaces ==
  ASSUME NEW content \in Seq(Byte), NEW file \in File, NEW offset, NEW data,
         InPlace(content, offset, data),
         HoldsOnlyOf(file, content)
  PROVE  HoldsOnlyOf(AfterWrite(file, offset, data), content)
<1> DEFINE after == AfterWrite(file, offset, data)
<1>1. /\ Len(file) \in Nat /\ Len(content) \in Nat /\ Len(data) \in Nat
      /\ data \in Seq(Byte) /\ offset \in Nat
      /\ data # <<>> => Len(data) \in 1..Len(data)
      /\ Len(file) <= Len(content)
      /\ \A p \in 1..Len(file) : file[p] \in {content[p], Hole}
  BY DEF File, InPlace, HoldsOnlyOf
<1>2. data # <<>> => offset + Len(data) <= Len(content)
  BY <1>1 DEF InPlace
<1>3. /\ Len(after) = IF data = <<>> THEN Len(file) ELSE LargerOf(Len(file), offset + Len(data))
      /\ Len(after) \in Nat
      /\ \A p \in 1..Len(after) :
           after[p] = Overlay(file, offset, data, p)
  BY <1>1, WriteIsAFile
<1> HIDE DEF after
<1>4. Len(after) <= Len(content)
  BY <1>1, <1>2, <1>3 DEF LargerOf
<1>5. ASSUME NEW p \in 1..Len(after)
      PROVE  after[p] \in {content[p], Hole}
  <2>1. CASE p \in (offset + 1)..(offset + Len(data))
    <3>1. p - offset \in 1..Len(data) /\ offset + (p - offset) = p
      BY <1>1, <1>3, <2>1
    <3>2. data[p - offset] = content[p]
      BY <3>1 DEF InPlace
    <3> QED  BY <1>3, <2>1, <3>2 DEF Overlay
  <2>2. CASE p \notin (offset + 1)..(offset + Len(data))
    BY <1>1, <1>3, <2>2 DEF Overlay
  <2> QED  BY <2>1, <2>2
<1> QED  BY <1>4, <1>5 DEF after, HoldsOnlyOf

(* A write of bytes in place over the whole content changes nothing.       *)
LEMMA WriteOverContent ==
  ASSUME NEW content \in Seq(Byte), NEW offset, NEW data, InPlace(content, offset, data)
  PROVE  AfterWrite(content, offset, data) = content
<1> DEFINE after == AfterWrite(content, offset, data)
<1>1. /\ Len(content) \in Nat /\ Len(data) \in Nat
      /\ data \in Seq(Byte) /\ offset \in Nat
      /\ data # <<>> => Len(data) \in 1..Len(data)
  BY DEF InPlace
<1>2. content \in File
  BY SeqMonotonic DEF File
<1>3. data # <<>> => offset + Len(data) <= Len(content)
  BY <1>1 DEF InPlace
<1>4. /\ after \in File
      /\ Len(after) = IF data = <<>> THEN Len(content) ELSE LargerOf(Len(content), offset + Len(data))
      /\ \A p \in 1..Len(after) :
           after[p] = Overlay(content, offset, data, p)
  BY <1>1, <1>2, WriteIsAFile
<1> HIDE DEF after
<1>5. Len(after) = Len(content)
  BY <1>1, <1>3, <1>4 DEF LargerOf
<1>6. ASSUME NEW p \in 1..Len(after)
      PROVE  after[p] = content[p]
  <2>1. CASE p \in (offset + 1)..(offset + Len(data))
    <3>1. p - offset \in 1..Len(data) /\ offset + (p - offset) = p
      BY <1>1, <1>4, <2>1
    <3>2. data[p - offset] = content[p]
      BY <3>1 DEF InPlace
    <3> QED  BY <1>4, <2>1, <3>2 DEF Overlay
  <2>2. CASE p \notin (offset + 1)..(offset + Len(data))
    BY <1>1, <1>4, <1>5, <2>2 DEF Overlay
  <2> QED  BY <2>1, <2>2
<1>7. after = content
  BY <1>2, <1>4, <1>5, <1>6, SeqEqual DEF File
<1> QED  BY <1>7 DEF after

-----------------------------------------------------------------------------
(* The parts of the invariant                                              *)

(* OwnBytesInPlace, transfer by transfer.                                  *)
LEMMA OwnBytesByTransfer ==
  OwnBytesInPlace <=> \A u \in Tid : Sole(u) => HoldsOnlyOf(Bytes(NameOf[u]), ContentOf[u])
BY DEF OwnBytesInPlace, HoldsOnlyOf

(* When no transfer becomes active, the cap still holds.                   *)
LEMMA NoneBecomesActive ==
  ASSUME ReceiveInv, \A u \in Tid : state'[u] = "ACTIVE" => state[u] = "ACTIVE"
  PROVE  IsFiniteSet(Active)' /\ ActiveBound'
<1>1. Active' \in SUBSET Active
  BY DEF Active
<1>2. IsFiniteSet(Active') /\ Cardinality(Active') <= Cardinality(Active)
  BY <1>1, FS_Subset DEF ReceiveInv
<1>3. Cardinality(Active') \in Nat /\ Cardinality(Active) \in Nat /\ MaxActive \in Nat
  BY <1>2, FS_CardinalityType, ReceiveAssumption DEF ReceiveInv
<1> QED  BY <1>2, <1>3 DEF ReceiveInv, ActiveBound

(* A transfer whose file is left alone keeps what is known of it, unless   *)
(* it has become COMPLETE.                                                 *)
LEMMA OtherFilesAreKept ==
  ASSUME ReceiveInv, NEW u \in Tid, old' = old, moved \subseteq moved',
         disk'[NameOf[u]] = disk[NameOf[u]]
  PROVE  /\ Sole(u)' => HoldsOnlyOf(Bytes(NameOf[u])', ContentOf[u])
         /\ /\ state'[u] = "COMPLETE" /\ state[u] = "COMPLETE"
            /\ Sole(u)' /\ NameOf[u] \notin moved'
            => disk'[NameOf[u]] = ContentOf[u]
<1>1. Sole(u)' => Sole(u)
  BY DEF Sole
<1>2. Bytes(NameOf[u])' = Bytes(NameOf[u])
  BY DEF Bytes
<1> QED  BY <1>1, <1>2, OwnBytesByTransfer DEF ReceiveInv, CompleteFileIntact

(* Files of other names than the one a transfer writes or loses are kept,  *)
(* and a transfer that is alone has no other transfer at its file.         *)
LEMMA OneFileChanges ==
  ASSUME ReceiveInv, NEW t \in Tid, NEW bytes \in File \cup {Absent},
         disk' = [disk EXCEPT ![NameOf[t]] = bytes],
         old' = old, moved \subseteq moved', moved' \in SUBSET Name,
         state' \in [Tid -> States], resume' \in [Tid -> Nat],
         \A u \in Tid : state'[u] = "COMPLETE" => state[u] = "COMPLETE",
         IsFiniteSet(Active)' /\ ActiveBound',
         Sole(t) => HoldsOnlyOf(IF bytes = Absent THEN <<>> ELSE bytes, ContentOf[t]),
         Sole(t) /\ state'[t] = "COMPLETE" /\ NameOf[t] \notin moved' => bytes = ContentOf[t]
  PROVE  ReceiveInv'
<1>1. NameOf[t] \in Name
  BY ReceiveAssumption
<1>2. disk'[NameOf[t]] = bytes /\ \A n \in Name \ {NameOf[t]} : disk'[n] = disk[n]
  BY <1>1 DEF ReceiveInv, TypeOK
<1>3. Bytes(NameOf[t])' = IF bytes = Absent THEN <<>> ELSE bytes
  BY <1>2 DEF Bytes
<1>4. TypeOK'
  BY <1>1 DEF ReceiveInv, TypeOK
<1>5. ASSUME NEW u \in Tid
      PROVE  /\ Sole(u)' => HoldsOnlyOf(Bytes(NameOf[u])', ContentOf[u])
             /\ state'[u] = "COMPLETE" /\ Sole(u)' /\ NameOf[u] \notin moved'
                => disk'[NameOf[u]] = ContentOf[u]
  <2>1. CASE NameOf[u] # NameOf[t]
    <3>1. disk'[NameOf[u]] = disk[NameOf[u]]
      BY <1>2, <2>1, ReceiveAssumption
    <3> QED  BY <3>1, OtherFilesAreKept
  <2>2. CASE NameOf[u] = NameOf[t] /\ u # t
    <3>1. ~Sole(u)'
      BY <2>2 DEF Sole
    <3> QED  BY <3>1
  <2>3. CASE u = t
    <3>1. Sole(t)' => Sole(t)
      BY DEF Sole
    <3> QED  BY <1>2, <1>3, <2>3, <3>1
  <2> QED  BY <2>1, <2>2, <2>3
<1>6. OwnBytesInPlace'
  <2>1. \A u \in Tid : Sole(u)' => HoldsOnlyOf(Bytes(NameOf[u])', ContentOf[u])
    BY <1>5
  <2> QED  BY <2>1 DEF OwnBytesInPlace, HoldsOnlyOf
<1>7. CompleteFileIntact'
  BY <1>5 DEF CompleteFileIntact
<1> QED  BY <1>4, <1>6, <1>7 DEF ReceiveInv

-----------------------------------------------------------------------------
(* Every initial state satisfies the invariant: files that are there when  *)
(* the daemon starts are somebody else's.                                  *)
LEMMA ReceiveBegins == Init => ReceiveInv
<1> SUFFICES ASSUME Init PROVE ReceiveInv
  OBVIOUS
<1>1. Leftovers \subseteq File
  BY SeqMonotonic, ReceiveAssumption DEF File
<1>2. TypeOK
  BY <1>1 DEF Init, TypeOK, States
<1>3. Active = {}
  BY DEF Init, Active
<1>4. IsFiniteSet(Active) /\ ActiveBound
  BY <1>3, FS_EmptySet, ReceiveAssumption DEF ActiveBound
<1>5. CompleteFileIntact
  BY DEF Init, CompleteFileIntact
<1>6. ASSUME NEW u \in Tid, Sole(u)
      PROVE  HoldsOnlyOf(Bytes(NameOf[u]), ContentOf[u])
  <2>1. Bytes(NameOf[u]) = <<>>
    BY <1>6, ReceiveAssumption DEF Init, Sole, Bytes
  <2>2. Len(ContentOf[u]) \in Nat
    BY ReceiveAssumption
  <2> QED  BY <2>1, <2>2 DEF HoldsOnlyOf
<1> QED  BY <1>2, <1>4, <1>5, <1>6, OwnBytesByTransfer DEF ReceiveInv

(* Bytes that are in place may be written to the file of their transfer.   *)
LEMMA WritingInPlace ==
  ASSUME ReceiveInv, NEW t \in Tid, NEW offset, NEW data,
         InPlace(ContentOf[t], offset, data),
         disk' = [disk EXCEPT ![NameOf[t]] = AfterWrite(Bytes(NameOf[t]), offset, data)],
         state' \in {state, [state EXCEPT ![t] = "FAILED"]},
         UNCHANGED <<resume, old, moved>>
  PROVE  ReceiveInv'
<1> DEFINE file == Bytes(NameOf[t])
           after == AfterWrite(file, offset, data)
<1>1. NameOf[t] \in Name /\ ContentOf[t] \in Seq(Byte)
  BY ReceiveAssumption
<1>2. file \in File /\ after \in File /\ after # Absent
  <2>1. file \in File
    BY <1>1, BytesAreAFile DEF ReceiveInv
  <2>2. offset \in Nat /\ data \in Seq(Byte)
    BY DEF InPlace
  <2> HIDE DEF file
  <2>3. after \in File
    BY <2>1, <2>2, WriteIsAFile
  <2> QED  BY <2>1, <2>3, AbsentIsNoFile
<1>3. state' \in [Tid -> States] /\ resume' \in [Tid -> Nat] /\ moved' \in SUBSET Name
  BY DEF ReceiveInv, TypeOK, States
<1>4. \A u \in Tid : /\ state'[u] = "COMPLETE" => state[u] = "COMPLETE"
                     /\ state'[u] = "ACTIVE" => state[u] = "ACTIVE"
  BY DEF ReceiveInv, TypeOK
<1>5. IsFiniteSet(Active)' /\ ActiveBound'
  BY <1>4, NoneBecomesActive
<1>6. Sole(t) => HoldsOnlyOf(after, ContentOf[t])
  BY <1>1, <1>2, WriteKeepsPlaces, OwnBytesByTransfer DEF ReceiveInv
<1>7. ASSUME Sole(t), state'[t] = "COMPLETE", NameOf[t] \notin moved'
      PROVE  after = ContentOf[t]
  <2>1. disk[NameOf[t]] = ContentOf[t]
    BY <1>4, <1>7 DEF ReceiveInv, CompleteFileIntact
  <2>2. ContentOf[t] \in File
    BY <1>1, SeqMonotonic DEF File
  <2>3. file = ContentOf[t]
    BY <2>1, <2>2, AbsentIsNoFile DEF Bytes
  <2> QED  BY <1>1, <2>3, WriteOverContent
<1> HIDE DEF after
<1>8. disk' = [disk EXCEPT ![NameOf[t]] = after]
  BY DEF after
<1> QED  BY <1>2, <1>3, <1>4, <1>5, <1>6, <1>7, <1>8, OneFileChanges

(* An accepted offer takes one place below the cap, and the file stays     *)
(* what it is, or is created empty.                                        *)
LEMMA AcceptKeepsInv ==
  ASSUME ReceiveInv, NEW t \in Tid, AcceptOffer(t)
  PROVE  ReceiveInv'
<1> DEFINE file == Bytes(NameOf[t])
<1>1. NameOf[t] \in Name
  BY ReceiveAssumption
<1>2. file \in File /\ file # Absent /\ Len(file) \in Nat
  BY <1>1, BytesAreAFile DEF ReceiveInv, File
<1>3. /\ disk' = [disk EXCEPT ![NameOf[t]] = file]
      /\ resume' = [resume EXCEPT ![t] = Len(file) \div ChunkSize]
      /\ state' = [state EXCEPT ![t] = "ACTIVE"]
      /\ old' = old /\ moved' = moved
      /\ Cardinality(Active) < MaxActive
  BY DEF AcceptOffer
<1>4. Len(file) \div ChunkSize \in Nat
  BY <1>2, ReceiveAssumption
<1>5. state' \in [Tid -> States] /\ resume' \in [Tid -> Nat] /\ moved' \in SUBSET Name
  BY <1>3, <1>4 DEF ReceiveInv, TypeOK, States
<1>6. \A u \in Tid : state'[u] = "COMPLETE" => state[u] = "COMPLETE"
  BY <1>3 DEF ReceiveInv, TypeOK
<1>7. IsFiniteSet(Active)' /\ ActiveBound'
  <2>1. Active' = Active \cup {t}
    BY <1>3 DEF ReceiveInv, TypeOK, Active
  <2>2. /\ IsFiniteSet(Active')
        /\ Cardinality(Active') \in {Cardinality(Active), Cardinality(Active) + 1}
    BY <2>1, FS_AddElement DEF ReceiveInv
  <2>3. Cardinality(Active) \in Nat /\ MaxActive \in Nat
    BY FS_CardinalityType, ReceiveAssumption DEF ReceiveInv
  <2> QED  BY <1>3, <2>2, <2>3 DEF ActiveBound
<1>8. Sole(t) => HoldsOnlyOf(file, ContentOf[t])
  BY OwnBytesByTransfer DEF ReceiveInv
<1>9. state'[t] = "ACTIVE"
  BY <1>3 DEF ReceiveInv, TypeOK
<1> HIDE DEF file
<1> QED  BY <1>2, <1>3, <1>5, <1>6, <1>7, <1>8, <1>9, OneFileChanges

(* Chunks, whole, cut short or refused.                                    *)
LEMMA ChunkKeepsInv ==
  ASSUME ReceiveInv, NEW t \in Tid, NEW i \in 0..(Total(t) - 1),
         WriteChunk(t, i) \/ WriteFails(t, i)
  PROVE  ReceiveInv'
<1>1. i \in Nat
  OBVIOUS
<1>2. CASE WriteChunk(t, i)
  <2>1. ContentOf[t] \in Seq(Byte)
    BY ReceiveAssumption
  <2>2. InPlace(ContentOf[t], i * ChunkSize, ChunkOf(t, i))
    BY <1>1, <2>1, ChunkIsInPlace
  <2> QED  BY <1>2, <2>2, WritingInPlace DEF WriteChunk
<1>3. CASE WriteFails(t, i)
  <2> PICK k \in 0..Len(ChunkOf(t, i)) :
        disk' = [disk EXCEPT ![NameOf[t]] =
                   AfterWrite(Bytes(NameOf[t]), i * ChunkSize, SubSeq(ChunkOf(t, i), 1, k))]
    BY <1>3 DEF WriteFails
  <2>1. InPlace(ContentOf[t], i * ChunkSize, SubSeq(ChunkOf(t, i), 1, k))
    BY <1>1, ChunkIsInPlace
  <2> QED  BY <1>3, <2>1, WritingInPlace DEF WriteFails
<1> QED  BY <1>2, <1>3

(* A failed verification takes the file of its transfer away, and of no    *)
(* verified one that is alone.                                             *)
LEMMA VerifyFailKeepsInv ==
  ASSUME ReceiveInv, NEW t \in Tid, VerifyFail(t)
  PROVE  ReceiveInv'
<1>1. /\ state' = [state EXCEPT ![t] = "FAILED"]
      /\ disk' = [disk EXCEPT ![NameOf[t]] = Absent]
      /\ resume' = resume /\ old' = old /\ moved' = moved
  BY DEF VerifyFail
<1>2. state' \in [Tid -> States] /\ resume' \in [Tid -> Nat] /\ moved' \in SUBSET Name
  BY <1>1 DEF ReceiveInv, TypeOK, States
<1>3. \A u \in Tid : /\ state'[u] = "COMPLETE" => state[u] = "COMPLETE"
                     /\ state'[u] = "ACTIVE" => state[u] = "ACTIVE"
  BY <1>1 DEF ReceiveInv, TypeOK
<1>4. IsFiniteSet(Active)' /\ ActiveBound'
  BY <1>3, NoneBecomesActive
<1>5. HoldsOnlyOf(<<>>, ContentOf[t])
  <2>1. Len(ContentOf[t]) \in Nat
    BY ReceiveAssumption
  <2> QED  BY <2>1 DEF HoldsOnlyOf
<1>6. state'[t] # "COMPLETE"
  BY <1>1 DEF ReceiveInv, TypeOK
<1> QED  BY <1>1, <1>2, <1>3, <1>4, <1>5, <1>6, OneFileChanges

(* What only changes the state of sessions.                                *)
LEMMA SessionKeepsInv ==
  ASSUME ReceiveInv, NEW t \in Tid, RefuseChunk(t) \/ VerifyOk(t)
  PROVE  ReceiveInv'
<1>1. /\ disk' = disk /\ resume' = resume /\ old' = old /\ moved' = moved
      /\ \/ state' = [state EXCEPT ![t] = "FAILED"]
         \/ state' = [state EXCEPT ![t] = "COMPLETE"] /\ disk[NameOf[t]] = ContentOf[t]
  BY DEF RefuseChunk, VerifyOk
<1>2. TypeOK'
  BY <1>1 DEF ReceiveInv, TypeOK, States
<1>3. \A u \in Tid : state'[u] = "ACTIVE" => state[u] = "ACTIVE"
  BY <1>1 DEF ReceiveInv, TypeOK
<1>4. IsFiniteSet(Active)' /\ ActiveBound'
  BY <1>3, NoneBecomesActive
<1>5. OwnBytesInPlace'
  BY <1>1 DEF ReceiveInv, OwnBytesInPlace, Sole, Bytes
<1>6. CompleteFileIntact'
  BY <1>1 DEF ReceiveInv, TypeOK, CompleteFileIntact, Sole
<1> QED  BY <1>2, <1>4, <1>5, <1>6 DEF ReceiveInv

(* A file that somebody removes is noted as moved.                         *)
LEMMA RemoveKeepsInv ==
  ASSUME ReceiveInv, NEW n \in Name, Remove(n)
  PROVE  ReceiveInv'
<1>1. /\ disk' = [disk EXCEPT ![n] = Absent] /\ moved' = moved \cup {n}
      /\ state' = state /\ resume' = resume /\ old' = old
  BY DEF Remove
<1>2. TypeOK'
  BY <1>1 DEF ReceiveInv, TypeOK
<1>3. IsFiniteSet(Active)' /\ ActiveBound'
  BY <1>1, NoneBecomesActive
<1>4. ASSUME NEW u \in Tid
      PROVE  /\ Sole(u)' => HoldsOnlyOf(Bytes(NameOf[u])', ContentOf[u])
             /\ state'[u] = "COMPLETE" /\ Sole(u)' /\ NameOf[u] \notin moved'
                => disk'[NameOf[u]] = ContentOf[u]
  <2>1. CASE NameOf[u] # n
    <3>1. disk'[NameOf[u]] = disk[NameOf[u]] /\ moved \subseteq moved'
      BY <1>1, <2>1, ReceiveAssumption DEF ReceiveInv, TypeOK
    <3> QED  BY <1>1, <3>1, OtherFilesAreKept
  <2>2. CASE NameOf[u] = n
    <3>1. Bytes(NameOf[u])' = <<>> /\ NameOf[u] \in moved'
      BY <1>1, <2>2, ReceiveAssumption DEF ReceiveInv, TypeOK, Bytes
    <3>2. Len(ContentOf[u]) \in Nat
      BY ReceiveAssumption
    <3> QED  BY <3>1, <3>2 DEF HoldsOnlyOf
  <2> QED  BY <2>1, <2>2
<1>5. OwnBytesInPlace'
  <2>1. \A u \in Tid : Sole(u)' => HoldsOnlyOf(Bytes(NameOf[u])', ContentOf[u])
    BY <1>4
  <2> QED  BY <2>1 DEF OwnBytesInPlace, HoldsOnlyOf
<1>6. CompleteFileIntact'
  BY <1>4 DEF CompleteFileIntact
<1> QED  BY <1>2, <1>3, <1>5, <1>6 DEF ReceiveInv

(* A new process has no sessions.                                          *)
LEMMA RestartKeepsInv ==
  ASSUME ReceiveInv, Restart
  PROVE  ReceiveInv'
<1>1. /\ state' = [t \in Tid |-> "none"] /\ resume' = [t \in Tid |-> 0]
      /\ disk' = disk /\ old' = old /\ moved' = moved
  BY DEF Restart
<1>2. TypeOK'
  BY <1>1 DEF ReceiveInv, TypeOK, States
<1>3. IsFiniteSet(Active)' /\ ActiveBound'
  BY <1>1, NoneBecomesActive
<1>4. OwnBytesInPlace' /\ CompleteFileIntact'
  BY <1>1 DEF ReceiveInv, OwnBytesInPlace, CompleteFileIntact, Sole, Bytes
<1> QED  BY <1>2, <1>3, <1>4 DEF ReceiveInv

(* Every step preserves the invariant.                                     *)
LEMMA ReceiveNext == ReceiveInv /\ [Next]_vars => ReceiveInv'
<1> SUFFICES ASSUME ReceiveInv, [Next]_vars PROVE ReceiveInv'
  OBVIOUS
<1>1. ASSUME NEW t \in Tid, AcceptOffer(t) PROVE ReceiveInv'
  BY <1>1, AcceptKeepsInv
<1>2. ASSUME NEW t \in Tid, NEW i \in 0..(Total(t) - 1), WriteChunk(t, i) \/ WriteFails(t, i)
      PROVE  ReceiveInv'
  BY <1>2, ChunkKeepsInv
<1>3. ASSUME NEW t \in Tid, RefuseChunk(t) \/ VerifyOk(t) PROVE ReceiveInv'
  BY <1>3, SessionKeepsInv
<1>4. ASSUME NEW t \in Tid, VerifyFail(t) PROVE ReceiveInv'
  BY <1>4, VerifyFailKeepsInv
<1>5. ASSUME NEW n \in Name, Remove(n) PROVE ReceiveInv'
  BY <1>5, RemoveKeepsInv
<1>6. CASE Restart
  BY <1>6, RestartKeepsInv
<1>7. CASE UNCHANGED vars
  BY <1>7 DEF vars, ReceiveInv, TypeOK, Active, ActiveBound, CompleteFileIntact,
              OwnBytesInPlace, Sole, Bytes
<1>8. ASSUME NEW t \in Tid, RejectOffer(t) \/ VerifyRaises(t) \/ HandleAbort(t)
      PROVE  UNCHANGED vars
  BY <1>8 DEF RejectOffer, VerifyRaises, HandleAbort
<1> QED  BY <1>1, <1>2, <1>3, <1>4, <1>5, <1>6, <1>7, <1>8 DEF Next, HandleOffer, HandleComplete

(* The invariant holds in every reachable state.                           *)
THEOREM ReceiveInvariant == Spec => []ReceiveInv
BY ReceiveBegins, ReceiveNext, PTL DEF Spec

(* Types of sessions and files.                                            *)
THEOREM ReceiveTypes == Spec => []TypeOK
<1>1. ReceiveInv => TypeOK
  BY DEF ReceiveInv
<1> QED  BY <1>1, ReceiveInvariant, PTL

(* Never more than MAX_CONCURRENT_RECV sessions are active, whatever is    *)
(* offered again and whatever comes back from FAILED (handle_offer).       *)
THEOREM ActiveIsBounded == Spec => []ActiveBound
<1>1. ReceiveInv => ActiveBound
  BY DEF ReceiveInv
<1> QED  BY <1>1, ReceiveInvariant, PTL

(* A verified file survives every late, repeated, reordered or truncated   *)
(* chunk, also of its own transfer (handle_chunk, handle_complete).        *)
THEOREM CompleteFilesStayIntact == Spec => []CompleteFileIntact
<1>1. ReceiveInv => CompleteFileIntact
  BY DEF ReceiveInv
<1> QED  BY <1>1, ReceiveInvariant, PTL

(* The file of a transfer that is alone holds its own bytes in place and   *)
(* holes, and never more bytes than were offered (handle_chunk).           *)
THEOREM BytesAreOwnAndInPlace == Spec => []OwnBytesInPlace
<1>1. ReceiveInv => OwnBytesInPlace
  BY DEF ReceiveInv
<1> QED  BY <1>1, ReceiveInvariant, PTL

=============================================================================
