---------------------------- MODULE InboundProofs ----------------------------
(***************************************************************************)
(* Proofs about Inbound: the rate bound, the dispatch of each form of a    *)
(* message at most once, what the nonce cache may forget, and the          *)
(* implementation of OnceDelivery, for all values of the constants that    *)
(* satisfy ParameterAssumption.                                            *)
(***************************************************************************)
EXTENDS Inbound, SequenceTheorems, TLAPS

-----------------------------------------------------------------------------
(* Sequences                                                               *)

(* What popping the first k entries leaves.                                *)
LEMMA DropFirstFacts ==
  ASSUME NEW S, NEW s \in Seq(S), NEW k \in 0..Len(s)
  PROVE  /\ DropFirst(s, k) \in Seq(S)
         /\ Len(DropFirst(s, k)) = Len(s) - k
         /\ \A i \in 1..(Len(s) - k) : DropFirst(s, k)[i] = s[k + i]
<1>1. Len(s) \in Nat  BY LenProperties
<1>2. /\ DropFirst(s, k) \in Seq(S)
      /\ Len(DropFirst(s, k)) = IF k + 1 <= Len(s) THEN Len(s) - (k + 1) + 1 ELSE 0
      /\ \A i \in 1..(Len(s) - (k + 1) + 1) : DropFirst(s, k)[i] = s[k + 1 + i - 1]
  BY <1>1, SubSeqProperties DEF DropFirst
<1> QED  BY <1>1, <1>2

(* Appending an entry.                                                     *)
LEMMA AppendFacts ==
  ASSUME NEW S, NEW s \in Seq(S), NEW x \in S
  PROVE  /\ Append(s, x) \in Seq(S)
         /\ Len(Append(s, x)) = Len(s) + 1
         /\ \A i \in 1..Len(s) : Append(s, x)[i] = s[i]
         /\ Append(s, x)[Len(s) + 1] = x
BY AppendProperties

(* The recording times of a cache, as a sequence.                          *)
LEMMA TimesFacts ==
  ASSUME NEW c \in Seq(CacheEntry)
  PROVE  /\ Times(c) \in Seq(Nat)
         /\ Len(Times(c)) = Len(c)
         /\ \A i \in 1..Len(c) : Times(c)[i] = c[i].at
<1>1. Len(c) \in Nat /\ \A i \in 1..Len(c) : c[i] \in CacheEntry
  BY LenProperties, ElementOfSeq
<1>2. Times(c) \in [1..Len(c) -> Nat]
  BY <1>1 DEF Times, CacheEntry
<1>3. Times(c) \in Seq(Nat)
  BY <1>1, <1>2, SeqDef
<1>4. DOMAIN Times(c) = 1..Len(Times(c)) /\ Len(Times(c)) \in Nat
  BY <1>3, LenProperties
<1>5. Len(Times(c)) = Len(c)
  BY <1>1, <1>2, <1>4
<1> QED  BY <1>2, <1>3, <1>5 DEF Times

-----------------------------------------------------------------------------
(* The limiter                                                             *)

(* A bucket before and after the eviction of k entries.                    *)
LEMMA EvictedBucket ==
  ASSUME TypeOK, BucketOrder, AdmittedTail,
         NEW k \in 0..Len(bucket), PopsExpired(bucket, now - Window, k),
         NEW rest, rest = DropFirst(bucket, k)
  PROVE  /\ rest \in Seq(Nat) /\ Len(rest) = Len(bucket) - k
         /\ Len(bucket) \in Nat /\ Len(admitted) \in Nat
         /\ \A i \in 1..Len(rest) : /\ rest[i] = bucket[k + i]
                                    /\ rest[i] >= now - Window /\ rest[i] <= now
                                    /\ rest[i] = admitted[Len(admitted) - Len(rest) + i]
         /\ \A i, j \in 1..Len(rest) : i <= j => rest[i] <= rest[j]
         /\ \A i \in 1..(Len(admitted) - Len(rest)) : admitted[i] < now - Window
<1>1. /\ bucket \in Seq(Nat) /\ admitted \in Seq(Nat)
      /\ Len(bucket) \in Nat /\ Len(admitted) \in Nat
      /\ now \in Nat /\ Window \in Nat
      /\ \A i \in 1..Len(bucket) : bucket[i] \in Nat
      /\ \A i \in 1..Len(admitted) : admitted[i] \in Nat
  BY ParameterAssumption, LenProperties, ElementOfSeq DEF TypeOK
<1>2. /\ rest \in Seq(Nat) /\ Len(rest) = Len(bucket) - k
      /\ \A i \in 1..Len(rest) : rest[i] = bucket[k + i]
  BY <1>1, DropFirstFacts
<1>3. /\ \A i \in 1..k : bucket[i] < now - Window
      /\ k < Len(bucket) => bucket[k + 1] >= now - Window
  BY DEF PopsExpired
<1>4. \A i \in 1..Len(rest) : rest[i] >= now - Window /\ rest[i] <= now
  <2> TAKE i \in 1..Len(rest)
  <2>1. k + 1 \in 1..Len(bucket) /\ k + i \in 1..Len(bucket) /\ k + 1 <= k + i
    BY <1>1, <1>2
  <2>2. bucket[k + 1] <= bucket[k + i] /\ bucket[k + i] <= now
    BY <2>1 DEF BucketOrder
  <2>3. bucket[k + 1] >= now - Window
    BY <1>1, <1>3, <2>1
  <2>4. rest[i] = bucket[k + i]
    BY <1>2
  <2>5. bucket[k + 1] \in Nat /\ bucket[k + i] \in Nat
    BY <1>1, <2>1
  <2>6. now \in Nat /\ Window \in Nat
    BY <1>1
  <2> QED  BY <2>2, <2>3, <2>4, <2>5, <2>6
<1>5. \A i, j \in 1..Len(rest) : i <= j => rest[i] <= rest[j]
  <2> TAKE i, j \in 1..Len(rest)
  <2>1. k + i \in 1..Len(bucket) /\ k + j \in 1..Len(bucket)
    BY <1>1, <1>2
  <2>2. i <= j => k + i <= k + j
    BY <1>1, <1>2
  <2> QED  BY <1>2, <2>1, <2>2 DEF BucketOrder
<1>6. \A i \in 1..Len(rest) : rest[i] = admitted[Len(admitted) - Len(rest) + i]
  <2> TAKE i \in 1..Len(rest)
  <2>1. k + i \in 1..Len(bucket)
    BY <1>1, <1>2
  <2>2. bucket[k + i] = admitted[Len(admitted) - Len(bucket) + (k + i)]
    BY <2>1 DEF AdmittedTail
  <2>3. Len(admitted) - Len(bucket) + (k + i) = Len(admitted) - Len(rest) + i
    BY <1>1, <1>2
  <2> QED  BY <1>2, <2>2, <2>3
<1>7. \A i \in 1..(Len(admitted) - Len(rest)) : admitted[i] < now - Window
  <2> TAKE i \in 1..(Len(admitted) - Len(rest))
  <2>1. CASE i <= Len(admitted) - Len(bucket)
    BY <1>1, <2>1 DEF AdmittedTail
  <2>2. CASE i > Len(admitted) - Len(bucket)
    <3> DEFINE m == i - (Len(admitted) - Len(bucket))
    <3>1. m \in 1..k /\ m \in 1..Len(bucket)
      <4>1. Len(rest) = Len(bucket) - k /\ k \in 0..Len(bucket)
        BY <1>2
      <4>2. Len(bucket) \in Nat /\ Len(admitted) \in Nat
        BY <1>1
      <4>3. i \in Int /\ i <= Len(admitted) - Len(rest)
        BY <4>1, <4>2
      <4> QED  BY <2>2, <4>1, <4>2, <4>3
    <3>2. bucket[m] = admitted[Len(admitted) - Len(bucket) + m]
      BY <3>1 DEF AdmittedTail
    <3>3. Len(admitted) - Len(bucket) + m = i
      BY <1>1
    <3> QED  BY <1>3, <3>1, <3>2, <3>3
  <2> QED  BY <1>1, <1>2, <2>1, <2>2
<1> QED  BY <1>1, <1>2, <1>4, <1>5, <1>6, <1>7

(* The parts of the invariant that only speak of the limiter.              *)
LimiterInv ==
  /\ bucket \in Seq(Nat) /\ Len(bucket) <= MaxCalls
  /\ admitted \in Seq(Nat)
  /\ BucketOrder
  /\ AdmittedTail
  /\ AdmittedOrder
  /\ RateBound

(* A refused update keeps them.                                            *)
LEMMA RefuseKeepsLimiter ==
  ASSUME IInv, NEW k \in 0..Len(bucket), Refuse(k), now' = now
  PROVE  LimiterInv'
<1> DEFINE rest == DropFirst(bucket, k)
<1>1. /\ rest \in Seq(Nat) /\ Len(rest) = Len(bucket) - k
      /\ Len(bucket) \in Nat /\ Len(admitted) \in Nat
      /\ \A i \in 1..Len(rest) : /\ rest[i] = bucket[k + i]
                                 /\ rest[i] >= now - Window /\ rest[i] <= now
                                 /\ rest[i] = admitted[Len(admitted) - Len(rest) + i]
      /\ \A i, j \in 1..Len(rest) : i <= j => rest[i] <= rest[j]
      /\ \A i \in 1..(Len(admitted) - Len(rest)) : admitted[i] < now - Window
  BY EvictedBucket DEF IInv, Refuse
<1>2. bucket' = rest /\ admitted' = admitted
  BY DEF Refuse
<1>3. Len(rest) <= MaxCalls /\ MaxCalls \in Nat /\ Len(bucket) <= Len(admitted)
  BY <1>1, ParameterAssumption DEF IInv, TypeOK, AdmittedTail
<1>4. BucketOrder'
  BY <1>1, <1>2 DEF BucketOrder
<1>5. AdmittedTail'
  <2>1. Len(admitted) - Len(rest) >= 0
    BY <1>1, <1>3
  <2> QED  BY <1>1, <1>2, <2>1 DEF AdmittedTail
<1>6. RateBound' /\ AdmittedOrder'
  BY <1>2 DEF RateBound, AdmittedOrder, IInv
<1> QED  BY <1>1, <1>2, <1>3, <1>4, <1>5, <1>6 DEF LimiterInv, IInv, TypeOK

(* An admitted update keeps them: the admission MaxCalls before this one   *)
(* is no longer in the bucket, so it lies outside the window.              *)
LEMMA AdmitKeepsLimiter ==
  ASSUME IInv, NEW k \in 0..Len(bucket), Admit(k), now' = now
  PROVE  LimiterInv'
<1> DEFINE rest == DropFirst(bucket, k)
<1>1. /\ rest \in Seq(Nat) /\ Len(rest) = Len(bucket) - k
      /\ Len(bucket) \in Nat /\ Len(admitted) \in Nat
      /\ \A i \in 1..Len(rest) : /\ rest[i] = bucket[k + i]
                                 /\ rest[i] >= now - Window /\ rest[i] <= now
                                 /\ rest[i] = admitted[Len(admitted) - Len(rest) + i]
      /\ \A i, j \in 1..Len(rest) : i <= j => rest[i] <= rest[j]
      /\ \A i \in 1..(Len(admitted) - Len(rest)) : admitted[i] < now - Window
  BY EvictedBucket DEF IInv, Admit
<1> HIDE DEF rest
<1>2. bucket' = Append(rest, now) /\ admitted' = Append(admitted, now)
  BY DEF Admit, rest
<1>3. /\ MaxCalls \in Nat \ {0} /\ Window \in Nat /\ now \in Nat
      /\ Len(bucket) <= Len(admitted) /\ Len(rest) < MaxCalls
      /\ admitted \in Seq(Nat)
      /\ \A i \in 1..Len(admitted) : admitted[i] \in Nat
      /\ \A i \in 1..Len(rest) : rest[i] \in Nat
  <2>1. Len(bucket) <= Len(admitted)
    BY <1>1 DEF IInv, AdmittedTail
  <2>2. Len(rest) < MaxCalls
    BY DEF Admit, HasRoom, rest
  <2>3. admitted \in Seq(Nat) /\ now \in Nat
    BY ParameterAssumption DEF IInv, TypeOK
  <2> QED  BY <1>1, <2>1, <2>2, <2>3, ParameterAssumption, ElementOfSeq
<1>4. /\ bucket' \in Seq(Nat) /\ Len(bucket') = Len(rest) + 1
      /\ \A i \in 1..Len(rest) : bucket'[i] = rest[i]
      /\ bucket'[Len(rest) + 1] = now
  BY <1>1, <1>2, <1>3, AppendFacts
<1>5. /\ admitted' \in Seq(Nat) /\ Len(admitted') = Len(admitted) + 1
      /\ \A i \in 1..Len(admitted) : admitted'[i] = admitted[i]
      /\ admitted'[Len(admitted) + 1] = now
  BY <1>2, <1>3, AppendFacts
<1>6. BucketOrder'
  <2>1. \A i \in 1..Len(bucket') : i \in 1..Len(rest) \/ i = Len(rest) + 1
    BY <1>1, <1>4
  <2>2. \A i \in 1..Len(bucket') : bucket'[i] <= now
    <3> TAKE i \in 1..Len(bucket')
    <3>1. CASE i \in 1..Len(rest)
      BY <1>1, <1>4, <3>1
    <3>2. CASE i = Len(rest) + 1
      BY <1>3, <1>4, <3>2
    <3> QED  BY <2>1, <3>1, <3>2
  <2>3. \A i, j \in 1..Len(bucket') : i <= j => bucket'[i] <= bucket'[j]
    <3> SUFFICES ASSUME NEW i \in 1..Len(bucket'), NEW j \in 1..Len(bucket'), i <= j
                 PROVE  bucket'[i] <= bucket'[j]
      OBVIOUS
    <3>1. CASE j = Len(rest) + 1
      BY <1>4, <2>2, <3>1
    <3>2. CASE j \in 1..Len(rest)
      <4>1. i \in 1..Len(rest)
        BY <1>1, <3>2
      <4> QED  BY <1>1, <1>4, <3>2, <4>1
    <3> QED  BY <2>1, <3>1, <3>2
  <2> QED  BY <2>2, <2>3 DEF BucketOrder
<1>7. AdmittedTail'
  <2>1. Len(admitted') - Len(bucket') = Len(admitted) - Len(rest)
    BY <1>1, <1>4, <1>5
  <2>2. \A i \in 1..Len(bucket') : bucket'[i] = admitted'[Len(admitted) - Len(rest) + i]
    <3> TAKE i \in 1..Len(bucket')
    <3>1. CASE i \in 1..Len(rest)
      <4>1. Len(admitted) - Len(rest) + i \in 1..Len(admitted)
        <5>1. Len(rest) \in Nat /\ Len(rest) <= Len(admitted)
          BY <1>1, <1>3
        <5> QED  BY <1>1, <3>1, <5>1
      <4> QED  BY <1>1, <1>4, <1>5, <3>1, <4>1
    <3>2. CASE i = Len(rest) + 1
      <4>1. Len(admitted) - Len(rest) + i = Len(admitted) + 1
        BY <1>1, <3>2
      <4> QED  BY <1>4, <1>5, <3>2, <4>1
    <3> QED  BY <1>1, <1>4, <3>1, <3>2
  <2>3. \A i \in 1..(Len(admitted) - Len(rest)) : admitted'[i] < now - Window
    BY <1>1, <1>5
  <2>4. Len(admitted) - Len(rest) >= 0
    BY <1>1, <1>3
  <2> QED  BY <2>1, <2>2, <2>3, <2>4 DEF AdmittedTail
<1>8. RateBound'
  <2> SUFFICES ASSUME NEW i \in 1..Len(admitted'),
                      i + MaxCalls <= Len(admitted')
               PROVE  admitted'[i] + Window < admitted'[i + MaxCalls]
    BY DEF RateBound
  <2>1. CASE i + MaxCalls <= Len(admitted)
    <3>1. i \in 1..Len(admitted) /\ i + MaxCalls \in 1..Len(admitted)
      BY <1>1, <1>3, <1>5, <2>1
    <3>2. admitted[i] + Window < admitted[i + MaxCalls]
      BY <2>1, <3>1 DEF IInv, RateBound
    <3> QED  BY <1>5, <3>1, <3>2
  <2>2. CASE i + MaxCalls = Len(admitted) + 1
    <3>1. i \in 1..(Len(admitted) - Len(rest)) /\ i \in 1..Len(admitted)
      BY <1>1, <1>3, <2>2
    <3>2. admitted[i] < now - Window
      BY <1>1, <3>1
    <3>3. admitted'[i] = admitted[i] /\ admitted'[i + MaxCalls] = now
      BY <1>5, <2>2, <3>1
    <3>4. admitted[i] \in Nat
      BY <1>3, <3>1
    <3> QED  BY <1>3, <3>2, <3>3, <3>4
  <2>3. i + MaxCalls <= Len(admitted) \/ i + MaxCalls = Len(admitted) + 1
    <3>1. Len(admitted') = Len(admitted) + 1 /\ Len(admitted) \in Nat /\ MaxCalls \in Nat
      BY <1>1, <1>3, <1>5
    <3> QED  BY <3>1
  <2> QED  BY <2>1, <2>2, <2>3
<1>9. AdmittedOrder'
  <2>1. /\ \A i \in 1..Len(admitted) : admitted[i] <= now
        /\ \A i, j \in 1..Len(admitted) : i <= j => admitted[i] <= admitted[j]
    BY DEF IInv, AdmittedOrder
  <2>2. \A i \in 1..Len(admitted') : i \in 1..Len(admitted) \/ i = Len(admitted) + 1
    BY <1>1, <1>5
  <2>3. \A i \in 1..Len(admitted') : admitted'[i] <= now
    <3> TAKE i \in 1..Len(admitted')
    <3>1. CASE i \in 1..Len(admitted)
      BY <1>5, <2>1, <3>1
    <3>2. CASE i = Len(admitted) + 1
      BY <1>3, <1>5, <3>2
    <3> QED  BY <2>2, <3>1, <3>2
  <2>4. \A i, j \in 1..Len(admitted') : i <= j => admitted'[i] <= admitted'[j]
    <3> SUFFICES ASSUME NEW i \in 1..Len(admitted'), NEW j \in 1..Len(admitted'), i <= j
                 PROVE  admitted'[i] <= admitted'[j]
      OBVIOUS
    <3>1. CASE j = Len(admitted) + 1
      BY <1>5, <2>3, <3>1
    <3>2. CASE j \in 1..Len(admitted)
      <4>1. i \in 1..Len(admitted)
        BY <1>1, <3>2
      <4> QED  BY <1>5, <2>1, <3>2, <4>1
    <3> QED  BY <2>2, <3>1, <3>2
  <2> QED  BY <2>3, <2>4 DEF AdmittedOrder
<1> QED  BY <1>1, <1>3, <1>4, <1>5, <1>6, <1>7, <1>8, <1>9 DEF LimiterInv

-----------------------------------------------------------------------------
(* The caches against the admissions                                       *)

LEMMA EntryTypes ==
  ASSUME NEW c \in Seq(CacheEntry)
  PROVE  /\ Len(c) \in Nat
         /\ \A j \in 1..Len(c) : c[j].at \in Nat /\ c[j].nonce \in Nonce
<1>1. Len(c) \in Nat /\ \A j \in 1..Len(c) : c[j] \in CacheEntry
  BY LenProperties, ElementOfSeq
<1> QED  BY <1>1 DEF CacheEntry

LEMMA StampTypes ==
  ASSUME NEW b \in Seq(Nat)
  PROVE  Len(b) \in Nat /\ \A i \in 1..Len(b) : b[i] \in Nat
BY LenProperties, ElementOfSeq

(* An admission that records no nonce in c shifts the counterparts by one. *)
LEMMA AlignedAfterAdmission ==
  ASSUME NEW c \in Seq(CacheEntry), NEW a \in Seq(Nat), NEW t \in Nat, Aligned(c, a),
         \A i \in 1..Len(a) : a[i] <= t,
         \A i, j \in 1..Len(a) : i <= j => a[i] <= a[j]
  PROVE  Aligned(c, Append(a, t))
<1> DEFINE b == Append(a, t)
<1>1. /\ Len(c) \in Nat /\ Len(a) \in Nat /\ Len(c) <= Len(a)
      /\ \A j \in 1..Len(c) : c[j].at \in Nat
      /\ \A i \in 1..Len(a) : a[i] \in Nat
  BY EntryTypes, StampTypes DEF Aligned
<1>2. /\ Len(b) = Len(a) + 1 /\ b[Len(a) + 1] = t
      /\ \A i \in 1..Len(a) : b[i] = a[i]
  BY AppendFacts
<1> HIDE DEF b
<1>3. ASSUME NEW j \in 1..Len(c)  PROVE  c[j].at <= b[Len(b) - (Len(c) - j)]
  <2> DEFINE d == Len(c) - j
             old == c[j].at
             before == a[Len(a) - d]
             after == b[Len(b) - d]
  <2>1. d \in Nat /\ Len(a) - d \in 1..Len(a) /\ old \in Nat /\ before \in Nat
    BY <1>1
  <2>2. old <= before
    BY DEF Aligned
  <2>3. before <= after /\ after \in Nat
    <3>1. CASE d = 0
      <4>1. after = t /\ Len(a) - d \in 1..Len(a)
        BY <1>1, <1>2, <3>1
      <4> QED  BY <4>1
    <3>2. CASE d > 0
      <4>1. /\ Len(a) - d \in 1..Len(a) /\ Len(a) - d + 1 \in 1..Len(a)
            /\ Len(a) - d <= Len(a) - d + 1 /\ Len(b) - d = Len(a) - d + 1
        <5> HIDE DEF d, before, after, old
        <5>1. d \in Nat /\ Len(a) \in Nat /\ Len(b) = Len(a) + 1
          BY <1>1, <1>2, <2>1
        <5>2. Len(a) - d \in 1..Len(a)
          BY <2>1
        <5> QED  BY <3>2, <5>1, <5>2
      <4>2. after = a[Len(a) - d + 1]
        BY <1>2, <4>1
      <4>3. before <= a[Len(a) - d + 1]
        BY <4>1
      <4> QED  BY <1>1, <4>1, <4>2, <4>3
    <3> QED  BY <2>1, <3>1, <3>2
  <2>4. old <= after
    <3> HIDE DEF old, before, after
    <3> QED  BY <2>1, <2>2, <2>3
  <2> QED  BY <2>4
<1>4. Len(c) <= Len(b)
  BY <1>1, <1>2
<1> QED  BY <1>3, <1>4 DEF Aligned, b

(* Dropping the oldest entries of the cache does not move the others.      *)
LEMMA AlignedAfterDrop ==
  ASSUME NEW c \in Seq(CacheEntry), NEW a \in Seq(Nat), Aligned(c, a), NEW m \in 0..Len(c)
  PROVE  Aligned(DropFirst(c, m), a)
<1> DEFINE r == DropFirst(c, m)
<1>1. Len(c) \in Nat /\ Len(a) \in Nat /\ Len(c) <= Len(a)
  BY LenProperties DEF Aligned
<1>2. /\ Len(r) = Len(c) - m
      /\ \A i \in 1..(Len(c) - m) : r[i] = c[m + i]
  BY DropFirstFacts
<1> HIDE DEF r
<1>3. ASSUME NEW j \in 1..Len(r)  PROVE  r[j].at <= a[Len(a) - (Len(r) - j)]
  <2>1. m + j \in 1..Len(c) /\ Len(c) - (m + j) = Len(r) - j /\ r[j] = c[m + j]
    BY <1>1, <1>2
  <2> QED  BY <2>1 DEF Aligned
<1>4. Len(r) <= Len(a)
  BY <1>1, <1>2
<1> QED  BY <1>3, <1>4 DEF Aligned, r

(* An admission and a nonce recorded with it are counterparts.             *)
LEMMA AlignedAfterRecord ==
  ASSUME NEW c \in Seq(CacheEntry), NEW a \in Seq(Nat), NEW t \in Nat,
         Aligned(c, a), NEW n \in Nonce
  PROVE  Aligned(Append(c, [nonce |-> n, at |-> t]), Append(a, t))
<1> DEFINE b == Append(a, t)
           x == [nonce |-> n, at |-> t]
           r == Append(c, x)
<1>1. Len(c) \in Nat /\ Len(a) \in Nat /\ Len(c) <= Len(a)
  BY LenProperties DEF Aligned
<1>2. /\ Len(b) = Len(a) + 1 /\ b[Len(a) + 1] = t
      /\ \A i \in 1..Len(a) : b[i] = a[i]
  BY AppendFacts
<1>3. x \in CacheEntry /\ x.at = t
  BY DEF CacheEntry
<1>4. /\ Len(r) = Len(c) + 1 /\ r[Len(c) + 1] = x
      /\ \A i \in 1..Len(c) : r[i] = c[i]
  BY <1>3, AppendFacts
<1> HIDE DEF b, x, r
<1>5. ASSUME NEW j \in 1..Len(r)  PROVE  r[j].at <= b[Len(b) - (Len(r) - j)]
  <2>1. CASE j = Len(c) + 1
    <3>1. Len(b) - (Len(r) - j) = Len(a) + 1
      BY <1>1, <1>2, <1>4, <2>1
    <3>2. r[j].at = t
      BY <1>3, <1>4, <2>1
    <3> QED  BY <1>2, <3>1, <3>2
  <2>2. CASE j \in 1..Len(c)
    <3>1. /\ Len(b) - (Len(r) - j) = Len(a) - (Len(c) - j)
          /\ Len(a) - (Len(c) - j) \in 1..Len(a)
      BY <1>1, <1>2, <1>4, <2>2
    <3>2. c[j].at <= a[Len(a) - (Len(c) - j)]
      BY <2>2 DEF Aligned
    <3> QED  BY <1>2, <1>4, <2>2, <3>1, <3>2
  <2> QED  BY <1>1, <1>4, <2>1, <2>2
<1>6. Len(r) <= Len(b)
  BY <1>1, <1>2, <1>4
<1> QED  BY <1>5, <1>6 DEF Aligned, b, x, r

-----------------------------------------------------------------------------
(* One update                                                              *)

(* The types of what an update works on.                                   *)
LEMMA StateTypes ==
  ASSUME IInv
  PROVE  /\ now \in Nat /\ admitted \in Seq(Nat) /\ Len(admitted) \in Nat
         /\ \A i \in 1..Len(admitted) : admitted[i] \in Nat /\ admitted[i] <= now
         /\ \A i, j \in 1..Len(admitted) : i <= j => admitted[i] <= admitted[j]
         /\ \A p \in Peer : cache[p] \in Seq(CacheEntry) /\ Aligned(cache[p], admitted)
BY ParameterAssumption, StampTypes DEF IInv, TypeOK, AdmittedOrder, CacheAligned

(* An admitted update that records no nonce leaves the caches aligned.     *)
LEMMA AdmitKeepsCaches ==
  ASSUME IInv, NEW k \in 0..Len(bucket), Admit(k), cache' = cache
  PROVE  CacheAligned'
<1>1. admitted' = Append(admitted, now)
  BY DEF Admit
<1>2. ASSUME NEW p \in Peer  PROVE Aligned(cache[p], Append(admitted, now))
  BY StateTypes, AlignedAfterAdmission
<1> QED  BY <1>1, <1>2 DEF CacheAligned

(* Time stamps that are signed as the same millisecond.                    *)
LEMMA SameMilli ==
  ASSUME NEW a \in Nat, NEW b \in Nat, NEW m \in Nat \ {0}, a \div m = b \div m
  PROVE  a <= b + m - 1
<1> DEFINE q == a \div m
           r == m * q
<1>1. q \in Int /\ r \in Int /\ a < r + m
  OBVIOUS
<1>2. r <= b
  OBVIOUS
<1> HIDE DEF r
<1> QED  BY <1>1, <1>2

(* What was received when its stamp was in time, or would have been with   *)
(* another stamp of the same millisecond, and is older than the span, has  *)
(* a stamp that is stale by now.                                           *)
LEMMA OlderIsStale ==
  ASSUME NEW t \in Nat, NEW a \in Nat, NEW n \in Nat, NEW w \in Nat,
         Tolerance \in Nat, Milli \in Nat,
         w >= Span, t <= a + Tolerance + Milli - 1, a < n - w
  PROVE  n > t + Tolerance
BY DEF Span

(* The admission CacheMax before the present one, by the rate bound.       *)
LEMMA CapacityOutlastsSpan ==
  ASSUME IInv, RateBound', NEW i \in 1..Len(admitted),
         admitted' = Append(admitted, now), i + CacheMax = Len(admitted) + 1
  PROVE  admitted[i] < now - Span
<1> DEFINE L == Len(admitted) + 1
           b == Append(admitted, now)
<1>1. /\ now \in Nat /\ L \in Nat /\ MaxCalls \in Nat \ {0} /\ Window \in Nat
      /\ CacheMax \in Nat /\ Span \in Int
      /\ \A j \in 1..Len(admitted) : admitted[j] \in Nat
  BY StateTypes, ParameterAssumption DEF Span
<1>2. /\ Len(b) = L /\ b[L] = now
      /\ \A j \in 1..Len(admitted) : b[j] = admitted[j]
  BY StateTypes, AppendFacts
<1>3. \A j \in 1..L : j + MaxCalls <= L => b[j] + Window < b[j + MaxCalls]
  BY <1>2 DEF RateBound
<1>4. /\ \A j \in 1..L : b[j] \in Nat
      /\ \A j, h \in 1..L : j <= h => b[j] <= b[h]
  <2>1. \A j \in 1..L : j \in 1..Len(admitted) \/ j = L
    BY <1>1
  <2>2. \A j \in 1..L : b[j] \in Nat /\ b[j] <= now
    BY <1>1, <1>2, <2>1, StateTypes
  <2>3. ASSUME NEW j \in 1..L, NEW h \in 1..L, j <= h  PROVE b[j] <= b[h]
    <3>1. CASE h = L
      BY <1>2, <2>2, <3>1
    <3>2. CASE h \in 1..Len(admitted)
      <4>1. j \in 1..Len(admitted)
        BY <1>1, <2>3, <3>2
      <4> QED  BY <1>2, <2>3, <3>2, <4>1, StateTypes
    <3> QED  BY <2>1, <3>1, <3>2
  <2> QED  BY <2>2, <2>3
<1>5. admitted[i] = b[i] /\ i \in 1..L /\ i + CacheMax = L
  BY <1>1, <1>2
<1> HIDE DEF L, b
<1>6. CASE Window >= Span /\ CacheMax >= MaxCalls
  <2>1. L - MaxCalls \in 1..L /\ i <= L - MaxCalls
    BY <1>1, <1>5, <1>6
  <2> DEFINE h == L - MaxCalls
  <2>2. h \in 1..L /\ i <= h /\ h + MaxCalls = L /\ h + MaxCalls <= L
    BY <1>1, <2>1
  <2> HIDE DEF h
  <2>3. b[h] + Window < b[h + MaxCalls]
    BY <1>3, <2>2
  <2>4. b[h] + Window < now
    BY <1>2, <2>2, <2>3
  <2>5. b[i] <= b[h]
    BY <1>4, <1>5, <2>2
  <2>6. b[i] \in Nat /\ b[h] \in Nat
    BY <1>4, <1>5, <2>2
  <2> QED  BY <1>1, <1>5, <1>6, <2>4, <2>5, <2>6
<1>7. CASE 2 * Window >= Span /\ CacheMax >= 2 * MaxCalls
  <2> DEFINE h == L - MaxCalls
             g == L - 2 * MaxCalls
  <2>1. /\ h \in 1..L /\ g \in 1..L /\ i <= g
        /\ g + MaxCalls = h /\ h + MaxCalls = L
    BY <1>1, <1>5, <1>7
  <2> HIDE DEF h, g
  <2>2. b[h] + Window < now /\ b[g] + Window < b[h]
    <3>1. h + MaxCalls <= L /\ g + MaxCalls <= L
      BY <1>1, <2>1
    <3>2. b[h] + Window < b[h + MaxCalls] /\ b[g] + Window < b[g + MaxCalls]
      BY <1>3, <2>1, <3>1
    <3> QED  BY <1>2, <2>1, <3>2
  <2>3. b[i] <= b[g]
    BY <1>4, <1>5, <2>1
  <2>4. b[i] \in Nat /\ b[g] \in Nat /\ b[h] \in Nat
    BY <1>4, <1>5, <2>1
  <2> QED  BY <1>1, <1>5, <1>7, <2>2, <2>3, <2>4
<1> QED  BY <1>6, <1>7, ParameterAssumption

(* An admitted update whose nonce is recorded for p.  An entry that makes  *)
(* room is no younger than the admission CacheMax before this one: it is   *)
(* older than the span, and its envelope is stale.                         *)
LEMMA RecordStep ==
  ASSUME IInv, NEW k \in 0..Len(bucket), Admit(k), RateBound', now' = now,
         NEW p \in Peer, NEW n \in Nonce,
         NEW q \in 0..Len(cache[p]), Record(p, n, q)
  PROVE  /\ cache' \in [Peer -> Seq(CacheEntry)]
         /\ Len(cache'[p]) <= CacheMax
         /\ \A o \in Peer \ {p} : cache'[o] = cache[o]
         /\ CacheAligned'
         /\ \A e \in Envelope :
              NonceOf(e) = n /\ e.ts <= now + Tolerance + Milli - 1
                => Holds(cache'[p], e)
         /\ \A e \in Envelope :
              Holds(cache[p], e) => Holds(cache'[p], e) \/ now > e.ts + Tolerance
<1> DEFINE c == cache[p]
           fresh == DropFirst(c, q)
           m == PopsForCapacity(fresh, CacheMax)
           room == DropFirst(fresh, m)
           x == [nonce |-> n, at |-> now]
<1>1. /\ now \in Nat /\ TTL \in Nat /\ Tolerance \in Nat /\ Milli \in Nat \ {0}
      /\ TTL >= Span /\ Span \in Nat
      /\ CacheMax \in Nat \ {0}
      /\ \A e \in Envelope : e.ts \in Nat
  BY ParameterAssumption DEF IInv, TypeOK, Envelope, Span
<1>2. /\ c \in Seq(CacheEntry) /\ Len(c) \in Nat /\ Len(c) <= CacheMax
      /\ \A j \in 1..Len(c) : c[j].at \in Nat
  BY EntryTypes DEF IInv, TypeOK
<1>3. /\ fresh \in Seq(CacheEntry) /\ Len(fresh) = Len(c) - q
      /\ \A j \in 1..(Len(c) - q) : fresh[j] = c[q + j]
  BY <1>2, DropFirstFacts
<1>4. m \in 0..Len(fresh) /\ Len(fresh) - m < CacheMax
      /\ (m = 0 \/ (m = 1 /\ Len(fresh) = CacheMax))
  <2> HIDE DEF fresh
  <2>1. Len(fresh) \in Nat /\ Len(fresh) <= CacheMax
    BY <1>1, <1>2, <1>3
  <2>2. m = IF Len(fresh) >= CacheMax THEN Len(fresh) - CacheMax + 1 ELSE 0
    BY DEF PopsForCapacity
  <2> QED  BY <1>1, <2>1, <2>2
<1>5. /\ room \in Seq(CacheEntry) /\ Len(room) = Len(fresh) - m
      /\ \A j \in 1..(Len(fresh) - m) : room[j] = fresh[m + j]
  BY <1>3, <1>4, DropFirstFacts
<1>6. x \in CacheEntry /\ x.nonce = n /\ x.at = now
  BY <1>1 DEF CacheEntry
<1>7. /\ Append(room, x) \in Seq(CacheEntry)
      /\ Len(Append(room, x)) = Len(room) + 1
      /\ Append(room, x)[Len(room) + 1] = x
      /\ \A j \in 1..Len(room) : Append(room, x)[j] = room[j]
  BY <1>5, <1>6, AppendFacts
<1>8. cache' = [cache EXCEPT ![p] = Append(room, x)] /\ cache \in [Peer -> Seq(CacheEntry)]
  BY DEF Record, IInv, TypeOK
<1>9. cache'[p] = Append(room, x) /\ \A o \in Peer \ {p} : cache'[o] = cache[o]
  BY <1>8
<1>10. /\ \A j \in 1..q : c[j].at < now - TTL
  <2>1. c \in Seq(CacheEntry) /\ \A j \in 1..q : Times(c)[j] < now - TTL
    BY <1>2 DEF Record, PopsExpired
  <2>2. \A j \in 1..q : j \in 1..Len(c)
    BY <1>2
  <2> QED  BY <2>1, <2>2, TimesFacts
<1>11. admitted' = Append(admitted, now)
  BY DEF Admit
<1> HIDE DEF fresh, m, room, x
<1>12. cache' \in [Peer -> Seq(CacheEntry)] /\ Len(cache'[p]) <= CacheMax
  <2>1. Len(room) + 1 <= CacheMax
    BY <1>1, <1>2, <1>3, <1>4, <1>5
  <2> QED  BY <1>7, <1>8, <1>9, <2>1
<1>13. CacheAligned'
  <2> SUFFICES ASSUME NEW o \in Peer  PROVE Aligned(cache'[o], admitted')
    BY DEF CacheAligned
  <2>1. CASE o = p
    <3>1. Aligned(fresh, admitted)
      BY <1>2, AlignedAfterDrop, StateTypes DEF fresh
    <3>2. Aligned(room, admitted)
      BY <1>3, <1>4, <3>1, AlignedAfterDrop, StateTypes DEF room
    <3>3. Aligned(Append(room, x), Append(admitted, now))
      BY <1>5, <3>2, AlignedAfterRecord, StateTypes DEF x
    <3> QED  BY <1>9, <1>11, <2>1, <3>3
  <2>2. CASE o # p
    <3>1. cache'[o] = cache[o]
      BY <1>9, <2>2
    <3>2. Aligned(cache[o], Append(admitted, now))
      BY AlignedAfterAdmission, StateTypes
    <3> QED  BY <1>11, <3>1, <3>2
  <2> QED  BY <2>1, <2>2
<1>14. ASSUME NEW e \in Envelope, NonceOf(e) = n, e.ts <= now + Tolerance + Milli - 1
       PROVE  Holds(cache'[p], e)
  <2>1. Len(room) + 1 \in 1..Len(cache'[p])
    BY <1>2, <1>3, <1>4, <1>5, <1>7, <1>9
  <2>2. /\ cache'[p][Len(room) + 1].nonce = NonceOf(e)
        /\ cache'[p][Len(room) + 1].at = now
    BY <1>6, <1>7, <1>9, <1>14
  <2> QED  BY <1>14, <2>1, <2>2 DEF Holds
<1>15. ASSUME NEW e \in Envelope, Holds(cache[p], e)
       PROVE  Holds(cache'[p], e) \/ now > e.ts + Tolerance
  <2>1. PICK j \in 1..Len(c) :
          c[j].nonce = NonceOf(e) /\ e.ts <= c[j].at + Tolerance + Milli - 1
    BY <1>15 DEF Holds
  <2>2. CASE j <= q
    <3>1. c[j].at < now - TTL /\ c[j].at \in Nat
      BY <1>2, <1>10, <2>2
    <3>2. e.ts \in Nat
      BY <1>1
    <3>3. now > e.ts + Tolerance
      BY <1>1, <2>1, <3>1, <3>2, OlderIsStale
    <3> QED  BY <3>3
  <2>3. CASE j > q /\ j <= q + m
    <3> DEFINE i == Len(admitted) - (Len(c) - j)
    <3>1. m = 1 /\ Len(fresh) = CacheMax /\ j = q + 1
      BY <1>2, <1>3, <1>4, <2>3
    <3>2. c[j].at <= admitted[i] /\ Len(c) <= Len(admitted)
      BY StateTypes DEF Aligned
    <3>3. i \in 1..Len(admitted) /\ i + CacheMax = Len(admitted) + 1
      <4>1. /\ Len(c) \in Nat /\ Len(admitted) \in Nat /\ q \in Nat /\ j \in 1..Len(c)
            /\ CacheMax = Len(c) - q /\ j = q + 1
        BY <1>2, <1>3, <3>1, StateTypes
      <4> QED  BY <3>2, <4>1
    <3> HIDE DEF i
    <3>4. admitted[i] < now - Span
      BY <1>11, <3>3, CapacityOutlastsSpan
    <3>5. c[j].at \in Nat /\ admitted[i] \in Nat /\ e.ts \in Nat
      BY <1>1, <1>2, <3>3, StateTypes
    <3>6. c[j].at < now - Span
      <4>1. \A u, v \in Nat, w \in Int : u <= v /\ v < w => u < w
        OBVIOUS
      <4>2. now - Span \in Int
        BY <1>1
      <4> QED  BY <3>2, <3>4, <3>5, <4>1, <4>2
    <3>7. e.ts <= c[j].at + Tolerance + Milli - 1
      BY <2>1
    <3>8. Tolerance \in Nat /\ Milli \in Nat /\ Span \in Nat /\ Span >= Span /\ now \in Nat
      BY <1>1
    <3> HIDE DEF c
    <3>9. now > e.ts + Tolerance
      BY <3>5, <3>6, <3>7, <3>8, OlderIsStale
    <3> QED  BY <3>9
  <2>4. CASE j > q + m
    <3> DEFINE i == j - q - m
    <3>1. /\ i \in 1..Len(room) /\ i \in 1..Len(cache'[p])
          /\ m + i \in 1..Len(fresh) /\ q + (m + i) = j
      <4>1. Len(fresh) = Len(c) - q /\ Len(room) = Len(c) - q - m /\ m \in Nat
        BY <1>2, <1>3, <1>4, <1>5
      <4>2. Len(cache'[p]) = Len(room) + 1
        BY <1>7, <1>9
      <4>3. i \in 1..Len(room) /\ m + i \in 1..Len(fresh) /\ q + (m + i) = j
        <5>1. Len(c) \in Nat /\ q \in Nat /\ j \in Nat /\ j <= Len(c) /\ j > q + m
          BY <1>2, <2>4
        <5>2. i \in Nat /\ i >= 1 /\ i <= Len(c) - q - m
          BY <4>1, <5>1
        <5>3. q + (m + i) = j
          BY <4>1, <5>1
        <5> HIDE DEF i
        <5> QED  BY <4>1, <5>1, <5>2, <5>3
      <4>4. Len(room) \in Nat
        BY <1>2, <4>1, <4>3
      <4> QED  BY <4>2, <4>3, <4>4
    <3> HIDE DEF i
    <3>2. cache'[p][i] = c[j]
      BY <1>3, <1>5, <1>7, <1>9, <3>1
    <3>3. Holds(cache'[p], e)
      BY <2>1, <3>1, <3>2 DEF Holds
    <3> QED  BY <3>3
  <2> QED  BY <1>2, <1>3, <1>4, <2>2, <2>3, <2>4
<1> QED  BY <1>9, <1>12, <1>13, <1>14, <1>15

-----------------------------------------------------------------------------
(* The inductive invariant                                                 *)

LEMMA InitIInv == ASSUME Init PROVE IInv
<1> USE ParameterAssumption
<1>1. /\ now = 0 /\ bucket = <<>> /\ admitted = <<>> /\ sent = {}
      /\ cache = [p \in Peer |-> <<>>]
      /\ accepts = [x \in Form |-> 0]
      /\ approved \in SUBSET Peer
  BY DEF Init, Fresh
<1>2. Len(<<>>) = 0 /\ <<>> \in Seq(Nat) /\ <<>> \in Seq(CacheEntry)
  BY EmptySeq
<1>3. TypeOK
  BY <1>1, <1>2 DEF TypeOK
<1>4. BucketOrder /\ AdmittedTail /\ AdmittedOrder /\ RateBound
  BY <1>1, <1>2 DEF BucketOrder, AdmittedTail, AdmittedOrder, RateBound
<1>5. CacheAligned
  BY <1>1, <1>2 DEF CacheAligned, Aligned
<1>6. TextOwner /\ Remembered /\ OncePerForm
  BY <1>1 DEF TextOwner, Remembered, Good, OncePerForm
<1>7. AcceptedWasSent
  BY <1>1 DEF AcceptedWasSent, Form
<1> QED  BY <1>3, <1>4, <1>5, <1>6, <1>7 DEF IInv

(* What an update does to the clock, the senders and the limiter.          *)
LEMMA UpdateTypes ==
  ASSUME IInv, LimiterInv', now' = now, sent' = sent,
         cache' \in [Peer -> Seq(CacheEntry)], \A p \in Peer : Len(cache'[p]) <= CacheMax,
         approved' \in SUBSET Peer, accepts' \in [Form -> Nat]
  PROVE  /\ TypeOK' /\ BucketOrder' /\ AdmittedTail' /\ AdmittedOrder' /\ RateBound'
         /\ TextOwner'
BY DEF IInv, TypeOK, LimiterInv, TextOwner

(* Updates that leave the caches and the counters as they are.             *)
LEMMA QuietUpdate ==
  ASSUME IInv, LimiterInv', CacheAligned', approved' \in SUBSET Peer,
         now' = now, sent' = sent, cache' = cache, accepts' = accepts
  PROVE  IInv'
<1>1. /\ TypeOK' /\ BucketOrder' /\ AdmittedTail' /\ AdmittedOrder' /\ RateBound'
      /\ TextOwner'
  BY UpdateTypes DEF IInv, TypeOK
<1>2. AcceptedWasSent' /\ Remembered' /\ OncePerForm'
  BY DEF IInv, AcceptedWasSent, Remembered, Good, Holds, OncePerForm
<1> QED  BY <1>1, <1>2 DEF IInv

(* A nonce recorded, whoever's envelope it was: nothing accepted is lost.  *)
LEMMA RememberedAfterRecord ==
  ASSUME IInv, NEW k \in 0..Len(bucket), Admit(k), RateBound', now' = now, sent' = sent,
         NEW p \in Peer, NEW n \in Nonce,
         NEW q \in 0..Len(cache[p]), Record(p, n, q),
         NEW e \in Envelope, Good(e), accepts[FormOf(e)] > 0
  PROVE  Holds(cache'[e.from], e) \/ now > e.ts + Tolerance
<1>1. Holds(cache[e.from], e) \/ now > e.ts + Tolerance
  BY DEF IInv, Remembered
<1>2. e.from \in Peer
  BY DEF Envelope
<1>3. CASE e.from = p
  BY <1>1, <1>3, RecordStep
<1>4. CASE e.from # p
  BY <1>1, <1>2, <1>4, RecordStep
<1> QED  BY <1>3, <1>4

LEMMA TickKeepsIInv == ASSUME IInv, Tick PROVE IInv'
<1>1. /\ now' = now + 1 /\ now' \in 0..MaxNow /\ now \in Nat
      /\ UNCHANGED <<bucket, cache, approved, sent, accepts, admitted>>
      /\ Window \in Nat /\ Tolerance \in Nat
  BY ParameterAssumption DEF Tick, IInv, TypeOK
<1>2. TypeOK' /\ RateBound' /\ TextOwner' /\ AcceptedWasSent' /\ OncePerForm'
  BY <1>1 DEF IInv, TypeOK, RateBound, TextOwner, AcceptedWasSent, OncePerForm
<1>3. BucketOrder'
  BY <1>1, StampTypes DEF IInv, TypeOK, BucketOrder
<1>4. AdmittedTail'
  <2>1. \A i \in 1..(Len(admitted) - Len(bucket)) :
          admitted[i] \in Nat /\ admitted[i] < now - Window
    BY StampTypes DEF IInv, TypeOK, AdmittedTail
  <2>2. \A i \in 1..(Len(admitted) - Len(bucket)) : admitted[i] < now' - Window
    BY <1>1, <2>1
  <2> QED  BY <1>1, <2>2 DEF IInv, AdmittedTail
<1>5. AdmittedOrder' /\ CacheAligned'
  BY <1>1, StateTypes DEF AdmittedOrder, CacheAligned
<1>6. Remembered'
  <2>1. \A e \in Envelope : e.ts \in Nat
    BY ParameterAssumption DEF Envelope
  <2>2. \A e \in Envelope : now > e.ts + Tolerance => now' > e.ts + Tolerance
    BY <1>1, <2>1
  <2> QED  BY <1>1, <2>2 DEF IInv, Remembered, Good, Holds
<1> QED  BY <1>2, <1>3, <1>4, <1>5, <1>6 DEF IInv

LEMMA SignKeepsIInv ==
  ASSUME IInv, NEW p \in Peer, NEW t \in Text, NEW ts \in 0..(MaxNow + Skew),
         Sign(p, t, ts)
  PROVE  IInv'
<1> DEFINE s == Canonical(p, t, ts)
<1>1. s \in Signed /\ s.text = t
  <2>1. ts \div Milli \in Nat
    BY ParameterAssumption
  <2> QED  BY <2>1 DEF Canonical, Signed
<1>2. /\ \A r \in sent : r.text # t
      /\ sent' = sent \cup {s}
      /\ UNCHANGED <<now, bucket, cache, approved, accepts, admitted>>
  BY DEF Sign
<1> HIDE DEF s
<1>3. TypeOK'
  BY <1>1, <1>2 DEF IInv, TypeOK
<1>4. /\ BucketOrder' /\ AdmittedTail' /\ AdmittedOrder' /\ RateBound' /\ CacheAligned'
      /\ OncePerForm'
  BY <1>2 DEF IInv, BucketOrder, AdmittedTail, AdmittedOrder, RateBound, CacheAligned,
              OncePerForm
<1>5. TextOwner'
  BY <1>1, <1>2 DEF IInv, TextOwner
<1>6. AcceptedWasSent'
  BY <1>2 DEF IInv, AcceptedWasSent
<1>7. Remembered'
  <2> SUFFICES ASSUME NEW e \in Envelope, Good(e)', accepts[FormOf(e)] > 0
               PROVE  Holds(cache[e.from], e) \/ now > e.ts + Tolerance
    BY <1>2 DEF Remembered, Holds
  <2>1. e.from \in Peer /\ e.text \in Text /\ e.cut \in Cut
    BY DEF Envelope
  <2>2. e.text # t
    BY <1>2, <2>1 DEF IInv, AcceptedWasSent, FormOf
  <2>3. Canonical(e.from, e.text, e.ts) # s
    BY <1>1, <2>2 DEF Canonical
  <2>4. Good(e)
    BY <1>2, <2>3 DEF Good
  <2> QED  BY <2>4 DEF IInv, Remembered
<1> QED  BY <1>3, <1>4, <1>5, <1>6, <1>7 DEF IInv

LEMMA EnvelopeTypes ==
  ASSUME NEW e \in Envelope
  PROVE  /\ e.from \in Peer /\ e.text \in Text /\ e.cut \in Cut /\ e.ts \in Nat
         /\ NonceOf(e) \in Nonce /\ FormOf(e) \in Form
         /\ FormOf(e) = <<<<e.from, e.text>>, e.cut>>
<1>1. e.from \in Peer /\ e.text \in Text /\ e.cut \in Cut /\ e.ts \in Nat
  BY ParameterAssumption DEF Envelope
<1> QED  BY <1>1, ParameterAssumption DEF NonceOf, FormOf, Form

LEMMA BadSignatureKeepsIInv ==
  ASSUME IInv, NEW e \in Envelope, HandleBadSignature(e)
  PROVE  IInv'
<1>1. PICK k \in 0..Len(bucket) : Admit(k)
  BY DEF HandleBadSignature
<1>2. PICK q \in 0..Len(cache[e.from]) : Record(e.from, NonceOf(e), q)
  BY DEF HandleBadSignature
<1>3. /\ e.from \in Peer /\ NonceOf(e) \in Nonce
      /\ now' = now /\ sent' = sent /\ accepts' = accepts /\ approved' = approved
  BY EnvelopeTypes DEF HandleBadSignature
<1>4. LimiterInv' /\ RateBound'
  BY <1>1, <1>3, AdmitKeepsLimiter DEF LimiterInv
<1>5. /\ cache' \in [Peer -> Seq(CacheEntry)] /\ Len(cache'[e.from]) <= CacheMax
      /\ \A o \in Peer \ {e.from} : cache'[o] = cache[o]
      /\ CacheAligned'
  BY <1>1, <1>2, <1>3, <1>4, RecordStep
<1>6. \A p \in Peer : Len(cache'[p]) <= CacheMax
  BY <1>5 DEF IInv, TypeOK
<1>7. /\ TypeOK' /\ BucketOrder' /\ AdmittedTail' /\ AdmittedOrder' /\ RateBound'
      /\ TextOwner'
  BY <1>3, <1>4, <1>5, <1>6, UpdateTypes DEF IInv, TypeOK
<1>8. AcceptedWasSent' /\ OncePerForm'
  BY <1>3 DEF IInv, AcceptedWasSent, OncePerForm
<1>9. Remembered'
  BY <1>1, <1>2, <1>3, <1>4, RememberedAfterRecord DEF Remembered, Good
<1> QED  BY <1>5, <1>7, <1>8, <1>9 DEF IInv

(* A form that is accepted was not accepted before: had it been, it would  *)
(* be in the cache or out of time.                                         *)
LEMMA NotYetAccepted ==
  ASSUME IInv, NEW e \in Envelope, HandleMessage(e)
  PROVE  accepts[FormOf(e)] = 0
<1>1. Good(e) /\ InTime(e) /\ ~Seen(e.from, NonceOf(e)) /\ FormOf(e) \in Form
  BY EnvelopeTypes DEF HandleMessage
<1>2. ~Holds(cache[e.from], e)
  BY <1>1 DEF Holds, Seen
<1>3. ~(now > e.ts + Tolerance)
  BY <1>1, EnvelopeTypes, StateTypes, ParameterAssumption DEF InTime
<1>4. ~(accepts[FormOf(e)] > 0)
  BY <1>1, <1>2, <1>3 DEF IInv, Remembered
<1>5. accepts[FormOf(e)] \in Nat
  BY <1>1 DEF IInv, TypeOK
<1> QED  BY <1>4, <1>5

(* Two good envelopes of one form differ by less than a millisecond.       *)
LEMMA SameFormSameMilli ==
  ASSUME IInv, NEW e \in Envelope, NEW f \in Envelope, Good(e), Good(f),
         FormOf(e) = FormOf(f)
  PROVE  f.ts <= e.ts + Milli - 1 /\ NonceOf(f) = NonceOf(e) /\ f.from = e.from
<1>1. f.from = e.from /\ f.text = e.text /\ f.cut = e.cut
  BY DEF FormOf
<1>2. Canonical(e.from, e.text, e.ts) = Canonical(f.from, f.text, f.ts)
  <2>1. /\ Canonical(e.from, e.text, e.ts).text = e.text
        /\ Canonical(f.from, f.text, f.ts).text = f.text
    BY DEF Canonical
  <2> QED  BY <1>1, <2>1 DEF IInv, TextOwner, Good
<1>3. e.ts \div Milli = f.ts \div Milli
  BY <1>2 DEF Canonical
<1>4. f.ts <= e.ts + Milli - 1
  BY <1>3, EnvelopeTypes, SameMilli, ParameterAssumption
<1> QED  BY <1>1, <1>4 DEF NonceOf

LEMMA MessageKeepsIInv ==
  ASSUME IInv, NEW e \in Envelope, HandleMessage(e)
  PROVE  IInv'
<1> DEFINE y == FormOf(e)
<1>1. PICK k \in 0..Len(bucket) : Admit(k)
  BY DEF HandleMessage
<1>2. PICK q \in 0..Len(cache[e.from]) : Record(e.from, NonceOf(e), q)
  BY DEF HandleMessage
<1>3. /\ e.from \in Peer /\ NonceOf(e) \in Nonce /\ y \in Form
      /\ Good(e) /\ InTime(e)
      /\ now' = now /\ sent' = sent
      /\ accepts' = [accepts EXCEPT ![y] = @ + 1]
  BY EnvelopeTypes DEF HandleMessage, Dispatch
<1>4. approved' \in SUBSET Peer
  BY DEF HandleMessage, Dispatch, IInv, TypeOK
<1>5. accepts[y] = 0 /\ accepts \in [Form -> Nat]
  BY NotYetAccepted DEF IInv, TypeOK
<1> HIDE DEF y
<1>6. /\ accepts' \in [Form -> Nat] /\ accepts'[y] = 1
      /\ \A z \in Form : z # y => accepts'[z] = accepts[z]
  BY <1>3, <1>5
<1>7. LimiterInv' /\ RateBound'
  BY <1>1, <1>3, AdmitKeepsLimiter DEF LimiterInv
<1>8. /\ cache' \in [Peer -> Seq(CacheEntry)] /\ Len(cache'[e.from]) <= CacheMax
      /\ \A o \in Peer \ {e.from} : cache'[o] = cache[o]
      /\ CacheAligned'
      /\ \A f \in Envelope :
           NonceOf(f) = NonceOf(e) /\ f.ts <= now + Tolerance + Milli - 1
             => Holds(cache'[e.from], f)
  BY <1>1, <1>2, <1>3, <1>7, RecordStep
<1>9. \A p \in Peer : Len(cache'[p]) <= CacheMax
  BY <1>8 DEF IInv, TypeOK
<1>10. /\ TypeOK' /\ BucketOrder' /\ AdmittedTail' /\ AdmittedOrder' /\ RateBound'
       /\ TextOwner'
  BY <1>3, <1>4, <1>6, <1>7, <1>8, <1>9, UpdateTypes
<1>11. OncePerForm'
  BY <1>3, <1>6 DEF IInv, OncePerForm
<1>12. AcceptedWasSent'
  <2> SUFFICES ASSUME NEW p \in Peer, NEW t \in Text, NEW c \in Cut,
                      accepts'[<<<<p, t>>, c>>] > 0
               PROVE  \E s \in sent : s.from = p /\ s.text = t
    BY <1>3 DEF AcceptedWasSent
  <2>1. CASE <<<<p, t>>, c>> = y
    <3>1. e.from = p /\ e.text = t
      BY <2>1 DEF y, FormOf
    <3> QED  BY <1>3, <3>1 DEF Good, Canonical
  <2>2. CASE <<<<p, t>>, c>> # y
    <3>1. <<<<p, t>>, c>> \in Form
      BY DEF Form
    <3> QED  BY <1>6, <2>2, <3>1 DEF IInv, AcceptedWasSent
  <2> QED  BY <2>1, <2>2
<1>13. Remembered'
  <2> SUFFICES ASSUME NEW f \in Envelope, Good(f), accepts'[FormOf(f)] > 0
               PROVE  Holds(cache'[f.from], f) \/ now > f.ts + Tolerance
    BY <1>3 DEF Remembered, Good
  <2>1. CASE FormOf(f) = y
    <3>1. f.ts <= e.ts + Milli - 1 /\ NonceOf(f) = NonceOf(e) /\ f.from = e.from
      BY <1>3, <2>1, SameFormSameMilli DEF y
    <3>2. f.ts <= now + Tolerance + Milli - 1
      <4>1. /\ now \in Nat /\ e.ts \in Nat /\ f.ts \in Nat
            /\ Tolerance \in Nat /\ Milli \in Nat
        BY EnvelopeTypes, StateTypes, ParameterAssumption
      <4>2. e.ts - now <= Tolerance
        BY <1>3 DEF InTime
      <4> QED  BY <3>1, <4>1, <4>2
    <3> QED  BY <1>8, <3>1, <3>2
  <2>2. CASE FormOf(f) # y
    <3>1. accepts[FormOf(f)] > 0
      BY <1>6, <2>2, EnvelopeTypes
    <3> QED  BY <1>1, <1>2, <1>3, <1>7, <3>1, RememberedAfterRecord
  <2> QED  BY <2>1, <2>2
<1> QED  BY <1>8, <1>10, <1>11, <1>12, <1>13 DEF IInv

LEMMA RestartKeepsIInv == ASSUME IInv, Restart PROVE IInv'
<1> USE ParameterAssumption
<1>1. /\ bucket' = <<>> /\ admitted' = <<>> /\ now' = now /\ sent' = sent
      /\ cache' = [p \in Peer |-> <<>>]
      /\ accepts' = [x \in Form |-> 0]
      /\ approved' \in SUBSET Peer
  BY DEF Restart
<1>2. Len(<<>>) = 0 /\ <<>> \in Seq(Nat) /\ <<>> \in Seq(CacheEntry)
  BY EmptySeq
<1>3. TypeOK'
  BY <1>1, <1>2 DEF IInv, TypeOK
<1>4. BucketOrder' /\ AdmittedTail' /\ AdmittedOrder' /\ RateBound'
  BY <1>1, <1>2 DEF BucketOrder, AdmittedTail, AdmittedOrder, RateBound
<1>5. CacheAligned'
  BY <1>1, <1>2 DEF CacheAligned, Aligned
<1>6. TextOwner' /\ OncePerForm'
  BY <1>1 DEF IInv, TextOwner, OncePerForm
<1>7. AcceptedWasSent'
  BY <1>1 DEF AcceptedWasSent, Form
<1>8. Remembered'
  BY <1>1, EnvelopeTypes DEF Remembered
<1> QED  BY <1>3, <1>4, <1>5, <1>6, <1>7, <1>8 DEF IInv

LEMMA UpdateKeepsIInv == ASSUME IInv, HandleUpdate PROVE IInv'
<1>1. CASE HandleLimited
  <2>1. PICK k \in 0..Len(bucket) : Refuse(k)
    BY <1>1 DEF HandleLimited
  <2>2. UNCHANGED <<now, cache, approved, sent, accepts>>
    BY <1>1 DEF HandleLimited
  <2>3. LimiterInv' /\ CacheAligned'
    BY <2>1, <2>2, RefuseKeepsLimiter DEF Refuse, IInv, CacheAligned
  <2> QED  BY <2>2, <2>3, QuietUpdate DEF IInv, TypeOK
<1>2. ASSUME NEW k \in 0..Len(bucket), Admit(k), approved' \in SUBSET Peer,
             UNCHANGED <<now, cache, sent, accepts>>
      PROVE  IInv'
  <2>1. LimiterInv' /\ CacheAligned'
    BY <1>2, AdmitKeepsLimiter, AdmitKeepsCaches
  <2> QED  BY <1>2, <2>1, QuietUpdate
<1>3. CASE HandleOther
  BY <1>2, <1>3 DEF HandleOther, IInv, TypeOK
<1>4. ASSUME NEW p \in Peer, HandleApprove(p)  PROVE IInv'
  BY <1>2, <1>4 DEF HandleApprove, IInv, TypeOK
<1>5. ASSUME NEW e \in Envelope, HandleRejected(e)  PROVE IInv'
  BY <1>2, <1>5 DEF HandleRejected, IInv, TypeOK
<1>6. ASSUME NEW e \in Envelope, HandleBadSignature(e)  PROVE IInv'
  BY <1>6, BadSignatureKeepsIInv
<1>7. ASSUME NEW e \in Envelope, HandleMessage(e)  PROVE IInv'
  BY <1>7, MessageKeepsIInv
<1> QED  BY <1>1, <1>3, <1>4, <1>5, <1>6, <1>7 DEF HandleUpdate

LEMMA StutterKeepsIInv == ASSUME IInv, UNCHANGED vars PROVE IInv'
BY DEF vars, IInv, TypeOK, BucketOrder, AdmittedTail, AdmittedOrder, RateBound,
       CacheAligned, TextOwner, AcceptedWasSent, Remembered, Good, Holds, OncePerForm

(* The invariant holds in every reachable state: the types and capacities, *)
(* and the facts that tie the bucket, the caches and the counters.         *)
THEOREM InboundInvariant == Spec => []IInv
<1>1. Init => IInv
  BY InitIInv
<1>2. IInv /\ [Next]_vars => IInv'
  BY TickKeepsIInv, SignKeepsIInv, UpdateKeepsIInv, RestartKeepsIInv, StutterKeepsIInv
  DEF Next
<1> QED  BY <1>1, <1>2, PTL DEF Spec

(* Type correctness, with the capacities of the limiter and of the caches. *)
THEOREM InboundTypes == Spec => []TypeOK
<1>1. IInv => TypeOK
  BY DEF IInv
<1> QED  BY <1>1, InboundInvariant, PTL

(* No interval of Window ticks, wherever it starts, sees more than         *)
(* MaxCalls updates admitted by MSG_LIMITER.                               *)
THEOREM RateIsBounded == Spec => []RateBound
<1>1. IInv => RateBound
  BY DEF IInv
<1> QED  BY <1>1, InboundInvariant, PTL

(* No message is dispatched twice in one form by one process, although     *)
(* limiter and caches forget.                                              *)
THEOREM DispatchedOncePerForm == Spec => []OncePerForm
<1>1. IInv => OncePerForm
  BY DEF IInv
<1> QED  BY <1>1, InboundInvariant, PTL

(* The nonce of a dispatched form is forgotten only when that form can     *)
(* never be in time again.                                                 *)
THEOREM ForgetsNothingInTime == Spec => []ForgetsOnlyStale
<1>1. IInv => ForgetsOnlyStale
  BY DEF IInv, Remembered, ForgetsOnlyStale, Holds, Seen
<1> QED  BY <1>1, InboundInvariant, PTL

-----------------------------------------------------------------------------
(* Implementation of OnceDelivery                                          *)

Messages == {<<s.from, s.text>> : s \in sent}
Positive == {x \in Form : accepts[x] > 0}

LEMMA SignImplements ==
  ASSUME IInv, NEW p \in Peer, NEW t \in Text, NEW ts \in 0..(MaxNow + Skew),
         Sign(p, t, ts)
  PROVE  Once!Next
<1>1. \A s \in sent : s.text # t
  BY DEF Sign
<1>2. <<p, t>> \in (Peer \X Text) \ Messages
  BY <1>1 DEF Messages
<1>3. Messages' = Messages \cup {<<p, t>>} /\ Positive' = Positive
  <2> DEFINE m == Canonical(p, t, ts)
  <2>1. m.from = p /\ m.text = t
    BY DEF Canonical
  <2>2. sent' = sent \cup {m} /\ accepts' = accepts
    BY DEF Sign
  <2> HIDE DEF m
  <2>3. \A x : x \in Messages' <=> x \in Messages \/ x = <<p, t>>
    BY <2>1, <2>2 DEF Messages
  <2> QED  BY <2>2, <2>3 DEF Positive
<1>4. Once!Sign(<<p, t>>)
  BY <1>2, <1>3 DEF Once!Sign, Messages, Positive
<1> QED  BY <1>2, <1>4 DEF Once!Next

LEMMA MessageImplements ==
  ASSUME IInv, NEW e \in Envelope, HandleMessage(e)
  PROVE  Once!Next
<1> DEFINE m == <<e.from, e.text>>
           y == <<m, e.cut>>
<1>1. accepts[y] = 0 /\ accepts \in [Form -> Nat]
  BY NotYetAccepted DEF IInv, TypeOK, FormOf
<1>2. /\ y \in Form /\ m \in Peer \X Text /\ e.cut \in Cut
      /\ Good(e) /\ sent' = sent
      /\ accepts' = [accepts EXCEPT ![y] = @ + 1]
  BY EnvelopeTypes DEF HandleMessage, Dispatch, FormOf
<1>3. m \in Messages /\ Messages' = Messages
  BY <1>2 DEF Messages, Good, Canonical
<1>4. y \notin Positive
  BY <1>1 DEF Positive
<1> DEFINE z == y
<1>5. z = <<m, e.cut>> /\ z \in Form /\ z \notin Positive
  BY <1>2, <1>4
<1>6. /\ accepts'[z] = 1
      /\ \A x \in Form : x # z => accepts'[x] = accepts[x]
  BY <1>1, <1>2
<1> HIDE DEF z, y, m
<1>7. Positive' = Positive \cup {z}
  BY <1>5, <1>6 DEF Positive
<1>8. Once!Dispatch(m, e.cut)
  BY <1>3, <1>5, <1>7 DEF Once!Dispatch, Messages, Positive
<1> QED  BY <1>2, <1>8 DEF Once!Next

LEMMA RestartImplements == ASSUME Restart PROVE Once!Next
<1>1. Positive' = {} /\ Messages' = Messages
  BY DEF Restart, Positive, Messages
<1> QED  BY <1>1 DEF Once!Next, Once!Restart, Positive, Messages

(* The receive path implements OnceDelivery: each step signs a message,    *)
(* dispatches one in a form it was not dispatched in, forgets them with    *)
(* the process, or is invisible.                                           *)
THEOREM InboundImplementsOnceDelivery == Spec => ImplementsOnceDelivery
<1>1. Init => Once!Init
  BY DEF Init, Fresh, Once!Init
<1>2. IInv /\ [Next]_vars => [Once!Next]_(Once!vars)
  <2> SUFFICES ASSUME IInv, [Next]_vars  PROVE [Once!Next]_(Once!vars)
    OBVIOUS
  <2>1. ASSUME UNCHANGED <<sent, accepts>>  PROVE UNCHANGED Once!vars
    BY <2>1 DEF Once!vars
  <2>2. CASE Tick
    BY <2>1, <2>2 DEF Tick
  <2>3. CASE \E p \in Peer, t \in Text, ts \in 0..(MaxNow + Skew) : Sign(p, t, ts)
    BY <2>3, SignImplements
  <2>4. CASE HandleUpdate
    <3>1. CASE HandleLimited \/ HandleOther \/ \E p \in Peer : HandleApprove(p)
      BY <2>1, <3>1 DEF HandleLimited, HandleOther, HandleApprove
    <3>2. CASE \E e \in Envelope : HandleRejected(e) \/ HandleBadSignature(e)
      BY <2>1, <3>2 DEF HandleRejected, HandleBadSignature
    <3>3. CASE \E e \in Envelope : HandleMessage(e)
      BY <3>3, MessageImplements
    <3> QED  BY <2>4, <3>1, <3>2, <3>3 DEF HandleUpdate
  <2>5. CASE Restart
    BY <2>5, RestartImplements
  <2>6. CASE UNCHANGED vars
    BY <2>1, <2>6 DEF vars
  <2> QED  BY <2>2, <2>3, <2>4, <2>5, <2>6 DEF Next
<1> QED  BY <1>1, <1>2, InboundInvariant, PTL DEF Spec, Once!Spec, ImplementsOnceDelivery

=============================================================================
