--------------------------- MODULE FileOffersProofs ---------------------------
(***************************************************************************)
(* Proofs about FileOffers, for any peers, transfers, caps, windows and    *)
(* time-outs.                                                              *)
(*                                                                         *)
(* An offer that gets through is charged twice, any other one at most      *)
(* twice.  Counted from their ends, the bucket of a peer is therefore      *)
(* never behind its accepted offers by less than two calls for each        *)
(* (BegunIsCharged), nor behind its arrivals by more (ChargedIsArrived):   *)
(* the first bounds the sessions, the second shows whose offers filled     *)
(* the bucket.                                                             *)
(***************************************************************************)
EXTENDS FileOffers, FiniteSetTheorems, SequenceTheorems, TLAPS

Times == 0..MaxNow

Sorted(s) == \A i, j \in 1..Len(s) : i <= j => s[i] <= s[j]
NotAfter(s, t) == \A i \in 1..Len(s) : s[i] <= t

(* An accepted offer that is still in the window has its two calls, and    *)
(* those of all later ones, in bucket b.                                   *)
BegunIsCharged(b, g, t) ==
  \A i \in 1..Len(g) :
    g[i] >= t - Window =>
      LET later == Len(g) - i
      IN  /\ 2 * later + 2 <= Len(b)
          /\ g[i] <= b[Len(b) - 2 * later - 1]

(* Behind two calls in bucket b there is at least one arrival.             *)
ChargedIsArrived(b, a) ==
  \A j \in 1..Len(b) :
    LET later == (Len(b) - j) \div 2
    IN  later < Len(a) /\ b[j] <= a[Len(a) - later]

(* What BegunBound says of one peer.                                       *)
SpacedOut(g) ==
  \A i \in 1..Len(g) :
    i + MaxCalls \div 2 <= Len(g) => g[i] + Window < g[i + MaxCalls \div 2]

(* Bucket, arrivals and accepted offers of one peer at time t.             *)
PeerInv(b, a, g, t) ==
  /\ b \in Seq(Times) /\ a \in Seq(Times) /\ g \in Seq(Times) /\ t \in Times
  /\ Len(b) <= MaxCalls
  /\ Sorted(b) /\ NotAfter(b, t) /\ Sorted(a) /\ NotAfter(a, t)
  /\ BegunIsCharged(b, g, t)
  /\ ChargedIsArrived(b, a)
  /\ SpacedOut(g)

OffersInv ==
  /\ TypeOK
  /\ IsFiniteSet(slot)
  /\ \A p \in Peer : PeerInv(bucket[p], arrived[p], begun[p], now)
  /\ LimitedByOwnOffers

-----------------------------------------------------------------------------
(* Sequences of times                                                      *)

(* A sequence of times has a length and entries that are numbers.          *)
LEMMA TimesAreNumbers ==
  ASSUME NEW s \in Seq(Times)
  PROVE  Len(s) \in Nat /\ \A i \in 1..Len(s) : s[i] \in Nat /\ s[i] \in Times
<1>1. Len(s) \in Nat /\ \A i \in 1..Len(s) : s[i] \in Times
  BY LenProperties, ElementOfSeq
<1> QED  BY <1>1 DEF Times

(* What popping the first k entries leaves.                                *)
LEMMA AfterDrop ==
  ASSUME NEW s \in Seq(Times), NEW k \in 0..Len(s)
  PROVE  /\ DropFirst(s, k) \in Seq(Times)
         /\ Len(DropFirst(s, k)) = Len(s) - k
         /\ \A i \in 1..(Len(s) - k) : DropFirst(s, k)[i] = s[k + i]
<1>1. Len(s) \in Nat /\ \A i \in (k + 1)..Len(s) : s[i] \in Times
  BY TimesAreNumbers
<1>2. /\ DropFirst(s, k) \in Seq(Times)
      /\ Len(DropFirst(s, k)) = IF k + 1 <= Len(s) THEN Len(s) - (k + 1) + 1 ELSE 0
      /\ \A i \in 1..(Len(s) - (k + 1) + 1) : DropFirst(s, k)[i] = s[k + 1 + i - 1]
  BY <1>1, SubSeqProperties DEF DropFirst
<1> QED  BY <1>1, <1>2

(* What appending n times the time t leaves.                               *)
Longer(r, s, n, t) ==
  /\ r \in Seq(Times) /\ Len(r) = Len(s) + n
  /\ \A i \in 1..Len(s) : r[i] = s[i]
  /\ \A i \in (Len(s) + 1)..(Len(s) + n) : r[i] = t

(* Appending one time at a time.                                            *)
LEMMA AfterAppend ==
  ASSUME NEW s \in Seq(Times), NEW t \in Times
  PROVE  /\ Longer(s, s, 0, t)
         /\ Longer(Append(s, t), s, 1, t)
         /\ Longer(Append(Append(s, t), t), s, 2, t)
<1>1. Len(s) \in Nat
  BY TimesAreNumbers
<1> DEFINE one == Append(s, t)
           two == Append(one, t)
<1>2. /\ one \in Seq(Times) /\ Len(one) = Len(s) + 1
      /\ \A i \in 1..Len(s) : one[i] = s[i]
      /\ one[Len(s) + 1] = t
  BY AppendProperties
<1> HIDE DEF one
<1>3. /\ two \in Seq(Times) /\ Len(two) = Len(one) + 1
      /\ \A i \in 1..Len(one) : two[i] = one[i]
      /\ two[Len(one) + 1] = t
  BY <1>2, AppendProperties
<1> HIDE DEF two
<1>4. Longer(s, s, 0, t)
  BY <1>1 DEF Longer
<1>5. Longer(one, s, 1, t)
  BY <1>1, <1>2 DEF Longer
<1>6. Longer(two, s, 2, t)
  BY <1>1, <1>2, <1>3 DEF Longer
<1> QED  BY <1>4, <1>5, <1>6 DEF one, two

(* A sorted sequence that grows by the present time stays sorted.          *)
LEMMA LongerIsSorted ==
  ASSUME NEW s \in Seq(Times), NEW t \in Times, NEW n \in Nat, NEW r,
         Longer(r, s, n, t), Sorted(s), NotAfter(s, t)
  PROVE  Sorted(r) /\ NotAfter(r, t)
<1>1. /\ Len(s) \in Nat /\ Len(r) = Len(s) + n /\ t \in Nat
      /\ \A i \in 1..Len(s) : s[i] \in Nat
  BY TimesAreNumbers DEF Longer, Times
<1>2. ASSUME NEW i \in 1..Len(r)
      PROVE  r[i] <= t /\ (i > Len(s) => r[i] = t) /\ (i <= Len(s) => r[i] = s[i])
  <2>1. CASE i \in 1..Len(s)
    BY <1>1, <2>1 DEF Longer, NotAfter
  <2>2. CASE i \in (Len(s) + 1)..(Len(s) + n)
    BY <1>1, <2>2 DEF Longer
  <2> QED  BY <1>1, <2>1, <2>2
<1>3. ASSUME NEW i \in 1..Len(r), NEW j \in 1..Len(r), i <= j
      PROVE  r[i] <= r[j]
  <2>1. CASE j > Len(s)
    BY <1>2, <2>1
  <2>2. CASE j <= Len(s)
    <3>1. i \in 1..Len(s) /\ j \in 1..Len(s) /\ r[i] = s[i] /\ r[j] = s[j]
      BY <1>1, <1>2, <1>3, <2>2
    <3> QED  BY <1>3, <3>1 DEF Sorted
  <2> QED  BY <1>1, <2>1, <2>2
<1> QED  BY <1>2, <1>3 DEF Sorted, NotAfter

(* Two calls more are half a pair more.                                    *)
LEMMA HalfGrows ==
  ASSUME NEW x \in Nat, NEW n \in 0..2
  PROVE  x \div 2 \in Nat /\ (x + n) \div 2 \in Nat /\ (x + n) \div 2 <= x \div 2 + 1
OBVIOUS

(* One call alone is no pair.                                              *)
LEMMA HalfOfOne ==
  ASSUME NEW x \in 0..1
  PROVE  x \div 2 = 0
OBVIOUS

-----------------------------------------------------------------------------
(* One peer                                                                *)

(* Evicting what has expired.                                              *)
LEMMA PeerAfterEviction ==
  ASSUME NEW b, NEW a, NEW g, NEW t, PeerInv(b, a, g, t),
         NEW k \in 0..Len(b), PopsExpired(b, t - Window, k)
  PROVE  /\ PeerInv(DropFirst(b, k), a, g, t)
         /\ \A i \in 1..Len(DropFirst(b, k)) : DropFirst(b, k)[i] >= t - Window
<1> DEFINE rest == DropFirst(b, k)
<1>1. /\ Len(b) \in Nat /\ Len(a) \in Nat /\ Len(g) \in Nat /\ Window \in Nat
      /\ MaxCalls \in Nat /\ t \in Nat
      /\ \A i \in 1..Len(b) : b[i] \in Nat
      /\ \A i \in 1..Len(g) : g[i] \in Nat
  BY TimesAreNumbers, OfferAssumption DEF PeerInv, Times
<1>2. /\ rest \in Seq(Times) /\ Len(rest) = Len(b) - k
      /\ \A i \in 1..Len(rest) : rest[i] = b[k + i]
  BY AfterDrop DEF PeerInv
<1> HIDE DEF rest
<1>3. /\ \A i \in 1..k : b[i] < t - Window
      /\ k < Len(b) => b[k + 1] >= t - Window
  BY DEF PopsExpired
<1>4. Sorted(rest) /\ NotAfter(rest, t)
  <2>1. \A i \in 1..Len(rest) : k + i \in 1..Len(b)
    BY <1>1, <1>2
  <2>2. NotAfter(rest, t)
    BY <1>2, <2>1 DEF PeerInv, NotAfter
  <2>3. ASSUME NEW i \in 1..Len(rest), NEW j \in 1..Len(rest), i <= j
        PROVE  rest[i] <= rest[j]
    <3>1. k + i <= k + j
      BY <1>1, <1>2, <2>3
    <3> QED  BY <1>2, <2>1, <3>1 DEF PeerInv, Sorted
  <2> QED  BY <2>2, <2>3 DEF Sorted
<1>5. ASSUME NEW i \in 1..Len(rest)
      PROVE  rest[i] >= t - Window
  <2>1. k + 1 \in 1..Len(b) /\ k + i \in 1..Len(b) /\ k + 1 <= k + i /\ k < Len(b)
    BY <1>1, <1>2
  <2>2. b[k + 1] <= b[k + i]
    BY <2>1 DEF PeerInv, Sorted
  <2>3. b[k + 1] \in Nat /\ b[k + i] \in Nat /\ rest[i] = b[k + i]
    BY <1>1, <1>2, <2>1
  <2> QED  BY <1>1, <1>3, <2>1, <2>2, <2>3
<1>6. BegunIsCharged(rest, g, t)
  <2> SUFFICES ASSUME NEW i \in 1..Len(g), g[i] >= t - Window
               PROVE  /\ 2 * (Len(g) - i) + 2 <= Len(rest)
                      /\ g[i] <= rest[Len(rest) - 2 * (Len(g) - i) - 1]
    BY DEF BegunIsCharged
  <2> DEFINE m == Len(b) - 2 * (Len(g) - i) - 1
  <2>1. m \in 1..Len(b) /\ g[i] <= b[m]
    <3>1. 2 * (Len(g) - i) + 2 <= Len(b) /\ g[i] <= b[m]
      BY DEF PeerInv, BegunIsCharged
    <3> QED  BY <1>1, <3>1
  <2>2. ~(m <= k)
    <3>1. ASSUME m <= k PROVE FALSE
      <4>1. b[m] < t - Window
        BY <1>3, <2>1, <3>1
      <4>2. b[m] \in Nat /\ g[i] \in Nat
        BY <1>1, <2>1
      <4> QED  BY <1>1, <2>1, <4>1, <4>2
    <3> QED  BY <3>1
  <2>3. m - k \in 1..Len(rest) /\ k + (m - k) = m
    BY <1>1, <1>2, <2>1, <2>2
  <2>4. rest[m - k] = b[m]
    BY <1>2, <2>3
  <2>5. m - k = Len(rest) - 2 * (Len(g) - i) - 1
    BY <1>1, <1>2
  <2>6. 2 * (Len(g) - i) + 2 <= Len(rest)
    BY <1>1, <1>2, <2>3, <2>5
  <2> QED  BY <2>1, <2>4, <2>5, <2>6
<1>7. ChargedIsArrived(rest, a)
  <2> SUFFICES ASSUME NEW j \in 1..Len(rest)
               PROVE  /\ (Len(rest) - j) \div 2 < Len(a)
                      /\ rest[j] <= a[Len(a) - (Len(rest) - j) \div 2]
    BY DEF ChargedIsArrived
  <2>1. k + j \in 1..Len(b) /\ Len(b) - (k + j) = Len(rest) - j /\ rest[j] = b[k + j]
    BY <1>1, <1>2
  <2>2. /\ (Len(b) - (k + j)) \div 2 < Len(a)
        /\ b[k + j] <= a[Len(a) - (Len(b) - (k + j)) \div 2]
    BY <2>1 DEF PeerInv, ChargedIsArrived
  <2> QED  BY <2>1, <2>2
<1>8. Len(rest) <= MaxCalls
  BY <1>1, <1>2 DEF PeerInv
<1> QED  BY <1>2, <1>4, <1>5, <1>6, <1>7, <1>8 DEF PeerInv, rest

(* Time goes on, and the window with it.                                   *)
LEMMA PeerLater ==
  ASSUME NEW b, NEW a, NEW g, NEW t, PeerInv(b, a, g, t), NEW u \in Times, t <= u
  PROVE  PeerInv(b, a, g, u)
<1>1. /\ t \in Nat /\ Window \in Nat /\ u \in Nat
      /\ \A i \in 1..Len(b) : b[i] \in Nat
      /\ \A i \in 1..Len(a) : a[i] \in Nat
      /\ \A i \in 1..Len(g) : g[i] \in Nat
  BY TimesAreNumbers, OfferAssumption DEF PeerInv, Times
<1>2. NotAfter(b, u) /\ NotAfter(a, u)
  BY <1>1 DEF PeerInv, NotAfter
<1>3. BegunIsCharged(b, g, u)
  <2>1. \A i \in 1..Len(g) : g[i] >= u - Window => g[i] >= t - Window
    BY <1>1
  <2>2. BegunIsCharged(b, g, t)
    BY DEF PeerInv
  <2> SUFFICES ASSUME NEW i \in 1..Len(g), g[i] >= u - Window
               PROVE  /\ 2 * (Len(g) - i) + 2 <= Len(b)
                      /\ g[i] <= b[Len(b) - 2 * (Len(g) - i) - 1]
    BY DEF BegunIsCharged
  <2> QED  BY <2>1, <2>2 DEF BegunIsCharged
<1> QED  BY <1>1, <1>2, <1>3 DEF PeerInv

(* An offer arrives and is charged n times; with two charges it may be     *)
(* accepted.  The bucket has been evicted before.                          *)
LEMMA PeerAfterOffer ==
  ASSUME NEW b, NEW a, NEW g, NEW t, PeerInv(b, a, g, t),
         \A i \in 1..Len(b) : b[i] >= t - Window,
         NEW n \in 0..2, NEW b2, Longer(b2, b, n, t), Len(b) + n <= MaxCalls,
         NEW a2, Longer(a2, a, 1, t),
         NEW g2, g2 = g \/ (n = 2 /\ Longer(g2, g, 1, t))
  PROVE  PeerInv(b2, a2, g2, t)
<1>1. /\ Len(b) \in Nat /\ Len(a) \in Nat /\ Len(g) \in Nat /\ Window \in Nat
      /\ MaxCalls \in Nat \ {0} /\ t \in Nat /\ n \in Nat /\ t \in Times
      /\ \A i \in 1..Len(b) : b[i] \in Nat
      /\ \A i \in 1..Len(a) : a[i] \in Nat
      /\ \A i \in 1..Len(g) : g[i] \in Nat
  <2>1. b \in Seq(Times) /\ a \in Seq(Times) /\ g \in Seq(Times) /\ t \in Times
    BY DEF PeerInv
  <2>2. Window \in Nat /\ MaxCalls \in Nat \ {0} /\ t \in Nat /\ n \in Nat
    BY <2>1, OfferAssumption DEF Times
  <2> QED  BY <2>1, <2>2, TimesAreNumbers
<1>2. /\ b2 \in Seq(Times) /\ Len(b2) = Len(b) + n
      /\ a2 \in Seq(Times) /\ Len(a2) = Len(a) + 1
      /\ g2 \in Seq(Times)
  BY DEF Longer, PeerInv
<1>3. Sorted(b2) /\ NotAfter(b2, t) /\ Sorted(a2) /\ NotAfter(a2, t)
  BY <1>1, LongerIsSorted DEF PeerInv
<1>4. /\ \A i \in 1..Len(b) : b2[i] = b[i]
      /\ \A i \in (Len(b) + 1)..Len(b2) : b2[i] = t
      /\ \A i \in 1..Len(a) : a2[i] = a[i]
      /\ a2[Len(a) + 1] = t
  BY <1>1, <1>2 DEF Longer
<1>5. \A i \in 1..Len(b2) : b2[i] \in Nat
  BY <1>2, TimesAreNumbers
<1>6. BegunIsCharged(b2, g, t)
  <2> SUFFICES ASSUME NEW i \in 1..Len(g), g[i] >= t - Window
               PROVE  /\ 2 * (Len(g) - i) + 2 <= Len(b2)
                      /\ g[i] <= b2[Len(b2) - 2 * (Len(g) - i) - 1]
    BY DEF BegunIsCharged
  <2> DEFINE m == Len(b) - 2 * (Len(g) - i) - 1
  <2>1. 2 * (Len(g) - i) + 2 <= Len(b) /\ g[i] <= b[m]
    BY DEF PeerInv, BegunIsCharged
  <2>2. /\ m \in 1..Len(b) /\ m + n \in 1..Len(b2) /\ m \in 1..Len(b2) /\ m <= m + n
        /\ m + n = Len(b2) - 2 * (Len(g) - i) - 1
        /\ 2 * (Len(g) - i) + 2 <= Len(b2)
    <3> DEFINE d == Len(g) - i
    <3>1. d \in Nat /\ m = Len(b) - 2 * d - 1 /\ 2 * d + 2 <= Len(b)
      BY <1>1, <2>1
    <3> HIDE DEF d, m
    <3>2. /\ m \in 1..Len(b) /\ m + n \in 1..Len(b2) /\ m \in 1..Len(b2) /\ m <= m + n
          /\ m + n = Len(b2) - 2 * d - 1
          /\ 2 * d + 2 <= Len(b2)
      <4>1. Len(b) \in Nat /\ n \in Nat /\ Len(b2) = Len(b) + n
        BY <1>1, <1>2
      <4> QED  BY <3>1, <4>1
    <3> QED  BY <3>2 DEF d
  <2> HIDE DEF m
  <2>3. b2[m] = b[m] /\ b2[m] <= b2[m + n]
    BY <1>3, <1>4, <2>2 DEF Sorted
  <2>4. b[m] \in Nat /\ b2[m + n] \in Nat /\ g[i] \in Nat
    BY <1>1, <1>5, <2>2
  <2>5. g[i] <= b2[m + n]
    BY <2>1, <2>3, <2>4 DEF m
  <2> QED  BY <2>2, <2>5
<1>7. ChargedIsArrived(b2, a2)
  <2> SUFFICES ASSUME NEW j \in 1..Len(b2)
               PROVE  /\ (Len(b2) - j) \div 2 < Len(a2)
                      /\ b2[j] <= a2[Len(a2) - (Len(b2) - j) \div 2]
    BY DEF ChargedIsArrived
  <2> DEFINE later == (Len(b2) - j) \div 2
             before == (Len(b) - j) \div 2
  <2>1. CASE j > Len(b)
    <3>1. Len(b2) - j \in 0..1 /\ j \in (Len(b) + 1)..Len(b2)
      BY <1>1, <1>2, <2>1
    <3>2. later = 0
      BY <3>1, HalfOfOne
    <3> HIDE DEF later
    <3>3. later < Len(a2) /\ Len(a2) - later = Len(a) + 1
      BY <1>1, <1>2, <3>2
    <3>4. b2[j] = t /\ a2[Len(a2) - later] = t
      BY <1>4, <3>1, <3>3
    <3>5. t <= t
      BY <1>1
    <3> QED  BY <3>3, <3>4, <3>5 DEF later
  <2>2. CASE j <= Len(b)
    <3>1. j \in 1..Len(b) /\ b2[j] = b[j] /\ b[j] \in Nat
      BY <1>1, <1>2, <1>4, <2>2
    <3>2. before < Len(a) /\ b[j] <= a[Len(a) - before]
      BY <3>1 DEF PeerInv, ChargedIsArrived
    <3>3. before \in Nat /\ later \in Nat /\ later <= before + 1
      <4>1. Len(b) - j \in Nat /\ Len(b2) - j = (Len(b) - j) + n
        BY <1>1, <1>2, <3>1
      <4> QED  BY <4>1, HalfGrows
    <3> HIDE DEF before, later
    <3>4. /\ Len(a) - before \in 1..Len(a)
          /\ Len(a) - before \in 1..Len(a2) /\ Len(a2) - later \in 1..Len(a2)
          /\ Len(a) - before <= Len(a2) - later
          /\ later < Len(a2)
      <4>1. Len(a) \in Nat /\ Len(a2) = Len(a) + 1
        BY <1>1, <1>2
      <4>2. before \in Nat /\ later \in Nat /\ later <= before + 1 /\ before < Len(a)
        BY <3>2, <3>3
      <4> QED  BY <4>1, <4>2
    <3>5. a2[Len(a) - before] = a[Len(a) - before]
      BY <1>4, <3>4
    <3>6. a2[Len(a) - before] <= a2[Len(a2) - later]
      BY <1>3, <3>4 DEF Sorted
    <3>7. a2[Len(a) - before] \in Nat /\ a2[Len(a2) - later] \in Nat
      BY <1>2, <3>4, TimesAreNumbers
    <3>8. b2[j] <= a2[Len(a2) - later]
      BY <3>1, <3>2, <3>5, <3>6, <3>7
    <3> QED  BY <3>4, <3>8 DEF later
  <2> QED  BY <1>1, <1>2, <2>1, <2>2
<1>8. CASE g2 = g
  BY <1>1, <1>2, <1>3, <1>6, <1>7, <1>8 DEF PeerInv
<1>9. CASE n = 2 /\ Longer(g2, g, 1, t)
  <2>1. /\ Len(g2) = Len(g) + 1 /\ g2[Len(g) + 1] = t
        /\ \A i \in 1..Len(g) : g2[i] = g[i]
    BY <1>1, <1>9 DEF Longer
  <2>2. BegunIsCharged(b2, g2, t)
    <3> SUFFICES ASSUME NEW i \in 1..Len(g2), g2[i] >= t - Window
                 PROVE  /\ 2 * (Len(g2) - i) + 2 <= Len(b2)
                        /\ g2[i] <= b2[Len(b2) - 2 * (Len(g2) - i) - 1]
      BY DEF BegunIsCharged
    <3>1. CASE i = Len(g) + 1
      <4>1. Len(b2) - 2 * (Len(g2) - i) - 1 = Len(b) + 1 /\ Len(b) + 1 \in (Len(b) + 1)..Len(b2)
        BY <1>1, <1>2, <1>9, <2>1, <3>1
      <4>2. b2[Len(b) + 1] = t
        BY <1>4, <4>1
      <4> QED  BY <1>1, <1>2, <1>9, <2>1, <3>1, <4>1, <4>2
    <3>2. CASE i \in 1..Len(g)
      <4> DEFINE m == Len(b) - 2 * (Len(g) - i) - 1
      <4>1. 2 * (Len(g) - i) + 2 <= Len(b) /\ g[i] <= b[m]
        BY <2>1, <3>2 DEF PeerInv, BegunIsCharged
      <4>2. m \in 1..Len(b) /\ m = Len(b2) - 2 * (Len(g2) - i) - 1
        BY <1>1, <1>2, <1>9, <2>1, <3>2, <4>1
      <4>3. 2 * (Len(g2) - i) + 2 <= Len(b2)
        BY <1>1, <1>2, <1>9, <2>1, <3>2, <4>1
      <4>4. b2[m] = b[m] /\ g2[i] = g[i]
        BY <1>4, <2>1, <3>2, <4>2
      <4> HIDE DEF m
      <4> QED  BY <4>1, <4>2, <4>3, <4>4
    <3> QED  BY <1>1, <2>1, <3>1, <3>2
  <2>3. SpacedOut(g2)
    <3> DEFINE M == MaxCalls \div 2
    <3>1. M \in Nat /\ 2 * M + 1 >= MaxCalls
      BY <1>1
    <3> SUFFICES ASSUME NEW i \in 1..Len(g2), i + M <= Len(g2)
                 PROVE  g2[i] + Window < g2[i + M]
      BY DEF SpacedOut
    <3> HIDE DEF M
    <3>2. CASE i + M <= Len(g)
      <4>1. i \in 1..Len(g) /\ i + M \in 1..Len(g)
        BY <1>1, <2>1, <3>1, <3>2
      <4>2. g[i] + Window < g[i + M]
        BY <3>2, <4>1 DEF PeerInv, SpacedOut, M
      <4> QED  BY <2>1, <4>1, <4>2
    <3>3. CASE i + M = Len(g) + 1
      <4>1. Len(b) + 2 <= MaxCalls
        BY <1>9
      <4>2. M # 0 /\ i \in 1..Len(g)
        BY <1>1, <2>1, <3>1, <3>3, <4>1
      <4>3. g[i] >= t - Window => 2 * (Len(g) - i) + 2 <= Len(b)
        BY <4>2 DEF PeerInv, BegunIsCharged
      <4>4. ~(g[i] >= t - Window)
        BY <1>1, <3>1, <3>3, <4>1, <4>2, <4>3
      <4>5. g2[i] = g[i] /\ g2[i + M] = t /\ g[i] \in Nat
        BY <1>1, <2>1, <3>3, <4>2
      <4> QED  BY <1>1, <4>4, <4>5
    <3>4. i + M <= Len(g) \/ i + M = Len(g) + 1
      <4>1. i \in Nat /\ i + M <= Len(g) + 1
        BY <2>1
      <4>2. M \in Nat /\ Len(g) \in Nat
        BY <1>1, <3>1
      <4> QED  BY <4>1, <4>2
    <3> QED  BY <3>2, <3>3, <3>4
  <2> QED  BY <1>1, <1>2, <1>3, <1>7, <2>2, <2>3 DEF PeerInv
<1> QED  BY <1>8, <1>9

(* A bucket that has no room for two more calls has been filled by         *)
(* arrivals in the window, two calls by each at most.                      *)
LEMMA FilledByArrivals ==
  ASSUME NEW b, NEW a, NEW g, NEW t, PeerInv(b, a, g, t),
         \A i \in 1..Len(b) : b[i] >= t - Window,
         Len(b) + 1 >= MaxCalls
  PROVE  Cardinality({j \in 1..Len(a) : a[j] >= t - Window}) >= MaxCalls \div 2
<1> DEFINE M == MaxCalls \div 2
           recent == {j \in 1..Len(a) : a[j] >= t - Window}
           last == (Len(a) - M + 1)..Len(a)
<1>1. /\ b \in Seq(Times) /\ a \in Seq(Times) /\ t \in Nat
      /\ Window \in Nat /\ MaxCalls \in Nat \ {0}
  BY OfferAssumption DEF PeerInv, Times
<1>2. /\ Len(b) \in Nat /\ Len(a) \in Nat
      /\ \A i \in 1..Len(b) : b[i] \in Nat
      /\ \A i \in 1..Len(a) : a[i] \in Nat
  BY <1>1, TimesAreNumbers
<1>3. M \in Nat /\ 2 * M <= Len(b) + 1
  BY <1>1, <1>2
<1> HIDE DEF M
<1>4. ASSUME NEW e \in Nat, e < M
      PROVE  Len(a) - e \in 1..Len(a) /\ a[Len(a) - e] >= t - Window
  <2> DEFINE j == Len(b) - 2 * e
  <2>1. j \in 1..Len(b) /\ Len(b) - j = 2 * e
    BY <1>2, <1>3, <1>4
  <2>2. (Len(b) - j) \div 2 = e
    BY <2>1
  <2> HIDE DEF j
  <2>3. e < Len(a) /\ b[j] <= a[Len(a) - e]
    BY <2>1, <2>2 DEF PeerInv, ChargedIsArrived
  <2>4. b[j] >= t - Window /\ b[j] \in Nat
    BY <1>2, <2>1
  <2>5. Len(a) - e \in 1..Len(a)
    BY <1>2, <2>3
  <2>6. a[Len(a) - e] \in Nat
    BY <1>2, <2>5
  <2> QED  BY <1>1, <2>3, <2>4, <2>5, <2>6
<1>5. last \subseteq recent
  <2> SUFFICES ASSUME NEW j \in last PROVE j \in recent
    OBVIOUS
  <2> DEFINE e == Len(a) - j
  <2>1. e \in Nat /\ e < M /\ Len(a) - e = j
    BY <1>2, <1>3
  <2> HIDE DEF e
  <2> QED  BY <1>4, <2>1
<1>6. IsFiniteSet(1..Len(a))
  BY <1>2, FS_Interval
<1>7. IsFiniteSet(recent) /\ Cardinality(recent) \in Nat
  <2>1. recent \in SUBSET (1..Len(a))
    OBVIOUS
  <2> QED  BY <1>6, <2>1, FS_Subset, FS_CardinalityType
<1>8. Cardinality(last) = M
  <2>1. Len(a) - M + 1 \in Int /\ Len(a) \in Int
    BY <1>2, <1>3
  <2>2. Cardinality(last) = IF Len(a) - M + 1 > Len(a) THEN 0 ELSE Len(a) - (Len(a) - M + 1) + 1
    BY <2>1, FS_Interval
  <2> QED  BY <1>2, <1>3, <2>2
<1>9. Cardinality(last) <= Cardinality(recent)
  BY <1>5, <1>7, FS_Subset
<1> QED  BY <1>8, <1>9 DEF M

-----------------------------------------------------------------------------
(* Steps                                                                   *)

(* Every initial state satisfies the invariant.                            *)
LEMMA OffersBegin == Init => OffersInv
<1> SUFFICES ASSUME Init PROVE OffersInv
  OBVIOUS
<1>1. /\ MaxCalls \in Nat \ {0} /\ MaxActive \in Nat /\ MaxNow \in Nat /\ 0 \in Times
      /\ <<>> \in Seq(Times) /\ Len(<<>>) = 0
  BY OfferAssumption DEF Times
<1>2. IsFiniteSet(slot) /\ Cardinality(slot) = 0
  BY FS_EmptySet DEF Init
<1>3. TypeOK
  BY <1>1, <1>2 DEF Init, TypeOK, NoTimes, Times
<1>4. PeerInv(<<>>, <<>>, <<>>, 0)
  BY <1>1 DEF PeerInv, Sorted, NotAfter, BegunIsCharged, ChargedIsArrived, SpacedOut
<1>5. \A p \in Peer : PeerInv(bucket[p], arrived[p], begun[p], now)
  BY <1>4 DEF Init, NoTimes
<1>6. LimitedByOwnOffers
  BY DEF Init, LimitedByOwnOffers
<1> QED  BY <1>2, <1>3, <1>5, <1>6 DEF OffersInv

(* A restart is a fresh start, for the daemon.                             *)
LEMMA RestartKeepsInv ==
  ASSUME OffersInv, Restart
  PROVE  OffersInv'
<1>1. /\ slot' = {} /\ bucket' = NoTimes /\ answers' = {}
      /\ arrived' = NoTimes /\ limited' = {} /\ begun' = NoTimes
      /\ now' = now /\ sender' = sender /\ deadline' = deadline
  BY DEF Restart
<1>2. /\ MaxCalls \in Nat \ {0} /\ MaxActive \in Nat /\ now \in Times
      /\ <<>> \in Seq(Times) /\ Len(<<>>) = 0
  BY OfferAssumption DEF OffersInv, TypeOK, Times
<1>3. IsFiniteSet(slot') /\ Cardinality(slot') = 0
  BY <1>1, FS_EmptySet
<1>4. TypeOK'
  BY <1>1, <1>2, <1>3 DEF OffersInv, TypeOK, NoTimes, Times
<1>5. PeerInv(<<>>, <<>>, <<>>, now)
  BY <1>2 DEF PeerInv, Sorted, NotAfter, BegunIsCharged, ChargedIsArrived, SpacedOut
<1>6. \A p \in Peer : PeerInv(bucket'[p], arrived'[p], begun'[p], now')
  BY <1>1, <1>5 DEF NoTimes
<1>7. LimitedByOwnOffers'
  BY <1>1 DEF LimitedByOwnOffers
<1> QED  BY <1>3, <1>4, <1>6, <1>7 DEF OffersInv

(* Time and the senders leave the daemon alone.                            *)
LEMMA SenderKeepsInv ==
  ASSUME OffersInv, Tick \/ \E t \in Transfer : Offer(t) \/ GiveUp(t)
  PROVE  OffersInv'
<1>1. UNCHANGED <<slot, bucket, answers, arrived, limited, begun>>
  BY DEF Tick, Offer, GiveUp, daemon
<1>2. /\ now \in Times /\ now' \in Times /\ now <= now'
      /\ sender' \in [Transfer -> {"none", "OFFERED", "FAILED"}]
      /\ deadline' \in [Transfer -> Nat]
  <2>1. now \in Times /\ MaxNow \in Nat /\ Timeout \in Nat
    BY OfferAssumption DEF OffersInv, TypeOK, Times
  <2>2. CASE Tick
    BY <2>1, <2>2 DEF Tick, OffersInv, TypeOK, Times
  <2>3. ASSUME NEW t \in Transfer, Offer(t) \/ GiveUp(t)
        PROVE  /\ now' = now
               /\ sender' \in [Transfer -> {"none", "OFFERED", "FAILED"}]
               /\ deadline' \in [Transfer -> Nat]
    <3>1. now + Timeout \in Nat
      BY <2>1 DEF Times
    <3> QED  BY <2>3, <3>1 DEF Offer, GiveUp, OffersInv, TypeOK
  <2>4. now <= now
    BY <2>1 DEF Times
  <2> QED  BY <2>1, <2>2, <2>3, <2>4
<1>3. TypeOK'
  BY <1>1, <1>2 DEF OffersInv, TypeOK, Times
<1>4. \A p \in Peer : PeerInv(bucket'[p], arrived'[p], begun'[p], now')
  BY <1>1, <1>2, PeerLater DEF OffersInv
<1>5. LimitedByOwnOffers'
  BY <1>1 DEF OffersInv, LimitedByOwnOffers, Earlier
<1>6. IsFiniteSet(slot')
  BY <1>1 DEF OffersInv
<1> QED  BY <1>3, <1>4, <1>5, <1>6 DEF OffersInv

(* What becomes of one arrival: so many calls, perhaps a session, perhaps  *)
(* an entry among the limited ones, and then the bucket was full.          *)
Outcome(p, t, rest, n) ==
  /\ Len(rest) + n <= MaxCalls
  /\ \E b2 : Longer(b2, rest, n, now) /\ bucket' = [bucket EXCEPT ![p] = b2]
  /\ \/ limited' = limited
     \/ /\ limited' = limited \cup {<<p, Len(arrived[p]) + 1>>}
        /\ Len(rest) + 1 >= MaxCalls
  /\ \/ slot' = slot /\ begun' = begun
     \/ /\ n = 2
        /\ slot' = slot \cup {t} /\ Cardinality(slot) < MaxActive
        /\ begun' = [begun EXCEPT ![p] = Append(@, now)]
  /\ answers' \in SUBSET ((Peer \cup {Self}) \X Transfer \X Verbs)

(* One step for each answer of the gate.                                   *)
LEMMA OfferHasOutcome ==
  ASSUME OffersInv, NEW p \in Peer, NEW t \in Transfer, NEW k, NEW rest \in Seq(Times),
         rest = Fresh(p, k), Len(rest) <= MaxCalls,
         \/ DropOffer(p, k) \/ RefuseRole(p, t, k) \/ RefuseRate(p, t, k)
         \/ RefuseOffer(p, t, k) \/ AcceptOffer(p, t, k)
  PROVE  \E n \in 0..2 : Outcome(p, t, rest, n)
<1>1. /\ now \in Times /\ MaxCalls \in Nat /\ Len(rest) \in Nat
      /\ answers \in SUBSET ((Peer \cup {Self}) \X Transfer \X Verbs)
  BY OfferAssumption, TimesAreNumbers DEF OffersInv, TypeOK, Times
<1>2. /\ Longer(rest, rest, 0, now)
      /\ Longer(Append(rest, now), rest, 1, now)
      /\ Longer(Append(Append(rest, now), now), rest, 2, now)
  BY <1>1, AfterAppend
<1>3. Len(Append(rest, now)) = Len(rest) + 1
  BY <1>2 DEF Longer
<1>4. ASSUME NEW to \in Peer \cup {Self}, NEW verb \in Verbs, Answer(to, t, verb)
      PROVE  answers' \in SUBSET ((Peer \cup {Self}) \X Transfer \X Verbs)
  BY <1>1, <1>4 DEF Answer
<1>5. CASE DropOffer(p, k)
  <2>1. Len(rest) + 1 >= MaxCalls /\ Len(rest) + 0 <= MaxCalls
    BY <1>1, <1>5 DEF DropOffer, HasRoom
  <2>2. Outcome(p, t, rest, 0)
    BY <1>1, <1>2, <1>5, <2>1 DEF DropOffer, Outcome
  <2> QED  BY <2>2
<1>6. CASE RefuseRole(p, t, k)
  <2>1. Len(rest) + 1 <= MaxCalls
    BY <1>1, <1>6 DEF RefuseRole, HasRoom
  <2>2. Outcome(p, t, rest, 1)
    BY <1>2, <1>4, <1>6, <2>1 DEF RefuseRole, Outcome, Verbs
  <2> QED  BY <2>2
<1>7. CASE RefuseRate(p, t, k)
  <2>1. Len(rest) + 1 <= MaxCalls /\ Len(rest) + 1 >= MaxCalls
    BY <1>1, <1>3, <1>7 DEF RefuseRate, HasRoom
  <2>2. Outcome(p, t, rest, 1)
    BY <1>2, <1>4, <1>7, <2>1 DEF RefuseRate, Outcome, Verbs
  <2> QED  BY <2>2
<1>8. CASE RefuseOffer(p, t, k)
  <2>1. Len(rest) + 2 <= MaxCalls
    BY <1>1, <1>3, <1>8 DEF RefuseOffer, Charged, HasRoom
  <2>2. Outcome(p, t, rest, 2)
    BY <1>2, <1>4, <1>8, <2>1 DEF RefuseOffer, Charged, Outcome, Verbs
  <2> QED  BY <2>2
<1>9. CASE AcceptOffer(p, t, k)
  <2>1. Len(rest) + 2 <= MaxCalls
    BY <1>1, <1>3, <1>9 DEF AcceptOffer, Charged, HasRoom
  <2>2. Outcome(p, t, rest, 2)
    BY <1>2, <1>4, <1>9, <2>1 DEF AcceptOffer, Charged, Outcome, Verbs
  <2> QED  BY <2>2
<1> QED  BY <1>5, <1>6, <1>7, <1>8, <1>9

(* One more arrival of p changes nothing for offers that came before it.   *)
LEMMA EarlierStays ==
  ASSUME TypeOK, NEW p \in Peer, arrived' = [arrived EXCEPT ![p] = Append(@, now)]
  PROVE  /\ \A q \in Peer : /\ Len(arrived'[q]) \in Nat /\ Len(arrived[q]) <= Len(arrived'[q])
                            /\ \A j \in 1..Len(arrived[q]) : arrived'[q][j] = arrived[q][j]
         /\ Len(arrived[p]) \in Nat
         /\ Len(arrived'[p]) = Len(arrived[p]) + 1 /\ arrived'[p][Len(arrived[p]) + 1] = now
         /\ \A q \in Peer, i \in Nat : i \in 1..Len(arrived[q]) => Earlier(q, i)' = Earlier(q, i)
<1>1. /\ now \in Times
      /\ \A q \in Peer : arrived[q] \in Seq(Times) /\ Len(arrived[q]) \in Nat
      /\ arrived'[p] = Append(arrived[p], now)
      /\ \A q \in Peer \ {p} : arrived'[q] = arrived[q]
  BY TimesAreNumbers DEF TypeOK, Times
<1>2. Longer(arrived'[p], arrived[p], 1, now)
  BY <1>1, AfterAppend
<1>3. /\ Len(arrived'[p]) = Len(arrived[p]) + 1 /\ arrived'[p][Len(arrived[p]) + 1] = now
      /\ \A j \in 1..Len(arrived[p]) : arrived'[p][j] = arrived[p][j]
  BY <1>1, <1>2 DEF Longer
<1>4. ASSUME NEW q \in Peer
      PROVE  /\ Len(arrived'[q]) \in Nat /\ Len(arrived[q]) <= Len(arrived'[q])
             /\ \A j \in 1..Len(arrived[q]) : arrived'[q][j] = arrived[q][j]
  <2>1. CASE q = p
    BY <1>1, <1>3, <2>1
  <2>2. CASE q # p
    BY <1>1, <2>2
  <2> QED  BY <2>1, <2>2
<1>5. ASSUME NEW q \in Peer, NEW i \in 1..Len(arrived[q])
      PROVE  Earlier(q, i)' = Earlier(q, i)
  <2>1. arrived'[q][i] = arrived[q][i]
    BY <1>4
  <2>2. \A j \in 1..(i - 1) : arrived'[q][j] = arrived[q][j]
    <3>1. 1..(i - 1) \subseteq 1..Len(arrived[q])
      BY <1>1
    <3> QED  BY <1>4, <3>1
  <2>3. Earlier(q, i)' = {j \in 1..(i - 1) : arrived'[q][j] >= arrived'[q][i] - Window}
    BY DEF Earlier
  <2> QED  BY <2>1, <2>2, <2>3 DEF Earlier
<1> QED  BY <1>1, <1>3, <1>4, <1>5

(* An offer that arrives.                                                  *)
LEMMA OfferKeepsInv ==
  ASSUME OffersInv, NEW t \in Transfer, HandleOffer(t)
  PROVE  OffersInv'
<1> DEFINE p == OwnerOf[t]
<1>1. p \in Peer
  BY OfferAssumption
<1> HIDE DEF p
<1> PICK k \in 0..Len(bucket[p]) :
      /\ PopsExpired(bucket[p], now - Window, k)
      /\ \/ DropOffer(p, k) \/ RefuseRole(p, t, k) \/ RefuseRate(p, t, k)
         \/ RefuseOffer(p, t, k) \/ AcceptOffer(p, t, k)
  BY DEF HandleOffer, p
<1>2. arrived' = [arrived EXCEPT ![p] = Append(@, now)] /\ UNCHANGED <<now, sender, deadline>>
  BY DEF HandleOffer, p
<1> DEFINE b == bucket[p]
           a == arrived[p]
           g == begun[p]
           rest == DropFirst(b, k)
<1>3. PeerInv(b, a, g, now)
  BY <1>1 DEF OffersInv
<1>4. PeerInv(rest, a, g, now) /\ \A i \in 1..Len(rest) : rest[i] >= now - Window
  BY <1>3, PeerAfterEviction
<1>5. rest \in Seq(Times) /\ Len(rest) <= MaxCalls /\ rest = Fresh(p, k)
  BY <1>4 DEF PeerInv, Fresh
<1> HIDE DEF rest
<1> PICK n \in 0..2 : Outcome(p, t, rest, n)
  BY <1>1, <1>5, OfferHasOutcome
<1> PICK b2 : Longer(b2, rest, n, now) /\ bucket' = [bucket EXCEPT ![p] = b2]
  BY DEF Outcome
<1>6. /\ now \in Times /\ MaxCalls \in Nat /\ MaxActive \in Nat
      /\ g \in Seq(Times) /\ a \in Seq(Times)
  BY <1>4, OfferAssumption DEF PeerInv
<1>7. Longer(Append(a, now), a, 1, now) /\ Longer(Append(g, now), g, 1, now)
  BY <1>6, AfterAppend
<1>8. /\ bucket'[p] = b2 /\ \A q \in Peer \ {p} : bucket'[q] = bucket[q]
      /\ arrived'[p] = Append(a, now) /\ \A q \in Peer \ {p} : arrived'[q] = arrived[q]
      /\ \A q \in Peer \ {p} : begun'[q] = begun[q]
      /\ begun'[p] = g \/ (n = 2 /\ Longer(begun'[p], g, 1, now))
  BY <1>1, <1>2, <1>7 DEF OffersInv, TypeOK, Outcome
<1>9. PeerInv(bucket'[p], arrived'[p], begun'[p], now)
  BY <1>4, <1>7, <1>8, PeerAfterOffer DEF Outcome
<1>10. \A q \in Peer : PeerInv(bucket'[q], arrived'[q], begun'[q], now')
  BY <1>2, <1>8, <1>9 DEF OffersInv
<1>11. IsFiniteSet(slot') /\ slot' \in SUBSET Transfer /\ Cardinality(slot') <= MaxActive
  <2>1. CASE slot' = slot
    BY <2>1 DEF OffersInv, TypeOK
  <2>2. CASE slot' = slot \cup {t} /\ Cardinality(slot) < MaxActive
    <3>1. Cardinality(slot) \in Nat
      BY FS_CardinalityType DEF OffersInv
    <3>2. /\ IsFiniteSet(slot')
          /\ Cardinality(slot') \in {Cardinality(slot), Cardinality(slot) + 1}
      BY <2>2, FS_AddElement DEF OffersInv
    <3> QED  BY <1>6, <2>2, <3>1, <3>2 DEF OffersInv, TypeOK
  <2> QED  BY <2>1, <2>2 DEF Outcome
<1>12. \A x \in limited' : x[1] \in Peer /\ x[2] \in 1..Len(arrived'[x[1]])
  <2>1. ASSUME NEW x \in limited PROVE x[1] \in Peer /\ x[2] \in 1..Len(arrived'[x[1]])
    <3>1. x[1] \in Peer /\ x[2] \in 1..Len(arrived[x[1]]) /\ Len(arrived[x[1]]) \in Nat
      BY TimesAreNumbers DEF OffersInv, TypeOK, Times
    <3>2. Len(arrived'[x[1]]) \in Nat /\ Len(arrived[x[1]]) <= Len(arrived'[x[1]])
      BY <1>1, <1>2, <3>1, EarlierStays DEF OffersInv
    <3> QED  BY <3>1, <3>2
  <2>2. Len(a) \in Nat /\ Len(arrived'[p]) = Len(a) + 1
    BY <1>1, <1>2, EarlierStays DEF OffersInv
  <2>3. Len(a) + 1 \in 1..Len(arrived'[p])
    BY <2>2
  <2> QED  BY <1>1, <2>1, <2>3 DEF Outcome
<1>13. TypeOK'
  <2>1. \A q \in Peer : /\ bucket'[q] \in Seq(Times) /\ Len(bucket'[q]) <= MaxCalls
                        /\ arrived'[q] \in Seq(Times) /\ begun'[q] \in Seq(Times)
    BY <1>10 DEF PeerInv
  <2>2. /\ bucket' \in [Peer -> Seq(Times)]
        /\ arrived' \in [Peer -> Seq(Times)]
        /\ begun' \in [Peer -> Seq(Times)]
    BY <1>2, <2>1 DEF OffersInv, TypeOK, Outcome
  <2>3. answers' \in SUBSET ((Peer \cup {Self}) \X Transfer \X Verbs)
    BY DEF Outcome
  <2> QED  BY <1>2, <1>11, <1>12, <2>1, <2>2, <2>3 DEF OffersInv, TypeOK, Times
<1>14. LimitedByOwnOffers'
  <2> SUFFICES ASSUME NEW x \in limited'
               PROVE  Cardinality(Earlier(x[1], x[2])') >= MaxCalls \div 2
    BY DEF LimitedByOwnOffers
  <2>1. CASE x \in limited
    <3>1. x[1] \in Peer /\ x[2] \in 1..Len(arrived[x[1]]) /\ x[2] \in Nat
      BY <2>1 DEF OffersInv, TypeOK
    <3>2. Earlier(x[1], x[2])' = Earlier(x[1], x[2])
      BY <1>1, <1>2, <3>1, EarlierStays DEF OffersInv
    <3> QED  BY <2>1, <3>2 DEF OffersInv, LimitedByOwnOffers
  <2>2. CASE x = <<p, Len(a) + 1>> /\ Len(rest) + 1 >= MaxCalls
    <3>1. Cardinality({j \in 1..Len(a) : a[j] >= now - Window}) >= MaxCalls \div 2
      BY <1>4, <2>2, FilledByArrivals
    <3>2. /\ arrived'[p][Len(a) + 1] = now /\ Len(a) \in Nat
          /\ \A j \in 1..Len(a) : arrived'[p][j] = a[j]
      BY <1>1, <1>2, EarlierStays DEF OffersInv
    <3>3. x[1] = p /\ x[2] = Len(a) + 1
      BY <2>2
    <3>4. Earlier(x[1], x[2])' =
            {j \in 1..(Len(a) + 1 - 1) : arrived'[p][j] >= arrived'[p][Len(a) + 1] - Window}
      BY <3>3 DEF Earlier
    <3>5. Earlier(x[1], x[2])' = {j \in 1..Len(a) : a[j] >= now - Window}
      BY <3>2, <3>4
    <3> QED  BY <3>1, <3>5
  <2> QED  BY <2>1, <2>2 DEF Outcome
<1> QED  BY <1>10, <1>11, <1>13, <1>14 DEF OffersInv

(* Every step preserves the invariant.                                     *)
LEMMA OffersNext == OffersInv /\ [Next]_vars => OffersInv'
<1> SUFFICES ASSUME OffersInv, [Next]_vars PROVE OffersInv'
  OBVIOUS
<1>1. CASE Tick \/ \E t \in Transfer : Offer(t) \/ GiveUp(t)
  BY <1>1, SenderKeepsInv
<1>2. CASE Restart
  BY <1>2, RestartKeepsInv
<1>3. ASSUME NEW t \in Transfer, HandleOffer(t) PROVE OffersInv'
  BY <1>3, OfferKeepsInv
<1>4. CASE UNCHANGED vars
  BY <1>4 DEF vars, daemon, OffersInv, TypeOK, LimitedByOwnOffers, Earlier
<1> QED  BY <1>1, <1>2, <1>3, <1>4 DEF Next

(* The invariant holds in every reachable state.                           *)
THEOREM OffersInvariant == Spec => []OffersInv
BY OffersBegin, OffersNext, PTL DEF Spec

(* Types of senders, slots and limiter, with the caps on slots and calls.  *)
THEOREM OfferTypes == Spec => []TypeOK
<1>1. OffersInv => TypeOK
  BY DEF OffersInv
<1> QED  BY <1>1, OffersInvariant, PTL

(* At most MaxCalls \div 2 sessions of one peer begin in one window,       *)
(* because each costs two calls (_handle_file_offer, handle_offer).        *)
THEOREM BeginningsAreBounded == Spec => []BegunBound
<1>1. OffersInv => BegunBound
  BY DEF OffersInv, PeerInv, SpacedOut, BegunBound
<1> QED  BY <1>1, OffersInvariant, PTL

(* Who is over the rate has sent at least MaxCalls \div 2 offers in the    *)
(* window: nobody else's offers count (OFFER_LIMITER).                     *)
THEOREM LimitedForOwnOffers == Spec => []LimitedByOwnOffers
<1>1. OffersInv => LimitedByOwnOffers
  BY DEF OffersInv
<1> QED  BY <1>1, OffersInvariant, PTL

=============================================================================
