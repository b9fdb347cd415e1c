------------------------------ MODULE P2PProofs ------------------------------
(***************************************************************************)
(* Proofs about the two halves of a direct connection: the session cipher  *)
(* (SessionCipher) for any number of ciphers, any prefixes and any counter *)
(* limit, and hole punching (HolePunch) for any number of machines and     *)
(* attempts and any addresses.                                             *)
(***************************************************************************)
EXTENDS SessionCipher, HolePunch, TLAPS

(***************************************************************************)
(* SessionCipher                                                           *)
(*                                                                         *)
(* The sender's half of the inductive invariant says that a packet carries *)
(* the prefix of its cipher and a counter that the cipher has left behind; *)
(* the receiver's half that the set of seen counters is exactly what has   *)
(* arrived.                                                                *)
(***************************************************************************)

(* A packet was made by the cipher that its body names: it has the prefix  *)
(* of that cipher, the counter of that body, and lies below the counter.   *)
MadeByItsCipher ==
  \A p \in made :
    /\ p.body[1] \in Cipher
    /\ p.body = <<p.body[1], p.ctr>>
    /\ p.prefix = prefix[p.body[1]]
    /\ p.prefix # NoPrefix
    /\ p.ctr < counter[p.body[1]]

(* Two ciphers that were made differ in their prefixes.                    *)
OwnPrefix ==
  \A c, d \in Cipher : prefix[c] = prefix[d] /\ prefix[c] # NoPrefix => c = d

(* What has arrived decides what is seen, and what is passed on arrived.   *)
SeenIsArrived ==
  /\ seen = burnt \cup {p.ctr : p \in arrived}
  /\ delivered \subseteq arrived
  /\ arrived \subseteq wire
  /\ wire \subseteq made

CipherInv == CipherTypeOK /\ MadeByItsCipher /\ OwnPrefix /\ SeenIsArrived

(* A packet is determined by its three fields.                             *)
LEMMA PacketFields ==
  ASSUME NEW p \in Packet, NEW q \in Packet,
         p.ctr = q.ctr, p.prefix = q.prefix, p.body = q.body
  PROVE  p = q
  BY DEF Packet

(* A fresh packet has the right type.                                      *)
LEMMA EncryptedIsPacket ==
  ASSUME CipherTypeOK, NEW c \in Cipher, prefix[c] # NoPrefix, counter[c] < CounterLimit
  PROVE  Encrypted(c) \in Packet
<1>1. counter[c] \in Counter
  BY CipherAssumption DEF CipherTypeOK, Counter
<1>2. prefix[c] \in Prefix
  BY DEF CipherTypeOK
<1>. QED
  BY <1>1, <1>2 DEF Encrypted, Packet

(* The initial states satisfy the invariant.                               *)
LEMMA CipherInvInit == CipherInit => CipherInv
  BY CipherAssumption DEF CipherInit, CipherInv, CipherTypeOK, MadeByItsCipher, OwnPrefix,
     SeenIsArrived, Counter

LEMMA SendKeepsInv ==
  ASSUME CipherInv, NEW c \in Cipher, Send(c)
  PROVE  CipherInv'
<1>. USE DEF CipherInv, receiver
<1>e. Encrypted(c) \in Packet
  BY EncryptedIsPacket DEF Send
<1>f. /\ Encrypted(c).ctr = counter[c]
      /\ Encrypted(c).prefix = prefix[c]
      /\ Encrypted(c).body = <<c, counter[c]>>
  BY DEF Encrypted
<1>1. CipherTypeOK'
  <2>1. counter' \in [Cipher -> 0..CounterLimit]
    BY CipherAssumption DEF CipherTypeOK, Send
  <2>. QED
    BY <1>e, <2>1 DEF CipherTypeOK, Send
<1>2. MadeByItsCipher'
  <2>. SUFFICES ASSUME NEW p \in made'
                PROVE  /\ p.body[1] \in Cipher
                       /\ p.body = <<p.body[1], p.ctr>>
                       /\ p.prefix = prefix'[p.body[1]]
                       /\ p.prefix # NoPrefix
                       /\ p.ctr < counter'[p.body[1]]
    BY DEF MadeByItsCipher
  <2>c. \A d \in Cipher : counter[d] \in Nat /\ counter[d] <= counter'[d]
    BY CipherAssumption DEF CipherTypeOK, Send
  <2>d. counter[c] < counter'[c]
    BY CipherAssumption DEF CipherTypeOK, Send
  <2>1. CASE p \in made
    <3>1. p.ctr \in Nat
      BY <2>1 DEF CipherTypeOK, Packet, Counter
    <3>2. p.ctr < counter[p.body[1]] /\ p.body[1] \in Cipher
      BY <2>1 DEF MadeByItsCipher
    <3>3. counter'[p.body[1]] \in Nat
      BY <1>1, <3>2, CipherAssumption DEF CipherTypeOK
    <3>4. p.ctr < counter'[p.body[1]]
      BY <2>c, <3>1, <3>2, <3>3
    <3>. QED
      BY <2>1, <3>4 DEF MadeByItsCipher, Send
  <2>2. CASE p = Encrypted(c)
    BY <1>f, <2>2, <2>d DEF Send
  <2>. QED
    BY <2>1, <2>2 DEF Send
<1>3. OwnPrefix'
  BY DEF OwnPrefix, Send
<1>4. SeenIsArrived'
  BY DEF SeenIsArrived, Send
<1>. QED
  BY <1>1, <1>2, <1>3, <1>4

LEMMA MakeKeepsInv ==
  ASSUME CipherInv, NEW c \in Cipher, NEW p \in Prefix, Make(c, p)
  PROVE  CipherInv'
<1>. USE DEF CipherInv, receiver
<1>1. CipherTypeOK'
  BY DEF CipherTypeOK, Make
<1>2. MadeByItsCipher'
  <2>1. ASSUME NEW q \in made
        PROVE  q.body[1] \in Cipher /\ q.body[1] # c /\ prefix'[q.body[1]] = prefix[q.body[1]]
    BY DEF MadeByItsCipher, Make, CipherTypeOK
  <2>. QED
    BY <2>1 DEF MadeByItsCipher, Make
<1>3. OwnPrefix'
  BY CipherAssumption DEF OwnPrefix, Make, CipherTypeOK
<1>4. SeenIsArrived'
  BY DEF SeenIsArrived, Make
<1>. QED
  BY <1>1, <1>2, <1>3, <1>4

LEMMA DecryptKeepsInv ==
  ASSUME CipherInv, NEW p \in wire, Decrypt(p)
  PROVE  CipherInv'
<1>. USE DEF CipherInv, sender
<1>0. p \in Packet /\ p.ctr \in Counter
  BY DEF CipherTypeOK, Packet
<1>1. CipherTypeOK'
  BY <1>0 DEF CipherTypeOK, Decrypt, PassOn
<1>2. MadeByItsCipher' /\ OwnPrefix'
  BY DEF MadeByItsCipher, OwnPrefix, Decrypt
<1>3. SeenIsArrived'
  <2>1. seen' = seen \cup {p.ctr}
    BY DEF Decrypt
  <2>2. delivered' \subseteq delivered \cup {p}
    BY DEF Decrypt, PassOn
  <2>. QED
    BY <2>1, <2>2 DEF SeenIsArrived, Decrypt
<1>. QED
  BY <1>1, <1>2, <1>3

(* The invariant is inductive.                                             *)
LEMMA CipherInvNext == CipherInv /\ [CipherNext]_cipherVars => CipherInv'
<1>. SUFFICES ASSUME CipherInv, [CipherNext]_cipherVars
              PROVE  CipherInv'
  OBVIOUS
<1>1. ASSUME NEW c \in Cipher, Send(c)
      PROVE  CipherInv'
  BY <1>1, SendKeepsInv
<1>2. ASSUME NEW c \in Cipher, NEW p \in Prefix, Make(c, p)
      PROVE  CipherInv'
  BY <1>2, MakeKeepsInv
<1>3. ASSUME NEW p \in wire, Decrypt(p)
      PROVE  CipherInv'
  BY <1>3, DecryptKeepsInv
<1>4. ASSUME NEW n \in Counter, DecryptDamaged(n)
      PROVE  CipherInv'
  BY <1>4 DEF CipherInv, CipherTypeOK, MadeByItsCipher, OwnPrefix, SeenIsArrived,
     DecryptDamaged, sender
<1>5. CASE Reopen
  BY <1>5 DEF CipherInv, CipherTypeOK, MadeByItsCipher, OwnPrefix, SeenIsArrived,
     Reopen, sender
<1>6. CASE UNCHANGED cipherVars
  BY <1>6 DEF CipherInv, CipherTypeOK, MadeByItsCipher, OwnPrefix, SeenIsArrived,
     cipherVars, sender, receiver
<1>. QED
  BY <1>1, <1>2, <1>3, <1>4, <1>5, <1>6 DEF CipherNext

(* In every reachable state packets carry the prefix of their cipher and a *)
(* counter below its present one, and seen is what has arrived.            *)
THEOREM CipherInvariant == CipherSpec => []CipherInv
  BY CipherInvInit, CipherInvNext, PTL DEF CipherSpec

(* Types of the cipher: counters stay within the limit (encrypt).          *)
THEOREM CipherTypes == CipherSpec => []CipherTypeOK
<1>1. CipherInv => CipherTypeOK
  BY DEF CipherInv
<1>. QED
  BY <1>1, CipherInvariant, PTL

(* No nonce is used twice with one key, for any number of ciphers.         *)
THEOREM NoncesAreUnique == CipherSpec => []NonceUnique
<1>1. CipherInv => NonceUnique
  <2>. SUFFICES ASSUME CipherInv, NEW p \in made, NEW q \in made,
                       p.ctr = q.ctr, p.prefix = q.prefix
                PROVE  p = q
    BY DEF NonceUnique
  <2>. USE DEF CipherInv
  <2>1. /\ p.body[1] \in Cipher /\ prefix[p.body[1]] = p.prefix /\ p.prefix # NoPrefix
        /\ q.body[1] \in Cipher /\ prefix[q.body[1]] = q.prefix
        /\ p.body = <<p.body[1], p.ctr>> /\ q.body = <<q.body[1], q.ctr>>
    BY DEF MadeByItsCipher
  <2>2. p.body[1] = q.body[1]
    BY <2>1 DEF OwnPrefix
  <2>3. p.body = q.body
    BY <2>1, <2>2
  <2>. QED
    BY <2>3, PacketFields DEF CipherTypeOK
<1>. QED
  BY <1>1, CipherInvariant, PTL

-----------------------------------------------------------------------------
(* A step of the receiver's cipher leaves a reason for every refusal.      *)
LEMMA RefusalsNext ==
  ASSUME CipherInv, RefusedOnlyIfUsed, [CipherNext]_cipherVars
  PROVE  RefusedOnlyIfUsed'
<1>1. ASSUME NEW p \in wire, Decrypt(p)
      PROVE  RefusedOnlyIfUsed'
  <2>. SUFFICES ASSUME NEW r \in arrived' \ delivered'
                PROVE  r.ctr \in burnt' \/ \E q \in arrived' : q # r /\ q.ctr = r.ctr
    BY DEF RefusedOnlyIfUsed
  <2>1. burnt' = burnt /\ arrived' = arrived \cup {p} /\ delivered \subseteq delivered'
    BY <1>1 DEF Decrypt, PassOn
  <2>2. CASE r \in arrived
    BY <2>1, <2>2 DEF RefusedOnlyIfUsed
  <2>3. CASE r \notin arrived
    <3>1. r = p /\ p.ctr \in seen
      BY <1>1, <2>1, <2>3 DEF Decrypt, PassOn
    <3>2. p.ctr \in burnt \/ \E q \in arrived : q.ctr = p.ctr
      BY <3>1 DEF CipherInv, SeenIsArrived
    <3>. QED
      BY <2>1, <2>3, <3>1, <3>2
  <2>. QED
    BY <2>2, <2>3
<1>2. ASSUME NEW n \in Counter, DecryptDamaged(n)
      PROVE  RefusedOnlyIfUsed'
  BY <1>2 DEF RefusedOnlyIfUsed, DecryptDamaged
<1>3. CASE Reopen
  BY <1>3 DEF RefusedOnlyIfUsed, Reopen
<1>4. ASSUME UNCHANGED receiver
      PROVE  RefusedOnlyIfUsed'
  BY <1>4 DEF RefusedOnlyIfUsed, receiver
<1>5. ASSUME NEW c \in Cipher, Send(c) \/ \E p \in Prefix : Make(c, p)
      PROVE  RefusedOnlyIfUsed'
  BY <1>4, <1>5 DEF Send, Make
<1>6. CASE UNCHANGED cipherVars
  BY <1>4, <1>6 DEF cipherVars
<1>. QED
  BY <1>1, <1>2, <1>3, <1>5, <1>6 DEF CipherNext

(* decrypt refuses a genuine packet only after another packet with its     *)
(* counter, for any number of packets, ciphers and damaged arrivals.       *)
THEOREM RefusalsAreJustified == CipherSpec => []RefusedOnlyIfUsed
<1>1. CipherInit => RefusedOnlyIfUsed
  BY DEF CipherInit, RefusedOnlyIfUsed
<1>2. CipherInv /\ RefusedOnlyIfUsed /\ [CipherNext]_cipherVars => RefusedOnlyIfUsed'
  BY RefusalsNext
<1>. QED
  BY <1>1, <1>2, CipherInvariant, PTL DEF CipherSpec

(* A packet whose counter has not been seen has not been passed on.        *)
LEMMA UnseenIsUndelivered ==
  ASSUME CipherInv, NEW p, p.ctr \notin seen
  PROVE  p \notin delivered
  BY DEF CipherInv, SeenIsArrived

(* One receiver passes a plaintext on at most once, whatever the network   *)
(* repeats.                                                                *)
THEOREM DeliveredAtMostOnce == CipherSpec => []AtMostOnce
<1>1. CipherInit => AtMostOnce
  BY DEF CipherInit, AtMostOnce
<1>2. CipherInv /\ AtMostOnce /\ [CipherNext]_cipherVars => AtMostOnce'
  <2>. SUFFICES ASSUME CipherInv, AtMostOnce, [CipherNext]_cipherVars
                PROVE  AtMostOnce'
    OBVIOUS
  <2>1. ASSUME NEW p \in wire, Decrypt(p)
        PROVE  AtMostOnce'
    BY <2>1, UnseenIsUndelivered DEF AtMostOnce, Decrypt, PassOn
  <2>2. ASSUME NEW n \in Counter, DecryptDamaged(n)
        PROVE  AtMostOnce'
    BY <2>2 DEF AtMostOnce, DecryptDamaged
  <2>3. CASE Reopen
    BY <2>3 DEF AtMostOnce, Reopen
  <2>4. ASSUME NEW c \in Cipher, Send(c) \/ \E p \in Prefix : Make(c, p)
        PROVE  AtMostOnce'
    BY <2>4 DEF AtMostOnce, Send, Make, receiver
  <2>5. CASE UNCHANGED cipherVars
    BY <2>5 DEF AtMostOnce, cipherVars, receiver
  <2>. QED
    BY <2>1, <2>2, <2>3, <2>4, <2>5 DEF CipherNext
<1>. QED
  BY <1>1, <1>2, CipherInvariant, PTL DEF CipherSpec

(* The next packet of a cipher is a new one.                               *)
LEMMA EncryptedIsNew ==
  ASSUME CipherInv, NEW c \in Cipher
  PROVE  Encrypted(c) \notin made
<1>. SUFFICES ASSUME Encrypted(c) \in made
              PROVE  FALSE
  OBVIOUS
<1>1. Encrypted(c).ctr = counter[c] /\ Encrypted(c).body[1] = c
  BY DEF Encrypted
<1>2. counter[c] < counter[c]
  BY <1>1 DEF CipherInv, MadeByItsCipher
<1>. QED
  BY <1>2, CipherAssumption DEF CipherInv, CipherTypeOK

(* The cipher implements OnceDelivery: encrypt is Sign, an undamaged       *)
(* packet with a new counter is Dispatch, a new receiver is Restart.       *)
THEOREM CipherImplementsOnceDelivery == CipherSpec => ImplementsOnceDelivery
<1>1. CipherInit => Once!Init
  BY DEF CipherInit, Once!Init
<1>2. CipherInv /\ [CipherNext]_cipherVars => [Once!Next]_Once!vars
  <2>. SUFFICES ASSUME CipherInv, [CipherNext]_cipherVars
                PROVE  Once!Next \/ UNCHANGED Once!vars
    OBVIOUS
  <2>1. ASSUME NEW c \in Cipher, Send(c)
        PROVE  Once!Sign(Encrypted(c)) /\ Encrypted(c) \in Packet
    BY <2>1, EncryptedIsNew, EncryptedIsPacket
       DEF CipherInv, Send, receiver, Once!Sign
  <2>2. ASSUME NEW c \in Cipher, NEW p \in Prefix, Make(c, p)
        PROVE  UNCHANGED Once!vars
    BY <2>2 DEF Make, receiver, Once!vars
  <2>3. ASSUME NEW p \in wire, Decrypt(p)
        PROVE  Once!Next \/ UNCHANGED Once!vars
    <3>1. CASE p.ctr \in seen
      BY <2>3, <3>1 DEF Decrypt, sender, Once!vars
    <3>2. CASE p.ctr \notin seen
      <4>1. p \in made \ delivered /\ p \in Packet
        BY <3>2, UnseenIsUndelivered DEF CipherInv, SeenIsArrived, CipherTypeOK
      <4>2. <<p, "packet">> \notin {<<q, "packet">> : q \in delivered}
        BY <4>1
      <4>3. delivered' = delivered \cup {p} /\ made' = made
        BY <2>3, <3>2 DEF Decrypt, PassOn, sender
      <4>4. Once!Dispatch(p, "packet")
        BY <4>1, <4>2, <4>3 DEF Once!Dispatch
      <4>. QED
        BY <4>1, <4>4 DEF Once!Next
    <3>. QED
      BY <3>1, <3>2
  <2>4. ASSUME NEW n \in Counter, DecryptDamaged(n)
        PROVE  UNCHANGED Once!vars
    BY <2>4 DEF DecryptDamaged, sender, Once!vars
  <2>5. CASE Reopen
    BY <2>5 DEF Reopen, sender, Once!Next, Once!Restart
  <2>6. CASE UNCHANGED cipherVars
    BY <2>6 DEF cipherVars, sender, receiver, Once!vars
  <2>. QED
    BY <2>1, <2>2, <2>3, <2>4, <2>5, <2>6 DEF CipherNext, Once!Next
<1>. QED
  BY <1>1, <1>2, CipherInvariant, PTL DEF CipherSpec, ImplementsOnceDelivery, Once!Spec

(***************************************************************************)
(* HolePunch: its types, SuccessIsAnswered and ReaderIsLive                *)
(*                                                                         *)
(* The argument for SuccessIsAnswered is an account of what is in the      *)
(* network: a ping left the machine of its attempt, for the peer or for    *)
(* somebody at its local address, and a pong is the answer of such a       *)
(* machine.  Nothing is said of when or how often a datagram arrives.      *)
(***************************************************************************)

(* A ping of attempt a was sent by the owner of a, which has let its peer  *)
(* in, unless the ping stayed in the LAN.                                  *)
PingIsOf(d) ==
  /\ d.src = owner[d.att]
  /\ d.lan => d.dst \in AtLocal[d.att]
  /\ ~d.lan => d.dst = target[d.att] /\ d.dst \in hole[d.src]

(* A pong goes back to the owner of its attempt, from a machine that has   *)
(* answered it and, unless they are in one LAN, has let the owner in.      *)
PongIsOf(d) ==
  /\ d.dst = owner[d.att]
  /\ <<d.att, d.src>> \in answered
  /\ d.lan => d.src \in AtLocal[d.att]
  /\ ~d.lan =>
       /\ d.src = target[d.att]
       /\ d.dst \in hole[d.src] /\ d.src \in hole[d.dst]

NetInv ==
  \A d \in net : (d.kind = "ping" => PingIsOf(d)) /\ (d.kind = "pong" => PongIsOf(d))

PunchInv == TypeOK /\ NetInv /\ SuccessIsAnswered /\ ReaderIsLive

-----------------------------------------------------------------------------
LEMMA PunchBegins == Init => PunchInv
<1> SUFFICES ASSUME Init PROVE PunchInv
  OBVIOUS
<1>1. TypeOK
  BY PunchAssumption DEF Init, TypeOK, Phases
<1>2. NetInv /\ SuccessIsAnswered
  BY DEF Init, NetInv, SuccessIsAnswered
<1>3. ReaderIsLive
  BY PunchAssumption DEF Init, ReaderIsLive
<1> QED  BY <1>1, <1>2, <1>3 DEF PunchInv

(* What leaves a machine only adds to the holes of the NATs.               *)
LEMMA OutOpens ==
  ASSUME TypeOK, NEW ds \in SUBSET Datagram, Out(ds)
  PROVE  /\ net' = net \cup ds /\ net' \subseteq Datagram
         /\ hole' \in [End -> SUBSET End]
         /\ \A e \in End : hole[e] \subseteq hole'[e]
         /\ \A d \in ds : ~d.lan => d.dst \in hole'[d.src]
<1>1. /\ hole \in [End -> SUBSET End] /\ net \subseteq Datagram /\ net' = net \cup ds
      /\ hole' = [e \in End |-> hole[e] \cup {d.dst : d \in {f \in ds : f.src = e /\ ~f.lan}}]
  BY DEF TypeOK, Out
<1>2. \A d \in ds : d.src \in End /\ d.dst \in End
  BY DEF Datagram
<1>3. ASSUME NEW e \in End
      PROVE  hole'[e] \subseteq End /\ hole[e] \subseteq hole'[e]
  BY <1>1, <1>2
<1>4. hole' \in [End -> SUBSET End]
  BY <1>1, <1>3
<1>5. ASSUME NEW d \in ds, ~d.lan  PROVE d.dst \in hole'[d.src]
  BY <1>1, <1>2, <1>5
<1> QED  BY <1>1, <1>3, <1>4, <1>5

(* Wider holes and more answers take nothing back of what was said about a *)
(* datagram or about a success.                                            *)
LEMMA AccountsStay ==
  ASSUME PunchInv, \A e \in End : hole[e] \subseteq hole'[e], answered \subseteq answered'
  PROVE  /\ \A d \in net : d.kind = "ping" => PingIsOf(d)'
         /\ \A d \in net : d.kind = "pong" => PongIsOf(d)'
         /\ from' = from => SuccessIsAnswered'
<1>1. /\ net \subseteq Datagram
      /\ \A a \in Attempt : owner[a] \in End /\ target[a] \in End
  BY PunchAssumption DEF PunchInv, TypeOK
<1>2. \A d \in net : d.src \in End /\ d.dst \in End /\ d.att \in Attempt
  BY <1>1 DEF Datagram
<1>3. ASSUME NEW d \in net, d.kind = "ping"  PROVE PingIsOf(d)'
  BY <1>2, <1>3 DEF PunchInv, NetInv, PingIsOf
<1>4. ASSUME NEW d \in net, d.kind = "pong"  PROVE PongIsOf(d)'
  BY <1>2, <1>4 DEF PunchInv, NetInv, PongIsOf
<1>5. from' = from => SuccessIsAnswered'
  BY <1>1 DEF PunchInv, SuccessIsAnswered
<1> QED  BY <1>3, <1>4, <1>5

-----------------------------------------------------------------------------
(* An attempt that ends takes only its own reader with it.                 *)
LEMMA EndKeepsReaders ==
  ASSUME PunchInv, NEW a \in Attempt, NEW p \in Phases,
         phase' = [phase EXCEPT ![a] = p], Unregister(a), open' = open
  PROVE  /\ reader' \in [End -> Attempt \cup {RecvLoop, Nobody}]
         /\ phase' \in [Attempt -> Phases]
         /\ ReaderIsLive'
<1>1. /\ reader \in [End -> Attempt \cup {RecvLoop, Nobody}] /\ owner[a] \in End
      /\ phase \in [Attempt -> Phases]
  BY PunchAssumption DEF PunchInv, TypeOK
<1>2. \A e \in End : reader'[e] = IF e = owner[a] /\ reader[e] = a THEN Nobody ELSE reader[e]
  BY <1>1 DEF Unregister
<1>3. /\ reader' \in [End -> Attempt \cup {RecvLoop, Nobody}]
      /\ phase' \in [Attempt -> Phases]
  BY <1>1 DEF Unregister
<1>4. ReaderIsLive'
  <2> SUFFICES ASSUME NEW e \in End, reader'[e] \in Attempt
               PROVE  owner[reader'[e]] = e /\ phase'[reader'[e]] = "punching"
    BY DEF ReaderIsLive, Running
  <2>1. reader'[e] = reader[e] /\ ~(e = owner[a] /\ reader[e] = a)
    BY <1>2, PunchAssumption
  <2>2. owner[reader[e]] = e /\ Running(reader[e])
    BY <2>1 DEF PunchInv, ReaderIsLive
  <2>3. reader[e] # a
    BY <2>1, <2>2
  <2> QED  BY <1>1, <2>1, <2>2, <2>3 DEF Running
<1> QED  BY <1>3, <1>4

(* P2PTransport.stop, and the end of a wait.                               *)
LEMMA StopAndWaitEndsKeep ==
  ASSUME PunchInv, NEW e \in End, Stop(e) \/ WaitEnds(e)
  PROVE  PunchInv'
<1>1. NetInv' /\ SuccessIsAnswered'
  BY DEF PunchInv, Stop, WaitEnds, NetInv, PingIsOf, PongIsOf, SuccessIsAnswered
<1>2. CASE Stop(e)
  <2>1. TypeOK'
    BY <1>2 DEF PunchInv, Stop, TypeOK
  <2>2. ReaderIsLive'
    BY <1>2, PunchAssumption DEF PunchInv, TypeOK, Stop, ReaderIsLive, Running
  <2> QED  BY <1>1, <2>1, <2>2 DEF PunchInv
<1>3. CASE WaitEnds(e)
  <2>1. TypeOK'
    BY <1>3 DEF PunchInv, WaitEnds, TypeOK
  <2>2. ReaderIsLive'
    BY <1>3, PunchAssumption DEF PunchInv, TypeOK, WaitEnds, ReaderIsLive, Running
  <2> QED  BY <1>1, <2>1, <2>2 DEF PunchInv
<1> QED  BY <1>2, <1>3

(* connect_to_peer begins; add_reader replaces whoever was registered.     *)
LEMMA CallAndListenKeep ==
  ASSUME PunchInv, NEW a \in Attempt, Call(a) \/ Listen(a)
  PROVE  PunchInv'
<1>1. NetInv' /\ SuccessIsAnswered'
  BY DEF PunchInv, Call, Listen, NetInv, PingIsOf, PongIsOf, SuccessIsAnswered
<1>2. CASE Call(a)
  <2>1. TypeOK'
    BY <1>2 DEF PunchInv, Call, TypeOK, Phases
  <2>2. ReaderIsLive'
    BY <1>2 DEF PunchInv, TypeOK, Call, ReaderIsLive, Running
  <2> QED  BY <1>1, <2>1, <2>2 DEF PunchInv
<1>3. CASE Listen(a)
  <2>1. TypeOK'
    BY <1>3, PunchAssumption DEF PunchInv, Listen, TypeOK
  <2>2. ReaderIsLive'
    BY <1>3, PunchAssumption DEF PunchInv, TypeOK, Listen, ReaderIsLive, Running
  <2> QED  BY <1>1, <2>1, <2>2 DEF PunchInv
<1> QED  BY <1>2, <1>3

(* A round of pings.                                                       *)
LEMMA PingKeeps ==
  ASSUME PunchInv, NEW a \in Attempt, Ping(a)
  PROVE  PunchInv'
<1> DEFINE to(e, lan) == [kind |-> "ping", att |-> a, src |-> owner[a], dst |-> e, lan |-> lan]
           ds == {to(target[a], FALSE)} \cup {to(e, TRUE) : e \in AtLocal[a]}
<1>1. /\ owner[a] \in End /\ target[a] \in End /\ AtLocal[a] \subseteq End
  BY PunchAssumption
<1>2. ds \in SUBSET Datagram
  <2>1. \A e \in End, lan \in BOOLEAN : to(e, lan) \in Datagram
    BY <1>1 DEF Datagram
  <2> QED  BY <1>1, <2>1
<1>3. Out(ds) /\ UNCHANGED <<open, reader, phase, from, answered>> /\ TypeOK
  BY DEF Ping, PunchInv
<1>4. /\ net' = net \cup ds /\ net' \subseteq Datagram
      /\ hole' \in [End -> SUBSET End]
      /\ \A e \in End : hole[e] \subseteq hole'[e]
      /\ \A d \in ds : ~d.lan => d.dst \in hole'[d.src]
  BY <1>2, <1>3, OutOpens
<1>5. TypeOK'
  BY <1>3, <1>4 DEF TypeOK
<1>6. \A d \in ds : d.kind = "ping" /\ PingIsOf(d)'
  <2>1. \A d \in ds : /\ d.kind = "ping" /\ d.att = a /\ d.src = owner[a]
                      /\ d.lan => d.dst \in AtLocal[a]
                      /\ ~d.lan => d.dst = target[a]
    OBVIOUS
  <2> QED  BY <1>4, <2>1 DEF PingIsOf
<1>7. /\ \A d \in net : d.kind = "ping" => PingIsOf(d)'
      /\ \A d \in net : d.kind = "pong" => PongIsOf(d)'
      /\ SuccessIsAnswered'
  BY <1>3, <1>4, AccountsStay
<1>8. NetInv'
  <2>1. \A d \in ds : d.kind # "pong"
    BY <1>6
  <2> QED  BY <1>4, <1>6, <1>7, <2>1 DEF NetInv
<1>9. ReaderIsLive'
  BY <1>3 DEF PunchInv, ReaderIsLive, Running
<1> QED  BY <1>5, <1>7, <1>8, <1>9 DEF PunchInv

(* The pong that an attempt waits for: punch returns its source.           *)
LEMMA PongInKeeps ==
  ASSUME PunchInv, NEW a \in Attempt, NEW d \in net, PongIn(a, d)
  PROVE  PunchInv'
<1>1. /\ TypeOK /\ d \in Datagram /\ d.kind = "pong" /\ d.att = a /\ PongIsOf(d)
      /\ from' = [from EXCEPT ![a] = d.src]
      /\ UNCHANGED <<open, hole, net, answered>>
  BY DEF PunchInv, TypeOK, PongIn, NetInv
<1>2. /\ reader' \in [End -> Attempt \cup {RecvLoop, Nobody}]
      /\ phase' \in [Attempt -> Phases] /\ ReaderIsLive'
  BY <1>1, EndKeepsReaders DEF PongIn, Phases
<1>3. TypeOK'
  <2>1. from' \in [Attempt -> End \cup {Nobody}]
    BY <1>1 DEF TypeOK, Datagram
  <2> QED  BY <1>1, <1>2, <2>1 DEF TypeOK
<1>4. NetInv'
  BY <1>1 DEF PunchInv, NetInv, PingIsOf, PongIsOf
<1>5. SuccessIsAnswered'
  <2> SUFFICES ASSUME NEW b \in Attempt, from'[b] # Nobody
               PROVE  /\ <<b, from'[b]>> \in answered
                      /\ \/ from'[b] \in AtLocal[b]
                         \/ /\ from'[b] = target[b]
                            /\ target[b] \in hole[owner[b]] /\ owner[b] \in hole[target[b]]
    BY <1>1 DEF SuccessIsAnswered
  <2>1. CASE b = a
    <3>1. from'[b] = d.src
      BY <1>1, <2>1 DEF TypeOK
    <3> QED  BY <1>1, <2>1, <3>1 DEF PongIsOf, Datagram
  <2>2. CASE b # a
    BY <1>1, <2>2 DEF PunchInv, TypeOK, SuccessIsAnswered
  <2> QED  BY <2>1, <2>2
<1> QED  BY <1>2, <1>3, <1>4, <1>5 DEF PunchInv

(* A ping is answered, to where it came from, by whoever reads it.         *)
LEMMA PingInKeeps ==
  ASSUME PunchInv, NEW a \in Attempt, NEW d \in net, d \in Deliverable(owner[a]),
         PingIn(a, d)
  PROVE  PunchInv'
<1> DEFINE pong == [d EXCEPT !.kind = "pong", !.src = d.dst, !.dst = d.src]
           ds == {pong}
<1>1. /\ TypeOK /\ d \in Datagram /\ d.kind = "ping" /\ PingIsOf(d) /\ d.dst = owner[a]
      /\ Out(ds) /\ answered' = answered \cup {<<d.att, owner[a]>>}
      /\ UNCHANGED <<open, reader, phase, from>>
  BY DEF PunchInv, TypeOK, NetInv, PingIn, Deliverable
<1>2. /\ pong.kind = "pong" /\ pong.att = d.att /\ pong.src = d.dst
      /\ pong.dst = d.src /\ pong.lan = d.lan /\ pong \in Datagram
  BY <1>1 DEF Datagram
<1> HIDE DEF pong
<1>3. /\ net' = net \cup ds /\ net' \subseteq Datagram
      /\ hole' \in [End -> SUBSET End]
      /\ \A e \in End : hole[e] \subseteq hole'[e]
      /\ \A x \in ds : ~x.lan => x.dst \in hole'[x.src]
  <2>1. ds \in SUBSET Datagram
    BY <1>2
  <2> QED  BY <1>1, <2>1, OutOpens
<1>4. TypeOK'
  <2>1. answered' \subseteq Attempt \X End
    BY <1>1 DEF TypeOK, Datagram
  <2> QED  BY <1>1, <1>3, <2>1 DEF TypeOK
<1>5. PongIsOf(pong)'
  <2>1. d.src \in End /\ d.dst \in End /\ hole[d.src] \subseteq hole'[d.src]
    BY <1>1, <1>3 DEF Datagram
  <2> QED  BY <1>1, <1>2, <1>3, <2>1 DEF PingIsOf, PongIsOf
<1>6. /\ \A x \in net : x.kind = "ping" => PingIsOf(x)'
      /\ \A x \in net : x.kind = "pong" => PongIsOf(x)'
      /\ SuccessIsAnswered'
  <2>1. answered \subseteq answered' /\ from' = from
    BY <1>1
  <2> QED  BY <1>3, <2>1, AccountsStay
<1>7. NetInv'
  BY <1>2, <1>3, <1>5, <1>6 DEF NetInv
<1>8. ReaderIsLive'
  BY <1>1 DEF PunchInv, ReaderIsLive, Running
<1> QED  BY <1>4, <1>6, <1>7, <1>8 DEF PunchInv

(* The deadline of an attempt.                                             *)
LEMMA ExpireKeeps ==
  ASSUME PunchInv, NEW a \in Attempt, Expire(a)
  PROVE  PunchInv'
<1>1. /\ reader' \in [End -> Attempt \cup {RecvLoop, Nobody}]
      /\ phase' \in [Attempt -> Phases] /\ ReaderIsLive'
  BY EndKeepsReaders DEF Expire, Phases
<1>2. TypeOK' /\ NetInv' /\ SuccessIsAnswered'
  BY <1>1 DEF Expire, PunchInv, TypeOK, NetInv, PingIsOf, PongIsOf, SuccessIsAnswered
<1> QED  BY <1>1, <1>2 DEF PunchInv

LEMMA PunchNext == PunchInv /\ [Next]_vars => PunchInv'
<1>1. ASSUME PunchInv, Next  PROVE PunchInv'
  BY <1>1, StopAndWaitEndsKeep, CallAndListenKeep, PingKeeps, PongInKeeps, PingInKeeps, ExpireKeeps
  DEF Next, Read
<1>2. ASSUME PunchInv, UNCHANGED vars  PROVE PunchInv'
  BY <1>2 DEF PunchInv, vars, TypeOK, NetInv, PingIsOf, PongIsOf, SuccessIsAnswered,
              ReaderIsLive, Running
<1> QED  BY <1>1, <1>2

-----------------------------------------------------------------------------
(* Everything in the network has its account, at every step of the         *)
(* machines (punch, _recv_pong), and the readers are live.                 *)
THEOREM PunchInvariant == Spec => []PunchInv
<1> QED  BY PunchBegins, PunchNext, PTL DEF Spec

(* Types of the punching machines.                                         *)
THEOREM PunchTypes == Spec => []TypeOK
<1>1. PunchInv => TypeOK
  BY DEF PunchInv
<1> QED  BY <1>1, PunchInvariant, PTL

(* punch returns an address only when the right machine has answered this  *)
(* very attempt (_recv_pong).                                              *)
THEOREM SuccessesAreAnswered == Spec => []SuccessIsAnswered
<1>1. PunchInv => SuccessIsAnswered
  BY DEF PunchInv
<1> QED  BY <1>1, PunchInvariant, PTL

(* No attempt leaves its reader behind when it ends (_recv_pong, close).   *)
THEOREM ReadersAreLive == Spec => []ReaderIsLive
<1>1. PunchInv => ReaderIsLive
  BY DEF PunchInv
<1> QED  BY <1>1, PunchInvariant, PTL

=============================================================================
