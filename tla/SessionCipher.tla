---------------------------- MODULE SessionCipher ----------------------------
(***************************************************************************)
(* One direction of a P2P session: crypto/session.py as _send_to_session   *)
(* and _handle_packet of transport/p2p/transport.py use it.                *)
(*                                                                         *)
(*   SessionCipher of the sender     prefix, counter    encrypt            *)
(*   SessionCipher of the receiver   seen               decrypt            *)
(*                                                                         *)
(* The sender may make further ciphers with the same key (the case the     *)
(* random prefix is there for); the receiver may, too, and then starts     *)
(* with an empty set of counters.  The network is UDP: it may lose, repeat,*)
(* reorder and damage packets.  A packet is genuine iff it is in made: an  *)
(* authentication tag is good for nothing else.                            *)
(***************************************************************************)
EXTENDS Naturals, FiniteSets

CONSTANTS
  Cipher,         \* the sender's ciphers with this key, in any order
  Prefix,         \* what os.urandom(8) returns
  NoPrefix,       \* the cipher has not been made yet
  CounterLimit    \* 2 ** 32: the counter has 32 bits in the nonce

(* There is room in the nonce for a counter; NoPrefix is no prefix.        *)
ASSUME CipherAssumption ==
  /\ CounterLimit \in Nat \ {0}
  /\ NoPrefix \notin Prefix

VARIABLES
  prefix,         \* cipher -> _nonce_prefix
  counter,        \* cipher -> _send_counter
  made,           \* history: all packets encrypted with the key
  wire,           \* packets that went out; they may arrive at any time
  seen,           \* _seen_nonces of the receiver
  arrived,        \* history: genuine packets that reached this receiver
  burnt,          \* history: counters of damaged packets that reached it
  delivered,      \* packets whose plaintext this receiver has passed on
  twice           \* history: those it has passed on more than once

sender == <<prefix, counter, made, wire>>
receiver == <<seen, arrived, burnt, delivered, twice>>
cipherVars == <<sender, receiver>>

Counter == 0 .. (CounterLimit - 1)

(* A packet has the nonce in front; body stands for the n-th plaintext of  *)
(* a cipher with its tag.                                                  *)
Packet == [ctr : Counter, prefix : Prefix, body : Cipher \X Counter]

CipherTypeOK ==
  /\ prefix \in [Cipher -> Prefix \cup {NoPrefix}]
  /\ counter \in [Cipher -> 0..CounterLimit]
  /\ made \subseteq Packet
  /\ wire \subseteq Packet
  /\ seen \subseteq Counter
  /\ arrived \subseteq Packet
  /\ burnt \subseteq Counter
  /\ delivered \subseteq Packet
  /\ twice \subseteq Packet

CipherInit ==
  /\ prefix = [c \in Cipher |-> NoPrefix]
  /\ counter = [c \in Cipher |-> 0]
  /\ made = {} /\ wire = {}
  /\ seen = {} /\ arrived = {} /\ burnt = {} /\ delivered = {} /\ twice = {}

-----------------------------------------------------------------------------
(* A cipher is made with a prefix of its own: 8 random bytes are taken not *)
(* to repeat.                                                              *)
Make(c, p) ==
  /\ prefix[c] = NoPrefix
  /\ \A d \in Cipher : prefix[d] # p
  /\ prefix' = [prefix EXCEPT ![c] = p]
  /\ UNCHANGED <<counter, made, wire, receiver>>

(* What encrypt of cipher c returns next.                                  *)
Encrypted(c) == [ctr |-> counter[c], prefix |-> prefix[c], body |-> <<c, counter[c]>>]

SendWrapping(c) ==
  LET p == [ctr |-> counter[c] % CounterLimit, prefix |-> prefix[c],
            body |-> <<c, counter[c]>>]
  IN /\ prefix[c] # NoPrefix
     /\ counter[c] <= CounterLimit
     /\ counter' = [counter EXCEPT ![c] = @ + 1]
     /\ made' = made \cup {p}
     /\ wire' = wire \cup {p}
     /\ UNCHANGED <<prefix, receiver>>

(* _send_to_session: the counter is used up by encrypt, before the packet  *)
(* is found too large or sendto fails.  When the counter is at its limit   *)
(* encrypt raises and nothing changes.  needs_key_rotation only logs.      *)
Send(c) ==
  /\ prefix[c] # NoPrefix
  /\ counter[c] < CounterLimit
  /\ counter' = [counter EXCEPT ![c] = @ + 1]
  /\ made' = made \cup {Encrypted(c)}
  /\ \/ wire' = wire \cup {Encrypted(c)}
     \/ UNCHANGED wire
  /\ UNCHANGED <<prefix, receiver>>

-----------------------------------------------------------------------------
PassOn(p) ==
  /\ delivered' = delivered \cup {p}
  /\ twice' = twice \cup ({p} \cap delivered)

DecryptInOrder(p) ==
  /\ arrived' = arrived \cup {p}
  /\ IF \E n \in seen : n >= p.ctr
     THEN UNCHANGED <<seen, delivered, twice>>
     ELSE seen' = seen \cup {p.ctr} /\ PassOn(p)
  /\ UNCHANGED <<sender, burnt>>

DecryptBounded(p) ==
  /\ arrived' = arrived \cup {p}
  /\ IF p.ctr \in seen
     THEN UNCHANGED <<seen, delivered, twice>>
     ELSE /\ seen' = {p.ctr} \cup IF Cardinality(seen) < 2 THEN seen ELSE {}
          /\ PassOn(p)
  /\ UNCHANGED <<sender, burnt>>

(* The receiver tests the counter alone, although the nonce is unique as a *)
(* whole, and notes it before the tag is tested.                           *)
Decrypt(p) ==
  /\ arrived' = arrived \cup {p}
  /\ IF p.ctr \in seen
     THEN UNCHANGED <<seen, delivered, twice>>
     ELSE seen' = seen \cup {p.ctr} /\ PassOn(p)
  /\ UNCHANGED <<sender, burnt>>

DecryptUnauthenticated(n) ==
  /\ burnt' = burnt \cup {n}
  /\ seen' = seen \cup {n}
  /\ \E p \in Packet : p.ctr = n /\ PassOn(p)
  /\ UNCHANGED <<sender, arrived>>

(* A packet that was damaged on the way, or comes from somebody without    *)
(* the key: it uses up a counter and its tag is bad.                       *)
DecryptDamaged(n) ==
  /\ burnt' = burnt \cup {n}
  /\ seen' = seen \cup {n}
  /\ UNCHANGED <<sender, arrived, delivered, twice>>

(* The receiver makes a new cipher with the key.                           *)
Reopen ==
  /\ seen' = {} /\ arrived' = {} /\ burnt' = {}
  /\ delivered' = {} /\ twice' = {}
  /\ UNCHANGED sender

CipherNext ==
  \/ \E c \in Cipher : Send(c) \/ \E p \in Prefix : Make(c, p)
  \/ \E p \in wire : Decrypt(p)
  \/ \E n \in Counter : DecryptDamaged(n)
  \/ Reopen

CipherSpec == CipherInit /\ [][CipherNext]_cipherVars

-----------------------------------------------------------------------------
(* No two packets are encrypted with the same key and nonce, also when the *)
(* counter starts again in another cipher (encrypt, _make_nonce).          *)
NonceUnique ==
  \A p, q \in made : p.ctr = q.ctr /\ p.prefix = q.prefix => p = q

(* decrypt refuses a genuine packet only when another packet with its      *)
(* counter, genuine or damaged, was there: on a network that neither       *)
(* damages packets nor sees a second cipher of the sender, everything that *)
(* arrives is passed on, in whatever order it arrives.                     *)
RefusedOnlyIfUsed ==
  \A p \in arrived \ delivered :
    \/ p.ctr \in burnt
    \/ \E q \in arrived : q # p /\ q.ctr = p.ctr

(* No plaintext is passed on twice by one receiver, although the network   *)
(* repeats packets at will (_seen_nonces in decrypt).                      *)
AtMostOnce == twice = {}

(* The cipher keeps the promise of OnceDelivery: what was encrypted with   *)
(* the key is passed on at most once by one receiver, and nothing else is, *)
(* whatever the network does (decrypt).  The tag covers the nonce and the  *)
(* whole packet, which so has one form only.                               *)
Once == INSTANCE OnceDelivery WITH
  Message <- Packet, Form <- {"packet"},
  signed  <- made, done <- {<<p, "packet">> : p \in delivered}
ImplementsOnceDelivery == Once!Spec

=============================================================================
