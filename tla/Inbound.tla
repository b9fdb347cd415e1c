------------------------------- MODULE Inbound -------------------------------
(***************************************************************************)
(* The receive path of the Telegram transport: what                        *)
(* TelegramTransport._handle_update does with one update of the configured *)
(* chat.  It runs without an await from the rate limit test to the         *)
(* verdict on the signature, so each update is one step.                   *)
(*                                                                         *)
(*   MSG_LIMITER          core/rate_limiter.py     bucket                  *)
(*   per-peer NonceCache  crypto/nonce_cache.py    cache                   *)
(*   sign/verify          crypto/signing.py        Sign, Verdict           *)
(*   approved peers       core/device.py           approved                *)
(*                                                                         *)
(* Time is a natural number of ticks; time.time and time.monotonic advance *)
(* together.  A sender may be off by up to Skew ticks.  The relay may hand *)
(* over any envelope any number of times, in any order and at any time,    *)
(* also with its fields changed.                                           *)
(*                                                                         *)
(* The bytes that _canonical_bytes signs do not determine the envelope.    *)
(* They have the hash of the payload, the time stamp in whole milliseconds *)
(* and one text, the nonce followed by the device id: nothing marks the    *)
(* border between the two, and the device id of the envelope is compared   *)
(* with nothing.  An envelope therefore has a text and the place cut of    *)
(* the border; its nonce is what stands before it.  Its signature is good  *)
(* iff the bytes it stands for were signed, wherever the border is.        *)
(***************************************************************************)
EXTENDS SlidingWindow, FiniteSets

CONSTANTS
  Peer,           \* ids of the devices in devices.json other than our own
  Text,           \* nonce and device id as signed, with a random nonce
  Cut,            \* where the border between nonce and device id may be
  Nonce,          \* what may stand in the nonce field of an envelope
  NonceAt,        \* <<text, cut>> -> what stands before the border
  Milli,          \* ticks per millisecond
  Tolerance,      \* TIMESTAMP_TOLERANCE
  TTL,            \* ttl_seconds of NonceCache
  CacheMax,       \* max_size of NonceCache
  MaxCalls,       \* max_calls of MSG_LIMITER
  Window,         \* window_seconds of MSG_LIMITER
  Skew,           \* bound on how far a sender's clock is off
  MaxNow          \* bound: the clock stops here in model checking

(* How long what was signed once may be in time: 30 s either way, and the  *)
(* part of a millisecond by which its time stamp may vary.                 *)
Span == 2 * Tolerance + Milli - 1

(* The relations between the constants of the code that the argument uses: *)
(* 30 s, 120 s, 10000 entries, 60 messages, 60 s.  The cache must outlive  *)
(* the span of a message, and hold what the limiter admits in as many      *)
(* windows as cover the span: one, or two as in the code.                  *)
ASSUME ParameterAssumption ==
  /\ Tolerance \in Nat /\ TTL \in Nat /\ Window \in Nat /\ Skew \in Nat
  /\ MaxNow \in Nat /\ Milli \in Nat \ {0}
  /\ MaxCalls \in Nat \ {0} /\ CacheMax \in Nat \ {0}
  /\ NonceAt \in [Text \X Cut -> Nonce]
  /\ TTL >= Span
  /\ \/ Window >= Span /\ CacheMax >= MaxCalls
     \/ 2 * Window >= Span /\ CacheMax >= 2 * MaxCalls

VARIABLES
  now,            \* the clock
  bucket,         \* MSG_LIMITER._buckets[chat_id]: times of admitted updates
  cache,          \* _peer_nonce_caches: peer -> sequence of [nonce, at]
  approved,       \* peers whose DeviceIdentity.approved is True in memory
  sent,           \* what peers have signed
  accepts,        \* history: how often each message was dispatched, by cut
  admitted        \* history: times of all updates the limiter let through

vars == <<now, bucket, cache, approved, sent, accepts, admitted>>

(* What a signature covers, but for the payload: a text is signed with one.*)
Signed == [from : Peer, text : Text, ms : Nat]

(* An envelope as it is handed over, from the peer that its wrapper names. *)
Envelope == [from : Peer, text : Text, cut : Cut, ts : 0..(MaxNow + Skew)]

Canonical(p, t, ts) == [from |-> p, text |-> t, ms |-> ts \div Milli]
Good(e) == Canonical(e.from, e.text, e.ts) \in sent
NonceOf(e) == NonceAt[<<e.text, e.cut>>]

(* A message is a text of a peer; each cut is a form of it.                *)
Form == (Peer \X Text) \X Cut
FormOf(e) == <<<<e.from, e.text>>, e.cut>>

CacheEntry == [nonce : Nonce, at : Nat]

(* The types, and the capacities of the limiter and of the caches.         *)
TypeOK ==
  /\ now \in 0..MaxNow
  /\ bucket \in Seq(Nat) /\ Len(bucket) <= MaxCalls
  /\ cache \in [Peer -> Seq(CacheEntry)]
  /\ \A p \in Peer : Len(cache[p]) <= CacheMax
  /\ approved \in SUBSET Peer
  /\ sent \in SUBSET Signed
  /\ accepts \in [Form -> Nat]
  /\ admitted \in Seq(Nat)

(* __init__ of the transport and of the module-level limiter.              *)
Fresh ==
  /\ bucket = <<>>
  /\ cache = [p \in Peer |-> <<>>]
  /\ accepts = [x \in Form |-> 0]
  /\ admitted = <<>>

Init == now = 0 /\ Fresh /\ sent = {} /\ approved \in SUBSET Peer

-----------------------------------------------------------------------------
(* The clock, and the peers                                                *)

Tick == /\ now < MaxNow
        /\ now' = now + 1
        /\ UNCHANGED <<bucket, cache, approved, sent, accepts, admitted>>

(* sign_message: a fresh nonce and the sender's own time.                  *)
Sign(p, t, ts) ==
  /\ \A s \in sent : s.text # t
  /\ ts \in (now - Skew)..(now + Skew)
  /\ ts >= 0
  /\ sent' = sent \cup {Canonical(p, t, ts)}
  /\ UNCHANGED <<now, bucket, cache, approved, accepts, admitted>>

-----------------------------------------------------------------------------
(* RateLimiter.is_allowed(chat_id)                                         *)

(* Evicts k expired entries; the update is refused, nothing is recorded.   *)
Refuse(k) ==
  /\ PopsExpired(bucket, now - Window, k)
  /\ ~HasRoom(DropFirst(bucket, k), MaxCalls)
  /\ bucket' = DropFirst(bucket, k)
  /\ UNCHANGED admitted

AdmitKeepingBucketShort(k) ==
  /\ PopsExpired(bucket, now - Window, k)
  /\ Len(DropFirst(bucket, k)) <= MaxCalls
  /\ bucket' = Append(DropFirst(bucket, k), now)
  /\ admitted' = Append(admitted, now)

(* Evicts k expired entries; there is room and the update is recorded.     *)
Admit(k) ==
  /\ PopsExpired(bucket, now - Window, k)
  /\ HasRoom(DropFirst(bucket, k), MaxCalls)
  /\ bucket' = Append(DropFirst(bucket, k), now)
  /\ admitted' = Append(admitted, now)

-----------------------------------------------------------------------------
(* verify_signature                                                        *)

(* _check_timestamp.                                                       *)
InTime(e) == now - e.ts <= Tolerance /\ e.ts - now <= Tolerance

Seen(p, n) == \E i \in 1..Len(cache[p]) : cache[p][i].nonce = n

Times(c) == [i \in 1..Len(c) |-> c[i].at]

(* The part of check_and_add after the replay test: evict k expired        *)
(* entries, evict for capacity, record the nonce.                          *)
Record(p, n, k) ==
  /\ PopsExpired(Times(cache[p]), now - TTL, k)
  /\ LET fresh == DropFirst(cache[p], k)
         room  == DropFirst(fresh, PopsForCapacity(fresh, CacheMax))
     IN  cache' = [cache EXCEPT ![p] = Append(room, [nonce |-> n, at |-> now])]

-----------------------------------------------------------------------------
(* _handle_update                                                          *)

(* Over the limit: dropped before the text is looked at.                   *)
HandleLimited ==
  /\ \E k \in 0..Len(bucket) : Refuse(k)
  /\ UNCHANGED <<now, cache, approved, sent, accepts>>

(* Admitted, then dropped without touching a nonce cache: /status, text    *)
(* that is no wrapper, a wrapper for another device, one without sender or *)
(* envelope, an unknown envelope version.                                  *)
HandleOther ==
  /\ \E k \in 0..Len(bucket) : Admit(k)
  /\ UNCHANGED <<now, cache, approved, sent, accepts>>

(* /approve p, when the registry approves: DeviceRegistry has the details. *)
(* /deny does not change the peers in memory and is a HandleOther.         *)
HandleApprove(p) ==
  /\ \E k \in 0..Len(bucket) : Admit(k)
  /\ approved' = approved \cup {p}
  /\ UNCHANGED <<now, cache, sent, accepts>>

(* Envelope of an unapproved sender, out of time, or with a known nonce.   *)
HandleRejected(e) ==
  /\ \E k \in 0..Len(bucket) : Admit(k)
  /\ \/ e.from \notin approved
     \/ ~InTime(e)
     \/ Seen(e.from, NonceOf(e))
  /\ UNCHANGED <<now, cache, approved, sent, accepts>>

(* The nonce is recorded before the signature is checked, so it stays in   *)
(* the cache when the signature turns out to be wrong: that of an envelope *)
(* never signed, or of one with another payload or signature.              *)
HandleBadSignature(e) ==
  /\ e.from \in approved
  /\ InTime(e)
  /\ ~Seen(e.from, NonceOf(e))
  /\ \E k \in 0..Len(bucket) : Admit(k)
  /\ \E k \in 0..Len(cache[e.from]) : Record(e.from, NonceOf(e), k)
  /\ UNCHANGED <<now, approved, sent, accepts>>

(* on_receive is called.  Only one kind of message changes state of this   *)
(* module: admin_approval from a peer.                                     *)
Dispatch(e) ==
  /\ accepts' = [accepts EXCEPT ![FormOf(e)] = @ + 1]
  /\ \E grant \in {{}} \cup {{p} : p \in Peer} : approved' = approved \cup grant
  /\ UNCHANGED <<now, sent>>

HandleMessageNoReplayTest(e) ==
  /\ e.from \in approved
  /\ InTime(e)
  /\ Good(e)
  /\ \E k \in 0..Len(bucket) : Admit(k)
  /\ \E k \in 0..Len(cache[e.from]) : Record(e.from, NonceOf(e), k)
  /\ Dispatch(e)

HandleMessageUnverified(e) ==
  /\ e.from \in approved
  /\ InTime(e)
  /\ ~Seen(e.from, NonceOf(e))
  /\ \E k \in 0..Len(bucket) : Admit(k)
  /\ \E k \in 0..Len(cache[e.from]) : Record(e.from, NonceOf(e), k)
  /\ Dispatch(e)

(* A good envelope: its message goes to the handlers.                      *)
HandleMessage(e) ==
  /\ e.from \in approved
  /\ InTime(e)
  /\ ~Seen(e.from, NonceOf(e))
  /\ Good(e)
  /\ \E k \in 0..Len(bucket) : Admit(k)
  /\ \E k \in 0..Len(cache[e.from]) : Record(e.from, NonceOf(e), k)
  /\ Dispatch(e)

(* The process ends and systemd starts a new one: limiter and caches are   *)
(* in memory only, the peers are loaded from disk again.                   *)
Restart ==
  /\ bucket' = <<>>
  /\ cache' = [p \in Peer |-> <<>>]
  /\ accepts' = [x \in Form |-> 0]
  /\ admitted' = <<>>
  /\ approved' \in SUBSET Peer
  /\ UNCHANGED <<now, sent>>

HandleUpdate ==
  \/ HandleLimited
  \/ HandleOther
  \/ \E p \in Peer : HandleApprove(p)
  \/ \E e \in Envelope : \/ HandleRejected(e)
                         \/ HandleBadSignature(e)
                         \/ HandleMessage(e)

Next ==
  \/ Tick
  \/ \E p \in Peer, t \in Text, ts \in 0..(MaxNow + Skew) : Sign(p, t, ts)
  \/ HandleUpdate
  \/ Restart

Spec == Init /\ [][Next]_vars

-----------------------------------------------------------------------------
(* Properties                                                              *)

(* No message is dispatched twice in one form by one process, however      *)
(* often and however late the relay repeats it, although both the nonce    *)
(* cache and the rate limiter forget (check_and_add, _check_timestamp).    *)
OncePerForm == \A x \in Form : accepts[x] <= 1

(* signing.py: "Per-session NonceCache prevents replay within TTL window   *)
(* (120s)": one process dispatches what was signed once in one form only.  *)
OncePerMessage ==
  \A p \in Peer, t \in Text, b, c \in Cut :
    accepts[<<<<p, t>>, b>>] > 0 /\ accepts[<<<<p, t>>, c>>] > 0 => b = c

(* Any two admitted updates that are MaxCalls apart are more than Window   *)
(* ticks apart: no interval of Window ticks, wherever it starts, sees more *)
(* than MaxCalls updates reach the parser (rate_limiter.py).               *)
RateBound ==
  \A i \in 1..Len(admitted) :
    i + MaxCalls <= Len(admitted) =>
      admitted[i] + Window < admitted[i + MaxCalls]

(* The nonce of a dispatched form is forgotten, by age or to make room,    *)
(* only when that form can never be in time again, with any time stamp     *)
(* that the signature allows: this is what ties ttl_seconds and max_size   *)
(* of the cache to TIMESTAMP_TOLERANCE and to MSG_LIMITER.                 *)
ForgetsOnlyStale ==
  \A e \in Envelope :
    Good(e) /\ accepts[FormOf(e)] > 0 /\ ~Seen(e.from, NonceOf(e))
      => now > e.ts + Tolerance

-----------------------------------------------------------------------------
(* The inductive invariant behind the properties                           *)

(* The bucket is in order and not ahead of the clock.                      *)
BucketOrder ==
  /\ \A i \in 1..Len(bucket) : bucket[i] <= now
  /\ \A i, j \in 1..Len(bucket) : i <= j => bucket[i] <= bucket[j]

(* The bucket is the tail of admitted; what precedes it left the window.   *)
AdmittedTail ==
  LET gone == Len(admitted) - Len(bucket)
  IN  /\ gone >= 0
      /\ \A i \in 1..Len(bucket) : bucket[i] = admitted[gone + i]
      /\ \A i \in 1..gone : admitted[i] < now - Window

(* Admissions are recorded in order.                                       *)
AdmittedOrder ==
  /\ \A i \in 1..Len(admitted) : admitted[i] <= now
  /\ \A i, j \in 1..Len(admitted) : i <= j => admitted[i] <= admitted[j]

(* Every recorded nonce cost one admission: counted from the newest, the   *)
(* cache entries are not younger than the admissions.                      *)
Aligned(c, a) ==
  /\ Len(c) <= Len(a)
  /\ \A j \in 1..Len(c) : c[j].at <= a[Len(a) - (Len(c) - j)]

CacheAligned == \A p \in Peer : Aligned(cache[p], admitted)

(* A text is signed once.                                                  *)
TextOwner == \A r, s \in sent : r.text = s.text => r = s

(* Nothing is dispatched that was not signed.                              *)
AcceptedWasSent ==
  \A p \in Peer, t \in Text, c \in Cut :
    accepts[<<<<p, t>>, c>>] > 0 => \E s \in sent : s.from = p /\ s.text = t

(* A dispatched form is in the cache, or will never be in time again.      *)
Holds(c, e) ==
  \E j \in 1..Len(c) :
    c[j].nonce = NonceOf(e) /\ e.ts <= c[j].at + Tolerance + Milli - 1

Remembered ==
  \A e \in Envelope :
    Good(e) /\ accepts[FormOf(e)] > 0
      => Holds(cache[e.from], e) \/ now > e.ts + Tolerance

IInv ==
  /\ TypeOK
  /\ BucketOrder
  /\ AdmittedTail
  /\ AdmittedOrder
  /\ RateBound
  /\ CacheAligned
  /\ TextOwner
  /\ AcceptedWasSent
  /\ Remembered
  /\ OncePerForm

-----------------------------------------------------------------------------
(* Inbound implements OnceDelivery: every signed message is dispatched at  *)
(* most once by the present process in each of the forms that one          *)
(* signature allows, and nothing that was not signed is dispatched.        *)
Once == INSTANCE OnceDelivery WITH
          Message <- Peer \X Text,
          Form    <- Cut,
          signed  <- {<<s.from, s.text>> : s \in sent},
          done    <- {x \in Form : accepts[x] > 0}

ImplementsOnceDelivery == Once!Spec

=============================================================================
