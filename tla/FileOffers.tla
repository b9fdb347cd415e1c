------------------------------ MODULE FileOffers ------------------------------
(***************************************************************************)
(* How a file transfer gets under way: FileTransfer.send_file and          *)
(* _wait_for_accept of a sender, the gate in the daemon                    *)
(* (_handle_file_offer), and the rest of the gate with the slot it takes   *)
(* in FileTransfer.handle_offer of the daemon.  What happens to the bytes  *)
(* is the subject of FileReceive.                                          *)
(*                                                                         *)
(* An offer passes OFFER_LIMITER twice, once in the daemon and once in     *)
(* handle_offer, with no await between the two.  The daemon's FileTransfer *)
(* sends all its answers to the device id it was made with, which is the   *)
(* daemon's own.  Nothing but its own time-out changes a session that      *)
(* send_file has made, so a sender never gets to its chunks and no message *)
(* about an accepted transfer ever follows the offer.                      *)
(***************************************************************************)
EXTENDS SlidingWindow, FiniteSets

CONSTANTS
  Peer,             \* approved devices that offer files
  Operator,         \* those whose role is operator or higher
  Self,             \* our own device id
  Transfer,         \* transfer ids
  OwnerOf,          \* Transfer -> the peer that offers it
  MaxCalls,         \* max_calls of OFFER_LIMITER
  Window,           \* window_seconds of OFFER_LIMITER
  MaxActive,        \* MAX_CONCURRENT_RECV
  Timeout,          \* timeout of _wait_for_accept
  MaxNow,           \* bound: the clock stops here in model checking
  MaxArrivals       \* bound: peer -> its offers that reach one process

ASSUME OfferAssumption ==
  /\ Operator \subseteq Peer /\ Self \notin Peer
  /\ OwnerOf \in [Transfer -> Peer]
  /\ MaxCalls \in Nat \ {0} /\ Window \in Nat /\ MaxActive \in Nat
  /\ Timeout \in Nat /\ MaxNow \in Nat /\ MaxArrivals \in [Peer -> Nat]

VARIABLES
  now,              \* the clock
  sender,           \* Transfer -> "none", "OFFERED", "FAILED": state of the sender
  deadline,         \* Transfer -> deadline in _wait_for_accept
  slot,             \* transfers whose session in the daemon is ACTIVE
  bucket,           \* OFFER_LIMITER._buckets: peer -> times
  answers,          \* answers the daemon has sent: <<to, transfer, verb>>
  arrived,          \* history: peer -> times of its offers
  limited,          \* history: <<peer, i>>: its offer i was over the rate
  begun             \* history: peer -> times at which its offers were accepted

daemon == <<slot, bucket, answers, arrived, limited, begun>>
vars == <<now, sender, deadline, daemon>>

Verbs == {"file_accept", "file_reject"}

TypeOK ==
  /\ now \in 0..MaxNow
  /\ sender \in [Transfer -> {"none", "OFFERED", "FAILED"}]
  /\ deadline \in [Transfer -> Nat]
  /\ slot \in SUBSET Transfer /\ Cardinality(slot) <= MaxActive
  /\ bucket \in [Peer -> Seq(0..MaxNow)]
  /\ \A p \in Peer : Len(bucket[p]) <= MaxCalls
  /\ answers \in SUBSET ((Peer \cup {Self}) \X Transfer \X Verbs)
  /\ arrived \in [Peer -> Seq(0..MaxNow)]
  /\ \A x \in limited : x[1] \in Peer /\ x[2] \in 1..Len(arrived[x[1]])
  /\ begun \in [Peer -> Seq(0..MaxNow)]

NoTimes == [p \in Peer |-> <<>>]

Init ==
  /\ now = 0
  /\ sender = [t \in Transfer |-> "none"] /\ deadline = [t \in Transfer |-> 0]
  /\ slot = {} /\ bucket = NoTimes /\ answers = {}
  /\ arrived = NoTimes /\ limited = {} /\ begun = NoTimes

Tick == /\ now < MaxNow
        /\ now' = now + 1
        /\ UNCHANGED <<sender, deadline, daemon>>

-----------------------------------------------------------------------------
(* The sender                                                              *)

(* send_file: the offer is on its way, the wait begins (MaxNow: early      *)
(* enough for the wait to end before the clock stops).                     *)
Offer(t) ==
  /\ sender[t] = "none" /\ now + Timeout <= MaxNow
  /\ sender' = [sender EXCEPT ![t] = "OFFERED"]
  /\ deadline' = [deadline EXCEPT ![t] = now + Timeout]
  /\ UNCHANGED <<now, daemon>>

GiveUpWhenRejected(t) ==
  /\ sender[t] = "OFFERED" /\ <<OwnerOf[t], t, "file_reject">> \in answers
  /\ sender' = [sender EXCEPT ![t] = "FAILED"]
  /\ UNCHANGED <<now, deadline, daemon>>

(* _wait_for_accept runs into its deadline; the daemon is not told.        *)
GiveUp(t) ==
  /\ sender[t] = "OFFERED" /\ now >= deadline[t]
  /\ sender' = [sender EXCEPT ![t] = "FAILED"]
  /\ UNCHANGED <<now, deadline, daemon>>

-----------------------------------------------------------------------------
(* The daemon: _handle_file_offer and handle_offer                         *)

Answer(to, t, verb) == answers' = answers \cup {<<to, t, verb>>}

(* The bucket of p after k expired entries are gone.                       *)
Fresh(p, k) == DropFirst(bucket[p], k)

(* OFFER_LIMITER refuses the call in the daemon: no answer.                *)
DropOffer(p, k) ==
  /\ ~HasRoom(Fresh(p, k), MaxCalls)
  /\ bucket' = [bucket EXCEPT ![p] = Fresh(p, k)]
  /\ limited' = limited \cup {<<p, Len(arrived[p]) + 1>>}
  /\ UNCHANGED <<slot, answers, begun>>

(* The role is too low: the daemon answers, to the peer.                   *)
RefuseRole(p, t, k) ==
  /\ HasRoom(Fresh(p, k), MaxCalls)
  /\ p \notin Operator
  /\ bucket' = [bucket EXCEPT ![p] = Append(Fresh(p, k), now)]
  /\ Answer(p, t, "file_reject")
  /\ UNCHANGED <<slot, limited, begun>>

(* OFFER_LIMITER refuses the second call, in handle_offer.                 *)
RefuseRate(p, t, k) ==
  /\ HasRoom(Fresh(p, k), MaxCalls)
  /\ p \in Operator
  /\ ~HasRoom(Append(Fresh(p, k), now), MaxCalls)
  /\ bucket' = [bucket EXCEPT ![p] = Append(Fresh(p, k), now)]
  /\ Answer(Self, t, "file_reject")
  /\ limited' = limited \cup {<<p, Len(arrived[p]) + 1>>}
  /\ UNCHANGED <<slot, begun>>

ChargedAfterOneTest(p, k) ==
  /\ p \in Operator
  /\ HasRoom(Fresh(p, k), MaxCalls)
  /\ bucket' = [bucket EXCEPT ![p] = Append(Append(Fresh(p, k), now), now)]

(* Both calls are allowed.                                                 *)
Charged(p, k) ==
  /\ p \in Operator
  /\ HasRoom(Append(Fresh(p, k), now), MaxCalls)
  /\ bucket' = [bucket EXCEPT ![p] = Append(Append(Fresh(p, k), now), now)]

(* Every slot is taken, or a check of size, chunk count, digest, name or   *)
(* destination fails.                                                      *)
RefuseOffer(p, t, k) ==
  /\ Charged(p, k)
  /\ Answer(Self, t, "file_reject")
  /\ UNCHANGED <<slot, limited, begun>>

(* A session takes a slot; a repeated offer replaces its own session.      *)
AcceptOffer(p, t, k) ==
  /\ Charged(p, k)
  /\ Cardinality(slot) < MaxActive
  /\ slot' = slot \cup {t}
  /\ Answer(Self, t, "file_accept")
  /\ begun' = [begun EXCEPT ![p] = Append(@, now)]
  /\ UNCHANGED limited

HandleOfferEvictingNothing(t) ==
  /\ sender[t] # "none"
  /\ LET p == OwnerOf[t]
     IN  /\ Len(arrived[p]) < MaxArrivals[p]
         /\ arrived' = [arrived EXCEPT ![p] = Append(@, now)]
         /\ \/ DropOffer(p, 0)
            \/ RefuseRole(p, t, 0)
            \/ RefuseRate(p, t, 0)
            \/ RefuseOffer(p, t, 0)
            \/ AcceptOffer(p, t, 0)
  /\ UNCHANGED <<now, sender, deadline>>

(* An offer arrives, once or (after a send that was tried again) twice.    *)
HandleOffer(t) ==
  /\ sender[t] # "none"
  /\ LET p == OwnerOf[t]
     IN  /\ Len(arrived[p]) < MaxArrivals[p]
         /\ arrived' = [arrived EXCEPT ![p] = Append(@, now)]
         /\ \E k \in 0..Len(bucket[p]) :
              /\ PopsExpired(bucket[p], now - Window, k)
              /\ \/ DropOffer(p, k)
                 \/ RefuseRole(p, t, k)
                 \/ RefuseRate(p, t, k)
                 \/ RefuseOffer(p, t, k)
                 \/ AcceptOffer(p, t, k)
  /\ UNCHANGED <<now, sender, deadline>>

(* The daemon is started anew: sessions and limiters are in memory only.   *)
Restart ==
  /\ slot' = {} /\ bucket' = NoTimes /\ answers' = {}
  /\ arrived' = NoTimes /\ limited' = {} /\ begun' = NoTimes
  /\ UNCHANGED <<now, sender, deadline>>

Next ==
  \/ Tick \/ Restart
  \/ \E t \in Transfer : Offer(t) \/ GiveUp(t) \/ HandleOffer(t)

Spec == Init /\ [][Next]_vars

(* Time goes on, and a sender polls its session until the deadline.        *)
FairSpec == Spec /\ WF_vars(Tick) /\ \A t \in Transfer : WF_vars(GiveUp(t))

-----------------------------------------------------------------------------
(* Properties                                                              *)

(* The offers of p that arrived before its offer i, in the window of i.    *)
Earlier(p, i) ==
  {j \in 1..(i - 1) : arrived[p][j] >= arrived[p][i] - Window}

(* Two sessions of one peer that are MaxCalls \div 2 apart begin more than *)
(* Window apart: with two calls charged for each, that many fit the        *)
(* limiter, and none of another peer's.                                    *)
BegunBound ==
  \A p \in Peer :
    \A i \in 1..Len(begun[p]) :
      i + MaxCalls \div 2 <= Len(begun[p]) =>
        begun[p][i] + Window < begun[p][i + MaxCalls \div 2]

(* A peer is over the rate because of its own offers only: at least        *)
(* MaxCalls \div 2 of them came within the window before.                  *)
LimitedByOwnOffers ==
  \A x \in limited : Cardinality(Earlier(x[1], x[2])) >= MaxCalls \div 2

(* A sender does not wait for ever.                                        *)
WaitEnds == \A t \in Transfer : sender[t] = "OFFERED" ~> sender[t] = "FAILED"

=============================================================================
