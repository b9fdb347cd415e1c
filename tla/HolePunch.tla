------------------------------ MODULE HolePunch ------------------------------
(***************************************************************************)
(* Hole punching between the P2P transports of several machines:           *)
(* transport/p2p/hole_punch.py, and start, stop, connect_to_peer and the   *)
(* receive loop of transport/p2p/transport.py around it.                   *)
(*                                                                         *)
(*   one call of connect_to_peer    an attempt; its nonce is the attempt   *)
(*   HolePuncher._sock              open                                   *)
(*   the event loop's reader        reader: whose sock_recvfrom is served  *)
(*   the NAT in front of a machine  hole: whom it has sent to              *)
(*                                                                         *)
(* The network may lose, repeat, delay and reorder datagrams: a datagram   *)
(* that was sent may arrive at any later time, any number of times, or     *)
(* never.  A ping goes to the public address of the peer and, as the LAN   *)
(* fallback, to its local address, where another machine may be at home.   *)
(* Nothing in the program calls connect_to_peer: callers are external.     *)
(***************************************************************************)
EXTENDS Naturals, FiniteSets

CONSTANTS
  End,            \* machines that run a P2PTransport
  Attempt,        \* calls of connect_to_peer
  owner,          \* attempt -> the machine that makes it
  target,         \* attempt -> the peer it is for
  AtLocal,        \* attempt -> who is at the peer's local address, here
  RecvLoop,       \* the reader that _recv_loop registers
  Nobody          \* no reader is registered; no pong has come

ASSUME PunchAssumption ==
  /\ owner \in [Attempt -> End] /\ target \in [Attempt -> End]
  /\ AtLocal \in [Attempt -> SUBSET End]
  /\ \A a \in Attempt : owner[a] # target[a] /\ owner[a] \notin AtLocal[a]
  /\ RecvLoop \notin Attempt /\ RecvLoop # Nobody
  /\ Nobody \notin Attempt \cup End

VARIABLES
  open,           \* machines whose socket is bound
  reader,         \* machine -> who gets the next datagram of its socket
  phase,          \* attempt -> new, punching, or how connect_to_peer ended
  from,           \* attempt -> where its pong came from: what punch returns
  hole,           \* machine -> machines that its NAT lets in
  net,            \* datagrams sent so far
  answered        \* history: <<attempt, machine>> whose ping got a pong there

vars == <<open, reader, phase, from, hole, net, answered>>

(* connect_to_peer returns False, or raises: it unpacks the three values   *)
(* of derive_session_keys into two, so that it never returns True and      *)
(* _sessions stays empty.                                                  *)
Phases == {"new", "punching", "raised", "False"}

Datagram == [kind : {"ping", "pong"}, att : Attempt, src : End, dst : End,
             lan : BOOLEAN]

TypeOK ==
  /\ open \subseteq End
  /\ reader \in [End -> Attempt \cup {RecvLoop, Nobody}]
  /\ phase \in [Attempt -> Phases]
  /\ from \in [Attempt -> End \cup {Nobody}]
  /\ hole \in [End -> SUBSET End]
  /\ net \subseteq Datagram
  /\ answered \subseteq Attempt \X End

(* P2PTransport.start: the socket is bound and _recv_loop waits for it.    *)
(* What it reads it drops, for want of a session: no action.               *)
Init ==
  /\ open = End
  /\ reader = [e \in End |-> RecvLoop]
  /\ phase = [a \in Attempt |-> "new"]
  /\ from = [a \in Attempt |-> Nobody]
  /\ hole = [e \in End |-> {}]
  /\ net = {} /\ answered = {}

-----------------------------------------------------------------------------
Running(a) == phase[a] = "punching"

(* P2PTransport.stop: the receive loop is cancelled, which removes its     *)
(* reader in the next turn of the event loop, and the socket is closed,    *)
(* which removes none: an attempt stays registered for the closed socket.  *)
(* Attempts go on until their deadline: without a socket their pings and   *)
(* their later rounds fail, which is caught.                               *)
Stop(e) ==
  /\ e \in open
  /\ open' = open \ {e}
  /\ reader' = [reader EXCEPT ![e] = IF @ = RecvLoop THEN Nobody ELSE @]
  /\ UNCHANGED <<phase, from, hole, net, answered>>

(* connect_to_peer is called: without a socket punch raises.               *)
Call(a) ==
  /\ phase[a] = "new"
  /\ phase' = [phase EXCEPT ![a] = IF owner[a] \in open THEN "punching" ELSE "raised"]
  /\ UNCHANGED <<open, reader, from, hole, net, answered>>

(* A datagram leaves a machine; on its way out it opens the NAT for the    *)
(* answers, unless it stays in the LAN.                                    *)
Out(ds) ==
  /\ net' = net \cup ds
  /\ hole' = [e \in End |-> hole[e] \cup {d.dst : d \in {f \in ds : f.src = e /\ ~f.lan}}]

(* _punch_loop, every half second: a ping to either address of the peer.   *)
Ping(a) ==
  LET to(e, lan) == [kind |-> "ping", att |-> a, src |-> owner[a], dst |-> e, lan |-> lan]
  IN /\ Running(a) /\ owner[a] \in open
     /\ Out({to(target[a], FALSE)} \cup {to(e, TRUE) : e \in AtLocal[a]})
     /\ UNCHANGED <<open, reader, phase, from, answered>>

(* _recv_pong finds nothing to read and registers: add_reader replaces the *)
(* reader that is there, be it another attempt's or that of _recv_loop.    *)
(* Other attempts come back after at most half a second, _recv_loop never: *)
(* nothing completes its future.                                           *)
Listen(a) ==
  /\ Running(a) /\ owner[a] \in open
  /\ reader' = [reader EXCEPT ![owner[a]] = a]
  /\ UNCHANGED <<open, phase, from, hole, net, answered>>

(* wait_for: the wait on a socket that was closed ends after half a second *)
(* and takes its reader with it.  On an open socket the next round of the  *)
(* attempt registers again at once.                                        *)
WaitEnds(e) ==
  /\ e \notin open /\ reader[e] # Nobody
  /\ reader' = [reader EXCEPT ![e] = Nobody]
  /\ UNCHANGED <<open, phase, from, hole, net, answered>>

(* The end of an attempt takes its reader with it, but not another's: the  *)
(* event loop knows that the reader it would remove has been replaced.     *)
Unregister(a) ==
  reader' = [reader EXCEPT ![owner[a]] = IF @ = a THEN Nobody ELSE @]

(* Datagrams that may reach the socket of machine e now.                   *)
Deliverable(e) == {d \in net : d.dst = e /\ e \in open /\ (d.lan \/ d.src \in hole[e])}

PongInSessionMade(a, d) ==
  /\ d.kind = "pong" /\ d.att = a
  /\ phase' = [phase EXCEPT ![a] = "True"]
  /\ from' = [from EXCEPT ![a] = d.src]
  /\ Unregister(a)
  /\ UNCHANGED <<open, hole, net, answered>>

PongInAnyNonce(a, d) ==
  /\ d.kind = "pong"
  /\ phase' = [phase EXCEPT ![a] = "raised"]
  /\ from' = [from EXCEPT ![a] = d.src]
  /\ Unregister(a)
  /\ UNCHANGED <<open, hole, net, answered>>

(* The pong that was waited for ends the attempt.                          *)
PongIn(a, d) ==
  /\ d.kind = "pong" /\ d.att = a
  /\ phase' = [phase EXCEPT ![a] = "raised"]
  /\ from' = [from EXCEPT ![a] = d.src]
  /\ Unregister(a)
  /\ UNCHANGED <<open, hole, net, answered>>

PingInDropped(a, d) ==
  /\ d.kind = "ping"
  /\ UNCHANGED vars

(* Any ping is answered with its own nonce, to where it came from.         *)
PingIn(a, d) ==
  /\ d.kind = "ping"
  /\ Out({[d EXCEPT !.kind = "pong", !.src = d.dst, !.dst = d.src]})
  /\ answered' = answered \cup {<<d.att, owner[a]>>}
  /\ UNCHANGED <<open, reader, phase, from>>

(* One round of _recv_pong: through its reader or, when it begins to wait, *)
(* at once.  Other pongs are dropped.                                      *)
Read(a, d) ==
  /\ Running(a) /\ d \in Deliverable(owner[a])
  /\ PongIn(a, d) \/ PingIn(a, d)

ExpireLeavingItsReader(a) ==
  /\ Running(a)
  /\ phase' = [phase EXCEPT ![a] = "False"]
  /\ UNCHANGED <<open, reader, from, hole, net, answered>>

(* The deadline: punch returns None and connect_to_peer False.             *)
Expire(a) ==
  /\ Running(a)
  /\ phase' = [phase EXCEPT ![a] = "False"]
  /\ Unregister(a)
  /\ UNCHANGED <<open, from, hole, net, answered>>

Next ==
  \/ \E e \in End : Stop(e) \/ WaitEnds(e)
  \/ \E a \in Attempt :
       \/ Call(a) \/ Ping(a) \/ Listen(a) \/ Expire(a)
       \/ \E d \in net : Read(a, d)

-----------------------------------------------------------------------------
(* No other attempt of the same machine takes datagrams away from a.       *)
Alone(a) ==
  /\ Running(a) /\ owner[a] \in open
  /\ \A b \in Attempt \ {a} : owner[b] = owner[a] => ~Running(b)

(* Two attempts of two machines at each other.                             *)
Opposed ==
  {p \in SUBSET Attempt :
     /\ Cardinality(p) = 2
     /\ \A a, b \in p : a # b => owner[a] = target[b]}

(* Pings are repeated, and a network that works delivers, of the copies    *)
(* about one attempt c, some to an attempt a that has the socket to        *)
(* itself.  Calls, deadlines and stops may come at any time or never.      *)
Fairness ==
  \A a \in Attempt :
    /\ WF_vars(Ping(a))
    /\ \A c \in UNION {p \in Opposed : a \in p} : WF_vars(
         Alone(a) /\ \E d \in net : d.att = c /\ Read(a, d))

Spec == Init /\ [][Next]_vars /\ Fairness

-----------------------------------------------------------------------------
(* punch returns an address only after the machine there has answered a    *)
(* ping of this very attempt, with an attempt of its own: an old or a      *)
(* foreign pong does not do.  It is the peer, through NATs that are open   *)
(* both ways, or whoever is at the peer's local address (_recv_pong).      *)
SuccessIsAnswered ==
  \A a \in Attempt : from[a] # Nobody =>
    /\ <<a, from[a]>> \in answered
    /\ \/ from[a] \in AtLocal[a]
       \/ /\ from[a] = target[a]
          /\ target[a] \in hole[owner[a]] /\ owner[a] \in hole[target[a]]

(* What is registered with the event loop is the receive loop or an        *)
(* attempt of that machine that still runs: no attempt leaves its reader   *)
(* behind, however they replace each other, end and lose the socket to a   *)
(* stop, whose close removes no reader (_recv_pong, _recv_loop, close).    *)
ReaderIsLive ==
  \A e \in End : reader[e] \in Attempt =>
    owner[reader[e]] = e /\ Running(reader[e])

(* Two machines punch to each other and nothing else disturbs them: this   *)
(* does not last.  Unless one is stopped, calls again or is late, a pong   *)
(* gets through although both NATs let in only whom they have sent to      *)
(* (punch).                                                                *)
PunchSucceeds ==
  \A p \in Opposed :
    LET together == \A a \in p : Alone(a) IN together ~> ~together

=============================================================================
