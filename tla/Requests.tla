------------------------------ MODULE Requests ------------------------------
(***************************************************************************)
(* How the daemon serves the requests of its peers: MessageBroker.dispatch *)
(* and the request handlers of service/daemon.py, CommandExecutor with its *)
(* limiter and its time-out, and the way of the answer through             *)
(* MessageBroker.send, its fallback and TelegramTransport.send.            *)
(*                                                                         *)
(* The poll loop awaits the handler of one update before it looks at the   *)
(* next one, so requests are served one at a time and a slow one holds up  *)
(* the others, whose envelopes grow older meanwhile.  Inbound has the      *)
(* other checks on an envelope, PollLoop the batches.  The relay is taken  *)
(* to hand envelopes on as they were signed: Inbound shows that one that   *)
(* comes in several forms may be dispatched once in each.                  *)
(*                                                                         *)
(* The broker always ends up with Telegram: there is never a P2P session,  *)
(* because nothing calls P2PTransport.connect_to_peer.  is_available is    *)
(* not awaited, so its result counts as true even when Telegram is down;   *)
(* it is send that raises then.                                            *)
(*                                                                         *)
(* Time is kept as ages and as time left, so that no clock grows.  What a  *)
(* request asks for (command, time-out, path) is chosen when it is served. *)
(***************************************************************************)
EXTENDS Integers, Sequences

CONSTANTS
  Peer,             \* approved devices
  RoleOf,           \* Peer -> 0, 1, 2: ROLE_HIERARCHY of its role
  Request,          \* ids of requests
  Tolerance,        \* TIMESTAMP_TOLERANCE
  MaxTimeout,       \* max_exec_timeout
  SendTimeout,      \* the time-out of sendMessage
  MaxCalls,         \* max_calls of EXEC_LIMITER
  Window,           \* window_seconds of EXEC_LIMITER
  MaxBoots          \* bound: restarts of the daemon

(* "list" stands for ls_request and tree_request.                          *)
Kinds == {"exec", "list", "remove", "mkdir", "status"}

ASSUME RequestAssumption ==
  /\ RoleOf \in [Peer -> 0..2]
  /\ Tolerance \in Nat /\ MaxTimeout \in Nat \ {0} /\ SendTimeout \in Nat
  /\ MaxCalls \in Nat \ {0} /\ Window \in Nat /\ MaxBoots \in Nat

VARIABLES
  asks,             \* Request -> its sender and its kind, or NoRequest
  age,              \* Request -> age of its envelope, or NotSent
  queue,            \* requests that wait at the relay or in the batch
  taken,            \* requests this process has taken, in order
  pc,               \* "idle", "run" (a command), "post" (an answer)
  left,             \* time until the time-out of what pc waits for
  attempt,          \* 1, or 2 for the fallback
  held,             \* time since the present request was taken
  calls,            \* EXEC_LIMITER: peer -> ages of its calls, oldest first
  up,               \* TelegramTransport._available
  copies,           \* Request -> copies of its answer that the relay got
  outcome,          \* Request -> what became of it
  boots             \* restarts so far

answering == <<pc, left, attempt, held, copies, outcome>>
vars == <<asks, age, queue, taken, answering, calls, up, boots>>

NotSent == -1
Outcomes == {"none", "expired", "silent", "told", "failed"}

Asks == [from : Peer, kind : Kinds]
NoRequest == [kind |-> "none"]

TypeOK ==
  /\ asks \in [Request -> Asks \cup {NoRequest}]
  /\ \A r \in Request : asks[r] = NoRequest <=> age[r] = NotSent
  /\ age \in [Request -> NotSent..(Tolerance + 1)]
  /\ queue \in Seq(Request) /\ taken \in Seq(Request)
  /\ pc \in {"idle", "run", "post"}
  /\ (pc # "idle") => (taken # <<>>)
  /\ left \in 0..(IF pc = "run" THEN MaxTimeout ELSE SendTimeout)
  /\ attempt \in 1..2 /\ held \in Nat
  /\ calls \in [Peer -> Seq(0..(Window + 1))]
  /\ \A p \in Peer : Len(calls[p]) <= MaxCalls
  /\ up \in BOOLEAN /\ boots \in 0..MaxBoots
  /\ copies \in [Request -> 0..(2 * (MaxBoots + 1))]
  /\ outcome \in [Request -> Outcomes]

Init ==
  /\ asks = [r \in Request |-> NoRequest]
  /\ age = [r \in Request |-> NotSent] /\ queue = <<>> /\ taken = <<>>
  /\ pc = "idle" /\ left = 0 /\ attempt = 1 /\ held = 0
  /\ calls = [p \in Peer |-> <<>>] /\ up = TRUE /\ boots = 0
  /\ copies = [r \in Request |-> 0] /\ outcome = [r \in Request |-> "none"]

SmallerOf(a, b) == IF a < b THEN a ELSE b
LargerOf(a, b) == IF a > b THEN a ELSE b

Current == taken[Len(taken)]

-----------------------------------------------------------------------------
(* Peers, time, processes                                                  *)

(* A peer signs and sends a request.                                       *)
SendRequest(r, p, kind) ==
  /\ age[r] = NotSent
  /\ asks' = [asks EXCEPT ![r] = [from |-> p, kind |-> kind]]
  /\ age' = [age EXCEPT ![r] = 0]
  /\ queue' = Append(queue, r)
  /\ UNCHANGED <<taken, answering, calls, up, boots>>

(* Time goes on until a timer of the daemon is due.                        *)
Tick ==
  /\ pc # "idle" => left > 0
  /\ age' = [r \in Request |->
               IF age[r] = NotSent THEN NotSent ELSE SmallerOf(age[r] + 1, Tolerance + 1)]
  /\ calls' = [p \in Peer |-> [i \in 1..Len(calls[p]) |->
                                 SmallerOf(calls[p][i] + 1, Window + 1)]]
  /\ IF pc = "idle" THEN UNCHANGED <<left, held>>
                    ELSE left' = left - 1 /\ held' = held + 1
  /\ UNCHANGED <<asks, queue, taken, pc, attempt, up, copies, outcome, boots>>

(* HomeLinkDaemon.stop: nothing is sent any more.                          *)
Stop == /\ up
        /\ up' = FALSE
        /\ UNCHANGED <<asks, age, queue, taken, answering, calls, boots>>

(* The process ends, whatever it is doing, and another one starts.  The    *)
(* relay repeats what was taken last and is not confirmed, and the new     *)
(* process has no memory of it.                                            *)
Restart ==
  /\ boots < MaxBoots
  /\ boots' = boots + 1
  /\ \E k \in 0..Len(taken) :
       LET again == SubSeq(taken, k + 1, Len(taken))
       IN  /\ pc # "idle" => again # <<>>
           /\ queue' = again \o queue
           /\ outcome' = [r \in Request |->
                            IF \E i \in 1..Len(again) : again[i] = r THEN "none"
                                                                      ELSE outcome[r]]
  /\ taken' = <<>>
  /\ pc' = "idle" /\ left' = 0 /\ attempt' = 1 /\ held' = 0
  /\ calls' = [p \in Peer |-> <<>>] /\ up' = TRUE
  /\ UNCHANGED <<asks, age, copies>>

-----------------------------------------------------------------------------
(* MessageBroker.send and TelegramTransport.send                           *)

(* Of an answer it matters whether its wrapper is within 4096 bytes, and   *)
(* whether json.dumps takes it at all.                                     *)
Answers == {"fits", "too large", "no JSON"}

Done(r, what) ==
  /\ pc' = "idle" /\ left' = 0 /\ attempt' = 1 /\ held' = 0
  /\ outcome' = [outcome EXCEPT ![r] = what]

(* An answer that cannot be sent raises, and raises again in the fallback, *)
(* before anything is posted.                                              *)
Reply(r, answer) ==
  /\ IF up /\ answer = "fits"
       THEN /\ pc' = "post" /\ left' = SendTimeout /\ attempt' = 1
            /\ UNCHANGED <<held, outcome>>
       ELSE Done(r, "failed")
  /\ UNCHANGED copies

(* send returns True.                                                      *)
PostOk ==
  /\ pc = "post"
  /\ copies' = [copies EXCEPT ![Current] = @ + 1]
  /\ Done(Current, "told")
  /\ UNCHANGED <<asks, age, queue, taken, calls, up, boots>>

PostFailsForGood ==
  /\ pc = "post"
  /\ copies' \in {copies, [copies EXCEPT ![Current] = @ + 1]}
  /\ Done(Current, "told")
  /\ UNCHANGED <<asks, age, queue, taken, calls, up, boots>>

(* The fallback falls back, too.                                           *)
PostFailsAgain ==
  /\ pc = "post"
  /\ copies' \in {copies, [copies EXCEPT ![Current] = @ + 1]}
  /\ IF up THEN /\ pc' = "post" /\ left' = SendTimeout /\ attempt' = 2
                /\ UNCHANGED <<held, outcome>>
           ELSE Done(Current, "failed")
  /\ UNCHANGED <<asks, age, queue, taken, calls, up, boots>>

(* A refusal, an error or the time-out of sendMessage, after which the     *)
(* relay may have the answer all the same: the fallback signs and posts it *)
(* anew, once; then send returns False, which no handler looks at.         *)
PostFails ==
  /\ pc = "post"
  /\ copies' \in {copies, [copies EXCEPT ![Current] = @ + 1]}
  /\ IF attempt = 1 /\ up
       THEN /\ pc' = "post" /\ left' = SendTimeout /\ attempt' = 2
            /\ UNCHANGED <<held, outcome>>
       ELSE Done(Current, "failed")
  /\ UNCHANGED <<asks, age, queue, taken, calls, up, boots>>

-----------------------------------------------------------------------------
(* CommandExecutor                                                         *)

(* The calls of p that is_allowed keeps: it pops the oldest one as long as *)
(* that is out of the window.                                              *)
Popped(p) ==
  {k \in 0..Len(calls[p]) :
     /\ \A i \in 1..k : calls[p][i] > Window
     /\ k < Len(calls[p]) => calls[p][k + 1] <= Window}

Recent(p) == {SubSeq(calls[p], k + 1, Len(calls[p])) : k \in Popped(p)}

Charge(p, recent) ==
  /\ Len(recent) < MaxCalls
  /\ calls' = [calls EXCEPT ![p] = Append(recent, 0)]

(* The time-outs that a request can ask for, and NoNumber for a text that  *)
(* int() refuses.                                                          *)
NoNumber == -2
Timeouts == {-1, 0, 1, MaxTimeout + 1}

EffectiveTimeoutAsAsked(t) == LargerOf(0, IF t = 0 THEN MaxTimeout ELSE t)

(* min(timeout or max, max); wait_for takes a negative one as zero.        *)
EffectiveTimeout(t) ==
  LargerOf(0, SmallerOf(IF t = 0 THEN MaxTimeout ELSE t, MaxTimeout))

(* The least role of a command, by _REGISTRY; Unknown for one that is not  *)
(* in it, is blocked, or has arguments that its validator refuses.         *)
Unknown == 3
Levels == 0..Unknown

(* _handle_exec and execute, up to the first wait.                         *)
HandleExec(r, t, level) ==
  LET p == asks[r].from
  IN  \/ /\ t = NoNumber                           \* int() raises
         /\ Done(r, "silent")
         /\ UNCHANGED <<calls, copies>>
      \/ /\ t # NoNumber
         /\ \E recent \in Recent(p) :
              /\ Len(recent) >= MaxCalls
              /\ calls' = [calls EXCEPT ![p] = recent]
         /\ \E answer \in {"fits", "too large"} : Reply(r, answer)
      \/ /\ t # NoNumber /\ level > RoleOf[p]
         /\ \E recent \in Recent(p) : Charge(p, recent)
         /\ \E answer \in {"fits", "too large"} : Reply(r, answer)
      \/ /\ t # NoNumber /\ level <= RoleOf[p]
         /\ \E recent \in Recent(p) : Charge(p, recent)
         /\ pc' = "run" /\ left' = EffectiveTimeout(t)
         /\ UNCHANGED <<attempt, held, copies, outcome>>

(* The command ends by itself or cannot be started, whatever its result.   *)
CommandEnds ==
  /\ pc = "run"
  /\ \E answer \in {"fits", "too large"} : Reply(Current, answer)
  /\ UNCHANGED <<asks, age, queue, taken, calls, up, boots>>

CommandIsNotKilled == pc = "run" /\ left = 0 /\ UNCHANGED vars

(* wait_for gives up, the process is killed and its output collected.      *)
CommandTimesOut ==
  /\ pc = "run" /\ left = 0
  /\ \E answer \in {"fits", "too large"} : Reply(Current, answer)
  /\ UNCHANGED <<asks, age, queue, taken, calls, up, boots>>

-----------------------------------------------------------------------------
(* The other handlers                                                      *)

HandleList(r) ==
  /\ \E answer \in {"fits", "too large"} : Reply(r, answer)
  /\ UNCHANGED calls

(* A role that is too low is answered, too.                                *)
HandleRemove(r) == Reply(r, "fits") /\ UNCHANGED calls

(* A role that is too low is not answered.                                 *)
HandleMkdir(r) ==
  /\ IF RoleOf[asks[r].from] >= 1 THEN Reply(r, "fits")
                               ELSE Done(r, "silent") /\ UNCHANGED copies
  /\ UNCHANGED calls

(* The status holds what MessageBroker.status puts into it for Telegram:   *)
(* the coroutine of is_available, which is no JSON.                        *)
HandleStatus(r) == Reply(r, "no JSON") /\ UNCHANGED calls

Handle(r) ==
  \/ /\ asks[r].kind = "exec"
     /\ \E t \in Timeouts \cup {NoNumber}, level \in Levels : HandleExec(r, t, level)
  \/ asks[r].kind = "list" /\ HandleList(r)
  \/ asks[r].kind = "remove" /\ HandleRemove(r)
  \/ asks[r].kind = "mkdir" /\ HandleMkdir(r)
  \/ asks[r].kind = "status" /\ HandleStatus(r)

(* The next update, when its envelope is in time.                          *)
Take ==
  /\ pc = "idle" /\ queue # <<>> /\ age[Head(queue)] <= Tolerance
  /\ queue' = Tail(queue) /\ taken' = Append(taken, Head(queue))
  /\ Handle(Head(queue))
  /\ UNCHANGED <<asks, age, up, boots>>

(* It is too old by now.                                                   *)
Expire ==
  /\ pc = "idle" /\ queue # <<>> /\ age[Head(queue)] > Tolerance
  /\ queue' = Tail(queue) /\ taken' = Append(taken, Head(queue))
  /\ outcome' = [outcome EXCEPT ![Head(queue)] = "expired"]
  /\ UNCHANGED <<asks, age, pc, left, attempt, held, copies, calls, up, boots>>

Next ==
  \/ \E r \in Request, p \in Peer, kind \in Kinds : SendRequest(r, p, kind)
  \/ Tick \/ Stop \/ Restart
  \/ Take \/ Expire
  \/ CommandEnds \/ CommandTimesOut
  \/ PostOk \/ PostFails

Spec == Init /\ [][Next]_vars

(* Timers fire (Tick up to them, then what they are for), and the poll     *)
(* loop goes on until it is stopped.  No command need end by itself, no    *)
(* post need succeed.                                                      *)
FairSpec ==
  /\ Spec
  /\ WF_vars(Tick) /\ WF_vars(up /\ (Take \/ Expire))
  /\ WF_vars(CommandTimesOut) /\ WF_vars(pc = "post" /\ left = 0 /\ PostFails)

-----------------------------------------------------------------------------
(* Properties                                                              *)

(* One request keeps the others waiting for at most a command and two      *)
(* posts, whatever time-out it asks for (executor.py effective_timeout,    *)
(* broker.py _fallback_send).                                              *)
HoldBound == held <= MaxTimeout + 2 * SendTimeout

(* When send has returned True the relay has the answer, although one of   *)
(* the two posts may have failed (broker.py "Returns True on success").    *)
TrueMeansDelivered == \A r \in Request : outcome[r] = "told" => copies[r] >= 1

(* However often posts time out and the process is started again, the      *)
(* relay gets at most two copies of an answer from each process: a request *)
(* that is handed on as it was signed is served once by each, and the      *)
(* fallback posts once (broker.py _fallback_send, telegram.py              *)
(* _last_update_id).                                                       *)
CopiesBound == \A r \in Request : copies[r] <= 2 * (boots + 1)

(* Every request that is sent, and every one that a new process gets       *)
(* again, is dealt with in the end, although commands may never end, unless *)
(* the daemon is stopped.                                                  *)
EveryRequestEnds ==
  \A r \in Request :
    (age[r] # NotSent /\ outcome[r] = "none") ~> (outcome[r] # "none" \/ ~up)

=============================================================================
