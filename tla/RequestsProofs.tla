--------------------------- MODULE RequestsProofs ---------------------------
(***************************************************************************)
(* Theorems about Requests, for every number of peers and requests and all *)
(* time-outs.                                                              *)
(***************************************************************************)
EXTENDS Requests, SequenceTheorems, TLAPS

(* What the argument needs of the types.                                   *)
HoldTypes ==
  /\ pc \in {"idle", "run", "post"}
  /\ left \in Nat /\ attempt \in 1..2 /\ held \in Nat
  /\ copies \in [Request -> Nat]
  /\ outcome \in [Request -> Outcomes]

(* What a request may still cost from here on, on top of what it has cost: *)
(* the rest of the present wait and the posts that are still to come.      *)
HoldBudget ==
  /\ pc = "idle" => held = 0
  /\ pc = "run" => held + left <= MaxTimeout
  /\ pc = "post" /\ attempt = 1 => held + left <= MaxTimeout + SendTimeout
  /\ pc = "post" /\ attempt = 2 => held + left <= MaxTimeout + 2 * SendTimeout

HoldInv == HoldTypes /\ HoldBudget /\ TrueMeansDelivered

(* Noting the end of a request keeps the type of outcome.                  *)
LEMMA OutcomeTypes ==
  ASSUME NEW f \in [Request -> Outcomes], NEW r, NEW what \in Outcomes
  PROVE  [f EXCEPT ![r] = what] \in [Request -> Outcomes]
OBVIOUS

(* One more copy is never fewer copies.                                    *)
LEMMA CopiesGrow ==
  ASSUME NEW f \in [Request -> Nat], NEW g, NEW r, g \in {f, [f EXCEPT ![r] = @ + 1]}
  PROVE  g \in [Request -> Nat] /\ \A x \in Request : g[x] >= f[x]
<1>1. CASE g = f
  BY <1>1
<1>2. CASE g = [f EXCEPT ![r] = @ + 1]
  <2>1. ASSUME NEW x \in Request  PROVE g[x] \in Nat /\ g[x] >= f[x]
    <3>1. f[x] \in Nat
      OBVIOUS
    <3>2. g[x] \in {f[x], f[x] + 1}
      BY <1>2
    <3> QED  BY <3>1, <3>2
  <2>2. g = [x \in Request |-> g[x]]
    BY <1>2
  <2> QED  BY <2>1, <2>2
<1> QED  BY <1>1, <1>2

(* Whatever a request asks for, a command gets at most MaxTimeout.         *)
LEMMA EffectiveTimeoutBound ==
  ASSUME NEW t \in Timeouts
  PROVE  EffectiveTimeout(t) \in 0..MaxTimeout
<1>1. t \in Int /\ MaxTimeout \in Nat
  BY RequestAssumption DEF Timeouts
<1> QED  BY <1>1 DEF EffectiveTimeout, SmallerOf, LargerOf

(* An answer begins with the budget of a first post, or ends the request.  *)
LEMMA ReplyKeepsHoldInv ==
  ASSUME HoldInv, NEW r, NEW answer, Reply(r, answer),
         pc \in {"idle", "run"}
  PROVE  HoldInv'
<1>1. SendTimeout \in Nat /\ MaxTimeout \in Nat
  BY RequestAssumption
<1>2. held \in Nat /\ left \in Nat /\ held <= MaxTimeout
  BY <1>1 DEF HoldInv, HoldTypes, HoldBudget
<1>3. CASE up /\ answer = "fits"
  <2>1. pc' = "post" /\ left' = SendTimeout /\ attempt' = 1
        /\ held' = held /\ outcome' = outcome /\ copies' = copies
    BY <1>3 DEF Reply
  <2>2. HoldTypes'
    BY <1>1, <2>1 DEF HoldInv, HoldTypes
  <2>3. HoldBudget'
    BY <1>1, <1>2, <2>1 DEF HoldBudget
  <2> QED  BY <2>1, <2>2, <2>3 DEF HoldInv, TrueMeansDelivered
<1>4. CASE ~(up /\ answer = "fits")
  <2>1. /\ pc' = "idle" /\ left' = 0 /\ attempt' = 1 /\ held' = 0
        /\ outcome' = [outcome EXCEPT ![r] = "failed"] /\ copies' = copies
    BY <1>4 DEF Reply, Done
  <2>2. HoldTypes'
    BY <2>1, OutcomeTypes DEF HoldInv, HoldTypes, Outcomes
  <2>3. HoldBudget'
    BY <2>1 DEF HoldBudget
  <2>4. TrueMeansDelivered'
    BY <2>1 DEF HoldInv, HoldTypes, TrueMeansDelivered
  <2> QED  BY <2>2, <2>3, <2>4 DEF HoldInv
<1> QED  BY <1>3, <1>4

(* A handler that answers nobody ends the request.                         *)
LEMMA SilenceKeepsHoldInv ==
  ASSUME HoldInv, NEW r, NEW what \in Outcomes \ {"told"}, Done(r, what), copies' = copies
  PROVE  HoldInv'
<1>1. HoldTypes'
  BY OutcomeTypes DEF Done, HoldInv, HoldTypes
<1>2. HoldBudget'
  BY DEF Done, HoldBudget
<1>3. TrueMeansDelivered'
  BY DEF Done, HoldInv, HoldTypes, TrueMeansDelivered
<1> QED  BY <1>1, <1>2, <1>3 DEF HoldInv

(* A command starts with the whole budget, up to which it runs.            *)
LEMMA ExecKeepsHoldInv ==
  ASSUME HoldInv, pc = "idle", NEW r, NEW t \in Timeouts \cup {NoNumber}, NEW level \in Levels,
         HandleExec(r, t, level)
  PROVE  HoldInv'
<1>1. CASE t = NoNumber /\ Done(r, "silent") /\ UNCHANGED <<calls, copies>>
  BY <1>1, SilenceKeepsHoldInv DEF Outcomes
<1>2. CASE \E answer \in {"fits", "too large"} : Reply(r, answer)
  BY <1>2, ReplyKeepsHoldInv
<1>3. CASE /\ t # NoNumber
           /\ pc' = "run" /\ left' = EffectiveTimeout(t)
           /\ UNCHANGED <<attempt, held, copies, outcome>>
  <2>1. left' \in 0..MaxTimeout /\ MaxTimeout \in Nat
    BY <1>3, EffectiveTimeoutBound, RequestAssumption
  <2>2. held' = 0 /\ attempt' = attempt /\ copies' = copies /\ outcome' = outcome
    BY <1>3 DEF HoldInv, HoldBudget
  <2>3. HoldTypes'
    BY <1>3, <2>1, <2>2 DEF HoldInv, HoldTypes
  <2>4. HoldBudget'
    BY <1>3, <2>1, <2>2 DEF HoldBudget
  <2> QED  BY <2>2, <2>3, <2>4 DEF HoldInv, TrueMeansDelivered
<1> QED  BY <1>1, <1>2, <1>3 DEF HandleExec

LEMMA TakeKeepsHoldInv == ASSUME HoldInv, Take PROVE HoldInv'
<1> DEFINE r == Head(queue)
<1>1. pc = "idle" /\ Handle(r)
  BY DEF Take
<1>2. CASE \E t \in Timeouts \cup {NoNumber}, level \in Levels : HandleExec(r, t, level)
  BY <1>1, <1>2, ExecKeepsHoldInv
<1>3. CASE HandleList(r)
  BY <1>1, <1>3, ReplyKeepsHoldInv DEF HandleList
<1>4. CASE HandleRemove(r)
  BY <1>1, <1>4, ReplyKeepsHoldInv DEF HandleRemove
<1>5. CASE HandleMkdir(r)
  BY <1>1, <1>5, ReplyKeepsHoldInv, SilenceKeepsHoldInv DEF HandleMkdir, Outcomes
<1>6. CASE HandleStatus(r)
  BY <1>1, <1>6, ReplyKeepsHoldInv DEF HandleStatus
<1> QED  BY <1>1, <1>2, <1>3, <1>4, <1>5, <1>6 DEF Handle

(* Time spends what the present wait has left.                             *)
LEMMA TickKeepsHoldInv == ASSUME HoldInv, Tick PROVE HoldInv'
<1>1. pc' = pc /\ attempt' = attempt /\ copies' = copies /\ outcome' = outcome
  BY DEF Tick
<1>2. TrueMeansDelivered'
  BY <1>1 DEF HoldInv, TrueMeansDelivered
<1>3. CASE pc = "idle"
  BY <1>1, <1>2, <1>3 DEF Tick, HoldInv, HoldTypes, HoldBudget
<1>4. CASE pc # "idle"
  <2>1. left > 0 /\ left' = left - 1 /\ held' = held + 1
    BY <1>4 DEF Tick
  <2>2. left \in Nat /\ held \in Nat
    BY DEF HoldInv, HoldTypes
  <2>3. left' \in Nat /\ held' \in Nat /\ held' + left' = held + left
    BY <2>1, <2>2
  <2>4. HoldTypes'
    BY <1>1, <2>3 DEF HoldInv, HoldTypes
  <2>5. HoldBudget'
    BY <1>1, <1>4, <2>3 DEF HoldInv, HoldBudget
  <2> QED  BY <1>2, <2>4, <2>5 DEF HoldInv
<1> QED  BY <1>3, <1>4

(* Returning True goes with a copy at the relay.                           *)
LEMMA PostOkKeepsHoldInv == ASSUME HoldInv, PostOk PROVE HoldInv'
<1>1. /\ pc' = "idle" /\ left' = 0 /\ attempt' = 1 /\ held' = 0
      /\ outcome' = [outcome EXCEPT ![Current] = "told"]
      /\ copies' = [copies EXCEPT ![Current] = @ + 1]
  BY DEF PostOk, Done
<1>2. copies \in [Request -> Nat] /\ outcome \in [Request -> Outcomes]
  BY DEF HoldInv, HoldTypes
<1>3. copies' \in [Request -> Nat] /\ \A r \in Request : copies'[r] >= copies[r]
  <2>1. copies' \in {copies, [copies EXCEPT ![Current] = @ + 1]}
    BY <1>1
  <2> QED  BY <1>2, <2>1, CopiesGrow
<1>4. HoldTypes'
  BY <1>1, <1>2, <1>3 DEF HoldTypes, Outcomes
<1>5. HoldBudget'
  BY <1>1 DEF HoldBudget
<1>6. ASSUME NEW r \in Request, outcome'[r] = "told"  PROVE copies'[r] >= 1
  <2>1. CASE r = Current
    BY <1>1, <1>2, <2>1
  <2>2. CASE r # Current
    BY <1>1, <1>2, <1>6, <2>2 DEF HoldInv, TrueMeansDelivered
  <2> QED  BY <2>1, <2>2
<1> QED  BY <1>4, <1>5, <1>6 DEF HoldInv, TrueMeansDelivered

(* The fallback has a post of its own, and nothing comes after it.         *)
LEMMA PostFailsKeepsHoldInv == ASSUME HoldInv, PostFails PROVE HoldInv'
<1>1. pc = "post" /\ copies' \in {copies, [copies EXCEPT ![Current] = @ + 1]}
  BY DEF PostFails
<1>2. /\ copies \in [Request -> Nat] /\ outcome \in [Request -> Outcomes]
      /\ attempt \in 1..2 /\ held \in Nat /\ left \in Nat
      /\ SendTimeout \in Nat /\ MaxTimeout \in Nat
  BY RequestAssumption DEF HoldInv, HoldTypes
<1>3. copies' \in [Request -> Nat] /\ \A r \in Request : copies'[r] >= copies[r]
  BY <1>1, <1>2, CopiesGrow
<1>4. CASE attempt = 1 /\ up
  <2>1. pc' = "post" /\ left' = SendTimeout /\ attempt' = 2 /\ held' = held /\ outcome' = outcome
    BY <1>4 DEF PostFails
  <2>2. held <= MaxTimeout + SendTimeout
    BY <1>1, <1>2, <1>4 DEF HoldInv, HoldBudget
  <2>3. HoldTypes'
    BY <1>2, <1>3, <2>1 DEF HoldTypes
  <2>4. HoldBudget'
    BY <1>2, <2>1, <2>2 DEF HoldBudget
  <2>5. TrueMeansDelivered'
    BY <1>2, <1>3, <2>1 DEF HoldInv, TrueMeansDelivered
  <2> QED  BY <2>3, <2>4, <2>5 DEF HoldInv
<1>5. CASE ~(attempt = 1 /\ up)
  <2>1. /\ pc' = "idle" /\ left' = 0 /\ attempt' = 1 /\ held' = 0
        /\ outcome' = [outcome EXCEPT ![Current] = "failed"]
    BY <1>5 DEF PostFails, Done
  <2>2. HoldTypes'
    BY <1>2, <1>3, <2>1, OutcomeTypes DEF HoldTypes, Outcomes
  <2>3. HoldBudget'
    BY <2>1 DEF HoldBudget
  <2>4. TrueMeansDelivered'
    BY <1>2, <1>3, <2>1 DEF HoldInv, TrueMeansDelivered
  <2> QED  BY <2>2, <2>3, <2>4 DEF HoldInv
<1> QED  BY <1>4, <1>5

LEMMA RestartKeepsHoldInv == ASSUME HoldInv, Restart PROVE HoldInv'
<1>1. pc' = "idle" /\ left' = 0 /\ attempt' = 1 /\ held' = 0 /\ copies' = copies
  BY DEF Restart
<1>2. /\ outcome' \in [Request -> Outcomes]
      /\ \A r \in Request : outcome'[r] \in {"none", outcome[r]}
  BY DEF Restart, HoldInv, HoldTypes, Outcomes
<1> QED  BY <1>1, <1>2 DEF HoldInv, HoldTypes, HoldBudget, TrueMeansDelivered

LEMMA ExpireKeepsHoldInv == ASSUME HoldInv, Expire PROVE HoldInv'
<1>1. /\ pc' = pc /\ left' = left /\ attempt' = attempt /\ held' = held /\ copies' = copies
      /\ outcome' = [outcome EXCEPT ![Head(queue)] = "expired"]
  BY DEF Expire
<1>2. HoldTypes' /\ HoldBudget'
  BY <1>1 DEF HoldInv, HoldTypes, HoldBudget, Outcomes
<1>3. TrueMeansDelivered'
  BY <1>1 DEF HoldInv, HoldTypes, TrueMeansDelivered
<1> QED  BY <1>2, <1>3 DEF HoldInv

(* The budget of a request is never overdrawn, and True is never said of   *)
(* an answer that did not reach the relay.                                 *)
THEOREM RequestsInvariant == Spec => []HoldInv
<1>1. Init => HoldInv
  BY DEF Init, HoldInv, HoldTypes, HoldBudget, TrueMeansDelivered, Outcomes
<1>2. HoldInv /\ [Next]_vars => HoldInv'
  <2> SUFFICES ASSUME HoldInv, [Next]_vars  PROVE HoldInv'
    OBVIOUS
  <2>1. ASSUME NEW r \in Request, NEW p \in Peer, NEW kind \in Kinds, SendRequest(r, p, kind)
        PROVE  HoldInv'
    BY <2>1 DEF SendRequest, answering, HoldInv, HoldTypes, HoldBudget, TrueMeansDelivered
  <2>2. CASE Tick
    BY <2>2, TickKeepsHoldInv
  <2>3. CASE Stop
    BY <2>3 DEF Stop, answering, HoldInv, HoldTypes, HoldBudget, TrueMeansDelivered
  <2>4. CASE Restart
    BY <2>4, RestartKeepsHoldInv
  <2>5. CASE Take
    BY <2>5, TakeKeepsHoldInv
  <2>6. CASE Expire
    BY <2>6, ExpireKeepsHoldInv
  <2>7. CASE CommandEnds
    BY <2>7, ReplyKeepsHoldInv DEF CommandEnds
  <2>8. CASE CommandTimesOut
    BY <2>8, ReplyKeepsHoldInv DEF CommandTimesOut
  <2>9. CASE PostOk
    BY <2>9, PostOkKeepsHoldInv
  <2>10. CASE PostFails
    BY <2>10, PostFailsKeepsHoldInv
  <2>11. CASE UNCHANGED vars
    BY <2>11 DEF vars, answering, HoldInv, HoldTypes, HoldBudget, TrueMeansDelivered
  <2> QED  BY <2>1, <2>2, <2>3, <2>4, <2>5, <2>6, <2>7, <2>8, <2>9, <2>10, <2>11 DEF Next
<1> QED  BY <1>1, <1>2, PTL DEF Spec

(* One request keeps the others waiting for at most a command and two      *)
(* posts, whatever time-out it asks for.                                   *)
THEOREM RequestsAreHeldBriefly == Spec => []HoldBound
<1>1. HoldInv => HoldBound
  <2> SUFFICES ASSUME HoldInv  PROVE HoldBound
    OBVIOUS
  <2>1. /\ SendTimeout \in Nat /\ MaxTimeout \in Nat
        /\ held \in Nat /\ left \in Nat /\ attempt \in 1..2
    BY RequestAssumption DEF HoldInv, HoldTypes
  <2>2. CASE pc = "idle"
    BY <2>1, <2>2 DEF HoldInv, HoldBudget, HoldBound
  <2>3. CASE pc = "run"
    BY <2>1, <2>3 DEF HoldInv, HoldBudget, HoldBound
  <2>4. CASE pc = "post"
    BY <2>1, <2>4 DEF HoldInv, HoldBudget, HoldBound
  <2> QED  BY <2>2, <2>3, <2>4 DEF HoldInv, HoldTypes
<1> QED  BY <1>1, RequestsInvariant, PTL

(* When send has returned True the relay has a copy of the answer.         *)
THEOREM TrueIsDelivered == Spec => []TrueMeansDelivered
<1>1. HoldInv => TrueMeansDelivered
  BY DEF HoldInv
<1> QED  BY <1>1, RequestsInvariant, PTL

-----------------------------------------------------------------------------
(* A request is served once by each process                                *)

Members(s) == {s[i] : i \in 1..Len(s)}
Once(s) == \A i, j \in 1..Len(s) : s[i] = s[j] => i = j

(* Types of what the answer to a request does not touch.                   *)
QueueTypes ==
  /\ asks \in [Request -> Asks \cup {NoRequest}]
  /\ age \in [Request -> NotSent..(Tolerance + 1)]
  /\ \A r \in Request : asks[r] = NoRequest <=> age[r] = NotSent
  /\ queue \in Seq(Request) /\ taken \in Seq(Request)
  /\ up \in BOOLEAN /\ boots \in 0..MaxBoots

(* What is sent is at most once in the queue or among what was taken.      *)
EachOnce ==
  /\ Once(taken) /\ Once(queue)
  /\ Members(taken) \cap Members(queue) = {}
  /\ \A r \in Members(taken) \cup Members(queue) : age[r] # NotSent

CallTypes ==
  /\ calls \in [Peer -> Seq(0..(Window + 1))]
  /\ \A p \in Peer : Len(calls[p]) <= MaxCalls

AnswerTypes ==
  /\ pc \in {"idle", "run", "post"}
  /\ (pc # "idle") => (taken # <<>>)
  /\ left \in 0..(IF pc = "run" THEN MaxTimeout ELSE SendTimeout)
  /\ attempt \in 1..2 /\ held \in Nat
  /\ copies \in [Request -> Nat]
  /\ outcome \in [Request -> Outcomes]

(* The copies of an answer that this process may have sent so far.         *)
Posts(r) ==
  IF r \notin Members(taken) THEN 0
  ELSE IF pc = "idle" \/ r # Current THEN 2
  ELSE IF pc = "run" THEN 0 ELSE attempt - 1

CopiesBudget == \A r \in Request : copies[r] <= 2 * boots + Posts(r)

ServedInv == QueueTypes /\ EachOnce /\ CallTypes /\ AnswerTypes /\ CopiesBudget

(* A sequence has a length, and entries from its set.                      *)
LEMMA MembersAreRequests ==
  ASSUME NEW s \in Seq(Request)
  PROVE  /\ Len(s) \in Nat
         /\ \A i \in 1..Len(s) : s[i] \in Request
         /\ Members(s) \subseteq Request
         /\ s # <<>> => Len(s) \in 1..Len(s) /\ s[Len(s)] \in Members(s)
<1>1. Len(s) \in Nat /\ \A i \in 1..Len(s) : s[i] \in Request
  BY LenProperties, ElementOfSeq
<1>2. s # <<>> => Len(s) \in Nat \ {0}
  BY EmptySeq
<1>3. s # <<>> => Len(s) \in 1..Len(s)
  BY <1>1, <1>2
<1> QED  BY <1>1, <1>3 DEF Members

(* What is appended is one member more.                                    *)
LEMMA MembersAfterAppend ==
  ASSUME NEW s \in Seq(Request), NEW r \in Request
  PROVE  /\ Append(s, r) \in Seq(Request) /\ Append(s, r) # <<>>
         /\ Members(Append(s, r)) = Members(s) \cup {r}
         /\ Append(s, r)[Len(Append(s, r))] = r
         /\ Once(s) /\ r \notin Members(s) => Once(Append(s, r))
<1> DEFINE w == Append(s, r)
<1>1. /\ w \in Seq(Request) /\ w # <<>> /\ Len(w) = Len(s) + 1
      /\ \A i \in 1..Len(s) : w[i] = s[i]
      /\ w[Len(s) + 1] = r
  BY AppendProperties
<1>2. Len(s) \in Nat
  BY LenProperties
<1> HIDE DEF w
<1>3. \A i \in 1..Len(w) : i \in 1..Len(s) \/ i = Len(s) + 1
  BY <1>1, <1>2
<1>4. \A i \in 1..Len(s) : i \in 1..Len(w)
  BY <1>1, <1>2
<1>5. Len(s) + 1 \in 1..Len(w)
  BY <1>1, <1>2
<1>6. Members(w) = Members(s) \cup {r}
  BY <1>1, <1>3, <1>4, <1>5 DEF Members
<1>7. ASSUME Once(s), r \notin Members(s)  PROVE Once(w)
  <2> SUFFICES ASSUME NEW i \in 1..Len(w), NEW j \in 1..Len(w), w[i] = w[j]
               PROVE  i = j
    BY DEF Once
  <2>1. \A k \in 1..Len(s) : s[k] # r
    BY <1>7 DEF Members
  <2> QED  BY <1>1, <1>3, <1>7, <2>1 DEF Once
<1> QED  BY <1>1, <1>6, <1>7 DEF w

(* The head is a member that the tail has not.                             *)
LEMMA MembersAfterTail ==
  ASSUME NEW s \in Seq(Request), s # <<>>, Once(s)
  PROVE  /\ Head(s) \in Request /\ Tail(s) \in Seq(Request)
         /\ Members(s) = Members(Tail(s)) \cup {Head(s)}
         /\ Head(s) \notin Members(Tail(s))
         /\ Once(Tail(s))
<1> DEFINE w == Tail(s)
<1>1. /\ Head(s) \in Request /\ w \in Seq(Request)
      /\ Len(w) = Len(s) - 1
      /\ \A i \in 1..Len(w) : w[i] = s[i + 1]
  BY HeadTailProperties
<1>2. Len(s) \in Nat \ {0}
  BY EmptySeq
<1>3. Head(s) = s[1]
  OBVIOUS
<1> HIDE DEF w
<1>4. 1 \in 1..Len(s) /\ \A i \in 1..Len(w) : i + 1 \in 1..Len(s) /\ i + 1 # 1
  BY <1>1, <1>2
<1>5. \A i \in 1..Len(s) : i = 1 \/ (i - 1 \in 1..Len(w) /\ (i - 1) + 1 = i)
  BY <1>1, <1>2
<1>6. \A i, j \in 1..Len(w) : i + 1 = j + 1 => i = j
  BY <1>1, <1>2
<1>7. Members(s) = Members(w) \cup {Head(s)}
  <2>1. ASSUME NEW x \in Members(s)  PROVE x \in Members(w) \cup {Head(s)}
    <3>1. PICK i \in 1..Len(s) : x = s[i]
      BY <2>1 DEF Members
    <3>2. CASE i = 1
      BY <1>3, <3>1, <3>2
    <3>3. CASE i - 1 \in 1..Len(w) /\ (i - 1) + 1 = i
      <4>1. w[i - 1] = x
        BY <1>1, <3>1, <3>3
      <4> QED  BY <3>3, <4>1 DEF Members
    <3> QED  BY <1>5, <3>2, <3>3
  <2>2. Members(w) \subseteq Members(s)
    BY <1>1, <1>4 DEF Members
  <2>3. Head(s) \in Members(s)
    BY <1>3, <1>4 DEF Members
  <2> QED  BY <2>1, <2>2, <2>3
<1>8. Head(s) \notin Members(w)
  BY <1>1, <1>3, <1>4 DEF Members, Once
<1>9. Once(w)
  BY <1>1, <1>4, <1>6 DEF Once
<1> QED  BY <1>1, <1>7, <1>8, <1>9 DEF w

(* What the relay repeats, before what it has not sent yet.                *)
LEMMA MembersAfterRequeue ==
  ASSUME NEW s \in Seq(Request), NEW t \in Seq(Request), NEW k \in 0..Len(s),
         Once(s), Once(t), Members(s) \cap Members(t) = {}
  PROVE  LET w == SubSeq(s, k + 1, Len(s)) \o t
         IN  /\ w \in Seq(Request) /\ Once(w)
             /\ Members(w) \subseteq Members(s) \cup Members(t)
<1> DEFINE u == SubSeq(s, k + 1, Len(s))
           w == u \o t
           n == Len(s) - k
<1>1. Len(s) \in Nat /\ Len(t) \in Nat /\ k \in Nat /\ n \in Nat
      /\ \A i \in (k + 1)..Len(s) : s[i] \in Request
  BY LenProperties, ElementOfSeq
<1>2. /\ u \in Seq(Request)
      /\ Len(u) = IF k + 1 <= Len(s) THEN Len(s) - (k + 1) + 1 ELSE 0
      /\ \A i \in 1..(Len(s) - (k + 1) + 1) : u[i] = s[(k + 1) + i - 1]
  BY <1>1, SubSeqProperties
<1>3. Len(u) = n /\ \A i \in 1..n : u[i] = s[k + i]
  BY <1>1, <1>2
<1> HIDE DEF u
<1>4. /\ w \in Seq(Request) /\ Len(w) = n + Len(t)
      /\ \A i \in 1..n + Len(t) : w[i] = IF i <= n THEN u[i] ELSE t[i - n]
  <2>1. /\ w \in Seq(Request) /\ Len(w) = Len(u) + Len(t)
        /\ \A i \in 1..Len(u) + Len(t) : w[i] = IF i <= Len(u) THEN u[i] ELSE t[i - Len(u)]
    BY <1>2, ConcatProperties
  <2> HIDE DEF w, n
  <2> QED  BY <1>3, <2>1
<1> HIDE DEF w
<1>5. ASSUME NEW i \in 1..Len(w)
      PROVE  \/ i <= n /\ k + i \in 1..Len(s) /\ w[i] = s[k + i]
             \/ i > n /\ i - n \in 1..Len(t) /\ w[i] = t[i - n]
  BY <1>1, <1>3, <1>4
<1>6. Members(w) \subseteq Members(s) \cup Members(t)
  BY <1>5 DEF Members
<1>7. Once(w)
  <2> SUFFICES ASSUME NEW i \in 1..Len(w), NEW j \in 1..Len(w), w[i] = w[j]
               PROVE  i = j
    BY DEF Once
  <2>1. CASE i <= n /\ j <= n
    <3>1. k + i = k + j
      BY <1>1, <1>5, <2>1 DEF Once
    <3> QED  BY <1>1, <3>1
  <2>2. CASE i > n /\ j > n
    <3>1. /\ i - n \in 1..Len(t) /\ w[i] = t[i - n] /\ i \in Nat
          /\ j - n \in 1..Len(t) /\ w[j] = t[j - n] /\ j \in Nat
      <4> HIDE DEF n
      <4> QED  BY <1>1, <1>5, <2>2
    <3>2. i - n = j - n
      BY <3>1 DEF Once
    <3> QED  BY <1>1, <3>1, <3>2
  <2>3. CASE (i <= n /\ j > n) \/ (i > n /\ j <= n)
    <3>1. ASSUME NEW x \in 1..Len(w), NEW y \in 1..Len(w), x <= n, y > n, w[x] = w[y]
          PROVE  FALSE
      <4> HIDE DEF n
      <4>1. k + x \in 1..Len(s) /\ w[x] = s[k + x]
        BY <1>1, <1>5, <3>1
      <4>2. y - n \in 1..Len(t) /\ w[y] = t[y - n]
        BY <1>1, <1>5, <3>1
      <4>3. w[x] \in Members(s) /\ w[y] \in Members(t)
        BY <4>1, <4>2 DEF Members
      <4> QED  BY <3>1, <4>3
    <3> QED  BY <2>3, <3>1
  <2> QED  BY <1>1, <1>4, <2>1, <2>2, <2>3
<1> QED  BY <1>4, <1>6, <1>7 DEF w, u

(* The next request leaves the queue, for the first time in this process.  *)
MovesOn ==
  /\ queue # <<>>
  /\ queue' = Tail(queue) /\ taken' = Append(taken, Head(queue))
  /\ UNCHANGED <<asks, age, up, boots>>

LEMMA MovingOnKeepsOnce ==
  ASSUME QueueTypes, EachOnce, MovesOn
  PROVE  /\ QueueTypes' /\ EachOnce'
         /\ Head(queue) \in Request /\ Head(queue) \notin Members(taken)
         /\ age[Head(queue)] # NotSent
         /\ taken' # <<>> /\ Current' = Head(queue)
         /\ Members(taken') = Members(taken) \cup {Head(queue)}
<1> DEFINE r == Head(queue)
<1>1. queue \in Seq(Request) /\ taken \in Seq(Request) /\ queue # <<>> /\ Once(queue) /\ Once(taken)
  BY DEF QueueTypes, EachOnce, MovesOn
<1>2. /\ r \in Request /\ queue' \in Seq(Request) /\ Once(queue')
      /\ Members(queue) = Members(queue') \cup {r} /\ r \notin Members(queue')
  BY <1>1, MembersAfterTail DEF MovesOn
<1>3. r \notin Members(taken) /\ age[r] # NotSent
  BY <1>2 DEF EachOnce
<1>4. /\ taken' \in Seq(Request) /\ taken' # <<>> /\ Once(taken')
      /\ Members(taken') = Members(taken) \cup {r} /\ taken'[Len(taken')] = r
  BY <1>1, <1>2, <1>3, MembersAfterAppend DEF MovesOn
<1> HIDE DEF r
<1>5. age' = age
  BY DEF MovesOn
<1>6. EachOnce'
  BY <1>2, <1>4, <1>5 DEF EachOnce
<1>7. QueueTypes'
  BY <1>2, <1>4 DEF QueueTypes, MovesOn
<1> QED  BY <1>2, <1>3, <1>4, <1>6, <1>7 DEF Current, r

(* The limiter stays within its limit, whatever it pops.                   *)
LEMMA LimiterKeepsTypes ==
  ASSUME CallTypes, NEW p \in Peer, NEW recent \in Recent(p),
         \/ calls' = [calls EXCEPT ![p] = recent]
         \/ Charge(p, recent)
  PROVE  CallTypes'
<1> DEFINE Ages == 0..(Window + 1)
<1>1. Window \in Nat /\ MaxCalls \in Nat \ {0} /\ 0 \in Ages
  BY RequestAssumption
<1>2. calls[p] \in Seq(Ages) /\ Len(calls[p]) <= MaxCalls
  BY DEF CallTypes
<1> HIDE DEF Ages
<1>3. PICK k \in 0..Len(calls[p]) : recent = SubSeq(calls[p], k + 1, Len(calls[p]))
  BY DEF Recent, Popped
<1>4. Len(calls[p]) \in Nat /\ \A i \in (k + 1)..Len(calls[p]) : calls[p][i] \in Ages
  BY <1>2, LenProperties, ElementOfSeq
<1>5. /\ recent \in Seq(Ages)
      /\ Len(recent) = IF k + 1 <= Len(calls[p]) THEN Len(calls[p]) - (k + 1) + 1 ELSE 0
  BY <1>3, <1>4, SubSeqProperties
<1>6. Len(recent) \in Nat /\ Len(recent) <= MaxCalls
  BY <1>1, <1>2, <1>4, <1>5
<1>7. PICK new \in Seq(Ages) : Len(new) <= MaxCalls /\ calls' = [calls EXCEPT ![p] = new]
  <2>1. CASE calls' = [calls EXCEPT ![p] = recent]
    BY <1>5, <1>6, <2>1
  <2>2. CASE Charge(p, recent)
    <3>1. Append(recent, 0) \in Seq(Ages) /\ Len(Append(recent, 0)) = Len(recent) + 1
      BY <1>1, <1>5, AppendProperties
    <3>2. Len(recent) < MaxCalls /\ calls' = [calls EXCEPT ![p] = Append(recent, 0)]
      BY <2>2 DEF Charge
    <3>3. Len(recent) + 1 <= MaxCalls
      BY <1>1, <1>6, <3>2
    <3> QED  BY <3>1, <3>2, <3>3
  <2> QED  BY <2>1, <2>2
<1>8. calls \in [Peer -> Seq(Ages)] /\ \A q \in Peer : Len(calls[q]) <= MaxCalls
  BY DEF CallTypes, Ages
<1>9. calls' \in [Peer -> Seq(Ages)] /\ \A q \in Peer : Len(calls'[q]) <= MaxCalls
  BY <1>7, <1>8
<1> QED  BY <1>9 DEF CallTypes, Ages

(* How the handling of a request begins, or goes on with the answer to a   *)
(* command: nothing is posted in this very step.                           *)
Begins ==
  /\ copies' = copies
  /\ attempt' \in 1..2 /\ held' \in Nat
  /\ outcome' \in [Request -> Outcomes]
  /\ \/ pc' = "post" /\ left' = SendTimeout /\ attempt' = 1
     \/ pc' = "idle" /\ left' = 0
     \/ pc' = "run" /\ left' \in 0..MaxTimeout

LEMMA ReplyBegins ==
  ASSUME AnswerTypes, NEW r, NEW answer, Reply(r, answer)
  PROVE  Begins
<1>1. held \in Nat /\ outcome \in [Request -> Outcomes]
  BY DEF AnswerTypes
<1>2. CASE up /\ answer = "fits"
  BY <1>1, <1>2 DEF Reply, Begins
<1>3. CASE ~(up /\ answer = "fits")
  BY <1>1, <1>3, OutcomeTypes DEF Reply, Done, Begins, Outcomes
<1> QED  BY <1>2, <1>3

LEMMA SilenceBegins ==
  ASSUME AnswerTypes, NEW r, Done(r, "silent"), copies' = copies
  PROVE  Begins
<1>1. outcome \in [Request -> Outcomes] /\ "silent" \in Outcomes
  BY DEF AnswerTypes, Outcomes
<1> QED  BY <1>1, OutcomeTypes DEF Done, Begins

LEMMA HandlingBegins ==
  ASSUME AnswerTypes, CallTypes, NEW r, asks[r] \in Asks, Handle(r)
  PROVE  Begins /\ CallTypes'
<1>1. asks[r].from \in Peer
  BY DEF Asks
<1>2. ASSUME calls' = calls  PROVE CallTypes'
  BY <1>2 DEF CallTypes
<1>3. ASSUME NEW t \in Timeouts \cup {NoNumber}, NEW level \in Levels, HandleExec(r, t, level)
      PROVE  Begins /\ CallTypes'
  <2> DEFINE p == asks[r].from
  <2>1. CASE Done(r, "silent") /\ UNCHANGED <<calls, copies>>
    BY <1>2, <2>1, SilenceBegins
  <2>2. CASE /\ \E recent \in Recent(p) : calls' = [calls EXCEPT ![p] = recent]
             /\ \E answer \in {"fits", "too large"} : Reply(r, answer)
    BY <1>1, <2>2, ReplyBegins, LimiterKeepsTypes
  <2>3. CASE /\ \E recent \in Recent(p) : Charge(p, recent)
             /\ \E answer \in {"fits", "too large"} : Reply(r, answer)
    BY <1>1, <2>3, ReplyBegins, LimiterKeepsTypes
  <2>4. CASE /\ t # NoNumber
             /\ \E recent \in Recent(p) : Charge(p, recent)
             /\ pc' = "run" /\ left' = EffectiveTimeout(t)
             /\ UNCHANGED <<attempt, held, copies, outcome>>
    <3>1. CallTypes'
      BY <1>1, <2>4, LimiterKeepsTypes
    <3>2. left' \in 0..MaxTimeout
      BY <2>4, EffectiveTimeoutBound
    <3>3. attempt' \in 1..2 /\ held' \in Nat /\ outcome' \in [Request -> Outcomes]
      BY <2>4 DEF AnswerTypes
    <3> QED  BY <2>4, <3>1, <3>2, <3>3 DEF Begins
  <2> QED  BY <1>3, <2>1, <2>2, <2>3, <2>4 DEF HandleExec
<1>4. CASE HandleList(r)
  BY <1>2, <1>4, ReplyBegins DEF HandleList
<1>5. CASE HandleRemove(r)
  BY <1>2, <1>5, ReplyBegins DEF HandleRemove
<1>6. CASE HandleMkdir(r)
  BY <1>2, <1>6, ReplyBegins, SilenceBegins DEF HandleMkdir
<1>7. CASE HandleStatus(r)
  BY <1>2, <1>7, ReplyBegins DEF HandleStatus
<1> QED  BY <1>3, <1>4, <1>5, <1>6, <1>7 DEF Handle

(* Whoever is served now has the copies that earlier processes sent.       *)
LEMMA BeginningKeepsBudget ==
  ASSUME AnswerTypes, Begins, taken' # <<>>, boots' = boots, boots \in Nat,
         \A r \in Request :
           copies[r] <= 2 * boots + (IF r \notin Members(taken') \/ r = Current' THEN 0 ELSE 2)
  PROVE  AnswerTypes' /\ CopiesBudget'
<1>1. /\ copies' = copies /\ copies \in [Request -> Nat]
      /\ attempt' \in 1..2 /\ held' \in Nat /\ outcome' \in [Request -> Outcomes]
      /\ SendTimeout \in Nat
  BY RequestAssumption DEF Begins, AnswerTypes
<1>2. AnswerTypes'
  <2>1. CASE pc' = "post" /\ left' = SendTimeout
    BY <1>1, <2>1 DEF AnswerTypes
  <2>2. CASE pc' = "idle" /\ left' = 0
    BY <1>1, <2>2 DEF AnswerTypes
  <2>3. CASE pc' = "run" /\ left' \in 0..MaxTimeout
    BY <1>1, <2>3 DEF AnswerTypes
  <2> QED  BY <2>1, <2>2, <2>3 DEF Begins
<1>3. ASSUME NEW r \in Request  PROVE copies'[r] <= 2 * boots' + Posts(r)'
  <2>1. copies[r] \in Nat /\ copies'[r] = copies[r]
    BY <1>1
  <2>2. CASE r \notin Members(taken')
    BY <2>1, <2>2 DEF Posts
  <2>3. CASE r \in Members(taken') /\ (pc' = "idle" \/ r # Current')
    BY <2>1, <2>3 DEF Posts
  <2>4. CASE r \in Members(taken') /\ pc' # "idle" /\ r = Current'
    <3>1. Posts(r)' = 0
      <4>1. CASE pc' = "run"
        BY <2>4, <4>1 DEF Posts
      <4>2. CASE pc' = "post" /\ attempt' = 1
        BY <2>4, <4>2 DEF Posts
      <4> QED  BY <2>4, <4>1, <4>2 DEF Begins
    <3> QED  BY <2>1, <2>4, <3>1
  <2> QED  BY <2>2, <2>3, <2>4
<1> QED  BY <1>2, <1>3 DEF CopiesBudget

LEMMA SendKeepsServed ==
  ASSUME ServedInv, NEW r \in Request, NEW p \in Peer, NEW kind \in Kinds,
         SendRequest(r, p, kind)
  PROVE  ServedInv'
<1>1. /\ age[r] = NotSent /\ queue' = Append(queue, r)
      /\ asks' = [asks EXCEPT ![r] = [from |-> p, kind |-> kind]]
      /\ age' = [age EXCEPT ![r] = 0]
      /\ taken' = taken /\ calls' = calls /\ up' = up /\ boots' = boots
      /\ pc' = pc /\ left' = left /\ attempt' = attempt /\ held' = held
      /\ copies' = copies /\ outcome' = outcome
  BY DEF SendRequest, answering
<1>2. r \notin Members(taken) /\ r \notin Members(queue)
  BY <1>1 DEF ServedInv, EachOnce
<1>3. /\ queue' \in Seq(Request) /\ Once(queue')
      /\ Members(queue') = Members(queue) \cup {r}
  BY <1>1, <1>2, MembersAfterAppend DEF ServedInv, QueueTypes, EachOnce
<1>4. /\ asks \in [Request -> Asks \cup {NoRequest}]
      /\ age \in [Request -> NotSent..(Tolerance + 1)]
      /\ \A x \in Request : asks[x] = NoRequest <=> age[x] = NotSent
  BY DEF ServedInv, QueueTypes
<1>5. /\ [from |-> p, kind |-> kind] \in Asks /\ [from |-> p, kind |-> kind] # NoRequest
      /\ 0 \in NotSent..(Tolerance + 1) /\ 0 # NotSent
  <2>1. kind # "none" /\ [from |-> p, kind |-> kind].kind = kind /\ NoRequest.kind = "none"
    BY DEF Kinds, NoRequest
  <2> QED  BY <2>1, RequestAssumption DEF Asks, NotSent
<1>6. QueueTypes'
  <2>1. asks' \in [Request -> Asks \cup {NoRequest}]
    BY <1>1, <1>4, <1>5
  <2>2. age' \in [Request -> NotSent..(Tolerance + 1)]
    BY <1>1, <1>4, <1>5
  <2>3. ASSUME NEW x \in Request  PROVE asks'[x] = NoRequest <=> age'[x] = NotSent
    <3>1. CASE x = r
      BY <1>1, <1>4, <1>5, <3>1
    <3>2. CASE x # r
      BY <1>1, <1>4, <3>2
    <3> QED  BY <3>1, <3>2
  <2> QED  BY <1>1, <1>3, <2>1, <2>2, <2>3 DEF ServedInv, QueueTypes
<1>7. EachOnce'
  <2>1. ASSUME NEW x \in Members(taken) \cup Members(queue) \cup {r}  PROVE age'[x] # NotSent
    <3>1. Members(taken) \subseteq Request /\ Members(queue) \subseteq Request
      BY MembersAreRequests DEF ServedInv, QueueTypes
    <3>2. CASE x = r
      BY <1>1, <1>4, <1>5, <3>2
    <3>3. CASE x # r
      <4>1. x \in Request /\ age[x] # NotSent
        BY <2>1, <3>1, <3>3 DEF ServedInv, EachOnce
      <4> QED  BY <1>1, <1>4, <3>3, <4>1
    <3> QED  BY <3>2, <3>3
  <2> QED  BY <1>1, <1>2, <1>3, <2>1 DEF ServedInv, EachOnce
<1>8. CallTypes' /\ AnswerTypes'
  BY <1>1 DEF ServedInv, CallTypes, AnswerTypes
<1>9. CopiesBudget'
  BY <1>1 DEF ServedInv, CopiesBudget, Posts, Current
<1> QED  BY <1>6, <1>7, <1>8, <1>9 DEF ServedInv

(* Time makes envelopes and calls older, up to the age that is enough.     *)
LEMMA TickKeepsServed == ASSUME ServedInv, Tick PROVE ServedInv'
<1>1. /\ asks' = asks /\ queue' = queue /\ taken' = taken /\ pc' = pc /\ attempt' = attempt
      /\ up' = up /\ copies' = copies /\ outcome' = outcome /\ boots' = boots
      /\ age' = [r \in Request |->
                   IF age[r] = NotSent THEN NotSent ELSE SmallerOf(age[r] + 1, Tolerance + 1)]
      /\ calls' = [p \in Peer |-> [i \in 1..Len(calls[p]) |->
                                     SmallerOf(calls[p][i] + 1, Window + 1)]]
  BY DEF Tick
<1>2. /\ Tolerance \in Nat /\ Window \in Nat
  BY RequestAssumption
<1>3. ASSUME NEW r \in Request
      PROVE  /\ age'[r] \in NotSent..(Tolerance + 1)
             /\ age'[r] = NotSent <=> age[r] = NotSent
  <2>1. age[r] \in NotSent..(Tolerance + 1)
    BY DEF ServedInv, QueueTypes
  <2>2. age'[r] = IF age[r] = NotSent THEN NotSent ELSE SmallerOf(age[r] + 1, Tolerance + 1)
    BY <1>1
  <2> QED  BY <1>2, <2>1, <2>2 DEF SmallerOf, NotSent
<1>4. QueueTypes'
  <2>1. age' \in [Request -> NotSent..(Tolerance + 1)]
    BY <1>1, <1>3
  <2> QED  BY <1>1, <1>3, <2>1 DEF ServedInv, QueueTypes
<1>5. EachOnce'
  <2>1. Members(taken) \subseteq Request /\ Members(queue) \subseteq Request
    BY MembersAreRequests DEF ServedInv, QueueTypes
  <2> QED  BY <1>1, <1>3, <2>1 DEF ServedInv, EachOnce
<1>6. ASSUME NEW p \in Peer
      PROVE  calls'[p] \in Seq(0..(Window + 1)) /\ Len(calls'[p]) <= MaxCalls
  <2> DEFINE Ages == 0..(Window + 1)
             s == calls[p]
             w == [i \in 1..Len(s) |-> SmallerOf(s[i] + 1, Window + 1)]
  <2>1. s \in Seq(Ages) /\ Len(s) <= MaxCalls
    BY DEF ServedInv, CallTypes
  <2>2. Len(s) \in Nat /\ \A i \in 1..Len(s) : s[i] \in Ages
    BY <2>1, LenProperties, ElementOfSeq
  <2>3. \A i \in 1..Len(s) : SmallerOf(s[i] + 1, Window + 1) \in Ages
    BY <1>2, <2>2 DEF SmallerOf
  <2>4. calls'[p] = w
    BY <1>1
  <2> HIDE DEF s, Ages
  <2>5. w \in [1..Len(s) -> Ages]
    BY <2>3
  <2> HIDE DEF w
  <2>6. w \in Seq(Ages) /\ Len(w) = Len(s)
    BY <2>2, <2>5
  <2> QED  BY <2>1, <2>4, <2>6 DEF Ages
<1>7. CallTypes'
  <2>1. DOMAIN calls' = Peer /\ calls' = [p \in Peer |-> calls'[p]]
    BY <1>1
  <2> QED  BY <1>6, <2>1 DEF CallTypes
<1>8. AnswerTypes'
  <2>1. CASE pc = "idle"
    BY <1>1, <2>1 DEF Tick, ServedInv, AnswerTypes
  <2>2. CASE pc # "idle"
    <3>1. left > 0 /\ left' = left - 1 /\ held' = held + 1
      BY <2>2 DEF Tick
    <3>2. /\ left \in 0..(IF pc = "run" THEN MaxTimeout ELSE SendTimeout) /\ held \in Nat
          /\ MaxTimeout \in Nat /\ SendTimeout \in Nat
      BY RequestAssumption DEF ServedInv, AnswerTypes
    <3>3. left' \in 0..(IF pc = "run" THEN MaxTimeout ELSE SendTimeout) /\ held' \in Nat
      BY <3>1, <3>2
    <3> QED  BY <1>1, <3>3 DEF ServedInv, AnswerTypes
  <2> QED  BY <2>1, <2>2
<1>9. CopiesBudget'
  BY <1>1 DEF ServedInv, CopiesBudget, Posts, Current
<1> QED  BY <1>4, <1>5, <1>7, <1>8, <1>9 DEF ServedInv

(* A new process has two copies more to give for each request.             *)
LEMMA RestartKeepsServed == ASSUME ServedInv, Restart PROVE ServedInv'
<1>1. /\ boots < MaxBoots /\ boots' = boots + 1
      /\ taken' = <<>> /\ pc' = "idle" /\ left' = 0 /\ attempt' = 1 /\ held' = 0
      /\ calls' = [p \in Peer |-> <<>>] /\ up' = TRUE
      /\ asks' = asks /\ age' = age /\ copies' = copies
  BY DEF Restart
<1>2. PICK k \in 0..Len(taken) :
        LET again == SubSeq(taken, k + 1, Len(taken))
        IN  /\ queue' = again \o queue
            /\ outcome' = [r \in Request |->
                             IF \E i \in 1..Len(again) : again[i] = r THEN "none"
                                                                       ELSE outcome[r]]
  BY DEF Restart
<1>3. /\ taken \in Seq(Request) /\ queue \in Seq(Request) /\ boots \in 0..MaxBoots
      /\ Once(taken) /\ Once(queue) /\ Members(taken) \cap Members(queue) = {}
  BY DEF ServedInv, QueueTypes, EachOnce
<1>4. /\ queue' \in Seq(Request) /\ Once(queue')
      /\ Members(queue') \subseteq Members(taken) \cup Members(queue)
  BY <1>2, <1>3, MembersAfterRequeue
<1>5. taken' \in Seq(Request) /\ Once(taken') /\ Members(taken') = {}
  <2>1. <<>> \in Seq(Request) /\ Len(<<>>) = 0
    BY EmptySeq
  <2>2. 1..0 = {}
    OBVIOUS
  <2> QED  BY <1>1, <2>1, <2>2 DEF Once, Members
<1>6. MaxBoots \in Nat /\ SendTimeout \in Nat
  BY RequestAssumption
<1>7. boots \in Nat /\ boots' \in 0..MaxBoots
  BY <1>1, <1>3, <1>6
<1>8. QueueTypes'
  BY <1>1, <1>4, <1>5, <1>7 DEF ServedInv, QueueTypes
<1>9. EachOnce'
  BY <1>1, <1>4, <1>5 DEF ServedInv, EachOnce
<1>10. CallTypes'
  <2>1. <<>> \in Seq(0..(Window + 1)) /\ Len(<<>>) = 0 /\ MaxCalls \in Nat
    BY EmptySeq, RequestAssumption
  <2> QED  BY <1>1, <2>1 DEF CallTypes
<1>11. AnswerTypes'
  <2>1. outcome' \in [Request -> Outcomes]
    BY <1>2 DEF ServedInv, AnswerTypes, Outcomes
  <2>2. copies \in [Request -> Nat]
    BY DEF ServedInv, AnswerTypes
  <2> QED  BY <1>1, <1>6, <2>1, <2>2 DEF AnswerTypes
<1>12. ASSUME NEW r \in Request  PROVE copies'[r] <= 2 * boots' + Posts(r)'
  <2>1. copies[r] \in Nat /\ copies[r] <= 2 * boots + Posts(r)
    BY DEF ServedInv, AnswerTypes, CopiesBudget
  <2>2. Posts(r) \in 0..2
    BY DEF Posts, ServedInv, AnswerTypes
  <2>3. Posts(r)' = 0
    BY <1>5 DEF Posts
  <2> QED  BY <1>1, <1>7, <2>1, <2>2, <2>3
<1> QED  BY <1>8, <1>9, <1>10, <1>11, <1>12 DEF ServedInv, CopiesBudget

LEMMA TakeKeepsServed == ASSUME ServedInv, Take PROVE ServedInv'
<1> DEFINE r == Head(queue)
<1>1. pc = "idle" /\ Handle(r) /\ MovesOn
  BY DEF Take, MovesOn
<1>2. /\ QueueTypes' /\ EachOnce' /\ r \in Request /\ r \notin Members(taken)
      /\ age[r] # NotSent /\ taken' # <<>> /\ Current' = r
      /\ Members(taken') = Members(taken) \cup {r}
  BY <1>1, MovingOnKeepsOnce DEF ServedInv
<1> HIDE DEF r
<1>3. asks[r] \in Asks
  BY <1>2 DEF ServedInv, QueueTypes
<1>4. Begins /\ CallTypes'
  BY <1>1, <1>3, HandlingBegins DEF ServedInv
<1>5. ASSUME NEW x \in Request
      PROVE  copies[x] <= 2 * boots + (IF x \notin Members(taken') \/ x = Current' THEN 0 ELSE 2)
  <2>1. copies[x] <= 2 * boots + (IF x \notin Members(taken) THEN 0 ELSE 2)
    BY <1>1 DEF ServedInv, CopiesBudget, Posts
  <2> QED  BY <1>2, <2>1
<1>6. boots' = boots /\ boots \in Nat
  BY <1>1, RequestAssumption DEF MovesOn, ServedInv, QueueTypes
<1>7. AnswerTypes' /\ CopiesBudget'
  BY <1>2, <1>4, <1>5, <1>6, BeginningKeepsBudget DEF ServedInv
<1> QED  BY <1>2, <1>4, <1>7 DEF ServedInv

(* What is too old is taken all the same, and not served.                  *)
LEMMA ExpireKeepsServed == ASSUME ServedInv, Expire PROVE ServedInv'
<1> DEFINE r == Head(queue)
<1>1. /\ MovesOn /\ outcome' = [outcome EXCEPT ![r] = "expired"]
      /\ pc = "idle" /\ pc' = pc /\ left' = left /\ attempt' = attempt /\ held' = held
      /\ copies' = copies /\ calls' = calls /\ boots' = boots
  BY DEF Expire, MovesOn
<1>2. /\ QueueTypes' /\ EachOnce' /\ Members(taken') = Members(taken) \cup {r}
  BY <1>1, MovingOnKeepsOnce DEF ServedInv
<1> HIDE DEF r
<1>3. CallTypes'
  BY <1>1 DEF ServedInv, CallTypes
<1>4. AnswerTypes'
  <2>1. outcome' \in [Request -> Outcomes]
    BY <1>1, OutcomeTypes DEF ServedInv, AnswerTypes, Outcomes
  <2> QED  BY <1>1, <2>1 DEF ServedInv, AnswerTypes
<1>5. ASSUME NEW x \in Request  PROVE copies'[x] <= 2 * boots' + Posts(x)'
  <2>1. /\ copies[x] \in Nat /\ boots \in Nat
        /\ copies[x] <= 2 * boots + (IF x \notin Members(taken) THEN 0 ELSE 2)
    BY <1>1, RequestAssumption DEF ServedInv, AnswerTypes, QueueTypes, CopiesBudget, Posts
  <2>2. Posts(x)' = IF x \notin Members(taken') THEN 0 ELSE 2
    BY <1>1 DEF Posts
  <2> QED  BY <1>1, <1>2, <2>1, <2>2
<1> QED  BY <1>2, <1>3, <1>4, <1>5 DEF ServedInv, CopiesBudget

(* The answer to a command begins.                                         *)
LEMMA CommandKeepsServed ==
  ASSUME ServedInv, pc = "run", NEW answer, Reply(Current, answer),
         UNCHANGED <<asks, age, queue, taken, calls, up, boots>>
  PROVE  ServedInv'
<1>1. Begins
  BY ReplyBegins DEF ServedInv
<1>2. taken' # <<>> /\ boots' = boots /\ boots \in Nat /\ Current' = Current
  BY RequestAssumption DEF ServedInv, AnswerTypes, QueueTypes, Current
<1>3. ASSUME NEW r \in Request
      PROVE  copies[r] <= 2 * boots + (IF r \notin Members(taken') \/ r = Current' THEN 0 ELSE 2)
  BY <1>2 DEF ServedInv, CopiesBudget, Posts
<1>4. AnswerTypes' /\ CopiesBudget'
  BY <1>1, <1>2, <1>3, BeginningKeepsBudget DEF ServedInv
<1> QED  BY <1>4 DEF ServedInv, QueueTypes, EachOnce, CallTypes

(* A post adds at most one copy, of the request that is served, and is     *)
(* followed by one more attempt at most.                                   *)
LEMMA PostKeepsServed ==
  ASSUME ServedInv, pc = "post", copies' \in {copies, [copies EXCEPT ![Current] = @ + 1]},
         UNCHANGED <<asks, age, queue, taken, calls, up, boots>>,
         \/ \E what \in Outcomes : Done(Current, what)
         \/ /\ attempt = 1 /\ attempt' = 2
            /\ pc' = "post" /\ left' = SendTimeout /\ UNCHANGED <<held, outcome>>
  PROVE  ServedInv'
<1>1. /\ taken \in Seq(Request) /\ taken # <<>> /\ boots \in Nat /\ attempt \in 1..2
      /\ held \in Nat /\ SendTimeout \in Nat
      /\ copies \in [Request -> Nat] /\ outcome \in [Request -> Outcomes]
  BY RequestAssumption DEF ServedInv, QueueTypes, AnswerTypes
<1>2. Current \in Members(taken) /\ Current' = Current
  BY <1>1, MembersAreRequests DEF Current
<1>3. copies' \in [Request -> Nat]
  BY <1>1, CopiesGrow
<1>4. ASSUME NEW r \in Request
      PROVE  copies'[r] <= 2 * boots + (IF r \notin Members(taken) THEN 0
                                        ELSE IF r = Current THEN attempt ELSE 2)
  <2>1. copies[r] \in Nat /\ copies[r] <= 2 * boots + Posts(r)
    BY <1>1 DEF ServedInv, CopiesBudget
  <2>2. CASE r = Current
    <3>1. Posts(r) = attempt - 1
      BY <1>2, <2>2 DEF Posts
    <3>2. copies'[r] \in {copies[r], copies[r] + 1}
      BY <1>1, <2>2
    <3> QED  BY <1>1, <1>2, <2>1, <2>2, <3>1, <3>2
  <2>3. CASE r # Current
    <3>1. Posts(r) = IF r \notin Members(taken) THEN 0 ELSE 2
      BY <2>3 DEF Posts
    <3>2. copies'[r] = copies[r]
      BY <1>1, <2>3
    <3> QED  BY <2>1, <2>3, <3>1, <3>2
  <2> QED  BY <2>2, <2>3
<1>5. AnswerTypes' /\ CopiesBudget'
  <2>1. CASE \E what \in Outcomes : Done(Current, what)
    <3>1. /\ pc' = "idle" /\ left' = 0 /\ attempt' = 1 /\ held' = 0
          /\ outcome' \in [Request -> Outcomes]
      BY <1>1, <2>1, OutcomeTypes DEF Done
    <3>2. AnswerTypes'
      BY <1>1, <1>3, <3>1 DEF AnswerTypes
    <3>3. ASSUME NEW r \in Request  PROVE copies'[r] <= 2 * boots' + Posts(r)'
      <4>1. copies'[r] \in Nat /\ boots' = boots
        BY <1>3
      <4>2. Posts(r)' = IF r \notin Members(taken) THEN 0 ELSE 2
        BY <3>1 DEF Posts
      <4>3. copies'[r] <= 2 * boots + (IF r \notin Members(taken) THEN 0 ELSE 2)
        <5>1. copies'[r] <= 2 * boots + (IF r \notin Members(taken) THEN 0
                                         ELSE IF r = Current THEN attempt ELSE 2)
          BY <1>4
        <5>2. attempt \in Nat /\ attempt <= 2 /\ boots \in Nat
          BY <1>1
        <5>3. CASE r \notin Members(taken)
          BY <5>1, <5>3
        <5>4. CASE r \in Members(taken) /\ r = Current
          <6>1. copies'[r] <= 2 * boots + attempt
            BY <5>1, <5>4
          <6> QED  BY <4>1, <5>2, <5>4, <6>1
        <5>5. CASE r \in Members(taken) /\ r # Current
          BY <5>1, <5>5
        <5> QED  BY <5>3, <5>4, <5>5
      <4> QED  BY <4>1, <4>2, <4>3
    <3> QED  BY <3>2, <3>3 DEF CopiesBudget
  <2>2. CASE /\ attempt = 1 /\ attempt' = 2
             /\ pc' = "post" /\ left' = SendTimeout /\ UNCHANGED <<held, outcome>>
    <3>1. AnswerTypes'
      BY <1>1, <1>3, <2>2 DEF AnswerTypes
    <3>2. ASSUME NEW r \in Request  PROVE copies'[r] <= 2 * boots' + Posts(r)'
      <4>1. Posts(r)' = IF r \notin Members(taken) THEN 0 ELSE IF r = Current THEN 1 ELSE 2
        BY <1>2, <2>2 DEF Posts
      <4> QED  BY <1>4, <2>2, <4>1
    <3> QED  BY <3>1, <3>2 DEF CopiesBudget
  <2> QED  BY <2>1, <2>2
<1> QED  BY <1>5 DEF ServedInv, QueueTypes, EachOnce, CallTypes

LEMMA ServedInit == Init => ServedInv
<1> SUFFICES ASSUME Init  PROVE ServedInv
  OBVIOUS
<1>1. <<>> \in Seq(Request) /\ <<>> \in Seq(0..(Window + 1)) /\ Len(<<>>) = 0
  BY EmptySeq
<1>2. 1..0 = {}
  OBVIOUS
<1>3. queue = <<>> /\ taken = <<>> /\ Members(taken) = {} /\ Members(queue) = {}
      /\ Once(taken) /\ Once(queue)
  BY <1>1, <1>2 DEF Init, Members, Once
<1>4. /\ Tolerance \in Nat /\ MaxTimeout \in Nat /\ SendTimeout \in Nat
      /\ MaxCalls \in Nat /\ MaxBoots \in Nat
  BY RequestAssumption
<1>5. QueueTypes
  BY <1>1, <1>3, <1>4 DEF Init, QueueTypes, NotSent
<1>6. EachOnce
  BY <1>3 DEF EachOnce
<1>7. CallTypes
  BY <1>1, <1>4 DEF Init, CallTypes
<1>8. AnswerTypes
  BY <1>4 DEF Init, AnswerTypes, Outcomes
<1>9. CopiesBudget
  BY <1>3 DEF Init, CopiesBudget, Posts
<1> QED  BY <1>5, <1>6, <1>7, <1>8, <1>9 DEF ServedInv

(* Each process serves a request at most once and posts its answer at most *)
(* twice.                                                                  *)
THEOREM ServedInvariant == Spec => []ServedInv
<1>1. ServedInv /\ [Next]_vars => ServedInv'
  <2> SUFFICES ASSUME ServedInv, [Next]_vars  PROVE ServedInv'
    OBVIOUS
  <2>1. ASSUME NEW r \in Request, NEW p \in Peer, NEW kind \in Kinds, SendRequest(r, p, kind)
        PROVE  ServedInv'
    BY <2>1, SendKeepsServed
  <2>2. CASE Tick
    BY <2>2, TickKeepsServed
  <2>3. CASE Stop
    BY <2>3 DEF Stop, answering, ServedInv, QueueTypes, EachOnce, CallTypes, AnswerTypes,
                CopiesBudget, Posts, Current
  <2>4. CASE Restart
    BY <2>4, RestartKeepsServed
  <2>5. CASE Take
    BY <2>5, TakeKeepsServed
  <2>6. CASE Expire
    BY <2>6, ExpireKeepsServed
  <2>7. CASE CommandEnds \/ CommandTimesOut
    BY <2>7, CommandKeepsServed DEF CommandEnds, CommandTimesOut
  <2>8. CASE PostOk
    BY <2>8, PostKeepsServed DEF PostOk, Outcomes
  <2>9. CASE PostFails
    BY <2>9, PostKeepsServed DEF PostFails, Outcomes
  <2>10. CASE UNCHANGED vars
    BY <2>10 DEF vars, answering, ServedInv, QueueTypes, EachOnce, CallTypes, AnswerTypes,
                 CopiesBudget, Posts, Current
  <2> QED  BY <2>1, <2>2, <2>3, <2>4, <2>5, <2>6, <2>7, <2>8, <2>9, <2>10 DEF Next
<1> QED  BY <1>1, ServedInit, PTL DEF Spec

(* From each process the relay gets at most two copies of an answer.       *)
THEOREM CopiesAreBounded == Spec => []CopiesBound
<1>1. ServedInv => CopiesBound
  <2> SUFFICES ASSUME ServedInv, NEW r \in Request  PROVE copies[r] <= 2 * (boots + 1)
    BY DEF CopiesBound
  <2>1. copies[r] \in Nat /\ boots \in Nat /\ copies[r] <= 2 * boots + Posts(r)
    BY RequestAssumption DEF ServedInv, AnswerTypes, QueueTypes, CopiesBudget
  <2>2. Posts(r) \in 0..2
    BY DEF Posts, ServedInv, AnswerTypes
  <2> QED  BY <2>1, <2>2
<1> QED  BY <1>1, ServedInvariant, PTL

(* Types of requests, queue, limiter and answers, with their bounds.       *)
THEOREM RequestTypes == Spec => []TypeOK
<1>1. ServedInv /\ CopiesBound => TypeOK
  <2> SUFFICES ASSUME ServedInv, CopiesBound  PROVE TypeOK
    OBVIOUS
  <2>1. ASSUME NEW r \in Request  PROVE copies[r] \in 0..(2 * (MaxBoots + 1))
    <3>1. copies[r] \in Nat /\ boots \in 0..MaxBoots /\ MaxBoots \in Nat
          /\ copies[r] <= 2 * (boots + 1)
      BY RequestAssumption DEF ServedInv, AnswerTypes, QueueTypes, CopiesBound
    <3> QED  BY <3>1
  <2>2. copies \in [Request -> 0..(2 * (MaxBoots + 1))]
    BY <2>1 DEF ServedInv, AnswerTypes
  <2> QED  BY <2>2 DEF ServedInv, QueueTypes, CallTypes, AnswerTypes, TypeOK
<1> QED  BY <1>1, ServedInvariant, CopiesAreBounded, PTL

=============================================================================
