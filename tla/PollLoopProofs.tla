--------------------------- MODULE PollLoopProofs ---------------------------
(***************************************************************************)
(* Proofs about PollLoop: its types, NothingLost, RedeliveryBound, InOrder.*)
(*                                                                         *)
(* The argument.  A batch is always the run of ids that ends at lastId, so *)
(* a process has got as far as the id Reached.  While it lives everything  *)
(* up to there is dealt with; a fetch finds the batch empty, so what it    *)
(* confirms (all up to lastId) is dealt with.  A process that ends leaves  *)
(* its lastId behind, and the next one starts from 0: for the time between *)
(* them only what was confirmed counts.                                    *)
(***************************************************************************)
EXTENDS PollLoop, SequenceTheorems, TLAPS

(* The last id that comes before what is still in the batch.               *)
Reached == lastId - Len(batch)

(* The batch is the run of ids that ends at lastId.                        *)
BatchInv ==
  /\ Reached \in 0..MaxId
  /\ \A i \in 1..Len(batch) : batch[i] = Reached + i
  /\ lastId <= acked + Limit

(* A process has dealt with everything before its batch.                   *)
DoneInv == pc # "off" => \A id \in 1..Reached : id \in handled \cup dropped

(* What a process has handled, it has handled in order and before Reached. *)
LogInv ==
  /\ \A i \in 1..Len(log) : log[i] <= Reached
  /\ \A i, j \in 1..Len(log) : i < j => log[i] < log[j]

PollInv ==
  TypeOK /\ BatchInv /\ DoneInv /\ NothingLost /\ RedeliveryBound /\ LogInv

-----------------------------------------------------------------------------
(* What Answer returns: the run of at most Limit ids after the confirmed   *)
(* ones (_get_updates).                                                    *)
LEMMA AnswerProperties ==
  ASSUME TypeOK
  PROVE  /\ Confirmed \in 0..posted
         /\ Answer \in Seq(Ids)
         /\ Len(Answer) <= Limit
         /\ Confirmed + Len(Answer) <= posted
         /\ \A i \in 1..Len(Answer) : Answer[i] = Confirmed + i
<1> DEFINE hi == SmallerOf(Confirmed + Limit, posted)
           n == IF hi >= Confirmed + 1 THEN hi - Confirmed ELSE 0
<1>1. /\ posted \in Nat /\ Confirmed \in 0..posted /\ posted <= MaxId /\ MaxId \in Nat
      /\ Limit \in Nat \ {0}
  BY PollAssumption DEF TypeOK, Confirmed, LargerOf
<1>2. n \in Nat /\ n <= Limit /\ Confirmed + n <= posted
  BY <1>1 DEF SmallerOf
<1>3. Answer = [i \in 1..n |-> Confirmed + i]
  BY <1>1 DEF Answer, Run, SmallerOf
<1> HIDE DEF n
<1>4. Answer \in [1..n -> Ids]
  BY <1>1, <1>2, <1>3 DEF Ids
<1>5. Answer \in Seq(Ids) /\ Len(Answer) = n
  BY <1>2, <1>4, SeqDef, LenProperties
<1> QED  BY <1>1, <1>2, <1>3, <1>5

(* The numbers of the state.                                               *)
LEMMA PollNumbers ==
  ASSUME TypeOK
  PROVE  /\ posted \in Nat /\ acked \in Nat /\ lastId \in Nat
         /\ posted <= MaxId /\ acked <= posted /\ lastId <= posted
         /\ MaxId \in Nat /\ Limit \in Nat \ {0} /\ Cap \in Nat \ {0}
         /\ batch \in Seq(Ids) /\ Len(batch) \in Nat
         /\ log \in Seq(Ids) /\ Len(log) \in Nat
<1>1. batch \in Seq(Ids) /\ log \in Seq(Ids)
  BY DEF TypeOK
<1>2. Len(batch) \in Nat /\ Len(log) \in Nat
  BY <1>1, LenProperties
<1> QED  BY <1>1, <1>2, PollAssumption DEF TypeOK

LEMMA LogNumbers ==
  ASSUME TypeOK
  PROVE  \A i \in 1..Len(log) : log[i] \in Nat
<1>1. log \in Seq(Ids)
  BY DEF TypeOK
<1>2. \A i \in 1..Len(log) : log[i] \in Ids
  BY <1>1, ElementOfSeq
<1> QED  BY <1>2, PollAssumption DEF Ids

LEMMA PollBegins == Init => PollInv
<1> SUFFICES ASSUME Init PROVE PollInv
  OBVIOUS
<1>1. /\ batch \in Seq(Ids) /\ Len(batch) = 0 /\ batch = <<>>
      /\ log \in Seq(Ids) /\ Len(log) = 0
  BY EmptySeq DEF Init
<1>2. TypeOK
  <2>1. available \in BOOLEAN
    BY ZenonT(10) DEF Init
  <2>2. posted \in 0..MaxId /\ acked \in 0..posted /\ lastId \in 0..posted
    BY PollAssumption DEF Init
  <2>3. backoff \in 1..Cap /\ boots \in 0..MaxBoots
    BY PollAssumption DEF Init
  <2>4. /\ pc \in {"off", "disabled", "fetch", "handle", "pause", "retry", "ended"}
        /\ (batch # <<>>) <=> (pc = "handle")
    BY <1>1 DEF Init
  <2>5. /\ Len(batch) <= Limit /\ handled \subseteq 1..posted /\ dropped \subseteq 1..posted
        /\ raised \subseteq dropped
    BY <1>1, PollAssumption DEF Init
  <2> QED  BY <1>1, <2>1, <2>2, <2>3, <2>4, <2>5 DEF TypeOK
<1>3. BatchInv /\ DoneInv /\ LogInv
  BY <1>1, PollAssumption DEF Init, BatchInv, DoneInv, LogInv, Reached
<1>4. NothingLost /\ RedeliveryBound
  BY DEF Init, NothingLost, RedeliveryBound
<1> QED  BY <1>2, <1>3, <1>4 DEF PollInv

-----------------------------------------------------------------------------
(* A bound grows with what it is counted from.                             *)
LEMMA BoundGrows ==
  ASSUME NEW a \in Nat, NEW b \in Nat, b >= a, NEW n \in Nat,
         NEW x \in Nat, x <= a + n
  PROVE  x <= b + n
OBVIOUS

(* What a step that leaves the loop's work alone need not prove again.     *)
LEMMA UntouchedWorkKeeps ==
  ASSUME PollInv, acked' \in Nat, acked' >= acked,
         UNCHANGED <<lastId, batch, handled, dropped, log>>,
         pc' # "off" => pc # "off",
         \A id \in 1..acked' : id \in handled \cup dropped
  PROVE  BatchInv' /\ DoneInv' /\ NothingLost' /\ RedeliveryBound' /\ LogInv'
<1>1. Reached' = Reached /\ TypeOK
  BY DEF Reached, PollInv
<1>2. acked \in Nat /\ lastId \in Nat /\ Limit \in Nat
  BY <1>1, PollNumbers
<1>3. BatchInv'
  <2>1. lastId <= acked + Limit /\ lastId' = lastId
    BY DEF PollInv, BatchInv
  <2>2. lastId' <= acked' + Limit
    BY <1>2, <2>1, BoundGrows
  <2> QED  BY <1>1, <2>1, <2>2 DEF PollInv, BatchInv
<1>4. DoneInv'
  BY <1>1 DEF PollInv, DoneInv
<1>5. NothingLost'
  BY DEF NothingLost
<1>6. RedeliveryBound'
  <2>1. handled \subseteq 1..posted /\ dropped \subseteq 1..posted /\ posted \in Nat
    BY <1>1 DEF TypeOK, PollInv
  <2>2. ASSUME NEW id \in handled \cup dropped  PROVE id <= acked' + Limit
    <3>1. id \in Nat /\ id <= acked + Limit
      BY <2>1 DEF PollInv, RedeliveryBound
    <3> QED  BY <1>2, <3>1, BoundGrows
  <2> QED  BY <2>2 DEF RedeliveryBound
<1>7. LogInv'
  BY <1>1 DEF PollInv, LogInv
<1> QED  BY <1>3, <1>4, <1>5, <1>6, <1>7

(* Between two batches everything up to what a fetch confirms is done.     *)
LEMMA ConfirmedIsDone ==
  ASSUME PollInv, pc = "fetch"
  PROVE  /\ batch = <<>> /\ Reached = lastId
         /\ \A id \in 1..Confirmed : id \in handled \cup dropped
         /\ Confirmed >= acked /\ Confirmed >= lastId
<1>1. TypeOK /\ DoneInv /\ NothingLost
  BY DEF PollInv
<1>2. acked \in Nat /\ lastId \in Nat
  BY <1>1, PollNumbers
<1>3. batch = <<>>
  BY <1>1 DEF TypeOK
<1>4. Reached = lastId
  BY <1>2, <1>3, EmptySeq DEF Reached
<1>5. Confirmed \in {acked, lastId} /\ Confirmed >= acked /\ Confirmed >= lastId
  BY <1>2 DEF Confirmed, LargerOf
<1>6. ASSUME NEW id \in 1..Confirmed  PROVE id \in handled \cup dropped
  BY <1>1, <1>4, <1>5 DEF DoneInv, NothingLost
<1> QED  BY <1>3, <1>4, <1>5, <1>6

(* No step but a fetch or the start of a handler looks into the batch.     *)
LEMMA QuietStepsKeep ==
  ASSUME PollInv, TypeOK',
         Post \/ Stop \/ FetchRefused \/ FetchFails \/ Pause \/ Retry
  PROVE  PollInv'
<1>1. /\ TypeOK /\ NothingLost /\ acked \in Nat /\ acked' \in Nat
      /\ \A id \in 1..acked : id \in handled \cup dropped
  <2>1. TypeOK /\ NothingLost
    BY DEF PollInv
  <2>2. acked \in Nat /\ posted \in Nat
    BY <2>1, PollNumbers
  <2>3. posted' \in 0..MaxId /\ acked' \in 0..posted'
    BY DEF TypeOK
  <2>4. acked' \in Nat
    BY <2>3, PollAssumption
  <2> QED  BY <2>1, <2>2, <2>4 DEF NothingLost
<1>2. UNCHANGED <<lastId, batch, handled, dropped, log>>
  BY DEF Post, Stop, FetchRefused, FetchFails, Pause, Retry, api, loop, hist
<1>3. pc' # "off" => pc # "off"
  BY DEF Post, Stop, FetchRefused, FetchFails, Pause, Retry, loop
<1>4. acked' >= acked /\ \A id \in 1..acked' : id \in handled \cup dropped
  <2>1. CASE acked' = acked
    BY <1>1, <2>1
  <2>2. CASE FetchFails /\ acked' = Confirmed
    BY <2>2, ConfirmedIsDone DEF FetchFails
  <2> QED
    BY <2>1, <2>2 DEF Post, Stop, FetchRefused, FetchFails, Pause, Retry, api
<1> QED  BY <1>1, <1>2, <1>3, <1>4, UntouchedWorkKeeps DEF PollInv

(* The end of a process and the start of the next one.                     *)
LEMMA ExitAndStartKeep ==
  ASSUME PollInv, TypeOK', Exit \/ Start
  PROVE  PollInv'
<1>1. /\ TypeOK /\ acked \in Nat /\ lastId \in Nat /\ lastId <= MaxId
      /\ MaxId \in Nat /\ Len(batch) \in Nat /\ Limit \in Nat
  BY PollNumbers DEF PollInv
<1>2. batch' = <<>> /\ Len(batch') = 0 /\ UNCHANGED <<acked, handled, dropped>>
  BY EmptySeq DEF Exit, Start, api, hist
<1>3. NothingLost' /\ RedeliveryBound'
  BY <1>2 DEF PollInv, NothingLost, RedeliveryBound
<1>4. CASE Exit
  <2>1. /\ pc' = "off" /\ lastId' = lastId /\ log' = log
        /\ Reached' = lastId /\ Reached <= lastId
    BY <1>1, <1>2, <1>4 DEF Exit, hist, Reached
  <2>2. BatchInv' /\ DoneInv'
    BY <1>1, <1>2, <2>1 DEF PollInv, BatchInv, DoneInv
  <2>3. LogInv'
    <3>1. \A i \in 1..Len(log) : log[i] \in Nat
      BY <1>1, LogNumbers
    <3>2. Reached \in Nat /\ \A i \in 1..Len(log) : log[i] <= lastId
      BY <1>1, <2>1, <3>1 DEF PollInv, BatchInv, LogInv
    <3> QED  BY <2>1, <3>2 DEF PollInv, LogInv
  <2> QED  BY <1>3, <2>2, <2>3 DEF PollInv
<1>5. CASE Start
  <2>1. lastId' = 0 /\ log' = <<>> /\ Len(log') = 0
    BY <1>5, EmptySeq DEF Start
  <2>3. Reached' = 0
    <3>1. lastId' = 0 /\ Len(batch') = 0
      BY <1>2, <2>1
    <3> QED  BY <3>1 DEF Reached
  <2>2. BatchInv' /\ DoneInv' /\ LogInv'
    BY <1>1, <1>2, <2>1, <2>3 DEF BatchInv, DoneInv, LogInv
  <2> QED  BY <1>3, <2>2 DEF PollInv
<1> QED  BY <1>4, <1>5

(* A fetch confirms what is dealt with and brings the run of ids after it. *)
LEMMA FetchKeeps ==
  ASSUME PollInv, TypeOK', Fetch
  PROVE  PollInv'
<1>1. /\ TypeOK /\ acked \in Nat /\ lastId \in Nat /\ posted \in Nat
      /\ posted <= MaxId /\ MaxId \in Nat /\ Limit \in Nat
  BY PollNumbers DEF PollInv
<1>2. /\ pc = "fetch" /\ acked' = Confirmed /\ batch' = Answer
      /\ lastId' = IF Answer = <<>> THEN lastId ELSE Answer[Len(Answer)]
      /\ UNCHANGED <<handled, dropped, log>>
  BY DEF Fetch, hist
<1>3. /\ Reached = lastId /\ Confirmed >= acked /\ Confirmed >= lastId
      /\ \A id \in 1..Confirmed : id \in handled \cup dropped
  BY <1>2, ConfirmedIsDone
<1>4. /\ Confirmed \in 0..posted /\ Answer \in Seq(Ids) /\ Len(Answer) \in Nat
      /\ Len(Answer) <= Limit /\ Confirmed + Len(Answer) <= posted
      /\ \A i \in 1..Len(Answer) : Answer[i] = Confirmed + i
  BY <1>1, AnswerProperties, LenProperties
<1>5. NothingLost'
  BY <1>2, <1>3 DEF NothingLost
<1>6. RedeliveryBound'
  <2>1. handled \subseteq 1..posted /\ dropped \subseteq 1..posted
    BY <1>1 DEF TypeOK
  <2>2. ASSUME NEW id \in handled \cup dropped  PROVE id <= acked' + Limit
    <3>1. id \in Nat /\ id <= acked + Limit
      BY <1>1, <2>1 DEF PollInv, RedeliveryBound
    <3> QED  BY <1>1, <1>2, <1>3, <1>4, <3>1, BoundGrows
  <2> QED  BY <1>2, <2>2 DEF RedeliveryBound
<1>7. /\ BatchInv' /\ DoneInv' /\ Reached' \in Nat /\ Reached' >= Reached
  <2>1. CASE Answer = <<>>
    <3>1. Len(batch') = 0 /\ lastId' = lastId /\ Reached' = lastId
      BY <1>1, <1>2, <2>1, EmptySeq DEF Reached
    <3> QED  BY <1>1, <1>2, <1>3, <1>4, <3>1 DEF BatchInv, DoneInv
  <2>2. CASE Answer # <<>>
    <3>1. Len(Answer) >= 1
      BY <1>4, <2>2, EmptySeq
    <3>2. lastId' = Confirmed + Len(Answer)
      BY <1>2, <1>4, <2>2, <3>1
    <3>3. Reached' = Confirmed
      BY <1>2, <1>4, <3>2 DEF Reached
    <3> QED  BY <1>1, <1>2, <1>3, <1>4, <3>2, <3>3 DEF BatchInv, DoneInv
  <2> QED  BY <2>1, <2>2
<1>8. LogInv'
  <2>1. \A i \in 1..Len(log) : log[i] \in Nat
    BY <1>1, LogNumbers
  <2>2. \A i \in 1..Len(log) : log[i] <= Reached'
    BY <1>1, <1>3, <1>7, <2>1 DEF PollInv, LogInv
  <2> QED  BY <1>2, <2>2 DEF PollInv, LogInv
<1> QED  BY <1>5, <1>6, <1>7, <1>8 DEF PollInv

-----------------------------------------------------------------------------
(* One update is dealt with: the batch loses its first id, the next one.   *)
LEMMA HandleNextKeeps ==
  ASSUME PollInv, TypeOK', HandleNext
  PROVE  PollInv'
<1> DEFINE id == Reached + 1
<1>1. /\ TypeOK /\ acked \in Nat /\ lastId \in Nat /\ Limit \in Nat
      /\ MaxId \in Nat /\ Reached \in Nat /\ lastId <= MaxId
      /\ batch \in Seq(Ids) /\ Len(batch) \in Nat
      /\ log \in Seq(Ids) /\ Len(log) \in Nat
  BY PollNumbers DEF PollInv, BatchInv
<1>2. /\ pc = "handle" /\ batch # <<>>
      /\ handled' = handled \cup {Head(batch)} /\ log' = Append(log, Head(batch))
      /\ batch' = Tail(batch) /\ UNCHANGED <<acked, lastId, dropped>>
  BY <1>1 DEF HandleNext, TypeOK, api
<1>3. Len(batch) >= 1
  BY <1>1, <1>2, EmptySeq
<1>4. Head(batch) = id /\ id \in Ids
  <2>1. Head(batch) = batch[1]
    BY <1>1, <1>2
  <2>2. batch[1] = id
    BY <1>1, <1>3 DEF PollInv, BatchInv
  <2> QED  BY <1>1, <1>3, <2>1, <2>2 DEF Ids, Reached
<1>5. /\ Len(batch') = Len(batch) - 1
      /\ \A i \in 1..Len(batch') : batch'[i] = batch[i + 1]
  BY <1>1, <1>2, HeadTailProperties
<1>6. Reached' = id
  BY <1>1, <1>2, <1>5 DEF Reached
<1>7. BatchInv'
  <2>1. \A i \in 1..Len(batch') : batch'[i] = Reached' + i
    <3> SUFFICES ASSUME NEW i \in 1..Len(batch') PROVE batch'[i] = Reached' + i
      OBVIOUS
    <3>1. i \in Nat /\ i + 1 \in 1..Len(batch)
      BY <1>1, <1>5
    <3>2. batch'[i] = Reached + (i + 1)
      BY <1>5, <3>1 DEF PollInv, BatchInv
    <3> QED  BY <1>1, <1>6, <3>1, <3>2
  <2>2. Reached' \in 0..MaxId /\ lastId' <= acked' + Limit
    BY <1>2, <1>4, <1>6 DEF PollInv, BatchInv, Ids
  <2> QED  BY <2>1, <2>2 DEF BatchInv
<1>8. DoneInv'
  <2>1. \A x \in 1..id : x = id \/ x \in 1..Reached
    BY <1>1
  <2> QED  BY <1>2, <1>4, <1>6, <2>1 DEF PollInv, DoneInv
<1>9. NothingLost' /\ RedeliveryBound'
  <2>1. id <= acked + Limit
    BY <1>1, <1>3 DEF PollInv, BatchInv, Reached
  <2> QED  BY <1>2, <1>4, <2>1 DEF PollInv, NothingLost, RedeliveryBound
<1>10. LogInv'
  <2>1. /\ Len(log') = Len(log) + 1 /\ log'[Len(log) + 1] = id
        /\ \A i \in 1..Len(log) : log'[i] = log[i]
    BY <1>1, <1>2, <1>4
  <2>2. \A i \in 1..Len(log) : log[i] \in Nat /\ log[i] <= Reached
    BY <1>1, LogNumbers DEF PollInv, LogInv
  <2>3. \A i \in 1..Len(log') : log'[i] <= Reached'
    BY <1>1, <1>6, <2>1, <2>2
  <2>4. ASSUME NEW i \in 1..Len(log'), NEW j \in 1..Len(log'), i < j
        PROVE  log'[i] < log'[j]
    <3>1. i \in 1..Len(log) /\ (j \in 1..Len(log) \/ j = Len(log) + 1)
      BY <1>1, <2>1, <2>4
    <3>2. CASE j \in 1..Len(log)
      BY <2>1, <2>4, <3>1, <3>2 DEF PollInv, LogInv
    <3>3. CASE j = Len(log) + 1
      BY <1>1, <2>1, <2>2, <3>1, <3>3
    <3> QED  BY <3>1, <3>2, <3>3
  <2> QED  BY <2>3, <2>4 DEF LogInv
<1> QED  BY <1>7, <1>8, <1>9, <1>10 DEF PollInv

(* A handler raises: the rest of the batch is given up, and that is what   *)
(* makes the process have dealt with everything up to lastId.              *)
LEMMA HandleRaisesKeeps ==
  ASSUME PollInv, TypeOK', HandleRaises
  PROVE  PollInv'
<1>1. /\ TypeOK /\ acked \in Nat /\ lastId \in Nat /\ Limit \in Nat
      /\ MaxId \in Nat /\ Reached \in Nat /\ lastId <= MaxId
      /\ batch \in Seq(Ids) /\ Len(batch) \in Nat
      /\ Reached + Len(batch) = lastId
  BY PollNumbers DEF PollInv, BatchInv, Reached
<1>2. /\ pc = "handle" /\ batch' = <<>> /\ Len(batch') = 0
      /\ dropped' = dropped \cup {batch[i] : i \in 1..Len(batch)}
      /\ UNCHANGED <<acked, lastId, handled, log>>
  BY EmptySeq DEF HandleRaises, api
<1>3. \A x \in {batch[i] : i \in 1..Len(batch)} : x \in Nat /\ x <= lastId
  BY <1>1 DEF PollInv, BatchInv
<1>4. Reached' = lastId
  <2>1. lastId' = lastId /\ Len(batch') = 0
    BY <1>2
  <2> QED  BY <1>1, <2>1 DEF Reached
<1>5. BatchInv'
  BY <1>1, <1>2, <1>4 DEF PollInv, BatchInv
<1>6. DoneInv'
  <2> SUFFICES ASSUME NEW x \in 1..lastId  PROVE x \in handled' \cup dropped'
    BY <1>4 DEF DoneInv
  <2>1. CASE x <= Reached
    BY <1>1, <1>2, <2>1 DEF PollInv, DoneInv
  <2>2. CASE x > Reached
    <3>1. x - Reached \in 1..Len(batch)
      BY <1>1, <2>2
    <3>2. batch[x - Reached] = x
      BY <1>1, <3>1 DEF PollInv, BatchInv
    <3> QED  BY <1>2, <3>1, <3>2
  <2> QED  BY <1>1, <2>1, <2>2
<1>7. NothingLost'
  BY <1>2 DEF PollInv, NothingLost
<1>8. RedeliveryBound'
  <2>1. lastId <= acked + Limit
    BY DEF PollInv, BatchInv
  <2>2. \A x \in {batch[i] : i \in 1..Len(batch)} : x <= acked + Limit
    <3> SUFFICES ASSUME NEW x \in {batch[i] : i \in 1..Len(batch)}
                 PROVE  x <= acked + Limit
      OBVIOUS
    <3>1. x \in Nat /\ x <= lastId
      BY <1>3
    <3> QED  BY <1>1, <2>1, <3>1
  <2> QED  BY <1>2, <2>2 DEF PollInv, RedeliveryBound
<1>9. LogInv'
  <2>1. \A i \in 1..Len(log) : log[i] <= lastId
    BY <1>1, LogNumbers DEF PollInv, LogInv
  <2> QED  BY <1>2, <1>4, <2>1 DEF PollInv, LogInv
<1> QED  BY <1>5, <1>6, <1>7, <1>8, <1>9 DEF PollInv

-----------------------------------------------------------------------------
(* Each step keeps the types: first the numbers, then what depends on the  *)
(* program counter, then what was dealt with.                              *)
LEMMA NumbersKept ==
  ASSUME PollInv, Next
  PROVE  /\ posted' \in 0..MaxId /\ posted' >= posted
         /\ acked' \in 0..posted' /\ lastId' \in 0..posted'
         /\ backoff' \in 1..Cap /\ boots' \in 0..MaxBoots
<1>1. /\ TypeOK /\ posted \in Nat /\ acked \in Nat /\ lastId \in Nat
      /\ posted <= MaxId /\ acked <= posted /\ lastId <= posted
      /\ MaxId \in Nat /\ Cap \in Nat \ {0} /\ MaxBoots \in Nat
      /\ backoff \in 1..Cap /\ boots \in 0..MaxBoots
  BY PollNumbers, PollAssumption DEF PollInv, TypeOK
<1>2. /\ Confirmed \in 0..posted /\ Answer \in Seq(Ids) /\ Len(Answer) \in Nat
      /\ Confirmed + Len(Answer) <= posted
      /\ \A i \in 1..Len(Answer) : Answer[i] = Confirmed + i
  BY <1>1, AnswerProperties, LenProperties
<1>3. CASE Post
  BY <1>1, <1>3 DEF Post, loop, hist
<1>4. CASE Start
  BY <1>1, <1>4 DEF Start, api
<1>5. CASE Fetch
  <2>1. lastId' \in 0..posted
    <3>1. CASE Answer = <<>>
      BY <1>1, <1>5, <3>1 DEF Fetch
    <3>2. CASE Answer # <<>>
      <4>1. Len(Answer) >= 1
        BY <1>2, <3>2, EmptySeq
      <4>2. lastId' = Confirmed + Len(Answer)
        BY <1>2, <1>5, <3>2, <4>1 DEF Fetch
      <4> QED  BY <1>1, <1>2, <4>2
    <3> QED  BY <3>1, <3>2
  <2> QED  BY <1>1, <1>2, <1>5, <2>1 DEF Fetch, hist
<1>6. CASE FetchRefused \/ FetchFails
  BY <1>1, <1>2, <1>6 DEF FetchRefused, FetchFails, api, hist
<1>7. CASE Retry
  BY <1>1, <1>7 DEF Retry, SmallerOf, api, hist
<1>8. CASE Stop \/ Exit \/ HandleNext \/ HandleRaises \/ Pause
  BY <1>1, <1>8 DEF Stop, Exit, HandleNext, HandleRaises, Pause, api, hist
<1> QED  BY <1>3, <1>4, <1>5, <1>6, <1>7, <1>8 DEF Next, LoopStep

LEMMA ControlKept ==
  ASSUME PollInv, Next
  PROVE  /\ pc' \in {"off", "disabled", "fetch", "handle", "pause", "retry", "ended"}
         /\ batch' \in Seq(Ids) /\ Len(batch') <= Limit
         /\ (batch' # <<>>) <=> (pc' = "handle")
<1>1. /\ TypeOK /\ batch \in Seq(Ids) /\ Len(batch) \in Nat /\ Len(batch) <= Limit
      /\ Limit \in Nat
      /\ (batch # <<>>) <=> (pc = "handle")
      /\ pc \in {"off", "disabled", "fetch", "handle", "pause", "retry", "ended"}
  BY PollNumbers DEF PollInv, TypeOK
<1>2. <<>> \in Seq(Ids) /\ Len(<<>>) = 0
  BY EmptySeq
<1>3. CASE Post \/ Stop
  <2>1. pc' = pc /\ batch' = batch
    BY <1>3 DEF Post, Stop, loop
  <2> QED  BY <1>1, <2>1
<1>4. CASE Start \/ Exit \/ HandleRaises
  <2>1. batch' = <<>> /\ pc' \in {"off", "disabled", "fetch", "retry"}
    BY <1>4 DEF Start, Exit, HandleRaises
  <2> QED  BY <1>1, <1>2, <2>1
<1>5. CASE Fetch
  BY <1>1, <1>5, AnswerProperties DEF Fetch
<1>6. CASE FetchRefused \/ FetchFails \/ Pause \/ Retry
  <2>1. /\ pc # "handle" /\ batch' = batch
        /\ pc' \in {"fetch", "pause", "retry", "ended"}
    BY <1>6 DEF FetchRefused, FetchFails, Pause, Retry, NextRound
  <2> QED  BY <1>1, <2>1
<1>7. CASE HandleNext
  <2>1. /\ Tail(batch) \in Seq(Ids) /\ Len(Tail(batch)) = Len(batch) - 1
    BY <1>1, <1>7, HeadTailProperties DEF HandleNext
  <2>2. batch' \in Seq(Ids) /\ Len(batch') <= Limit
    BY <1>1, <1>7, <2>1 DEF HandleNext
  <2> QED  BY <1>7, <2>2 DEF HandleNext
<1> QED  BY <1>3, <1>4, <1>5, <1>6, <1>7 DEF Next, LoopStep

LEMMA FlagKept ==
  ASSUME TypeOK, Next
  PROVE  available' \in BOOLEAN
<1>1. available \in BOOLEAN
  BY DEF TypeOK
<1>2. \/ available' = available \/ available' = TRUE \/ available' = FALSE
  BY DEF Next, LoopStep, Post, Start, Stop, Exit, Fetch, FetchRefused, FetchFails,
         HandleNext, HandleRaises, Pause, Retry, api, loop, hist
<1> QED  BY <1>1, <1>2, ZenonT(20)

LEMMA HistoryKept ==
  ASSUME PollInv, Next
  PROVE  /\ handled' \subseteq 1..posted' /\ dropped' \subseteq 1..posted'
         /\ raised' \subseteq dropped' /\ log' \in Seq(Ids)
<1>0. TypeOK /\ <<>> \in Seq(Ids)
  BY EmptySeq DEF PollInv
<1>1. /\ posted \in Nat /\ posted' \in Nat /\ posted' >= posted
      /\ batch \in Seq(Ids) /\ Len(batch) \in Nat /\ log \in Seq(Ids)
      /\ handled \subseteq 1..posted /\ dropped \subseteq 1..posted
      /\ lastId \in Nat /\ lastId <= posted /\ <<>> \in Seq(Ids) /\ MaxId \in Nat
      /\ raised \subseteq dropped
  <2>1. /\ posted \in Nat /\ lastId \in Nat /\ lastId <= posted /\ MaxId \in Nat
        /\ batch \in Seq(Ids) /\ Len(batch) \in Nat /\ log \in Seq(Ids)
    BY <1>0, PollNumbers
  <2>2. posted' \in 0..MaxId /\ posted' >= posted
    BY NumbersKept
  <2>3. handled \subseteq 1..posted /\ dropped \subseteq 1..posted /\ raised \subseteq dropped
    BY <1>0 DEF TypeOK
  <2>4. posted' \in Nat
    BY <2>1, <2>2
  <2> QED  BY <1>0, <2>1, <2>2, <2>3, <2>4
<1>2. 1..posted \subseteq 1..posted'
  BY <1>1
<1>3. {batch[i] : i \in 1..Len(batch)} \subseteq 1..posted
  <2>1. Reached \in Nat /\ Reached + Len(batch) = lastId
    BY <1>1 DEF PollInv, BatchInv, Reached
  <2>2. \A i \in 1..Len(batch) : batch[i] = Reached + i
    BY DEF PollInv, BatchInv
  <2>3. \A i \in 1..Len(batch) : batch[i] \in 1..posted
    BY <1>1, <2>1, <2>2
  <2> QED  BY <2>3
<1>4. CASE HandleNext
  <2>1. batch # <<>>
    BY <1>0, <1>4 DEF HandleNext, TypeOK
  <2>2. Len(batch) >= 1
    BY <1>1, <2>1, EmptySeq
  <2>3. Head(batch) = batch[1] /\ Head(batch) \in Ids
    BY <1>1, <2>1, HeadTailProperties
  <2>4. Head(batch) \in 1..posted
    BY <1>1, <1>3, <2>2, <2>3
  <2>5. handled' \subseteq 1..posted' /\ dropped' \subseteq 1..posted' /\ raised' \subseteq dropped'
    BY <1>1, <1>2, <1>4, <2>4 DEF HandleNext
  <2>6. log' \in Seq(Ids)
    BY <1>1, <1>4, <2>3 DEF HandleNext
  <2> QED  BY <2>5, <2>6
<1>5. CASE HandleRaises
  <2>1. /\ dropped' = dropped \cup {batch[i] : i \in 1..Len(batch)}
        /\ raised' = raised \cup {Head(batch)} /\ handled' = handled /\ log' = log
    BY <1>5 DEF HandleRaises
  <2>2. batch # <<>>
    BY <1>0, <1>5 DEF HandleRaises, TypeOK
  <2>3. Head(batch) = batch[1] /\ 1 \in 1..Len(batch)
    BY <1>1, <2>2, EmptySeq
  <2>4. Head(batch) \in {batch[i] : i \in 1..Len(batch)}
    BY <2>3
  <2>5. handled' \subseteq 1..posted' /\ dropped' \subseteq 1..posted'
    BY <1>1, <1>2, <1>3, <2>1
  <2> QED  BY <1>1, <2>1, <2>4, <2>5
<1>6. CASE Start
  BY <1>1, <1>2, <1>6 DEF Start
<1>7. CASE \/ Post \/ Stop \/ Exit \/ Fetch \/ FetchRefused \/ FetchFails
           \/ Pause \/ Retry
  BY <1>1, <1>2, <1>7
  DEF Post, Stop, Exit, Fetch, FetchRefused, FetchFails, Pause, Retry, hist
<1> QED  BY <1>4, <1>5, <1>6, <1>7 DEF Next, LoopStep

LEMMA PollNext == PollInv /\ [Next]_vars => PollInv'
<1>1. ASSUME PollInv, Next  PROVE PollInv'
  <2>1. TypeOK'
    BY <1>1, NumbersKept, ControlKept, FlagKept, HistoryKept DEF PollInv, TypeOK
  <2> QED
    BY <1>1, <2>1, QuietStepsKeep, ExitAndStartKeep, FetchKeeps, HandleNextKeeps,
       HandleRaisesKeeps
    DEF Next, LoopStep
<1>2. ASSUME PollInv, UNCHANGED vars  PROVE PollInv'
  BY <1>2 DEF PollInv, vars, api, loop, hist, TypeOK, BatchInv, DoneInv, LogInv,
              Reached, NothingLost, RedeliveryBound
<1> QED  BY <1>1, <1>2

-----------------------------------------------------------------------------
(* What a batch is, what was dealt with and what is confirmed agree at     *)
(* every step of _poll_loop, for any number of updates and processes.      *)
THEOREM PollInvariant == Spec => []PollInv
<1> QED  BY PollBegins, PollNext, PTL DEF Spec

(* Types, among them the sizes of batch and delay (_get_updates).          *)
THEOREM PollTypes == Spec => []TypeOK
<1>1. PollInv => TypeOK
  BY DEF PollInv
<1> QED  BY <1>1, PollInvariant, PTL

(* No update is confirmed before it is handled or given up: _get_updates   *)
(* confirms a batch by the fetch that follows it.                          *)
THEOREM NothingIsLost == Spec => []NothingLost
<1>1. PollInv => NothingLost
  BY DEF PollInv
<1> QED  BY <1>1, PollInvariant, PTL

(* A new process gets at most one batch again (_get_updates).              *)
THEOREM RedeliveryIsBounded == Spec => []RedeliveryBound
<1>1. PollInv => RedeliveryBound
  BY DEF PollInv
<1> QED  BY <1>1, PollInvariant, PTL

(* One process handles ids in increasing order, none twice (_poll_loop).   *)
THEOREM HandledInOrder == Spec => []InOrder
<1>1. PollInv => InOrder
  <2> SUFFICES ASSUME PollInv  PROVE InOrder
    OBVIOUS
  <2> DEFINE all == log \o batch
             n == Len(log)
             m == Len(batch)
  <2>1. /\ TypeOK /\ log \in Seq(Ids) /\ batch \in Seq(Ids) /\ n \in Nat /\ m \in Nat
        /\ Reached \in Nat
    BY PollNumbers DEF PollInv, BatchInv
  <2>2. Len(all) = n + m
    BY <2>1, ConcatProperties
  <2>3. \A i \in 1..n : all[i] = log[i] /\ log[i] \in Nat /\ log[i] <= Reached
    BY <2>1, ConcatProperties, LogNumbers DEF PollInv, LogInv
  <2>4. \A i \in n+1 .. n+m : all[i] = Reached + (i - n)
    <3> SUFFICES ASSUME NEW i \in n+1 .. n+m  PROVE all[i] = Reached + (i - n)
      OBVIOUS
    <3>1. i \in 1..n+m /\ ~(i <= n) /\ i - n \in 1..m
      BY <2>1
    <3>2. all[i] = batch[i - n]
      BY <2>1, <3>1, ConcatProperties
    <3> QED  BY <3>1, <3>2 DEF PollInv, BatchInv
  <2>5. ASSUME NEW i \in 1..Len(all), NEW j \in 1..Len(all), i < j
        PROVE  all[i] < all[j]
    <3>1. i \in 1..n+m /\ j \in 1..n+m
      BY <2>2
    <3> HIDE DEF all, n, m
    <3>2. CASE j <= n
      <4>1. i \in 1..n /\ j \in 1..n
        BY <2>1, <2>5, <3>1, <3>2
      <4>2. log[i] < log[j]
        BY <2>5, <4>1 DEF PollInv, LogInv, n
      <4> QED  BY <2>3, <4>1, <4>2
    <3>3. CASE i <= n /\ j > n
      <4>1. i \in 1..n /\ j \in n+1 .. n+m
        BY <2>1, <3>1, <3>3
      <4> QED  BY <2>1, <2>3, <2>4, <4>1
    <3>4. CASE i > n
      <4>1. i \in n+1 .. n+m /\ j \in n+1 .. n+m
        BY <2>1, <2>5, <3>1, <3>4
      <4> QED  BY <2>1, <2>4, <2>5, <4>1
    <3> QED  BY <2>1, <3>1, <3>2, <3>3, <3>4
  <2> QED  BY <2>5 DEF InOrder
<1> QED  BY <1>1, PollInvariant, PTL

-----------------------------------------------------------------------------
(* PollLoop implements CommittedLog                                        *)

(* A batch comes after what is confirmed.                                  *)
CursorInv == pc = "handle" => acked <= Reached

(* Cursor is where the process is in the log.                              *)
LEMMA CursorValues ==
  ASSUME PollInv
  PROVE  /\ acked \in Nat /\ lastId \in Nat /\ posted \in Nat /\ Limit \in Nat /\ Reached \in Nat
         /\ Len(batch) \in Nat /\ Reached = lastId - Len(batch)
         /\ lastId <= posted /\ lastId <= acked + Limit
         /\ pc = "off" => Cursor = acked
         /\ pc # "off" => Cursor = LargerOf(acked, Reached)
         /\ pc # "handle" => batch = <<>> /\ Reached = lastId
<1>1. TypeOK /\ BatchInv
  BY DEF PollInv
<1>2. pc # "handle" => batch = <<>> /\ Len(batch) = 0
  BY <1>1, EmptySeq DEF TypeOK
<1> QED  BY <1>1, <1>2, PollNumbers DEF BatchInv, Reached, Cursor

(* Handling an update reads one entry, an error gives up the rest of the   *)
(* batch.                                                                  *)
LEMMA WorkIsReading ==
  ASSUME PollInv, PollInv', CursorInv, HandleNext \/ HandleRaises
  PROVE  (Updates!Read \/ \E n \in 1..posted : Updates!GiveUp(n)) /\ CursorInv'
<1> DEFINE n == Reached'
<1>1. /\ acked \in Nat /\ lastId \in Nat /\ posted \in Nat /\ Reached \in Nat /\ Limit \in Nat
      /\ Len(batch) \in Nat /\ Reached = lastId - Len(batch)
      /\ lastId <= posted /\ lastId <= acked + Limit
      /\ pc # "off" => Cursor = LargerOf(acked, Reached)
  BY CursorValues
<1>2. /\ pc = "handle" /\ acked <= Reached
      /\ pc' # "off" /\ acked' = acked /\ posted' = posted /\ lastId' = lastId
  BY DEF HandleNext, HandleRaises, CursorInv, api
<1>3. Cursor = Reached
  BY <1>1, <1>2 DEF LargerOf
<1>4. /\ Len(batch) >= 1 /\ \A i \in 1..Len(batch) : batch[i] = Reached + i
      /\ batch \in Seq(Ids) /\ batch # <<>>
  BY <1>2, EmptySeq DEF PollInv, TypeOK, BatchInv
<1>5. /\ n \in Nat /\ Reached < n /\ n <= lastId
      /\ \/ /\ n = Reached + 1 /\ handled' = handled \cup {n} /\ dropped' = dropped
         \/ /\ handled' = handled /\ dropped' = dropped \cup (Reached + 1)..n
  <2>1. CASE HandleNext
    <3>1. /\ batch' = Tail(batch) /\ dropped' = dropped
          /\ handled' = handled \cup {Head(batch)}
      BY <2>1 DEF HandleNext
    <3>2. Len(Tail(batch)) = Len(batch) - 1
      BY <1>4, HeadTailProperties
    <3>3. n = Reached + 1
      <4>1. Len(batch') = Len(batch) - 1 /\ lastId' = lastId
        BY <1>2, <3>1, <3>2
      <4>2. n = lastId' - Len(batch')
        BY DEF Reached
      <4> QED  BY <1>1, <4>1, <4>2
    <3>4. Head(batch) = Reached + 1
      <4>1. Head(batch) = batch[1] /\ 1 \in 1..Len(batch)
        BY <1>1, <1>4
      <4> QED  BY <1>4, <4>1
    <3>5. n \in Nat /\ Reached < n /\ n <= lastId
      BY <1>1, <1>4, <3>3
    <3> QED  BY <3>1, <3>3, <3>4, <3>5
  <2>2. CASE HandleRaises
    <3>1. /\ batch' = <<>> /\ handled' = handled
          /\ dropped' = dropped \cup {batch[i] : i \in 1..Len(batch)}
      BY <2>2 DEF HandleRaises
    <3>2. n = lastId /\ lastId = Reached + Len(batch)
      <4>1. Len(batch') = 0
        BY <3>1, EmptySeq
      <4> QED  BY <1>1, <1>2, <4>1 DEF Reached
    <3>3. {batch[i] : i \in 1..Len(batch)} = (Reached + 1)..(Reached + Len(batch))
      <4>1. {batch[i] : i \in 1..Len(batch)} = {Reached + i : i \in 1..Len(batch)}
        BY <1>4
      <4>2. \A x \in (Reached + 1)..(Reached + Len(batch)) :
              x - Reached \in 1..Len(batch) /\ Reached + (x - Reached) = x
        BY <1>1
      <4>3. \A i \in 1..Len(batch) : Reached + i \in (Reached + 1)..(Reached + Len(batch))
        BY <1>1
      <4> QED  BY <4>1, <4>2, <4>3
    <3> QED  BY <1>1, <1>4, <3>1, <3>2, <3>3
  <2> QED  BY <2>1, <2>2
<1>6. Cursor' = n
  BY <1>1, <1>2, <1>5 DEF Cursor, LargerOf, Reached
<1>7. n \in 1..posted /\ n <= acked + Limit
  BY <1>1, <1>5
<1>8. CursorInv'
  BY <1>1, <1>2, <1>5 DEF CursorInv
<1>9. Updates!Read \/ Updates!GiveUp(n)
  <2>1. Updates!Within(n)
    BY <1>1, <1>3, <1>5, <1>7 DEF Updates!Within
  <2>2. CASE n = Reached + 1 /\ handled' = handled \cup {n} /\ dropped' = dropped
    BY <1>2, <1>3, <1>6, <2>1, <2>2 DEF Updates!Read
  <2>3. CASE handled' = handled /\ dropped' = dropped \cup (Reached + 1)..n
    BY <1>2, <1>3, <1>6, <2>1, <2>3 DEF Updates!GiveUp
  <2> QED  BY <1>5, <2>2, <2>3
<1> QED  BY <1>7, <1>8, <1>9

(* A fetch commits what the process has passed, before it looks further.   *)
LEMMA FetchIsCommit ==
  ASSUME PollInv, PollInv', Fetch
  PROVE  Updates!Commit /\ CursorInv'
<1>1. /\ acked \in Nat /\ lastId \in Nat
      /\ pc # "off" => Cursor = LargerOf(acked, Reached)
      /\ pc # "handle" => Reached = lastId
  BY CursorValues
<1>2. /\ pc = "fetch" /\ acked' = Confirmed /\ batch' = Answer /\ posted' = posted
      /\ lastId' = IF Answer = <<>> THEN lastId ELSE Answer[Len(Answer)]
      /\ handled' = handled /\ dropped' = dropped
      /\ pc' = IF Answer = <<>> THEN "pause" ELSE "handle"
  BY DEF Fetch, hist
<1>3. Cursor = Confirmed /\ Confirmed \in Nat /\ lastId <= Confirmed
  BY <1>1, <1>2 DEF Confirmed, LargerOf
<1>4. Cursor' = Confirmed /\ CursorInv'
  <2>1. CASE Answer = <<>>
    <3>1. Len(batch') = 0 /\ lastId' = lastId /\ pc' = "pause"
      BY <1>2, <2>1, EmptySeq
    <3>2. Cursor' = LargerOf(Confirmed, lastId)
      BY <1>1, <1>2, <3>1 DEF Cursor
    <3> QED  BY <1>1, <1>3, <3>1, <3>2 DEF LargerOf, CursorInv
  <2>2. CASE Answer # <<>>
    <3>1. /\ Answer \in Seq(Ids) /\ \A i \in 1..Len(Answer) : Answer[i] = Confirmed + i
      BY AnswerProperties DEF PollInv
    <3>2. Len(Answer) \in Nat \ {0}
      BY <2>2, <3>1, EmptySeq
    <3>3. lastId' = Confirmed + Len(Answer) /\ Len(batch') = Len(Answer) /\ pc' = "handle"
      BY <1>2, <2>2, <3>1, <3>2
    <3>4. Reached' = Confirmed
      BY <1>3, <3>2, <3>3 DEF Reached
    <3>5. Cursor' = LargerOf(Confirmed, Confirmed)
      BY <1>2, <3>3, <3>4 DEF Cursor, Reached
    <3> QED  BY <1>2, <1>3, <3>4, <3>5 DEF LargerOf, CursorInv
  <2> QED  BY <2>1, <2>2
<1> QED  BY <1>2, <1>3, <1>4 DEF Updates!Commit

(* The end of a process gives up its place, the start of one takes it at   *)
(* what is committed.                                                      *)
LEMMA ProcessesReopen ==
  ASSUME PollInv, PollInv', Exit \/ Start
  PROVE  (Updates!Reopen \/ UNCHANGED Updates!vars) /\ CursorInv'
<1>1. /\ acked \in Nat /\ acked' = acked /\ posted' = posted
      /\ handled' = handled /\ dropped' = dropped
  BY CursorValues DEF Exit, Start, api, hist
<1>2. CASE Exit
  <2>1. pc' = "off"
    BY <1>2 DEF Exit
  <2>2. Cursor' = acked
    BY <1>1, <2>1 DEF Cursor
  <2> QED  BY <1>1, <2>1, <2>2 DEF Updates!Reopen, CursorInv
<1>3. CASE Start
  <2>1. pc = "off" /\ pc' \in {"fetch", "disabled"} /\ lastId' = 0 /\ batch' = <<>>
    BY <1>3 DEF Start
  <2>2. Len(batch') = 0
    BY <2>1, EmptySeq
  <2>3. Cursor = acked /\ Cursor' = acked
    BY <1>1, <2>1, <2>2 DEF Cursor, LargerOf
  <2> QED  BY <1>1, <2>1, <2>3 DEF Updates!vars, CursorInv
<1> QED  BY <1>2, <1>3

(* A fetch without an answer may commit all the same; nothing else happens *)
(* between the batches.                                                    *)
LEMMA QuietStepsCommitOrStutter ==
  ASSUME PollInv, PollInv', CursorInv,
         Stop \/ FetchRefused \/ FetchFails \/ Pause \/ Retry \/ UNCHANGED vars
  PROVE  (Updates!Commit \/ UNCHANGED Updates!vars) /\ CursorInv'
<1>1. /\ acked \in Nat /\ lastId \in Nat
      /\ pc # "off" => Cursor = LargerOf(acked, Reached)
      /\ pc # "handle" => Reached = lastId
  BY CursorValues
<1>2. UNCHANGED <<posted, lastId, batch, handled, dropped>>
  BY DEF Stop, FetchRefused, FetchFails, Pause, Retry, vars, api, loop, hist
<1>3. CASE acked' = acked /\ (pc = "off" <=> pc' = "off") /\ (pc' = "handle" => pc = "handle")
  <2>1. Cursor' = Cursor
    BY <1>2, <1>3 DEF Cursor
  <2>2. Reached' = Reached
    BY <1>2 DEF Reached
  <2> QED  BY <1>2, <1>3, <2>1, <2>2 DEF Updates!vars, CursorInv
<1>4. CASE FetchFails /\ acked' = Confirmed
  <2>1. pc = "fetch" /\ pc' = "retry"
    BY <1>4 DEF FetchFails
  <2>2. Cursor = Confirmed /\ Confirmed \in Nat /\ lastId <= Confirmed
    BY <1>1, <2>1 DEF Confirmed, LargerOf
  <2>3. Cursor' = LargerOf(Confirmed, Reached)
    BY <1>2, <1>4, <2>1 DEF Cursor, Reached
  <2>4. Cursor' = Confirmed
    BY <1>1, <2>1, <2>2, <2>3 DEF LargerOf
  <2> QED  BY <1>2, <1>4, <2>1, <2>2, <2>4 DEF Updates!Commit, CursorInv
<1> QED
  BY <1>3, <1>4 DEF Stop, FetchRefused, FetchFails, Pause, Retry, NextRound, vars, api, loop

(* Every step of the poll loop is a step of a reader of the log, or is not *)
(* seen there (_poll_loop, _get_updates).                                  *)
THEOREM PollLoopImplementsCommittedLog == Spec => ImplementsCommittedLog
<1>1. Init => Updates!Init /\ CursorInv
  BY DEF Init, Updates!Init, Cursor, CursorInv
<1>2. PollInv /\ PollInv' /\ CursorInv /\ [Next]_vars
        => [Updates!Next]_(Updates!vars) /\ CursorInv'
  <2> SUFFICES ASSUME PollInv, PollInv', CursorInv, [Next]_vars
               PROVE  [Updates!Next]_(Updates!vars) /\ CursorInv'
    OBVIOUS
  <2>1. CASE Post
    <3>1. /\ posted' = posted + 1 /\ UNCHANGED <<acked, pc, lastId, batch, handled, dropped>>
      BY <2>1 DEF Post, loop, hist
    <3>2. Cursor' = Cursor /\ CursorInv'
      BY <3>1 DEF Cursor, CursorInv, Reached
    <3>3. Updates!Write
      BY <3>1, <3>2 DEF Updates!Write
    <3> QED  BY <3>2, <3>3 DEF Updates!Next
  <2>2. CASE Start \/ Exit
    BY <2>2, ProcessesReopen DEF Updates!Next
  <2>3. CASE Fetch
    BY <2>3, FetchIsCommit DEF Updates!Next
  <2>4. CASE HandleNext \/ HandleRaises
    BY <2>4, WorkIsReading DEF Updates!Next
  <2>5. CASE Stop \/ FetchRefused \/ FetchFails \/ Pause \/ Retry \/ UNCHANGED vars
    BY <2>5, QuietStepsCommitOrStutter DEF Updates!Next
  <2> QED  BY <2>1, <2>2, <2>3, <2>4, <2>5 DEF Next, LoopStep
<1> QED  BY <1>1, <1>2, PollInvariant, PTL DEF Spec, ImplementsCommittedLog, Updates!Spec

=============================================================================
