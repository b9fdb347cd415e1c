------------------------------ MODULE PollLoop ------------------------------
(***************************************************************************)
(* TelegramTransport._poll_loop and _get_updates against the Bot API: how  *)
(* updates are fetched, confirmed and handed to _handle_update, over the   *)
(* life of several daemon processes.                                       *)
(*                                                                         *)
(* The Bot API keeps an update until a getUpdates call names a larger      *)
(* offset; the loop names the successor of the last id it has fetched, so  *)
(* an update is confirmed by the fetch that follows its batch.  A process  *)
(* may end between any two steps, and the next one starts from offset 1.   *)
(***************************************************************************)
EXTENDS Integers, Sequences, FiniteSets

CONSTANTS
  Limit,        \* the limit parameter of getUpdates
  Cap,          \* the largest delay after an error, in seconds
  MaxId,        \* bound: updates posted to the chat
  MaxBoots      \* bound: processes started

ASSUME PollAssumption ==
  /\ Limit \in Nat \ {0} /\ Cap \in Nat \ {0}
  /\ MaxId \in Nat /\ MaxBoots \in Nat

VARIABLES
  posted,       \* Bot API: ids 1..posted exist
  acked,        \* Bot API: ids 1..acked are confirmed and gone
  pc,           \* "off", "disabled", "fetch", "handle", "pause", "retry", "ended"
  available,    \* _available
  lastId,       \* _last_update_id
  batch,        \* the ids of this batch that are still to be handled
  backoff,      \* backoff
  handled,      \* ids that _handle_update has dealt with, in any process
  dropped,      \* ids given up because _handle_update raised, in any process
  raised,       \* history: the ids whose handling raised, in any process
  log,          \* history: the ids this process handled, in order
  boots         \* processes started so far

api   == <<posted, acked>>
hist  == <<handled, dropped, raised, log, boots>>
loop  == <<pc, available, lastId, batch, backoff>>
vars  == <<api, loop, hist>>

Ids == 1..MaxId

TypeOK ==
  /\ posted \in 0..MaxId /\ acked \in 0..posted /\ lastId \in 0..posted
  /\ pc \in {"off", "disabled", "fetch", "handle", "pause", "retry", "ended"}
  /\ available \in BOOLEAN
  /\ batch \in Seq(Ids) /\ Len(batch) <= Limit
  /\ (batch # <<>>) <=> (pc = "handle")
  /\ backoff \in 1..Cap
  /\ handled \subseteq 1..posted /\ dropped \subseteq 1..posted /\ raised \subseteq dropped
  /\ log \in Seq(Ids)
  /\ boots \in 0..MaxBoots

Init ==
  /\ posted = 0 /\ acked = 0
  /\ pc = "off" /\ available = FALSE
  /\ lastId = 0 /\ batch = <<>> /\ backoff = 1
  /\ handled = {} /\ dropped = {} /\ raised = {} /\ log = <<>> /\ boots = 0

SmallerOf(a, b) == IF a < b THEN a ELSE b
LargerOf(a, b) == IF a > b THEN a ELSE b

(* The ids lo..hi in order.                                                *)
Run(lo, hi) == [i \in 1..(IF hi >= lo THEN hi - lo + 1 ELSE 0) |-> lo + i - 1]

(* Somebody writes to the chat.                                            *)
Post == /\ posted < MaxId
        /\ posted' = posted + 1
        /\ UNCHANGED <<acked, loop, hist>>

-----------------------------------------------------------------------------
(* start                                                                   *)

(* A new process: getMe answers and the loop begins, or it does not and    *)
(* this process never polls.                                               *)
Start ==
  /\ pc = "off" /\ boots < MaxBoots
  /\ boots' = boots + 1
  /\ \/ available' = TRUE  /\ pc' = "fetch"
     \/ available' = FALSE /\ pc' = "disabled"
  /\ lastId' = 0 /\ batch' = <<>> /\ backoff' = 1 /\ log' = <<>>
  /\ UNCHANGED <<api, handled, dropped, raised>>

(* stop() only clears the flag; the loop looks at it between two rounds.   *)
Stop ==
  /\ available
  /\ available' = FALSE
  /\ UNCHANGED <<api, pc, lastId, batch, backoff, hist>>

(* The process ends, killed or done.                                       *)
Exit ==
  /\ pc # "off"
  /\ pc' = "off" /\ available' = FALSE /\ batch' = <<>>
  /\ UNCHANGED <<api, lastId, backoff, hist>>

-----------------------------------------------------------------------------
(* _get_updates                                                            *)

(* What a call that reaches the API confirms.                              *)
Confirmed == LargerOf(acked, lastId)

AnswerUnlimited == Run(Confirmed + 1, posted)

Answer == Run(Confirmed + 1, SmallerOf(Confirmed + Limit, posted))

FetchConfirmingTheBatch ==
  /\ pc = "fetch"
  /\ acked' = IF Answer = <<>> THEN Confirmed ELSE Answer[Len(Answer)]
  /\ batch' = Answer
  /\ lastId' = IF Answer = <<>> THEN lastId ELSE Answer[Len(Answer)]
  /\ pc' = IF Answer = <<>> THEN "pause" ELSE "handle"
  /\ backoff' = 1
  /\ UNCHANGED <<posted, available, hist>>

FetchForgettingTheId ==
  /\ pc = "fetch"
  /\ acked' = Confirmed
  /\ batch' = Answer
  /\ pc' = IF Answer = <<>> THEN "pause" ELSE "handle"
  /\ backoff' = 1
  /\ UNCHANGED <<posted, available, lastId, hist>>

(* An answer with ok: its last id becomes _last_update_id at once, before  *)
(* any of its updates is handled.                                          *)
Fetch ==
  /\ pc = "fetch"
  /\ acked' = Confirmed
  /\ batch' = Answer
  /\ lastId' = IF Answer = <<>> THEN lastId ELSE Answer[Len(Answer)]
  /\ pc' = IF Answer = <<>> THEN "pause" ELSE "handle"
  /\ backoff' = 1
  /\ UNCHANGED <<posted, available, hist>>

(* An answer without ok counts as an empty batch, and as a success.        *)
FetchRefused ==
  /\ pc = "fetch"
  /\ pc' = "pause"
  /\ backoff' = 1
  /\ UNCHANGED <<api, available, lastId, batch, hist>>

(* Time-out or connection error, before or after the API saw the call.     *)
FetchFails ==
  /\ pc = "fetch"
  /\ acked' \in {acked, Confirmed}
  /\ pc' = "retry"
  /\ UNCHANGED <<posted, available, lastId, batch, backoff, hist>>

-----------------------------------------------------------------------------
(* _poll_loop                                                              *)

HandleNext ==
  /\ pc = "handle"
  /\ handled' = handled \cup {Head(batch)}
  /\ log' = Append(log, Head(batch))
  /\ batch' = Tail(batch)
  /\ pc' = IF Tail(batch) = <<>> THEN "pause" ELSE "handle"
  /\ UNCHANGED <<api, available, lastId, backoff, dropped, raised, boots>>

(* _handle_update raises: this update and the rest of the batch are given  *)
(* up, because _last_update_id is already past them.                       *)
HandleRaises ==
  /\ pc = "handle"
  /\ dropped' = dropped \cup {batch[i] : i \in 1..Len(batch)}
  /\ raised' = raised \cup {Head(batch)}
  /\ batch' = <<>>
  /\ pc' = "retry"
  /\ UNCHANGED <<api, available, lastId, backoff, handled, log, boots>>

NextRound == IF available THEN "fetch" ELSE "ended"

(* sleep(0.5) after a round without an error.                              *)
Pause ==
  /\ pc = "pause"
  /\ pc' = NextRound
  /\ UNCHANGED <<api, available, lastId, batch, backoff, hist>>

RetryEndingTheLoop ==
  /\ pc = "retry"
  /\ backoff' = SmallerOf(backoff * 2, Cap)
  /\ pc' = "ended"
  /\ UNCHANGED <<api, available, lastId, batch, hist>>

(* sleep(backoff) after an error, then the delay doubles up to the cap.    *)
Retry ==
  /\ pc = "retry"
  /\ backoff' = SmallerOf(backoff * 2, Cap)
  /\ pc' = NextRound
  /\ UNCHANGED <<api, available, lastId, batch, hist>>

LoopStep == HandleNext \/ HandleRaises \/ Pause \/ Retry

Next ==
  \/ Post \/ Start \/ Stop \/ Exit
  \/ Fetch \/ FetchRefused \/ FetchFails
  \/ LoopStep

Spec == Init /\ [][Next]_vars

(* The loop goes on (asyncio runs a ready task and a timer eventually      *)
(* fires), and an API that is asked for ever answers for ever again.       *)
FairSpec == Spec /\ WF_vars(LoopStep) /\ SF_vars(Fetch)

-----------------------------------------------------------------------------
(* Properties                                                              *)

(* A confirmed update is gone from the API, so it must have been handled,  *)
(* or given up by an error: a process that ends in the middle of a batch   *)
(* loses nothing, because a batch is only confirmed by the next fetch.     *)
NothingLost == \A id \in 1..acked : id \in handled \cup dropped

(* What a new process gets a second time is at most one batch: everything  *)
(* touched and not yet confirmed lies within Limit of the confirmed ids.   *)
RedeliveryBound == \A id \in handled \cup dropped : id <= acked + Limit

(* One process handles ids in increasing order and never one twice, and    *)
(* what it still has in its batch comes after what it has handled.         *)
InOrder ==
  LET all == log \o batch
  IN  \A i, j \in 1..Len(all) : i < j => all[i] < all[j]

(* The id up to which the process has dealt with the updates, or will have *)
(* them given: the one before its batch, unless more is confirmed.         *)
Cursor == IF pc = "off" THEN acked ELSE LargerOf(acked, lastId - Len(batch))

Updates == INSTANCE CommittedLog
  WITH Size <- Limit, written <- posted, committed <- acked,
       cursor <- Cursor, read <- handled, lost <- dropped

(* Fetches, batches, errors and the ends of processes are nothing but a    *)
(* reader of a log that reads entry by entry, loses only the rest of what  *)
(* it fetched, by an error, and commits what it is done with (_poll_loop,  *)
(* "self._last_update_id + 1" of _get_updates).                            *)
ImplementsCommittedLog == Updates!Spec

(* The update id was fetched with one whose handling raised, before it or  *)
(* as its own.                                                             *)
LostWithAnError(id) == \E c \in raised : c <= id /\ id < c + Limit

(* Every update posted while a loop runs is handled in the end, unless the *)
(* process is stopped, its start failed, or the handling of this update or *)
(* of one close before it raised.  The last is a loss the code accepts     *)
(* (_poll_loop, "except Exception"): what it says here is that nothing     *)
(* else, no failing call and no delay, keeps the loop from going on.       *)
EventuallyHandled ==
  \A id \in Ids :
    (posted >= id /\ available) ~> (id \in handled \/ LostWithAnError(id) \/ ~available)

=============================================================================
