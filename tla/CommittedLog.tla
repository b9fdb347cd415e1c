---------------------------- MODULE CommittedLog ----------------------------
(***************************************************************************)
(* What the poll loop promises about the updates of the chat: they are a   *)
(* log that one reader at a time goes through from front to back.  It      *)
(* reads one entry after the other, or, after an error, gives up the next  *)
(* few, and both is kept apart: read and lost.  Nobody passes over an      *)
(* entry otherwise, only what is read or lost is committed, a reader is    *)
(* never more than Size entries ahead of what is committed, and a reader   *)
(* that comes after another one begins behind the committed entries.  How  *)
(* fetches, batches, errors and delays keep the promise is not visible     *)
(* here; module PollLoop is shown to implement it.                         *)
(***************************************************************************)
EXTENDS Integers

CONSTANT Size                 \* how far a reader may be ahead

VARIABLES
  written,                    \* the entries are 1..written
  committed,                  \* 1..committed are gone for good
  cursor,                     \* the reader is done with everything up to here
  read,                       \* what any reader has read
  lost                        \* what any reader has given up after an error

vars == <<written, committed, cursor, read, lost>>

Init == written = 0 /\ committed = 0 /\ cursor = 0 /\ read = {} /\ lost = {}

Write == /\ written' = written + 1
         /\ UNCHANGED <<committed, cursor, read, lost>>

Within(n) == cursor < n /\ n <= written /\ n <= committed + Size

(* The reader reads the next entry.                                        *)
Read == /\ Within(cursor + 1)
        /\ cursor' = cursor + 1
        /\ read' = read \cup {cursor + 1}
        /\ UNCHANGED <<written, committed, lost>>

(* The reader gives up the entries up to n.                                *)
GiveUp(n) == /\ Within(n)
             /\ cursor' = n
             /\ lost' = lost \cup (cursor + 1)..n
             /\ UNCHANGED <<written, committed, read>>

Commit == /\ committed' = cursor
          /\ UNCHANGED <<written, cursor, read, lost>>

(* Another reader.                                                         *)
Reopen == /\ cursor' = committed
          /\ UNCHANGED <<written, committed, read, lost>>

Next == Write \/ Read \/ Commit \/ Reopen \/ \E n \in 1..written : GiveUp(n)

Spec == Init /\ [][Next]_vars

=============================================================================
