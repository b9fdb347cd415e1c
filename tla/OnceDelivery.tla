---------------------------- MODULE OnceDelivery ----------------------------
(***************************************************************************)
(* What a receiver promises about authenticated messages, whatever the     *)
(* network repeats, delays or changes: in the life of one receiver a       *)
(* message is passed on at most once in each form in which it can be       *)
(* presented, and nothing is passed on that was not signed.  A message has *)
(* several forms when one signature is good for all of them.  How the      *)
(* promise is kept (time stamps, nonces, counters, caches, rate limits) is *)
(* not visible here; Inbound and SessionCipher are shown to implement it.  *)
(***************************************************************************)
CONSTANTS
  Message,                    \* the messages that may ever be signed
  Form                        \* the forms of a message

VARIABLES
  signed,                     \* messages signed so far
  done                        \* <<message, form>> the receiver has passed on

vars == <<signed, done>>

Init == signed = {} /\ done = {}

Sign(m) == /\ m \in Message \ signed
           /\ signed' = signed \cup {m}
           /\ UNCHANGED done

(* A form of a message is passed on once: the message must be signed.      *)
Dispatch(m, f) == /\ m \in signed /\ <<m, f>> \notin done
                  /\ done' = done \cup {<<m, f>>}
                  /\ UNCHANGED signed

(* A new receiver does not know what the one before it has passed on.      *)
Restart == done' = {} /\ UNCHANGED signed

Next == \/ Restart
        \/ \E m \in Message : Sign(m) \/ \E f \in Form : Dispatch(m, f)

Spec == Init /\ [][Next]_vars

=============================================================================
