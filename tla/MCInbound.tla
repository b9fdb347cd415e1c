------------------------------ MODULE MCInbound ------------------------------
(***************************************************************************)
(* Small instance of Inbound.  Every envelope may be presented as it was   *)
(* signed or with an empty nonce, the one form that all texts have in      *)
(* common.  A tick is half a millisecond.  The cache holds no more than    *)
(* one window admits, and a window just covers the span of a message, the  *)
(* least that ParameterAssumption allows; entries outlive the window by    *)
(* one tick, so that a full cache makes room by dropping entries that have *)
(* not expired.                                                            *)
(***************************************************************************)
EXTENDS Inbound, TLC

CONSTANTS own, empty

cuts == {own, empty}
nonces == Text \cup {empty}
nonceAt == [x \in Text \X cuts |-> IF x[2] = own THEN x[1] ELSE empty]

Symmetry == Permutations(Peer) \cup Permutations(Text)

=============================================================================
