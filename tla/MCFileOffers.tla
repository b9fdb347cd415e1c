----------------------------- MODULE MCFileOffers -----------------------------
(***************************************************************************)
(* Small instance of FileOffers: an operator with two transfers, a viewer  *)
(* with one.  Three calls in the window leave room for one whole offer and *)
(* half of a second one, as five leave room for two and a half.            *)
(***************************************************************************)
EXTENDS FileOffers, TLC

CONSTANTS oper, viewer, t1, t2, t3

MCOwnerOf == (t1 :> oper) @@ (t2 :> oper) @@ (t3 :> viewer)
MCMaxArrivals == (oper :> 3) @@ (viewer :> 1)

=============================================================================
