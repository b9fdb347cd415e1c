---------------------------- MODULE MCFileReceive ----------------------------
(***************************************************************************)
(* Small instances of FileReceive: chunks of two bytes; a transfer alone   *)
(* under its name, whose last chunk is partial, and two that share a name, *)
(* one of them a single chunk.                                             *)
(***************************************************************************)
EXTENDS FileReceive, TLC

CONSTANTS t1, t2, t3, a, b

MCNameOf == (t1 :> a) @@ (t2 :> b) @@ (t3 :> b)
MCContentOf == (t1 :> <<1, 2, 1>>) @@ (t2 :> <<2, 1, 1>>) @@ (t3 :> <<1>>)
MCLeftovers == {<<2, 2, 2>>}

(* One transfer only, for what the protocol description says of it.        *)
SoleNameOf == t1 :> a
SoleContentOf == t1 :> <<1, 2, 1>>

=============================================================================
