------------------------------ MODULE MCRequests ------------------------------
(***************************************************************************)
(* Small instance of Requests: two requests of any kind, each from an      *)
(* operator or a viewer; the limiter admits one command in its window.     *)
(***************************************************************************)
EXTENDS Requests, TLC

CONSTANTS o, v, q1, q2

MCRoleOf == (o :> 1) @@ (v :> 0)

=============================================================================
