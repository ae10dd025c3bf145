----------------------------- MODULE MCRequests -----------------------------
(***************************************************************************)
(* A small instance of Requests.                                           *)
(***************************************************************************)
EXTENDS Requests

CONSTANTS u1, k1, k2, d1, d2, a1, a2

OneUser == [k \in Keys |-> u1]

=============================================================================
