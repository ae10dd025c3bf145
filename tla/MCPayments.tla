----------------------------- MODULE MCPayments -----------------------------
(***************************************************************************)
(* A small instance of Payments.                                           *)
(***************************************************************************)
EXTENDS Payments

CONSTANTS p1, w1, w2

=============================================================================
