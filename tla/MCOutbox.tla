------------------------------ MODULE MCOutbox ------------------------------
(***************************************************************************)
(* Small instances of Outbox.                                              *)
(***************************************************************************)
EXTENDS Outbox

CONSTANTS w1, w2

=============================================================================
