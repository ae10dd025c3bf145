--------------------------- MODULE MCAuthSessions ---------------------------
(***************************************************************************)
(* A small instance of AuthSessions.                                       *)
(***************************************************************************)
EXTENDS AuthSessions, TLC

CONSTANTS u1, s1, s2, t1, t2, t3, t4, r1, r2, r3

\* Sessions, tokens and requests are interchangeable.
IdSymmetry == Permutations(Sessions) \cup Permutations(Tokens) \cup Permutations(Requests)

=============================================================================
