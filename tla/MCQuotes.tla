------------------------------ MODULE MCQuotes ------------------------------
(***************************************************************************)
(* Small instances of Quotes.                                              *)
(***************************************************************************)
EXTENDS Quotes, TLC

CONSTANTS c1, c2

\* Fares 1 and 2 are for two flights, 3 is a second fare for the first flight.
TwoFlights == (1 :> "a") @@ (2 :> "b") @@ (3 :> "a")

OneCurrency == [f \in Fares |-> "EGP"]

\* For a four-bit integer: two of the first fit, two of the second just do not.
SmallOffers == {[price |-> 2, taxes |-> 1], [price |-> 1, taxes |-> 3], [price |-> 7, taxes |-> 7]}

=============================================================================
