------------------------------ MODULE OnceOnly ------------------------------
(***************************************************************************)
(* What an Idempotency-Key promises to a client: whatever it sends, and    *)
(* however often, a key has one effect, and every answer to that key is    *)
(* the answer to that effect and to the payload that caused it.            *)
(***************************************************************************)
CONSTANTS Keys, Payloads, Resources

VARIABLES
    effects,        \* what was done: key, payload and the resource in the response
    answers         \* what clients were told

vars == <<effects, answers>>

Effect == [key : Keys, payload : Payloads, resource : Resources]

Init == effects = {} /\ answers = {}

Do(e) ==
    /\ \A f \in effects : f.key # e.key /\ f.resource # e.resource
    /\ effects' = effects \cup {e}
    /\ UNCHANGED answers

Answer(e) ==
    /\ e \in effects
    /\ answers' = answers \cup {e}
    /\ UNCHANGED effects

DoAndAnswer(e) ==
    /\ \A f \in effects : f.key # e.key /\ f.resource # e.resource
    /\ effects' = effects \cup {e}
    /\ answers' = answers \cup {e}

Next == \E e \in Effect : Do(e) \/ Answer(e) \/ DoAndAnswer(e)

Spec == Init /\ [][Next]_vars

=============================================================================
