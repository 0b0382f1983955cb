--------------------------- MODULE MCSessionPump ---------------------------
(* Instances of SessionPump for TLC. *)
EXTENDS SessionPump, TLC

CONSTANTS i1, i2

\* Three decks, the last one left open at the end of the input; an empty deck
\* between two; a script with nothing to solve.
NXScripts == {<<"card", "NX", "card", "NX", "card">>,
              <<"card", "card", "NX", "NX", "card", "NX">>, <<"NX">>, <<>>}
\* One session alone, or two that share the lock.
OneOrTwo ==
    {i1 :> given : given \in NXScripts}
    \cup {(i1 :> <<"NX">>) @@ (i2 :> <<"NX", "NX">>)}
\* A .nec file: EN ends the run, and more may follow it.
ENScripts == {i1 :> given : given \in {<<"card", "EN">>, <<"card", "NX", "card", "EN", "card">>}}
=============================================================================
