--------------------------- MODULE MCSweepAnchors ---------------------------
(* A crew of two for TLC: two frequencies near one another, and a table of  *)
(* the second of another deck, whose size is not about the same.            *)
EXTENDS SweepAnchors

MCProcs == {0, 1}
MCKeys == {<<0, 1>>, <<2, 2>>, <<2, 4>>}
MCEarlier == {0, 1}
MCNear == {"low band"}
MCFar == {"far annulus"}
=============================================================================
