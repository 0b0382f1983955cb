---------------------------- MODULE MCDeckReader ----------------------------
(* Decks for TLC: two segments, one driven at zero volts, one load and one of  *)
(* no impedance, one metal; in the NEC-4.2 dialect voltages and currents on    *)
(* the same segments, and the cards it reads in its own way.                   *)
EXTENDS DeckReader

Card(kind, at, val) == [kind |-> kind, at |-> at, val |-> val]

Nec2Cards ==
    {Card("EX", "a", 2), Card("EX", "b", 0), Card("FR", None, <<1, 2>>), Card("GN", None, 1),
     Card("EK", None, TRUE), Card("LD", "a", 5), Card("LD", "a", 0), Card("LD", None, 0), Card("LD", All, 3),
     Card("TL", "a", 0), Card("PT", None, 0), Card("CM", None, 0), Card("IS", All, 2), Card("XQ", None, 0)}

Nec4Cards ==
    {Card("EX", "a", 2), Card("EX6", "a", 3), Card("EX6", "b", 2), Card("EX6", "b", 0),
     Card("EK", None, FALSE), Card("LD", "a", 5), Card("LD", "b", 7), Card("GD", None, 0), Card("XQ", None, 0)}

MCCards == [d \in Dialects |-> IF d = "nec2" THEN Nec2Cards ELSE Nec4Cards]
=============================================================================
