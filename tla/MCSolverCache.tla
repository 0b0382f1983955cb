--------------------------- MODULE MCSolverCache ---------------------------
(***************************************************************************)
(* Sessions for TLC: decks that share an operator key and differ in        *)
(* everything else, and decks refused at each point.                       *)
(***************************************************************************)
EXTENDS SolverCache

MCUndriven == {"undriven"}
MCUnbuildable == {"ekSingular"}
MCSingular == {"singular"}

\* Its FR card multiplies until the frequency overflows.
MCUnlisted == {"steep"}

Run(op, loads, freqs, volts, place) ==
    [op |-> op, loads |-> loads, freqs |-> freqs, volts |-> volts, place |-> place]
Of(parses, shape, gd, runs) ==
    [parses |-> parses, shape |-> shape, tags |-> "t", gd |-> gd, runs |-> runs]
First(freqs, volts) == Run("free", {}, freqs, volts, 0)
Start == First(<<7>>, 1)

ServedDecks ==
    {"s", "s swept", "s twice", "s loaded", "t", "singular", "no EX", "unread",
     "steep"}
ServedModel == [d \in ServedDecks |->
    CASE d = "s"        -> Of(TRUE, "s", "sea", <<Start>>)
      [] d = "s swept"  -> Of(TRUE, "s", "soil", <<First(<<14, 7>>, 2)>>)
      [] d = "s twice"  -> Of(TRUE, "s", "sea", <<Start, Run("free", {}, <<14>>, 1, 1)>>)
      [] d = "s loaded" -> Of(TRUE, "s", "sea", <<Start, Run("free", {"coil"}, <<14>>, 1, 1)>>)
      [] d = "t"        -> Of(TRUE, "t", "sea",
                              <<Start, Run("singular", {}, <<7, 14>>, 1, 1),
                                Run("ekSingular", {}, <<7>>, 1, 2),
                                Run("ek", {}, <<7, 14, 21>>, 1, 4)>>)
      [] d = "singular" -> Of(TRUE, "s", "sea", <<Run("singular", {}, <<7>>, 1, 0)>>)
      [] d = "no EX"    -> Of(TRUE, "undriven", "sea", <<Start>>)
      [] d = "unread"   -> Of(FALSE, "s", "sea", <<Start>>)
      [] d = "steep"    -> Of(TRUE, "s", "sea", <<Start>>)]
=============================================================================
