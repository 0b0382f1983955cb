----------------------------- MODULE DeckReader -----------------------------
(***************************************************************************)
(* How a NEC-2 deck's data cards are read.  Two readers walk the same      *)
(* cards: _Nec2Parser (deck/_nec2.py) makes the model that is solved, and  *)
(* parse_deck (dropin/nec2c/_portal.py) the groups the printout is of,     *)
(* whose sources also drive the solve.  parse_deck starts when the other   *)
(* is done and takes from it which execute cards ran; the two are made     *)
(* card by card together here.  The NEC-4.2 dialect (deck/_nec4.py) reads  *)
(* the same cards with a few differences, which both readers know.         *)
(*                                                                         *)
(* A card is its kind, what it addresses and its value.  Geometry is a     *)
(* given set of segments, without a symmetric cell; an LD addresses one    *)
(* segment, or all the metal (types 2, 3 and 5, as one).  An EX of type 6, *)
(* which sets a current, is a kind of its own.  What an execute card asks  *)
(* to be printed, refusals of a card by its fields, and GD's medium are    *)
(* left out.                                                               *)
(***************************************************************************)
EXTENDS Integers, Sequences, FiniteSets, SequencesExt

CONSTANTS
    Cards,     \* by dialect, the cards of the decks
    MaxCards   \* bound: cards of a deck

None == "none"
All  == "all"      \* an LD that addresses every wire's metal
DefaultList == <<0>>

Execute   == {"XQ", "RP", "NE", "NH"}
Arming    == {"EX", "EX6", "FR", "LD", "GN", "EK", "TL", "NT"}
Operator  == {"GN", "EK", "LD"}
Networks  == {"TL", "NT"}
Comments  == {"CM", "CE"}
Advice    == {"PT", "PQ", "MP"}
Geometry  == {"GW", "GA", "GH", "GM", "GS", "GX", "GR", "GE"}
Others    == {"GD", "IS"}
Excitations == {"EX", "EX6"}   \* a voltage, a current
Nec4Only  == {"EX6", "CW"}
Kinds == Execute \cup Arming \cup Nec4Only \cup Comments \cup Advice \cup Geometry \cup Others

Dialects == {"nec2", "nec4"}
AnyCard  == UNION {Cards[d] : d \in Dialects}

ASSUME ReaderAssumption ==
    /\ MaxCards \in Nat
    /\ DOMAIN Cards = Dialects
    /\ \A c \in AnyCard : DOMAIN c = {"kind", "at", "val"} /\ c.kind \in Kinds
    /\ \A c \in Cards["nec2"] : c.kind \notin Nec4Only
    /\ \A c \in AnyCard : c.kind = "FR" => c.val \in Seq(Nat) \ {<<>>}
    /\ \A c \in AnyCard : c.kind \in Excitations => c.val \in Nat

VARIABLES
    dialect,
    deck,       \* history: the cards read
    pc,         \* "reading", then "read" or "refused"
    armed,      \* _armed
    executed,   \* _executed: an execute card has run
    freshFr,    \* _fresh_fr
    dirty,      \* _operator_dirty
    sources,    \* _sources
    stale,      \* _sources_stale
    sourceKind, \* _source_kind, of each address; only NEC-4.2's reader keeps it
    freqs,      \* _frequencies
    ground,     \* _ground; 0 is free space
    kernel,     \* _extended_kernel
    nets,       \* _networks: where each attaches and its first group
    destroyer,  \* _network_destroyer
    log,        \* _load_log
    live,       \* _live
    metal,      \* _material_state; 0 is perfect metal
    runOpen,    \* _ld_run_open
    groups,     \* groups, of _PendingGroup or None
    portal,     \* parse_deck: its sources, stale, loads, open and groups
    model       \* the DeckModel

drive   == <<sources, stale, sourceKind>>
state   == <<freqs, ground, kernel>>
flags   == <<armed, executed, freshFr, dirty>>
loading == <<log, live, metal>>
vars == <<dialect, deck, pc, flags, drive, state, nets, destroyer, loading, runOpen,
          groups, portal, model>>

NotRun == [ran |-> FALSE, sources |-> <<>>, freqs |-> <<>>, whole |-> FALSE, part |-> FALSE,
           ground |-> 0, kernel |-> FALSE, loads |-> <<>>, metal |-> 0]
NoRows == [ran |-> FALSE, sources |-> <<>>, loads |-> <<>>]
NoModel == [feeds |-> {}, currents |-> {}, loads |-> <<>>, groups |-> <<>>]

Init ==
    /\ dialect \in Dialects /\ deck = <<>> /\ pc = "reading"
    /\ armed = TRUE /\ executed = FALSE /\ freshFr = FALSE /\ dirty = FALSE
    /\ sources = <<>> /\ stale = FALSE /\ sourceKind = {}
    /\ freqs = DefaultList /\ ground = 0 /\ kernel = (dialect = "nec4")
    /\ nets = <<>> /\ destroyer = None
    /\ log = <<>> /\ live = <<>> /\ metal = 0 /\ runOpen = FALSE
    /\ groups = <<>> /\ model = NoModel
    /\ portal = [sources |-> <<>>, stale |-> FALSE, loads |-> <<>>, open |-> FALSE, groups |-> <<>>]

-----------------------------------------------------------------------------
(* The second reader *)

\* The cards an LD run survives, of those that come as far as the test.
Transparent == Advice \cup Comments \cup (IF dialect = "nec4" THEN {"EK"} ELSE {})

\* An LD card: the first of a run, and LD -1, clear the rows.
ReadsLoad(w, c) ==
    LET kept == IF w.open /\ c.at # None THEN w.loads ELSE <<>>
    IN [w EXCEPT !.loads = IF c.at = None THEN kept ELSE Append(kept, c), !.open = TRUE]

\* Mutant: the sources of a run are never cleared.
ReadsSourceAdds(w, c) ==
    [w EXCEPT !.sources = Append(@, <<c.at, c.val>>), !.stale = FALSE, !.open = FALSE]
\* An EX card: the first after a run clears the run's sources.
ReadsSource(w, c) ==
    [w EXCEPT !.sources = Append(IF w.stale THEN <<>> ELSE @, <<c.at, c.val>>),
              !.stale = FALSE, !.open = FALSE]

\* An execute card, of which the model says whether it ran.
ReadsExecute(w, ran) ==
    [w EXCEPT !.groups = Append(@,
                IF ran THEN [ran |-> TRUE, sources |-> w.sources, loads |-> w.loads]
                ELSE NoRows),
              !.stale = ran \/ @, !.open = FALSE]

\* Comment and geometry cards are set aside before the run of LD cards is
\* looked at.
Walks(c, ran) ==
    \/ c.kind = "LD" /\ portal' = ReadsLoad(portal, c)
    \/ c.kind \in Excitations /\ portal' = ReadsSource(portal, c)
    \/ c.kind \in Execute /\ portal' = ReadsExecute(portal, ran)
    \/ c.kind \in Geometry \cup {"CW"} \cup Transparent /\ UNCHANGED portal
    \/ c.kind \in ({"FR", "GN", "EK"} \cup Networks \cup Others) \ Transparent
       /\ portal' = [portal EXCEPT !.open = FALSE]

-----------------------------------------------------------------------------
(* The first reader *)

\* The last card a deck has room for is an execute card: no other would be answered.
Reading(c) ==
    /\ pc = "reading" /\ Len(deck) < MaxCards /\ (Len(deck) = MaxCards - 1 => c.kind \in Execute)
    /\ deck' = Append(deck, c) /\ UNCHANGED dialect

\* The first card after a network card that would make NEC forget it.
Destroyed(c) ==
    destroyer' = IF /\ nets # <<>> /\ destroyer = None
                    /\ c.kind \notin Networks \cup Advice \cup Comments
                 THEN c.kind ELSE destroyer

\* What card() does of every card before it comes to its kind.
Noted(c) ==
    /\ runOpen' = (c.kind = "LD" \/ (runOpen /\ c.kind \in Transparent))
    /\ Destroyed(c)

\* An arming card arms; one that moves the operator, after a run, has it rebuilt.
Arms(c) ==
    /\ armed' = TRUE
    /\ dirty' = (dirty \/ (executed /\ c.kind \in Operator))
    /\ UNCHANGED <<executed, freshFr>>

\* A data card that runs nothing is read by both and the model stays to be made.
Takes(c) ==
    /\ Reading(c) /\ Noted(c) /\ Walks(c, FALSE)
    /\ UNCHANGED <<pc, groups, model>>

\* A source of zero volts is one of 1 V.
Driven(volts) == IF volts = 0 THEN 1 ELSE volts

\* A port is of one kind throughout the deck, and a current is not zero.
Drives(c) ==
    /\ \A s \in sourceKind : s[1] = c.at => s[2] = c.kind
    /\ c.kind = "EX6" => c.val # 0

\* Mutant: the sources of the last run stay when new ones are read.
ExAdds(c) ==
    /\ c.kind \in Excitations /\ Drives(c) /\ Takes(c) /\ Arms(c)
    /\ sources' = Append(sources, <<c.at, Driven(c.val)>>)
    /\ stale' = FALSE /\ sourceKind' = sourceKind \cup {<<c.at, c.kind>>}
    /\ UNCHANGED <<state, nets, loading>>
\* The first EX after a run replaces its sources, a further one adds to them.
Ex(c) ==
    /\ c.kind \in Excitations /\ Drives(c) /\ Takes(c) /\ Arms(c)
    /\ sources' = Append(IF stale THEN <<>> ELSE sources, <<c.at, Driven(c.val)>>)
    /\ stale' = FALSE /\ sourceKind' = sourceKind \cup {<<c.at, c.kind>>}
    /\ UNCHANGED <<state, nets, loading>>

Fr(c) ==
    /\ c.kind = "FR" /\ Takes(c)
    /\ armed' = TRUE /\ freqs' = c.val /\ freshFr' = TRUE
    /\ UNCHANGED <<executed, dirty, ground, kernel, drive, nets, loading>>

Gn(c) ==
    /\ c.kind = "GN" /\ Takes(c) /\ Arms(c)
    /\ ground' = c.val
    /\ UNCHANGED <<freqs, kernel, drive, nets, loading>>

\* NEC-4.2 has the extended kernel always and reads past EK, which arms and
\* moves the operator all the same.
Ek(c) ==
    /\ c.kind = "EK" /\ Takes(c) /\ Arms(c)
    /\ kernel' = (dialect = "nec4" \/ c.val)
    /\ UNCHANGED <<freqs, ground, drive, nets, loading>>

\* Where an entry stands in the log, which has each once.
IndexOf(entry) == IF \E k \in DOMAIN log : log[k] = entry
                  THEN CHOOSE k \in DOMAIN log : log[k] = entry
                  ELSE Len(log) + 1

\* Mutant: a run of LD cards adds to the run before.
KeptAll == [live |-> live, metal |-> metal]
\* What is in force when an LD card is read: the first of a run discards it.
Kept == IF runOpen THEN [live |-> live, metal |-> metal] ELSE [live |-> <<>>, metal |-> 0]

\* An LD card: LD -1 adds nothing and discards the run too, one of no impedance
\* adds nothing.
Ld(c) ==
    LET at   == IndexOf(<<c.at, c.val>>)
        lumped == c.at \notin {None, All} /\ c.val # 0
    IN /\ c.kind = "LD" /\ Takes(c) /\ Arms(c)
       /\ live' = IF c.at = None THEN <<>> ELSE IF lumped THEN Append(Kept.live, at) ELSE Kept.live
       /\ log' = IF lumped /\ at > Len(log) THEN Append(log, <<c.at, c.val>>) ELSE log
       /\ metal' = IF c.at = None THEN 0 ELSE IF c.at = All THEN c.val ELSE Kept.metal
       /\ UNCHANGED <<state, drive, nets>>

Refuses(c) ==
    /\ Reading(c) /\ pc' = "refused"
    /\ UNCHANGED <<flags, drive, state, nets, destroyer, loading, runOpen, groups, portal, model>>

ExRefused(c) == c.kind \in Excitations /\ ~Drives(c) /\ Refuses(c)

\* TL and NT: in force from the next execute card on.
Network(c) ==
    /\ c.kind \in Networks /\ destroyer = None /\ Takes(c) /\ Arms(c)
    /\ nets' = Append(nets, [at |-> c.at, first |-> Len(groups) + 1])
    /\ UNCHANGED <<state, drive, loading>>

\* NEC would forget the network cards before.
NetworkRefused(c) == c.kind \in Networks /\ destroyer # None /\ Refuses(c)

\* IS: the sheath of a wire, which no run may have been without.
Is(c) ==
    /\ c.kind = "IS" /\ ~executed /\ Takes(c)
    /\ UNCHANGED <<flags, state, drive, nets, loading>>
IsRefused(c) == c.kind = "IS" /\ executed /\ Refuses(c)

\* Cards that leave what is solved as it is.
Aside(c) ==
    /\ c.kind \in Comments \cup Advice \cup Geometry \cup {"CW", "GD"} /\ Takes(c)
    /\ UNCHANGED <<flags, state, drive, nets, loading>>

\* An execute card with something new, or the first, runs what is in force.
Runs(c) ==
    /\ c.kind \in Execute /\ (armed \/ ~executed)
    /\ Reading(c) /\ Noted(c) /\ Walks(c, TRUE)
    /\ LET whole == freshFr \/ ~executed
       IN groups' = Append(groups,
            [ran |-> TRUE, sources |-> sources,
             freqs |-> IF freshFr THEN freqs ELSE <<freqs[Len(freqs)]>>,
             whole |-> whole, part |-> dirty /\ ~whole,
             ground |-> ground, kernel |-> kernel, loads |-> live, metal |-> metal])
    /\ executed' = TRUE /\ freshFr' = FALSE /\ dirty' = FALSE /\ armed' = FALSE /\ stale' = TRUE
    /\ UNCHANGED <<pc, sources, sourceKind, state, nets, loading, model>>

RunsNothing(c) ==
    /\ c.kind \in Execute /\ ~armed /\ executed
    /\ Reading(c) /\ Noted(c) /\ Walks(c, FALSE)
    /\ groups' = Append(groups, NotRun)
    /\ UNCHANGED <<pc, flags, state, drive, nets, loading, model>>

-----------------------------------------------------------------------------
(* The model: one set of ports and one of loads for all groups *)

Ran == {i \in DOMAIN groups : groups[i].ran}

Used == IF Ran = {} THEN ToSet(live) ELSE UNION {ToSet(groups[i].loads) : i \in Ran}
Place(k) == Cardinality({j \in Used : j <= k})

Feeds == UNION {{s[1] : s \in ToSet(groups[i].sources)} : i \in Ran}

\* The voltage of a port in a group: of its last source there, or none.
Volts(g, a) ==
    LET at == {k \in DOMAIN g.sources : g.sources[k][1] = a}
    IN IF at = {} THEN 0 ELSE g.sources[CHOOSE k \in at : \A j \in at : j <= k][2]

\* model(); a group's loads in the order of the run, which the code sorts.
Model ==
    [feeds  |-> Feeds,
     currents |-> {a \in Feeds : <<a, "EX6">> \in sourceKind},
     loads  |-> [p \in 1 .. Cardinality(Used) |-> log[CHOOSE k \in Used : Place(k) = p]],
     groups |-> [i \in DOMAIN groups |->
                   [volts |-> [a \in Feeds |-> Volts(groups[i], a)],
                    loads |-> [k \in DOMAIN groups[i].loads |-> Place(groups[i].loads[k])]]]]

\* No source, or metal that differs between two runs, which share a fill.
Refusable ==
    \/ \A k \in DOMAIN deck : deck[k].kind \notin Excitations
    \/ \E i, j \in Ran : groups[i].metal # groups[j].metal

Ends ==
    /\ pc = "reading"
    /\ IF Refusable THEN pc' = "refused" /\ UNCHANGED model
       ELSE pc' = "read" /\ model' = Model
    /\ UNCHANGED <<dialect, deck, flags, drive, state, nets, destroyer, loading, runOpen,
                   groups, portal>>

Next ==
    \/ \E c \in Cards[dialect] :
         \/ Ex(c) \/ ExRefused(c) \/ Fr(c) \/ Gn(c) \/ Ek(c) \/ Ld(c)
         \/ Network(c) \/ NetworkRefused(c) \/ Is(c) \/ IsRefused(c) \/ Aside(c) \/ Runs(c) \/ RunsNothing(c)
    \/ Ends

Spec == Init /\ [][Next]_vars

Sources == Seq({<<c.at, Driven(c.val)>> : c \in {d \in AnyCard : d.kind \in Excitations}})
Rows    == Seq({c \in AnyCard : c.kind = "LD"})

\* Every variable has its type; the loads in force are ones the log has.
TypeOK ==
    /\ dialect \in Dialects /\ deck \in Seq(Cards[dialect]) /\ pc \in {"reading", "read", "refused"}
    /\ {armed, executed, freshFr, dirty, stale, runOpen} \subseteq BOOLEAN
    /\ sources \in Sources
    /\ \A s, t \in sourceKind : s[1] = t[1] => s = t
    /\ live \in Seq(DOMAIN log)
    /\ \A i \in DOMAIN groups : groups[i].loads \in Seq(DOMAIN log) /\ groups[i].sources \in Sources
    /\ portal.loads \in Rows /\ {portal.stale, portal.open} \subseteq BOOLEAN

-----------------------------------------------------------------------------
(* What NEC makes of the deck, said of its cards at once *)

Before(e, kinds) == {k \in 1 .. e - 1 : deck[k].kind \in kinds}
Latest(S) == IF S = {} THEN 0 ELSE CHOOSE k \in S : \A j \in S : j <= k

Executes == Before(Len(deck) + 1, Execute)
\* An execute card runs if it is the first or follows an arming card.
RunAt(e) == \/ Before(e, Execute) = {}
            \/ \E k \in Before(e, Arming) : k > Latest(Before(e, Execute))
LastRun(e) == Latest({k \in Before(e, Execute) : RunAt(k)})
Since(e, kinds) == {k \in Before(e, kinds) : k > LastRun(e)}

\* The EX cards since the run before the last of them.
SourcesAt(e) ==
    LET last == Latest(Before(e, Excitations))
    IN {k \in Before(e, Excitations) : k > LastRun(last)}

\* The LD cards of the last run of them, from the last LD -1 on.
LoadsAt(e) ==
    LET last == Latest(Before(e, {"LD"}))
        run(k) == \A j \in k .. last : deck[j].kind \in {"LD"} \cup Transparent
    IN {k \in Before(e, {"LD"}) :
          run(k) /\ \A j \in k .. last : deck[j].kind = "LD" => deck[j].at # None}

\* The TL and NT cards of the last run of them.
NetworksAt(e) ==
    LET last == Latest(Before(e, Networks))
    IN {k \in Before(e, Networks) :
          \A j \in k .. last : deck[j].kind \in Networks \cup Advice \cup Comments}

LastVal(e, kind, default) ==
    LET k == Latest(Before(e, {kind})) IN IF k = 0 THEN default ELSE deck[k].val

\* The execute card of group i.
At(i) == CHOOSE e \in Executes : Cardinality({k \in Executes : k <= e}) = i

VoltsAt(e, a) ==
    LET k == Latest({j \in SourcesAt(e) : deck[j].at = a})
    IN IF k = 0 THEN 0 ELSE Driven(deck[k].val)

\* "A deck is a small state machine": what each execute card of a deck that is
\* not refused answers is what the cards up to it ask of NEC - which of them
\* run, at which frequencies and with how much of the operator rebuilt, over
\* which ground, from which sources, volts or amperes, and with which networks.
AnswersAsNec == pc = "read" =>
    /\ Len(groups) = Cardinality(Executes)
    /\ \A i \in DOMAIN groups :
         LET g == groups[i]
             e == At(i)
             list == LastVal(e, "FR", DefaultList)
         IN /\ g.ran = RunAt(e)
            /\ g.ran =>
                 /\ g.whole = (LastRun(e) = 0 \/ Since(e, {"FR"}) # {})
                 /\ g.part = (~g.whole /\ Since(e, Operator) # {})
                 /\ g.freqs = IF Since(e, {"FR"}) # {} THEN list ELSE <<list[Len(list)]>>
                 /\ g.ground = LastVal(e, "GN", 0)
                 /\ g.kernel = (dialect = "nec4" \/ LastVal(e, "EK", FALSE))
                 /\ \A k \in SourcesAt(e) :
                      /\ deck[k].at \in model.feeds
                      /\ deck[k].kind = "EX6" <=> deck[k].at \in model.currents
                 /\ \A a \in model.feeds : model.groups[i].volts[a] = VoltsAt(e, a)
                 /\ Cardinality({k \in DOMAIN nets : nets[k].first <= i}) = Cardinality(NetworksAt(e))

\* Of LoadsInForce: "each execute card solves with the run in force when it is
\* read", and "a card written twice counts twice": out of the loads all groups share,
\* a group has each as often as the cards in force at its execute card state it.
LoadsSolved == pc = "read" =>
    \A i \in Ran : \A entry \in {<<c.at, c.val>> : c \in {d \in AnyCard : d.kind = "LD"}} :
        Cardinality({k \in DOMAIN groups[i].loads :
                        model.loads[model.groups[i].loads[k]] = entry})
      = Cardinality({k \in LoadsAt(At(i)) : /\ <<deck[k].at, deck[k].val>> = entry
                                            /\ deck[k].at # All /\ deck[k].val # 0})

\* The rows that are loads, by their place in the table.
Lumped(rows) == {k \in DOMAIN rows : rows[k].at # All /\ rows[k].val # 0}

\* Of LoadsInForce: the loading table's rows are the loads the group is solved with,
\* one for one and in their order.
LoadsPrinted == pc = "read" =>
    \A i \in DOMAIN groups :
        LET rows == portal.groups[i].loads
            loads == groups[i].loads
        IN /\ Cardinality(Lumped(rows)) = Len(loads)
           /\ \A k \in Lumped(rows) :
                log[loads[Cardinality({j \in Lumped(rows) : j <= k})]]
                    = <<rows[k].at, rows[k].val>>

\* The loads a group is solved with and the rows printed of them are those of the
\* run of LD cards in force at its execute card, in both readings.
LoadsInForce == LoadsSolved /\ LoadsPrinted

\* "The two readings must agree about arming, frequencies and drive": the
\* printout's groups, whose sources the solve is driven from, and the model's,
\* but for a source of zero volts, which only the model has at 1 V.
SameDrive == pc = "read" =>
    /\ Len(portal.groups) = Len(groups)
    /\ \A i \in DOMAIN groups :
         LET volts == portal.groups[i].sources
         IN /\ portal.groups[i].ran = groups[i].ran
            /\ [k \in DOMAIN volts |-> <<volts[k][1], Driven(volts[k][2])>>] = groups[i].sources
=============================================================================
