-------------------------- MODULE DeckReaderProofs --------------------------
(***************************************************************************)
(* For every deck, whatever its cards and its length: the groups the        *)
(* printout is of are the model's, which of them ran and from which sources *)
(* (Drive); every execute card answers as the cards before it ask (Asked);  *)
(* and is solved with, and printed with, the loads in force (InForce).      *)
(*                                                                          *)
(* What NEC makes of a deck is said of all its cards at once, and the       *)
(* reader's state is made card by card: the argument is what one card more  *)
(* makes of every place named there (LastNext, RunNext, SourcesNext,        *)
(* LoadsNext ...), beside what its reading makes of the state (Reads).      *)
(***************************************************************************)
EXTENDS DeckReader, SequenceTheorems, FiniteSetTheorems, TLAPS

\* The EX cards' addresses and volts, and what the model makes of them.
Given  == {<<c.at, c.val>> : c \in {d \in AnyCard : d.kind \in Excitations}}
Shown  == [ran : BOOLEAN, sources : Seq(Given), loads : Seq(AnyCard)]
\* The walk's state.
Portal == [sources : Seq(Given), stale : BOOLEAN, loads : Seq(AnyCard), open : BOOLEAN,
           groups : Seq(Shown)]

One(g)      == <<g[1], Driven(g[2])>>
\* What the model makes of a list of them.
AsDriven(s) == [k \in DOMAIN s |-> One(s[k])]

\* A group of the printout and one of the model.
Alike(shown, group) == shown.ran = group.ran /\ AsDriven(shown.sources) = group.sources

\* While the cards are read the two readers have the same sources, agree
\* whether they are the last run's, and have as many groups, each pair alike.
StepInv ==
    /\ portal \in Portal
    /\ portal.stale = stale /\ AsDriven(portal.sources) = sources
    /\ \E S : groups \in Seq(S)
    /\ Len(portal.groups) = Len(groups)
    /\ \A i \in 1 .. Len(groups) : Alike(portal.groups[i], groups[i])

-----------------------------------------------------------------------------

\* What a sequence is with one more element.
LEMMA Longer ==
    ASSUME NEW S, NEW s \in Seq(S), NEW e
    PROVE  /\ Append(s, e) \in Seq(S \cup {e})
           /\ Len(Append(s, e)) = Len(s) + 1
           /\ \A i \in 1 .. Len(s) : Append(s, e)[i] = s[i]
           /\ Append(s, e)[Len(s) + 1] = e
           /\ DOMAIN Append(s, e) = 1 .. Len(s) + 1
           /\ Len(s) \in Nat
<1>1. s \in Seq(S \cup {e})
    <2>1. s \in [1 .. Len(s) -> S \cup {e}] /\ Len(s) \in Nat
        OBVIOUS
    <2>2. QED
        BY <2>1
<1>2. QED
    BY <1>1, AppendProperties

\* A source read by the walk is read as the model reads it.
LEMMA DrivenLonger ==
    ASSUME NEW s \in Seq(Given), NEW g \in Given
    PROVE  AsDriven(Append(s, g)) = Append(AsDriven(s), One(g))
<1> DEFINE D == {One(x) : x \in Given}
<1>1. AsDriven(s) \in Seq(D) /\ Len(AsDriven(s)) = Len(s) /\ Len(s) \in Nat
    <2>1. s \in [1 .. Len(s) -> Given] /\ Len(s) \in Nat /\ DOMAIN s = 1 .. Len(s)
        OBVIOUS
    <2>2. AsDriven(s) \in [1 .. Len(s) -> D]
        BY <2>1 DEF AsDriven
    <2>3. AsDriven(s) \in Seq(D)
        BY <2>1, <2>2
    <2>4. QED
        BY <2>1, <2>2, <2>3
<1>2. Append(AsDriven(s), One(g)) \in Seq(D \cup {One(g)})
    BY <1>1, Longer
<1>3. /\ DOMAIN Append(s, g) = 1 .. Len(s) + 1
      /\ DOMAIN Append(AsDriven(s), One(g)) = 1 .. Len(s) + 1
    BY <1>1, Longer
<1>4. ASSUME NEW k \in 1 .. Len(s) + 1
      PROVE  Append(AsDriven(s), One(g))[k] = One(Append(s, g)[k])
    <2>1. CASE k \in 1 .. Len(s)
        <3>1. Append(AsDriven(s), One(g))[k] = AsDriven(s)[k] /\ Append(s, g)[k] = s[k]
            BY <1>1, <2>1, Longer
        <3>2. QED
            BY <2>1, <3>1 DEF AsDriven
    <2>2. CASE k = Len(s) + 1
        BY <1>1, <2>2, Longer
    <2>3. QED
        BY <1>1, <2>1, <2>2
<1>5. Append(AsDriven(s), One(g)) = [k \in 1 .. Len(s) + 1 |-> Append(AsDriven(s), One(g))[k]]
    <2>1. ASSUME NEW T, NEW t \in Seq(T) PROVE t = [k \in DOMAIN t |-> t[k]]
        OBVIOUS
    <2>2. QED
        BY <1>2, <1>3, <2>1, Zenon
<1>6. AsDriven(Append(s, g)) = [k \in 1 .. Len(s) + 1 |-> One(Append(s, g)[k])]
    BY <1>3 DEF AsDriven
<1>7. [k \in 1 .. Len(s) + 1 |-> Append(AsDriven(s), One(g))[k]]
          = [k \in 1 .. Len(s) + 1 |-> One(Append(s, g)[k])]
    BY <1>4
<1>8. QED
    BY <1>5, <1>6, <1>7

\* No sources are none driven.
LEMMA NoneDriven == AsDriven(<<>>) = <<>>
BY DEF AsDriven

-----------------------------------------------------------------------------

\* Before the first card the two readers agree.
LEMMA InitStep == Init => StepInv
<1> SUFFICES ASSUME Init PROVE StepInv
    OBVIOUS
<1>1. portal \in Portal
    BY DEF Init, Portal
<1>2. groups \in Seq({})
    BY DEF Init
<1>3. portal.groups = <<>> /\ groups = <<>>
    BY DEF Init
<1>4. portal.stale = stale /\ portal.sources = <<>> /\ sources = <<>>
    BY DEF Init
<1>5. QED
    BY <1>1, <1>2, <1>3, <1>4, NoneDriven DEF StepInv

\* The groups stay alike when each reader adds one and the two are alike.
LEMMA BothGrow ==
    ASSUME StepInv, NEW shown \in Shown, NEW group, Alike(shown, group),
           portal'.groups = Append(portal.groups, shown), groups' = Append(groups, group)
    PROVE  /\ portal'.groups \in Seq(Shown)
           /\ \E S : groups' \in Seq(S)
           /\ Len(portal'.groups) = Len(groups')
           /\ \A i \in 1 .. Len(groups') : Alike(portal'.groups[i], groups'[i])
<1>1. PICK S : groups \in Seq(S)
    BY DEF StepInv
<1>2. portal.groups \in Seq(Shown)
    BY DEF StepInv, Portal
<1>3. /\ groups' \in Seq(S \cup {group}) /\ Len(groups') = Len(groups) + 1 /\ Len(groups) \in Nat
      /\ \A i \in 1 .. Len(groups) : groups'[i] = groups[i]
      /\ groups'[Len(groups) + 1] = group
    BY <1>1, Longer
<1>4. /\ Len(portal'.groups) = Len(portal.groups) + 1
      /\ \A i \in 1 .. Len(portal.groups) : portal'.groups[i] = portal.groups[i]
      /\ portal'.groups[Len(portal.groups) + 1] = shown
    BY <1>2, Longer
<1>5. portal'.groups \in Seq(Shown)
    BY <1>2
<1>6. Len(portal.groups) = Len(groups)
    BY DEF StepInv
<1>7. ASSUME NEW i \in 1 .. Len(groups')
      PROVE  Alike(portal'.groups[i], groups'[i])
    <2>1. CASE i \in 1 .. Len(groups)
        <3>1. Alike(portal.groups[i], groups[i])
            BY <2>1 DEF StepInv
        <3>2. QED
            BY <1>3, <1>4, <1>6, <2>1, <3>1
    <2>2. CASE i = Len(groups) + 1
        BY <1>3, <1>4, <1>6, <2>2
    <2>3. i \in 1 .. Len(groups) \/ i = Len(groups) + 1
        BY <1>3
    <2>4. QED
        BY <2>1, <2>2, <2>3
<1>8. QED
    BY <1>3, <1>4, <1>5, <1>6, <1>7

\* A card that is no EX and runs nothing changes neither side's sources.
LEMMA AsideStep ==
    ASSUME StepInv, NEW c \in AnyCard, Walks(c, FALSE), c.kind \notin Excitations \cup Execute,
           UNCHANGED <<drive, groups>>
    PROVE  StepInv'
<1>1. portal' \in Portal /\ portal'.sources = portal.sources /\ portal'.stale = portal.stale
      /\ portal'.groups = portal.groups
    <2>1. CASE c.kind = "LD"
        <3>1. Append(portal.loads, c) \in Seq(AnyCard) /\ Append(<<>>, c) \in Seq(AnyCard)
              /\ <<>> \in Seq(AnyCard)
            BY DEF StepInv, Portal
        <3>2. portal' = ReadsLoad(portal, c)
            BY <2>1 DEF Walks, Execute, Networks, Comments, Advice, Geometry, Others, Excitations, Transparent
        <3>3. QED
            BY <3>1, <3>2 DEF ReadsLoad, StepInv, Portal
    <2>2. CASE c.kind # "LD"
        <3>1. portal' = portal \/ portal' = [portal EXCEPT !.open = FALSE]
            BY <2>2, Zenon DEF Walks
        <3>2. QED
            BY <3>1 DEF StepInv, Portal
    <2>3. QED
        BY <2>1, <2>2
<1>2. sources' = sources /\ stale' = stale /\ groups' = groups
    BY DEF drive
<1>3. QED
    BY <1>1, <1>2 DEF StepInv

\* An EX card is added by both, which clear what a run has used alike.
LEMMA ExStep ==
    ASSUME StepInv, NEW c \in AnyCard, Ex(c)
    PROVE  StepInv'
<1> DEFINE g    == <<c.at, c.val>>
           kept == IF stale THEN <<>> ELSE portal.sources
<1>1. c.kind \in Excitations /\ g \in Given
    BY DEF Ex, Given
<1>2. portal' = [portal EXCEPT !.sources = Append(kept, g), !.stale = FALSE, !.open = FALSE]
    <2>1. portal' = ReadsSource(portal, c)
        BY <1>1 DEF Ex, Takes, Walks, Execute, Networks, Comments, Advice, Geometry, Others, Excitations, Transparent
    <2>2. QED
        BY <2>1 DEF ReadsSource, StepInv, Portal
<1>3. kept \in Seq(Given)
    BY DEF StepInv, Portal
<1>4. AsDriven(Append(kept, g)) = Append(AsDriven(kept), One(g))
    BY <1>1, <1>3, DrivenLonger
<1>5. sources' = Append(AsDriven(kept), One(g)) /\ stale' = FALSE
    BY NoneDriven DEF Ex, StepInv, One
<1>6. Append(kept, g) \in Seq(Given)
    BY <1>1, <1>3
<1>7. portal' \in Portal /\ portal'.groups = portal.groups
    BY <1>2, <1>6 DEF StepInv, Portal
<1>8. portal'.sources = Append(kept, g) /\ portal'.stale = FALSE
    BY <1>2 DEF StepInv, Portal
<1>9. groups' = groups
    BY DEF Ex, Takes
<1>10. QED
    BY <1>4, <1>5, <1>7, <1>8, <1>9 DEF StepInv

\* A run is a group of both, of the same sources.
LEMMA RunsStep ==
    ASSUME StepInv, NEW c \in AnyCard, Runs(c)
    PROVE  StepInv'
<1> DEFINE shown == [ran |-> TRUE, sources |-> portal.sources, loads |-> portal.loads]
<1>1. portal' = [portal EXCEPT !.groups = Append(@, shown), !.stale = TRUE, !.open = FALSE]
    <2>1. portal' = ReadsExecute(portal, TRUE)
        BY DEF Runs, Walks, Execute, Networks, Comments, Advice, Geometry, Others, Excitations, Transparent
    <2>2. QED
        BY <2>1 DEF ReadsExecute, StepInv, Portal
<1>2. shown \in Shown
    BY DEF StepInv, Portal, Shown
<1>3. PICK group : groups' = Append(groups, group) /\ group.ran = TRUE /\ group.sources = sources
    BY DEF Runs
<1>4. Alike(shown, group)
    BY <1>3 DEF Alike, StepInv
<1>5. portal'.groups = Append(portal.groups, shown) /\ portal'.sources = portal.sources
      /\ portal'.stale = TRUE
    BY <1>1 DEF StepInv, Portal
<1>6. /\ portal'.groups \in Seq(Shown)
      /\ \E S : groups' \in Seq(S)
      /\ Len(portal'.groups) = Len(groups')
      /\ \A i \in 1 .. Len(groups') : Alike(portal'.groups[i], groups'[i])
    BY <1>2, <1>3, <1>4, <1>5, BothGrow
<1>7. portal' \in Portal
    BY <1>1, <1>5, <1>6 DEF StepInv, Portal
<1>8. sources' = sources /\ stale' = TRUE
    BY DEF Runs
<1>9. QED
    BY <1>5, <1>6, <1>7, <1>8 DEF StepInv

\* An execute card that runs nothing is an empty group of both.
LEMMA RunsNothingStep ==
    ASSUME StepInv, NEW c \in AnyCard, RunsNothing(c)
    PROVE  StepInv'
<1>1. portal' = [portal EXCEPT !.groups = Append(@, NoRows), !.open = FALSE]
    <2>1. portal' = ReadsExecute(portal, FALSE)
        BY DEF RunsNothing, Walks, Execute, Networks, Comments, Advice, Geometry, Others, Excitations, Transparent
    <2>2. QED
        BY <2>1 DEF ReadsExecute, StepInv, Portal
<1>2. NoRows \in Shown
    BY DEF Shown, NoRows
<1>3. Alike(NoRows, NotRun)
    BY NoneDriven DEF Alike, NoRows, NotRun
<1>4. groups' = Append(groups, NotRun) /\ sources' = sources /\ stale' = stale
    BY DEF RunsNothing, drive
<1>5. portal'.groups = Append(portal.groups, NoRows) /\ portal'.sources = portal.sources
      /\ portal'.stale = portal.stale
    BY <1>1 DEF StepInv, Portal
<1>6. /\ portal'.groups \in Seq(Shown)
      /\ \E S : groups' \in Seq(S)
      /\ Len(portal'.groups) = Len(groups')
      /\ \A i \in 1 .. Len(groups') : Alike(portal'.groups[i], groups'[i])
    BY <1>2, <1>3, <1>4, <1>5, BothGrow
<1>7. portal' \in Portal
    BY <1>1, <1>5, <1>6 DEF StepInv, Portal
<1>8. QED
    BY <1>4, <1>5, <1>6, <1>7 DEF StepInv

\* A deck is of one dialect.
Fixed == dialect \in Dialects

\* No step changes it.
LEMMA FixedStep == Fixed /\ [Next]_vars => Fixed'
<1>1. ASSUME [Next]_vars PROVE UNCHANGED dialect
    <2>1. ASSUME NEW c, Ex(c) \/ Fr(c) \/ Gn(c) \/ Ek(c) \/ Ld(c) PROVE UNCHANGED dialect
        BY <2>1, Zenon DEF Ex, Fr, Gn, Ek, Ld, Takes, Reading
    <2>2. ASSUME NEW c, Network(c) \/ Is(c) \/ Aside(c) \/ Runs(c) \/ RunsNothing(c)
          PROVE  UNCHANGED dialect
        <3>1. CASE Network(c) \/ Aside(c)
            BY <3>1, Zenon DEF Network, Aside, Takes, Reading
        <3>2. CASE Is(c)
            BY <3>2, Zenon DEF Is, Takes, Reading
        <3>3. CASE Runs(c)
            BY <3>3, Zenon DEF Runs, Takes, Reading
        <3>4. CASE RunsNothing(c)
            BY <3>4, Zenon DEF RunsNothing, Takes, Reading
        <3>5. QED
            BY <2>2, <3>1, <3>2, <3>3, <3>4, Zenon
    <2>3. ASSUME NEW c, ExRefused(c) \/ NetworkRefused(c) \/ IsRefused(c) PROVE UNCHANGED dialect
        BY <2>3, Zenon DEF ExRefused, NetworkRefused, IsRefused, Refuses, Reading
    <2>4. ASSUME Ends PROVE UNCHANGED dialect
        BY <2>4, Zenon DEF Ends
    <2>5. QED
        BY <1>1, <2>1, <2>2, <2>3, <2>4, Zenon DEF Next, vars
<1>2. QED
    BY <1>1 DEF Fixed

\* Every step leaves the two readers in agreement.
LEMMA NextStep == StepInv /\ Fixed /\ [Next]_vars => StepInv'
<1> SUFFICES ASSUME StepInv, Fixed, [Next]_vars PROVE StepInv'
    OBVIOUS
<1>1. ASSUME NEW c \in AnyCard, Fr(c) \/ Gn(c) \/ Ek(c) \/ Ld(c) \/ Network(c) \/ Is(c) \/ Aside(c)
      PROVE  StepInv'
    <2>1. Takes(c) /\ c.kind \notin Excitations \cup Execute /\ UNCHANGED drive
        BY <1>1 DEF Fr, Gn, Ek, Ld, Network, Networks, Is, Aside, Comments, Advice, Geometry, Execute, Excitations
    <2>2. QED
        BY <2>1, AsideStep DEF Takes
<1>2. ASSUME NEW c \in AnyCard, NetworkRefused(c) \/ IsRefused(c) \/ ExRefused(c)
      PROVE  StepInv'
    <2>1. UNCHANGED <<portal, groups, drive>>
        BY <1>2 DEF NetworkRefused, IsRefused, ExRefused, Refuses
    <2>2. QED
        BY <2>1 DEF StepInv, drive
<1>3. CASE Ends
    BY <1>3 DEF Ends, StepInv, drive
<1>4. CASE UNCHANGED vars
    BY <1>4 DEF vars, StepInv, drive
<1>5. ASSUME NEW c \in Cards[dialect] PROVE c \in AnyCard
    BY <1>5 DEF AnyCard, Fixed
<1>6. QED
    BY <1>1, <1>2, <1>3, <1>4, <1>5, ExStep, RunsStep, RunsNothingStep DEF Next

\* "The two readings must agree about arming, frequencies and drive"
\* (PortalDeck): which execute cards ran and from which sources, whatever
\* cards a deck has and however many.
THEOREM Drive == Spec => []SameDrive
<1>1. StepInv => SameDrive
    <2> SUFFICES ASSUME StepInv PROVE SameDrive
        OBVIOUS
    <2>1. DOMAIN groups = 1 .. Len(groups)
        BY DEF StepInv
    <2>2. QED
        BY <2>1 DEF StepInv, SameDrive, Alike, AsDriven, One
<1>2. Init => Fixed
    BY DEF Init, Fixed
<1>3. QED
    BY <1>1, <1>2, InitStep, NextStep, FixedStep, PTL DEF Spec

-----------------------------------------------------------------------------
(* The places of a deck's cards, and what one card more makes of them.     *)

\* A bounded set of places has a latest, and Latest is it.
LEMMA LatestIs ==
    ASSUME NEW m \in Nat, NEW S, S \subseteq 1 .. m
    PROVE  /\ Latest(S) \in 0 .. m
           /\ S = {} <=> Latest(S) = 0
           /\ S # {} => Latest(S) \in S
           /\ \A j \in S : j <= Latest(S)
<1>1. CASE S = {}
    BY <1>1 DEF Latest
<1>2. CASE S # {}
    <2> DEFINE T == {m - x : x \in S}
               R == {ss \in Nat \X Nat : ss[1] < ss[2]}
    <2>1. T \subseteq Nat /\ T # {}
        <3>1. \A x \in S : m - x \in Nat
            OBVIOUS
        <3>2. QED
            BY <1>2, <3>1
    <2>2. IsWellFoundedOn(R, Nat)
        BY NatLessThanWellFounded DEF OpToRel
    <2>3. PICK t \in T : \A y \in T : ~(<<y, t>> \in R)
        <3> HIDE DEF T
        <3>1. QED
            BY <2>1, <2>2, WFMin
    <2>4. PICK x \in S : t = m - x
        BY <2>3
    <2>5. ASSUME NEW j \in S PROVE j <= x
        <3>1. m - j \in T /\ m - j \in Nat /\ t \in Nat /\ j \in Nat /\ x \in Nat
            BY <2>4
        <3>2. ~(m - j < t)
            BY <2>3, <3>1
        <3>3. QED
            BY <2>4, <3>1, <3>2
    <2>6. /\ Latest(S) \in S
          /\ \A j \in S : j <= Latest(S)
        BY <1>2, <2>5 DEF Latest
    <2>7. Latest(S) \in 1 .. m
        BY <2>6
    <2>8. QED
        BY <1>2, <2>6, <2>7
<1>3. QED
    BY <1>1, <1>2

\* A place none of the others is after is the latest.
LEMMA LatestOf ==
    ASSUME NEW m \in Nat, NEW S, S \subseteq 1 .. m, NEW x \in S, \A j \in S : j <= x
    PROVE  Latest(S) = x
<1>1. Latest(S) \in S /\ x <= Latest(S)
    BY LatestIs
<1>2. Latest(S) <= x /\ Latest(S) \in 1 .. m /\ x \in 1 .. m
    BY <1>1
<1>3. QED
    BY <1>1, <1>2

\* The next card's place.
Here == Len(deck) + 1

\* One card more, c.
Grows(c) ==
    /\ deck \in Seq(AnyCard) /\ c \in AnyCard
    /\ deck' = Append(deck, c) /\ dialect' = dialect

\* The cards before stay where they are, and the new one is the last.
LEMMA Grown ==
    ASSUME NEW c, Grows(c)
    PROVE  /\ Len(deck) \in Nat /\ Here \in Nat \ {0} /\ Here' = Here + 1
           /\ deck' \in Seq(AnyCard)
           /\ \A k \in 1 .. Len(deck) : deck'[k] = deck[k]
           /\ deck'[Here] = c
BY AppendProperties DEF Grows, Here

\* What is before a place are places.
LEMMA BeforeIs ==
    ASSUME NEW e \in Nat, NEW K
    PROVE  Before(e, K) \subseteq 1 .. e - 1 /\ Before(e, K) \subseteq Nat
BY DEF Before

\* What stands before a place that was there stays.
LEMMA BeforeSame ==
    ASSUME NEW c, Grows(c), NEW e \in 0 .. Here, NEW K
    PROVE  Before(e, K)' = Before(e, K)
BY Grown DEF Before, Here

\* The new card is before the place that comes next, if it is of the kinds.
LEMMA BeforeNext ==
    ASSUME NEW c, Grows(c), NEW K
    PROVE  Before(Here, K)' = Before(Here, K) \cup (IF c.kind \in K THEN {Here} ELSE {})
<1>1. Here' = Here + 1 /\ Here = Len(deck) + 1 /\ Len(deck) \in Nat
    BY Grown DEF Here
<1>2. 1 .. Here' - 1 = (1 .. Here - 1) \cup {Here}
    BY <1>1
<1>3. \A k \in 1 .. Here - 1 : deck'[k].kind = deck[k].kind
    BY <1>1, Grown
<1>4. deck'[Here].kind = c.kind
    BY Grown
<1>5. QED
    BY <1>2, <1>3, <1>4, Zenon DEF Before

\* Whether an execute card that was there runs stays.
LEMMA RunSame ==
    ASSUME NEW c, Grows(c), NEW e \in 0 .. Here
    PROVE  RunAt(e)' <=> RunAt(e)
BY BeforeSame DEF RunAt

\* So does the run before it.
LEMMA LastRunSame ==
    ASSUME NEW c, Grows(c), NEW e \in 0 .. Here
    PROVE  LastRun(e)' = LastRun(e)
<1>1. Before(e, Execute)' = Before(e, Execute)
    BY BeforeSame
<1>2. Here \in Nat
    BY Grown
<1>3. \A k \in Before(e, Execute) : k \in 0 .. Here
    BY <1>2, BeforeIs
<1>4. \A k \in Before(e, Execute) : RunAt(k)' <=> RunAt(k)
    BY <1>3, RunSame
<1>5. QED
    BY <1>1, <1>4 DEF LastRun

-----------------------------------------------------------------------------

\* The latest card of one of the kinds.
LastOf(K) == Latest(Before(Here, K))

\* The latest card of some kinds is one of them and none is after it.
LEMMA BeforeHere ==
    ASSUME NEW K, Here \in Nat \ {0}
    PROVE  /\ Before(Here, K) \subseteq 1 .. Here - 1 /\ Here - 1 \in Nat
           /\ LastOf(K) \in 0 .. Here - 1
           /\ Before(Here, K) = {} <=> LastOf(K) = 0
           /\ Before(Here, K) # {} => LastOf(K) \in Before(Here, K)
           /\ \A j \in Before(Here, K) : j <= LastOf(K)
<1>1. Here - 1 \in Nat /\ Here \in Nat
    OBVIOUS
<1>2. Before(Here, K) \subseteq 1 .. Here - 1
    BY <1>1, BeforeIs
<1>3. QED
    BY <1>1, <1>2, LatestIs DEF LastOf

\* A card of the kinds is the latest of them.
LEMMA LastNext ==
    ASSUME NEW c, Grows(c), NEW K
    PROVE  LastOf(K)' = IF c.kind \in K THEN Here ELSE LastOf(K)
<1>1. Here \in Nat \ {0} /\ Here' = Here + 1
    BY Grown
<1>2. Before(Here, K)' = Before(Here, K) \cup (IF c.kind \in K THEN {Here} ELSE {})
    BY BeforeNext
<1>3. LastOf(K)' = Latest(Before(Here, K)')
    BY DEF LastOf, Latest
<1>4. Before(Here, K) \subseteq 1 .. Here - 1
    BY <1>1, BeforeHere
<1>5. CASE c.kind \in K
    <2> DEFINE S == Before(Here, K) \cup {Here}
    <2>1. S \subseteq 1 .. Here /\ Here \in S /\ (\A j \in S : j <= Here) /\ Here \in Nat
        BY <1>1, <1>4
    <2> HIDE DEF S
    <2>2. Latest(S) = Here
        BY <2>1, LatestOf
    <2>3. QED
        BY <1>2, <1>3, <1>5, <2>2 DEF S
<1>6. CASE c.kind \notin K
    BY <1>2, <1>3, <1>6 DEF LastOf
<1>7. QED
    BY <1>5, <1>6

\* The last execute card that ran.
LR == LastRun(Here)

\* The last run is an execute card that ran.
LEMMA RunsAre ==
    ASSUME Here \in Nat \ {0}
    PROVE  LR \in 0 .. Here - 1 /\ LR <= LastOf(Execute) /\ (LR # 0 => LR \in Before(Here, Execute) /\ RunAt(LR))
<1> DEFINE S == {k \in Before(Here, Execute) : RunAt(k)}
           m == Here - 1
<1>1. S \subseteq 1 .. m /\ m \in Nat
    BY BeforeHere
<1>2. LR = Latest(S)
    BY DEF LR, LastRun
<1> HIDE DEF m
<1>3. Latest(S) \in 0 .. m /\ (S = {} <=> Latest(S) = 0) /\ (S # {} => Latest(S) \in S)
    <2> HIDE DEF S
    <2>1. QED
        BY <1>1, LatestIs
<1>4. LastOf(Execute) \in 0 .. m /\ \A j \in Before(Here, Execute) : j <= LastOf(Execute)
    BY BeforeHere DEF m
<1>5. LR <= LastOf(Execute)
    BY <1>1, <1>2, <1>3, <1>4
<1>6. QED
    BY <1>2, <1>3, <1>5 DEF m

\* An execute card that runs is the last run.
LEMMA RunNext ==
    ASSUME NEW c, Grows(c)
    PROVE  LR' = IF c.kind \in Execute /\ RunAt(Here) THEN Here ELSE LR
<1> DEFINE S == {k \in Before(Here, Execute) : RunAt(k)}
<1>1. Here \in Nat \ {0} /\ Here' = Here + 1
    BY Grown
<1>2. Before(Here, Execute)' = Before(Here, Execute) \cup (IF c.kind \in Execute THEN {Here} ELSE {})
    BY BeforeNext
<1>3. Before(Here, Execute) \subseteq 1 .. Here - 1
    BY <1>1, BeforeHere
<1>4. \A k \in Before(Here, Execute) \cup {Here} : RunAt(k)' <=> RunAt(k)
    <2>1. \A k \in Before(Here, Execute) \cup {Here} : k \in 0 .. Here
        BY <1>1, <1>3
    <2>2. QED
        BY <2>1, RunSame
<1>5. LR' = Latest({k \in Before(Here, Execute)' : RunAt(k)'})
    BY DEF LR, LastRun, Latest
<1>6. {k \in Before(Here, Execute)' : RunAt(k)'}
      = S \cup (IF c.kind \in Execute /\ RunAt(Here) THEN {Here} ELSE {})
    BY <1>2, <1>4
<1>7. LR = Latest(S)
    BY DEF LR, LastRun
<1>8. CASE c.kind \in Execute /\ RunAt(Here)
    <2> DEFINE T == S \cup {Here}
    <2>1. T \subseteq 1 .. Here /\ Here \in T /\ (\A j \in T : j <= Here) /\ Here \in Nat
        BY <1>1, <1>3
    <2> HIDE DEF T
    <2>2. Latest(T) = Here
        BY <2>1, LatestOf
    <2>3. QED
        BY <1>5, <1>6, <1>8, <2>2 DEF T
<1>9. CASE ~(c.kind \in Execute /\ RunAt(Here))
    BY <1>5, <1>6, <1>7, <1>9
<1>10. QED
    BY <1>8, <1>9

\* Whether a card of a kind stands after the last run, as an order of places.
LEMMA SinceIs ==
    ASSUME Here \in Nat \ {0}, NEW K
    PROVE  Since(Here, K) # {} <=> LastOf(K) > LR
<1>1. /\ Before(Here, K) \subseteq 1 .. Here - 1 /\ Here - 1 \in Nat
      /\ LastOf(K) \in 0 .. Here - 1
      /\ Before(Here, K) = {} <=> LastOf(K) = 0
      /\ Before(Here, K) # {} => LastOf(K) \in Before(Here, K)
      /\ \A j \in Before(Here, K) : j <= LastOf(K)
      /\ LR \in 0 .. Here - 1
    BY BeforeHere, RunsAre
<1>2. Since(Here, K) = {k \in Before(Here, K) : k > LR}
    BY DEF Since, LR
<1>3. QED
    BY <1>1, <1>2

\* Whether the execute card that comes now runs.
LEMMA RunAtIs ==
    ASSUME Here \in Nat \ {0}
    PROVE  RunAt(Here) <=> LastOf(Execute) = 0 \/ LastOf(Arming) > LastOf(Execute)
<1>1. /\ Before(Here, Execute) = {} <=> LastOf(Execute) = 0
      /\ LastOf(Execute) \in 0 .. Here - 1
      /\ Before(Here, Arming) \subseteq 1 .. Here - 1 /\ Here - 1 \in Nat
      /\ LastOf(Arming) \in 0 .. Here - 1
      /\ Before(Here, Arming) = {} <=> LastOf(Arming) = 0
      /\ Before(Here, Arming) # {} => LastOf(Arming) \in Before(Here, Arming)
      /\ \A j \in Before(Here, Arming) : j <= LastOf(Arming)
    BY BeforeHere
<1>2. RunAt(Here) <=> \/ Before(Here, Execute) = {}
                      \/ \E k \in Before(Here, Arming) : k > LastOf(Execute)
    BY DEF RunAt, LastOf
<1>3. QED
    BY <1>1, <1>2

\* The value in force.
LEMMA ValSame ==
    ASSUME NEW c, Grows(c), NEW e \in 0 .. Here, NEW kind, NEW default
    PROVE  LastVal(e, kind, default)' = LastVal(e, kind, default)
<1>1. Before(e, {kind})' = Before(e, {kind})
    BY BeforeSame
<1>2. /\ Len(deck) \in Nat /\ Here = Len(deck) + 1
      /\ \A k \in 1 .. Len(deck) : deck'[k] = deck[k]
    BY Grown DEF Here
<1>3. Latest(Before(e, {kind})) = 0 \/ Latest(Before(e, {kind})) \in 1 .. Len(deck)
    <2>1. Before(e, {kind}) \subseteq 1 .. Len(deck)
        BY <1>2 DEF Before
    <2>2. Latest(Before(e, {kind})) \in 0 .. Len(deck)
        BY <1>2, <2>1, LatestIs
    <2>3. QED
        BY <1>2, <2>2
<1>4. Latest(Before(e, {kind})') = Latest(Before(e, {kind}))
    BY <1>1
<1>5. LastVal(e, kind, default)'
      = IF Latest(Before(e, {kind})') = 0 THEN default ELSE deck'[Latest(Before(e, {kind})')].val
    BY DEF LastVal, Latest
<1>6. QED
    BY <1>2, <1>3, <1>4, <1>5 DEF LastVal

\* A card of a kind says its value.
LEMMA ValNext ==
    ASSUME NEW c, Grows(c), NEW kind, NEW default
    PROVE  LastVal(Here, kind, default)'
           = IF c.kind = kind THEN c.val ELSE LastVal(Here, kind, default)
<1>1. LastOf({kind})' = IF c.kind = kind THEN Here ELSE LastOf({kind})
    BY LastNext
<1>2. /\ Here \in Nat \ {0} /\ deck'[Here] = c /\ Here - 1 = Len(deck)
      /\ \A k \in 1 .. Len(deck) : deck'[k] = deck[k]
    BY Grown DEF Here
<1>3. LastOf({kind}) = 0 \/ LastOf({kind}) \in 1 .. Len(deck)
    BY <1>2, BeforeHere
<1>4. LastVal(Here, kind, default)'
      = IF LastOf({kind})' = 0 THEN default ELSE deck'[LastOf({kind})'].val
    BY DEF LastVal, LastOf, Latest
<1>5. LastVal(Here, kind, default)
      = IF LastOf({kind}) = 0 THEN default ELSE deck[LastOf({kind})].val
    BY DEF LastVal, LastOf
<1>6. QED
    BY <1>1, <1>2, <1>3, <1>4, <1>5

-----------------------------------------------------------------------------

\* The sources of a place that was there stay.
LEMMA SourcesSame ==
    ASSUME NEW c, Grows(c), NEW e \in 0 .. Here
    PROVE  SourcesAt(e)' = SourcesAt(e) /\ SourcesAt(e) \subseteq 1 .. Len(deck)
<1>1. Before(e, Excitations)' = Before(e, Excitations)
    BY BeforeSame
<1>2. Len(deck) \in Nat /\ Here = Len(deck) + 1
    BY Grown DEF Here
<1>3. Before(e, Excitations) \subseteq 1 .. Len(deck)
    BY <1>2 DEF Before
<1>4. PICK l \in 0 .. Here : l = Latest(Before(e, Excitations))
    BY <1>2, <1>3, LatestIs
<1>5. l = Latest(Before(e, Excitations)')
    BY <1>1, <1>4
<1>6. LastRun(l)' = LastRun(l)
    BY LastRunSame
<1>7. SourcesAt(e)' = {k \in Before(e, Excitations)' : k > LastRun(l)'}
    BY <1>5 DEF SourcesAt, Latest
<1>8. SourcesAt(e) = {k \in Before(e, Excitations) : k > LastRun(l)}
    BY <1>4 DEF SourcesAt
<1>9. QED
    BY <1>1, <1>3, <1>6, <1>7, <1>8

\* No run after the last source: it was read since the last run.
LEMMA RunsBefore ==
    ASSUME deck \in Seq(AnyCard), NEW l \in 0 .. Here - 1, l = LastOf(Excitations), LR <= l
    PROVE  LastRun(l) = LR
<1>1. Here \in Nat \ {0} /\ Here = Len(deck) + 1 /\ Len(deck) \in Nat
    BY DEF Here
<1>2. LR \in 0 .. Here - 1 /\ (LR # 0 => LR \in Before(Here, Execute) /\ RunAt(LR))
    BY <1>1, RunsAre
<1>3. l # 0 => l \in Before(Here, Excitations)
    BY <1>1, BeforeHere
<1>4. l = LR => l = 0
    <2>1. ASSUME NEW k \in Before(Here, Execute), k \in Before(Here, Excitations) PROVE FALSE
        BY <2>1 DEF Before, Execute, Excitations
    <2>2. QED
        BY <1>2, <1>3, <2>1
<1> DEFINE S == {k \in Before(Here, Execute) : RunAt(k)}
           T == {k \in Before(l, Execute) : RunAt(k)}
<1>5. LR = Latest(S) /\ LastRun(l) = Latest(T)
    BY DEF LR, LastRun
<1>6. S \subseteq 1 .. Here - 1 /\ Here - 1 \in Nat
    BY <1>1, BeforeHere
<1>7. \A k \in S : k <= LR
    <2> HIDE DEF S
    <2>1. QED
        BY <1>5, <1>6, LatestIs
<1>8. \A k \in S : k \in 1 .. l - 1
    BY <1>2, <1>4, <1>6, <1>7
<1>9. Before(l, Execute) = {k \in Before(Here, Execute) : k \in 1 .. l - 1}
    BY <1>1 DEF Before
<1>10. S = T
    BY <1>8, <1>9
<1>11. QED
    BY <1>5, <1>10

\* An EX card is a source in force, alone if a run came since the one before.
LEMMA SourcesNext ==
    ASSUME NEW c, Grows(c)
    PROVE  /\ SourcesAt(Here)' = IF c.kind \in Excitations
                                 THEN (IF LR > LastOf(Excitations) THEN {} ELSE SourcesAt(Here))
                                      \cup {Here}
                                 ELSE SourcesAt(Here)
           /\ SourcesAt(Here) \subseteq 1 .. Len(deck)
<1>1. /\ Here \in Nat \ {0} /\ Here' = Here + 1 /\ Here = Len(deck) + 1 /\ Len(deck) \in Nat
      /\ deck \in Seq(AnyCard)
    BY Grown DEF Here, Grows
<1>2. /\ Before(Here, Excitations) \subseteq 1 .. Here - 1
      /\ \A j \in Before(Here, Excitations) : j <= LastOf(Excitations)
      /\ LastOf(Excitations) \in 0 .. Here - 1
    BY <1>1, BeforeHere
<1>3. PICK l \in 0 .. Here - 1 : l = LastOf(Excitations)
    BY <1>2
<1>4. SourcesAt(Here) = {k \in Before(Here, Excitations) : k > LastRun(l)}
    BY <1>3 DEF SourcesAt, LastOf
<1>5. Before(Here, Excitations)'
      = Before(Here, Excitations) \cup (IF c.kind \in Excitations THEN {Here} ELSE {})
    BY BeforeNext
<1>6. PICK m \in 0 .. Here : m = IF c.kind \in Excitations THEN Here ELSE l
    BY <1>1
<1>7. m = LastOf(Excitations)'
    BY <1>3, <1>6, LastNext
<1>8. LastRun(m)' = LastRun(m)
    BY LastRunSame
<1>9. SourcesAt(Here)' = {k \in Before(Here, Excitations)' : k > LastRun(m)'}
    BY <1>7 DEF SourcesAt, LastOf, Latest
<1>10. CASE c.kind \notin Excitations
    BY <1>2, <1>4, <1>5, <1>6, <1>8, <1>9, <1>10, <1>1
<1>11. CASE c.kind \in Excitations
    <2>1. LastRun(m) = LR
        BY <1>6, <1>11 DEF LR
    <2>2. LR \in 0 .. Here - 1
        BY <1>1, RunsAre
    <2>3. SourcesAt(Here)' = {k \in Before(Here, Excitations) : k > LR} \cup {Here}
        BY <1>1, <1>2, <1>5, <1>8, <1>9, <1>11, <2>1, <2>2
    <2>4. CASE LR > l
        <3>1. {k \in Before(Here, Excitations) : k > LR} = {}
            BY <1>1, <1>2, <1>3, <2>2, <2>4
        <3>2. QED
            BY <1>1, <1>2, <1>3, <1>4, <1>11, <2>3, <2>4, <3>1
    <2>5. CASE ~(LR > l)
        <3>1. LastRun(l) = LR
            BY <1>1, <1>3, <2>2, <2>5, RunsBefore
        <3>2. QED
            BY <1>1, <1>2, <1>3, <1>4, <1>11, <2>3, <2>5, <3>1
    <2>6. QED
        BY <2>4, <2>5
<1>12. QED
    BY <1>10, <1>11

\* The voltage that stands for address a at a place.
From(S, a) == {j \in S : deck[j].at = a}

\* The volts at a place that was there stay.
LEMMA VoltsSame ==
    ASSUME NEW c, Grows(c), NEW e \in 0 .. Here, NEW a
    PROVE  VoltsAt(e, a)' = VoltsAt(e, a)
<1>1. SourcesAt(e)' = SourcesAt(e) /\ SourcesAt(e) \subseteq 1 .. Len(deck)
    BY SourcesSame
<1>2. /\ Len(deck) \in Nat
      /\ \A k \in 1 .. Len(deck) : deck'[k] = deck[k]
    BY Grown
<1>3. {j \in SourcesAt(e)' : deck'[j].at = a} = From(SourcesAt(e), a)
    BY <1>1, <1>2 DEF From
<1> DEFINE k == Latest(From(SourcesAt(e), a))
<1>4. k \in 0 .. Len(deck)
    <2>1. From(SourcesAt(e), a) \subseteq 1 .. Len(deck)
        BY <1>1 DEF From
    <2>2. QED
        BY <1>2, <2>1, LatestIs
<1>5. VoltsAt(e, a) = IF k = 0 THEN 0 ELSE Driven(deck[k].val)
    BY DEF VoltsAt, From
<1>6. VoltsAt(e, a)' = IF k = 0 THEN 0 ELSE Driven(deck'[k].val)
    <2>1. VoltsAt(e, a)' = LET l == Latest({j \in SourcesAt(e)' : deck'[j].at = a})
                           IN IF l = 0 THEN 0 ELSE Driven(deck'[l].val)
        BY DEF VoltsAt, Latest, Driven
    <2>2. QED
        BY <1>3, <2>1
<1> HIDE DEF k
<1>7. k = 0 \/ deck'[k] = deck[k]
    BY <1>2, <1>4
<1>8. QED
    BY <1>5, <1>6, <1>7

\* An EX card sets the volts of its port, and ends those of a run before it.
LEMMA VoltsNext ==
    ASSUME NEW c, Grows(c), NEW a
    PROVE  VoltsAt(Here, a)' = IF c.kind \in Excitations
                               THEN IF c.at = a THEN Driven(c.val)
                                    ELSE IF LR > LastOf(Excitations) THEN 0 ELSE VoltsAt(Here, a)
                               ELSE VoltsAt(Here, a)
<1> DEFINE Old == IF c.kind \in Excitations /\ LR > LastOf(Excitations) THEN {} ELSE SourcesAt(Here)
           New == IF c.kind \in Excitations THEN {Here} ELSE {}
<1>1. /\ Here \in Nat \ {0} /\ Here = Len(deck) + 1 /\ Len(deck) \in Nat
      /\ deck'[Here] = c
      /\ \A k \in 1 .. Len(deck) : deck'[k] = deck[k]
    BY Grown DEF Here
<1>2. SourcesAt(Here)' = Old \cup New /\ Old \subseteq 1 .. Len(deck)
    BY SourcesNext
<1> DEFINE F == From(Old, a)
<1>3. F \subseteq 1 .. Len(deck)
    BY <1>2 DEF From
<1>4. {j \in SourcesAt(Here)' : deck'[j].at = a}
      = F \cup (IF c.kind \in Excitations /\ c.at = a THEN {Here} ELSE {})
    <2> HIDE DEF Old
    <2>1. QED
        BY <1>1, <1>2 DEF From
<1>5. VoltsAt(Here, a)' = LET k == Latest({j \in SourcesAt(Here)' : deck'[j].at = a})
                          IN IF k = 0 THEN 0 ELSE Driven(deck'[k].val)
    BY DEF VoltsAt, Latest, Driven
<1>6. CASE c.kind \in Excitations /\ c.at = a
    <2> DEFINE G == F \cup {Here}
    <2>1. G \subseteq 1 .. Here /\ Here \in Nat /\ Here \in G /\ \A j \in G : j <= Here
        BY <1>1, <1>3
    <2> HIDE DEF G
    <2>2. Latest(G) = Here
        BY <2>1, LatestOf
    <2>3. {j \in SourcesAt(Here)' : deck'[j].at = a} = G
        BY <1>4, <1>6 DEF G
    <2>4. QED
        BY <1>1, <1>5, <1>6, <2>2, <2>3
<1>7. CASE ~(c.kind \in Excitations /\ c.at = a)
    <2>1. {j \in SourcesAt(Here)' : deck'[j].at = a} = F
        BY <1>4, <1>7
    <2>2. Latest(F) \in 0 .. Len(deck) /\ (F = {} <=> Latest(F) = 0)
        <3> HIDE DEF F
        <3>1. QED
            BY <1>1, <1>3, LatestIs
    <2>3. VoltsAt(Here, a)' = IF Latest(F) = 0 THEN 0 ELSE Driven(deck[Latest(F)].val)
        <3> HIDE DEF F
        <3>1. Latest(F) = 0 \/ deck'[Latest(F)] = deck[Latest(F)]
            BY <1>1, <2>2
        <3>2. QED
            BY <1>5, <2>1, <3>1
    <2>4. CASE Old = SourcesAt(Here)
        <3>1. VoltsAt(Here, a) = IF Latest(F) = 0 THEN 0 ELSE Driven(deck[Latest(F)].val)
            BY <2>4 DEF VoltsAt, From
        <3>2. c.kind \in Excitations /\ LR > LastOf(Excitations) => VoltsAt(Here, a)' = 0
            <4>1. c.kind \in Excitations /\ LR > LastOf(Excitations) => F = {}
                BY DEF From
            <4>2. QED
                BY <2>2, <2>3, <4>1
        <3>3. QED
            BY <1>7, <2>3, <3>1, <3>2
    <2>5. CASE c.kind \in Excitations /\ LR > LastOf(Excitations)
        <3>1. F = {}
            BY <2>5 DEF From
        <3>2. QED
            BY <1>7, <2>2, <2>3, <2>5, <3>1
    <2>6. QED
        BY <2>4, <2>5
<1>8. QED
    BY <1>6, <1>7

-----------------------------------------------------------------------------

\* The run of LD cards that a place is in or just after.
LdOrClear == {"LD"} \cup Transparent
\* The run of LD cards is not closed.
Open == LastOf({"LD"}) # 0 /\ \A j \in LastOf({"LD"}) .. Len(deck) : deck[j].kind \in LdOrClear

\* The loads of a place that was there stay.
LEMMA LoadsSame ==
    ASSUME NEW c, Grows(c), NEW e \in 0 .. Here
    PROVE  LoadsAt(e)' = LoadsAt(e) /\ LoadsAt(e) \subseteq 1 .. Len(deck)
<1>1. Before(e, {"LD"})' = Before(e, {"LD"})
    BY BeforeSame
<1>2. /\ Len(deck) \in Nat /\ Here = Len(deck) + 1
      /\ \A k \in 1 .. Len(deck) : deck'[k] = deck[k]
    BY Grown DEF Here
<1>3. Before(e, {"LD"}) \subseteq 1 .. Len(deck)
    BY <1>2 DEF Before
<1>4. PICK l \in 0 .. Len(deck) : l = Latest(Before(e, {"LD"}))
    BY <1>2, <1>3, LatestIs
<1>5. LdOrClear' = LdOrClear
    BY DEF LdOrClear, Transparent, Grows
<1>6. \A k \in Before(e, {"LD"}) : \A j \in k .. l : deck'[j] = deck[j]
    BY <1>2, <1>3, <1>4
<1> DEFINE Fine(k, d) == \A j \in k .. l :
                d[j].kind \in LdOrClear /\ (d[j].kind = "LD" => d[j].at # None)
<1>7. LoadsAt(e) = {k \in Before(e, {"LD"}) : Fine(k, deck)}
    BY <1>4 DEF LoadsAt, LdOrClear
<1>8. LoadsAt(e)' = {k \in Before(e, {"LD"})' : Fine(k, deck')}
    <2>1. l = Latest(Before(e, {"LD"})')
        BY <1>1, <1>4
    <2>2. LoadsAt(e)' = {k \in Before(e, {"LD"})' : \A j \in k .. l :
                            deck'[j].kind \in LdOrClear' /\ (deck'[j].kind = "LD" => deck'[j].at # None)}
        BY <2>1 DEF LoadsAt, LdOrClear, Latest, Transparent, None
    <2>3. QED
        BY <1>5, <2>2
<1>9. \A k \in Before(e, {"LD"}) : Fine(k, deck') <=> Fine(k, deck)
    BY <1>6
<1> HIDE DEF Fine
<1>10. QED
    BY <1>1, <1>3, <1>7, <1>8, <1>9

\* An LD card opens a run of them, and a card it does not survive closes it.
LEMMA OpenNext ==
    ASSUME NEW c, Grows(c)
    PROVE  Open' <=> c.kind = "LD" \/ (Open /\ c.kind \in Transparent)
<1>1. /\ Here \in Nat \ {0} /\ Here = Len(deck) + 1 /\ Len(deck) \in Nat
      /\ deck'[Here] = c /\ Len(deck') = Here
      /\ \A k \in 1 .. Len(deck) : deck'[k] = deck[k]
    BY Grown DEF Here
<1>2. LastOf({"LD"})' = IF c.kind = "LD" THEN Here ELSE LastOf({"LD"})
    BY LastNext
<1>3. LastOf({"LD"}) \in 0 .. Here - 1
    BY <1>1, BeforeHere
<1>4. LdOrClear' = LdOrClear
    BY DEF LdOrClear, Transparent, Grows
<1>5. Open' <=> /\ LastOf({"LD"})' # 0
                /\ \A j \in LastOf({"LD"})' .. Here : deck'[j].kind \in LdOrClear
    BY <1>1, <1>4 DEF Open
<1>6. c.kind \in LdOrClear <=> c.kind = "LD" \/ c.kind \in Transparent
    BY DEF LdOrClear
<1>7. CASE c.kind = "LD"
    <2>1. LastOf({"LD"})' .. Here = {Here}
        BY <1>1, <1>2, <1>7
    <2>2. QED
        BY <1>1, <1>2, <1>5, <1>6, <1>7, <2>1
<1>8. CASE c.kind # "LD"
    <2> DEFINE l == LastOf({"LD"})
    <2>1. l # 0 => l .. Here = (l .. Len(deck)) \cup {Here}
        BY <1>1, <1>3
    <2>2. l # 0 => \A j \in l .. Len(deck) : deck'[j] = deck[j]
        BY <1>1, <1>3
    <2>3. Open' <=> l # 0 /\ \A j \in l .. Here : deck'[j].kind \in LdOrClear
        BY <1>2, <1>5, <1>8
    <2>4. Open <=> l # 0 /\ \A j \in l .. Len(deck) : deck[j].kind \in LdOrClear
        BY DEF Open
    <2> HIDE DEF l
    <2>5. QED
        BY <1>1, <1>6, <1>8, <2>1, <2>2, <2>3, <2>4
<1>9. QED
    BY <1>7, <1>8

\* An LD card is in force, alone if it is the first of a run, and LD -1 ends them.
LEMMA LoadsNext ==
    ASSUME NEW c, Grows(c)
    PROVE  /\ LoadsAt(Here)' = IF c.kind # "LD" THEN LoadsAt(Here)
                               ELSE IF c.at = None THEN {}
                               ELSE (IF Open THEN LoadsAt(Here) ELSE {}) \cup {Here}
           /\ LoadsAt(Here) \subseteq 1 .. Len(deck)
<1>1. /\ Here \in Nat \ {0} /\ Here = Len(deck) + 1 /\ Len(deck) \in Nat /\ Here' = Here + 1
      /\ deck'[Here] = c /\ Len(deck') = Here
      /\ \A k \in 1 .. Len(deck) : deck'[k] = deck[k]
    BY Grown DEF Here
<1> DEFINE B == Before(Here, {"LD"})
<1>2. /\ B \subseteq 1 .. Len(deck) /\ LastOf({"LD"}) \in 0 .. Len(deck)
      /\ \A j \in B : j <= LastOf({"LD"})
    BY <1>1, BeforeHere
<1>3. PICK l \in 0 .. Len(deck) : l = LastOf({"LD"})
    BY <1>2
<1>4. PICK m \in 0 .. Here : m = IF c.kind = "LD" THEN Here ELSE l
    BY <1>1
<1>5. m = LastOf({"LD"})'
    BY <1>3, <1>4, LastNext
<1>6. B' = B \cup (IF c.kind = "LD" THEN {Here} ELSE {})
    BY BeforeNext
<1>7. LdOrClear' = LdOrClear
    BY DEF LdOrClear, Transparent, Grows
<1> DEFINE Fine(k, x, d) == \A j \in k .. x :
                d[j].kind \in LdOrClear /\ (d[j].kind = "LD" => d[j].at # None)
<1>8. LoadsAt(Here) = {k \in B : Fine(k, l, deck)}
    BY <1>3 DEF LoadsAt, LdOrClear, LastOf
<1>9. LoadsAt(Here)' = {k \in B' : Fine(k, m, deck')}
    <2>1. LoadsAt(Here)' = {k \in B' : \A j \in k .. m :
                            deck'[j].kind \in LdOrClear' /\ (deck'[j].kind = "LD" => deck'[j].at # None)}
        BY <1>5 DEF LoadsAt, LdOrClear, Latest, Transparent, None, LastOf
    <2>2. QED
        BY <1>7, <2>1
<1>10. ASSUME NEW k \in B, NEW x \in 0 .. Len(deck) PROVE Fine(k, x, deck') <=> Fine(k, x, deck)
    <2>1. \A j \in k .. x : deck'[j] = deck[j]
        BY <1>1, <1>2
    <2>2. QED
        BY <2>1
<1>11. LoadsAt(Here) \subseteq 1 .. Len(deck)
    BY <1>2, <1>8
<1>12. CASE c.kind # "LD"
    BY <1>3, <1>4, <1>6, <1>8, <1>9, <1>10, <1>11, <1>12
<1>13. CASE c.kind = "LD"
    <2>1. m = Here /\ B' = B \cup {Here}
        BY <1>4, <1>6, <1>13
    <2>2. Fine(Here, Here, deck') <=> c.at # None
        BY <1>1, <1>13 DEF LdOrClear
    <2>3. ASSUME NEW k \in B
          PROVE  Fine(k, Here, deck') <=> Open /\ Fine(k, l, deck) /\ c.at # None
        <3>1. k \in 1 .. Len(deck) /\ k <= l /\ l # 0
            BY <1>1, <1>2, <1>3
        <3>2. k .. Here = ((k .. l) \cup (l .. Len(deck))) \cup {Here}
            BY <1>1, <3>1
        <3>3. \A j \in (k .. l) \cup (l .. Len(deck)) : deck'[j] = deck[j]
            BY <1>1, <3>1
        <3>4. \A j \in l .. Len(deck) : j # l => deck[j].kind # "LD"
            <4>1. \A j \in l .. Len(deck) : deck[j].kind = "LD" => j \in B
                BY <1>1, <3>1 DEF Before
            <4>2. QED
                BY <1>1, <1>2, <1>3, <4>1
        <3>5. Open <=> \A j \in l .. Len(deck) : deck[j].kind \in LdOrClear
            BY <1>3, <3>1 DEF Open
        <3>6. l \in k .. l
            BY <3>1
        <3>7. c.kind \in LdOrClear
            BY <1>13 DEF LdOrClear
        <3>8. Fine(k, Here, deck') => Open /\ Fine(k, l, deck) /\ c.at # None
            BY <1>1, <1>13, <3>2, <3>3, <3>5
        <3>9. Open /\ Fine(k, l, deck) /\ c.at # None => Fine(k, Here, deck')
            BY <1>1, <1>13, <3>2, <3>3, <3>4, <3>5, <3>6, <3>7
        <3>10. QED
            BY <3>8, <3>9
    <2> HIDE DEF Fine, B
    <2>4. LoadsAt(Here)' = IF c.at = None THEN {}
                           ELSE (IF Open THEN LoadsAt(Here) ELSE {}) \cup {Here}
        BY <1>8, <1>9, <2>1, <2>2, <2>3
    <2>5. QED
        BY <1>11, <1>13, <2>4
<1>14. QED
    BY <1>12, <1>13

\* The networks of a place that was there stay.
LEMMA NetworksSame ==
    ASSUME NEW c, Grows(c), NEW e \in 0 .. Here
    PROVE  NetworksAt(e)' = NetworksAt(e)
<1>1. Before(e, Networks)' = Before(e, Networks)
    BY BeforeSame
<1>2. /\ Len(deck) \in Nat /\ Here = Len(deck) + 1
      /\ \A k \in 1 .. Len(deck) : deck'[k] = deck[k]
    BY Grown DEF Here
<1>3. Before(e, Networks) \subseteq 1 .. Len(deck)
    BY <1>2 DEF Before
<1>4. PICK l \in 0 .. Len(deck) : l = Latest(Before(e, Networks))
    BY <1>2, <1>3, LatestIs
<1>5. \A k \in Before(e, Networks) : \A j \in k .. l : deck'[j] = deck[j]
    BY <1>2, <1>3, <1>4
<1> DEFINE Quiet == Networks \cup Advice \cup Comments
<1>6. NetworksAt(e) = {k \in Before(e, Networks) : \A j \in k .. l : deck[j].kind \in Quiet}
    BY <1>4 DEF NetworksAt
<1>7. NetworksAt(e)' = {k \in Before(e, Networks)' : \A j \in k .. l : deck'[j].kind \in Quiet}
    BY <1>1, <1>4 DEF NetworksAt, Latest, Networks, Advice, Comments
<1> HIDE DEF Quiet
<1>8. QED
    BY <1>1, <1>5, <1>6, <1>7

-----------------------------------------------------------------------------
(* What the reading of a card changes, by its kind.                        *)

\* Card c is answered with a run.
Answers(c) == c.kind \in Execute /\ (armed \/ ~executed)

\* What a card makes of the flags: an execute card that is answered clears them.
FlagsRead(c) ==
    /\ armed' <=> c.kind \in Arming \/ (armed /\ ~Answers(c))
    /\ executed' <=> executed \/ Answers(c)
    /\ freshFr' <=> c.kind = "FR" \/ (freshFr /\ ~Answers(c))
    /\ dirty' <=> (dirty /\ ~Answers(c)) \/ (executed /\ c.kind \in Operator)
    /\ stale' <=> c.kind \notin Excitations /\ (stale \/ Answers(c))

\* Of the frequencies, the ground and the kernel.
OperatorRead(c) ==
    /\ freqs' = IF c.kind = "FR" THEN c.val ELSE freqs
    /\ ground' = IF c.kind = "GN" THEN c.val ELSE ground
    /\ kernel' = IF c.kind = "EK" THEN (dialect = "nec4" \/ c.val) ELSE kernel

\* Of the sources, and of the kind of each port.
SourcesRead(c) ==
    /\ sources' = IF c.kind \in Excitations
                  THEN Append(IF stale THEN <<>> ELSE sources, <<c.at, Driven(c.val)>>)
                  ELSE sources
    /\ sourceKind' = sourceKind \cup (IF c.kind \in Excitations THEN {<<c.at, c.kind>>} ELSE {})
    /\ c.kind \in Excitations => \A s \in sourceKind : s[1] = c.at => s[2] = c.kind

\* Of the networks.
NetworksRead(c) ==
    /\ nets' = IF c.kind \in Networks THEN Append(nets, [at |-> c.at, first |-> Len(groups) + 1])
               ELSE nets
    /\ c.kind \in Networks => destroyer = None
    /\ Destroyed(c)

\* Of the loads.
LoadsRead(c) ==
    /\ c.kind # "LD" => UNCHANGED <<log, live>>
    /\ c.kind = "LD" =>
        LET at == IndexOf(<<c.at, c.val>>)
            lumped == c.at \notin {None, All} /\ c.val # 0
        IN /\ live' = IF c.at = None THEN <<>>
                      ELSE IF lumped THEN Append(Kept.live, at) ELSE Kept.live
           /\ log' = IF lumped /\ at > Len(log) THEN Append(log, <<c.at, c.val>>) ELSE log
    /\ runOpen' <=> c.kind = "LD" \/ (runOpen /\ c.kind \in Transparent)

\* The group of what is in force.
Run == [ran |-> TRUE, sources |-> sources,
        freqs |-> IF freshFr THEN freqs ELSE <<freqs[Len(freqs)]>>,
        whole |-> freshFr \/ ~executed, part |-> dirty /\ ~(freshFr \/ ~executed),
        ground |-> ground, kernel |-> kernel, loads |-> live, metal |-> metal]

\* Of the groups.
GroupsRead(c) ==
    groups' = IF c.kind \in Execute THEN Append(groups, IF Answers(c) THEN Run ELSE NotRun)
              ELSE groups

\* The reading of card c, of whatever kind.
Reads(c) ==
    /\ c \in Cards[dialect] /\ pc = "reading" /\ pc' = "reading"
    /\ deck' = Append(deck, c) /\ dialect' = dialect /\ model' = model
    /\ FlagsRead(c) /\ OperatorRead(c) /\ SourcesRead(c) /\ NetworksRead(c) /\ LoadsRead(c)
    /\ GroupsRead(c) /\ Walks(c, Answers(c))

\* A step reads a card, refuses the deck, ends it or does nothing.
LEMMA Steps ==
    ASSUME [Next]_vars
    PROVE  \/ \E c : Reads(c)
           \/ pc' = "refused"
           \/ Ends
           \/ UNCHANGED vars
<1> USE DEF FlagsRead, OperatorRead, SourcesRead, NetworksRead, LoadsRead, GroupsRead, Reads,
            Answers, Execute, Arming, Operator, Networks, Excitations, flags, state, drive, loading,
            Takes, Reading, Noted
<1>1. ASSUME NEW c \in Cards[dialect], Ex(c) PROVE Reads(c)
    BY <1>1 DEF Ex, Drives, Arms
<1>2. ASSUME NEW c \in Cards[dialect], Fr(c) PROVE Reads(c)
    BY <1>2 DEF Fr
<1>3. ASSUME NEW c \in Cards[dialect], Gn(c) PROVE Reads(c)
    BY <1>3 DEF Gn, Arms
<1>4. ASSUME NEW c \in Cards[dialect], Ek(c) PROVE Reads(c)
    BY <1>4 DEF Ek, Arms
<1>5. ASSUME NEW c \in Cards[dialect], Ld(c) PROVE Reads(c)
    BY <1>5 DEF Ld, Arms
<1>6. ASSUME NEW c \in Cards[dialect], Network(c) PROVE Reads(c)
    BY <1>6 DEF Network, Arms
<1>7. ASSUME NEW c \in Cards[dialect], Is(c) PROVE Reads(c)
    BY <1>7 DEF Is
<1>8. ASSUME NEW c \in Cards[dialect], Aside(c) PROVE Reads(c)
    BY <1>8 DEF Aside, Comments, Advice, Geometry
<1>9. ASSUME NEW c \in Cards[dialect], Runs(c) PROVE Reads(c)
    BY <1>9 DEF Runs, Run
<1>10. ASSUME NEW c \in Cards[dialect], RunsNothing(c) PROVE Reads(c)
    BY <1>10 DEF RunsNothing
<1>11. QED
    BY <1>1, <1>2, <1>3, <1>4, <1>5, <1>6, <1>7, <1>8, <1>9, <1>10
       DEF Next, ExRefused, NetworkRefused, IsRefused, Refuses

-----------------------------------------------------------------------------
(* What the reader's state has of the cards before.                        *)

\* The reader's flags, as an order of places.
FlagInv ==
    /\ executed <=> LastOf(Execute) # 0
    /\ executed <=> LR # 0
    /\ executed => (armed <=> LastOf(Arming) > LastOf(Execute))
    /\ ~executed => armed
    /\ freshFr <=> LastOf({"FR"}) > LR
    /\ dirty <=> executed /\ LastOf(Operator) > LR
    /\ stale <=> LR > LastOf(Excitations)

\* The operator is what the last card of each kind says.
OperatorInv ==
    /\ freqs = LastVal(Here, "FR", DefaultList)
    /\ ground = LastVal(Here, "GN", 0)
    /\ kernel = (dialect = "nec4" \/ LastVal(Here, "EK", FALSE))

\* The deck is of cards.
DeckTyped == dialect \in Dialects /\ deck \in Seq(AnyCard)

\* A card that is read is one more of the deck.
LEMMA ReadsGrows ==
    ASSUME DeckTyped, NEW c, Reads(c)
    PROVE  Grows(c) /\ DeckTyped' /\ c \in AnyCard
<1>1. c \in AnyCard
    BY DEF DeckTyped, Reads, AnyCard
<1>2. QED
    BY <1>1 DEF DeckTyped, Reads, Grows

\* Whether the card that comes is answered is what the places say.
LEMMA AnswersIs ==
    ASSUME DeckTyped, FlagInv, NEW c
    PROVE  Answers(c) <=> c.kind \in Execute /\ RunAt(Here)
<1>1. Here \in Nat \ {0}
    BY DEF Here, DeckTyped
<1>2. RunAt(Here) <=> LastOf(Execute) = 0 \/ LastOf(Arming) > LastOf(Execute)
    BY <1>1, RunAtIs
<1>3. QED
    BY <1>2 DEF Answers, FlagInv

\* The flags go on being that order of places.
LEMMA FlagStep ==
    ASSUME DeckTyped, FlagInv, NEW c, Reads(c)
    PROVE  FlagInv'
<1>1. Grows(c)
    BY ReadsGrows
<1>2. Here \in Nat \ {0}
    BY <1>1, Grown
<1>3. Answers(c) <=> c.kind \in Execute /\ RunAt(Here)
    BY AnswersIs
<1>4. LR' = IF Answers(c) THEN Here ELSE LR
    BY <1>1, <1>3, RunNext
<1>5. /\ LastOf(Execute)' = IF c.kind \in Execute THEN Here ELSE LastOf(Execute)
      /\ LastOf(Arming)' = IF c.kind \in Arming THEN Here ELSE LastOf(Arming)
      /\ LastOf({"FR"})' = IF c.kind = "FR" THEN Here ELSE LastOf({"FR"})
      /\ LastOf(Operator)' = IF c.kind \in Operator THEN Here ELSE LastOf(Operator)
      /\ LastOf(Excitations)' = IF c.kind \in Excitations THEN Here ELSE LastOf(Excitations)
    BY <1>1, LastNext
<1>6. /\ LastOf(Execute) \in 0 .. Here - 1 /\ LastOf(Arming) \in 0 .. Here - 1
      /\ LastOf({"FR"}) \in 0 .. Here - 1 /\ LastOf(Operator) \in 0 .. Here - 1
      /\ LastOf(Excitations) \in 0 .. Here - 1 /\ LR \in 0 .. Here - 1
    BY <1>2, BeforeHere, RunsAre
<1>7. FlagsRead(c)
    BY DEF Reads
<1>8. c.kind \in Execute => /\ c.kind \notin Arming /\ c.kind # "FR"
                            /\ c.kind \notin Operator /\ c.kind \notin Excitations
    BY DEF Execute, Arming, Operator, Excitations
<1>9. Answers(c) <=> c.kind \in Execute /\ (armed \/ ~executed)
    BY DEF Answers
<1> HIDE DEF LastOf, LR, Here
<1>10. (executed' <=> LastOf(Execute)' # 0) /\ (executed' <=> LR' # 0)
    BY <1>2, <1>4, <1>5, <1>7, <1>9 DEF FlagInv, FlagsRead
<1>11. (executed' => (armed' <=> LastOf(Arming)' > LastOf(Execute)')) /\ (~executed' => armed')
    BY <1>2, <1>5, <1>6, <1>7, <1>8, <1>9 DEF FlagInv, FlagsRead
<1>12. freshFr' <=> LastOf({"FR"})' > LR'
    BY <1>2, <1>4, <1>5, <1>6, <1>7, <1>8, <1>9 DEF FlagInv, FlagsRead
<1>13. dirty' <=> executed' /\ LastOf(Operator)' > LR'
    BY <1>2, <1>4, <1>5, <1>6, <1>7, <1>8, <1>9 DEF FlagInv, FlagsRead
<1>14. stale' <=> LR' > LastOf(Excitations)'
    BY <1>2, <1>4, <1>5, <1>6, <1>7, <1>8, <1>9 DEF FlagInv, FlagsRead
<1>15. QED
    BY <1>10, <1>11, <1>12, <1>13, <1>14 DEF FlagInv

\* And the operator what the last cards say.
LEMMA OperatorStep ==
    ASSUME DeckTyped, OperatorInv, NEW c, Reads(c)
    PROVE  OperatorInv'
<1>1. Grows(c) /\ OperatorRead(c) /\ dialect' = dialect
    BY ReadsGrows DEF Reads
<1>2. /\ LastVal(Here, "FR", DefaultList)'
         = IF c.kind = "FR" THEN c.val ELSE LastVal(Here, "FR", DefaultList)
      /\ LastVal(Here, "GN", 0)' = IF c.kind = "GN" THEN c.val ELSE LastVal(Here, "GN", 0)
      /\ LastVal(Here, "EK", FALSE)' = IF c.kind = "EK" THEN c.val ELSE LastVal(Here, "EK", FALSE)
    BY <1>1, ValNext
<1>3. freqs' = LastVal(Here, "FR", DefaultList)' /\ ground' = LastVal(Here, "GN", 0)'
    BY <1>1, <1>2 DEF OperatorInv, OperatorRead
<1>4. kernel' = (dialect' = "nec4" \/ LastVal(Here, "EK", FALSE)')
    <2>1. CASE c.kind = "EK"
        BY <1>1, <1>2, <2>1 DEF OperatorRead
    <2>2. CASE c.kind # "EK"
        BY <1>1, <1>2, <2>2 DEF OperatorInv, OperatorRead
    <2>3. QED
        BY <2>1, <2>2
<1>5. QED
    BY <1>1, <1>3, <1>4 DEF OperatorInv, DefaultList

-----------------------------------------------------------------------------
(* The sources in force.                                                    *)

\* What a list of sources says of a port.
Of(s, a) == LET at == {k \in DOMAIN s : s[k][1] = a}
            IN IF at = {} THEN 0 ELSE s[Latest(at)][2]
\* The ports a list of sources names.
Ports(s) == {s[k][1] : k \in DOMAIN s}

\* The volts of a group are of its list.
LEMMA VoltsOf == ASSUME NEW g, NEW a PROVE Volts(g, a) = Of(g.sources, a)
BY DEF Volts, Of, Latest

\* An empty list says nothing.
LEMMA NoSource == ASSUME NEW a PROVE Of(<<>>, a) = 0 /\ Ports(<<>>) = {}
<1>1. DOMAIN <<>> = {}
    OBVIOUS
<1>2. QED
    BY <1>1 DEF Of, Ports

\* A further source is the one of its port, and changes no other's.
LEMMA FurtherSource ==
    ASSUME NEW S, NEW s \in Seq(S), NEW b, NEW v, NEW a
    PROVE  /\ Of(Append(s, <<b, v>>), a) = IF b = a THEN v ELSE Of(s, a)
           /\ Ports(Append(s, <<b, v>>)) = Ports(s) \cup {b}
<1> DEFINE new == <<b, v>>
           t == Append(s, new)
           at == {k \in DOMAIN s : s[k][1] = a}
           now == {k \in DOMAIN t : t[k][1] = a}
<1>0. new[1] = b /\ new[2] = v
    OBVIOUS
<1>1. PICK n \in Nat : n = Len(s)
    OBVIOUS
<1>2. /\ \A i \in 1 .. n : t[i] = s[i]
      /\ t[n + 1] = new /\ DOMAIN t = 1 .. n + 1 /\ DOMAIN s = 1 .. n
    BY <1>1, Longer
<1>3. Of(t, a) = IF now = {} THEN 0 ELSE t[Latest(now)][2]
    BY DEF Of
<1>4. Of(s, a) = IF at = {} THEN 0 ELSE s[Latest(at)][2]
    BY DEF Of
<1>5. Ports(t) = Ports(s) \cup {b}
    <2> HIDE DEF t, new
    <2>1. \A x \in Ports(t) : x \in Ports(s) \cup {b}
        BY <1>0, <1>2 DEF Ports
    <2>2. \A x \in Ports(s) : x \in Ports(t)
        BY <1>2 DEF Ports
    <2>3. b \in Ports(t)
        BY <1>0, <1>2 DEF Ports
    <2>4. QED
        BY <2>1, <2>2, <2>3
<1> HIDE DEF t, new
<1>6. at \subseteq 1 .. n /\ now \subseteq 1 .. n + 1 /\ n + 1 \in Nat
    BY <1>2
<1>7. now = IF b = a THEN at \cup {n + 1} ELSE at
    BY <1>0, <1>2
<1> HIDE DEF at, now
<1>8. CASE b = a
    <2>1. n + 1 \in now /\ \A j \in now : j <= n + 1
        BY <1>6, <1>7, <1>8
    <2>2. Latest(now) = n + 1
        BY <1>6, <2>1, LatestOf
    <2>3. QED
        BY <1>0, <1>2, <1>3, <1>5, <1>8, <2>1, <2>2 DEF t, new
<1>9. CASE b # a
    <2>1. at # {} => Latest(at) \in 1 .. n
        BY <1>6, LatestIs
    <2>2. QED
        BY <1>2, <1>3, <1>4, <1>5, <1>7, <1>9, <2>1 DEF t, new
<1>10. QED
    BY <1>8, <1>9

\* The addresses of a set of cards.
Places(S) == {deck[k].at : k \in S}

\* The sources say the volts and name the ports of the EX cards in force.
SourceInv ==
    /\ \E S : sources \in Seq(S)
    /\ \A a : Of(sources, a) = VoltsAt(Here, a)
    /\ Ports(sources) = Places(SourcesAt(Here))

\* The kind of each port that has had an EX card is known, and one.
KindInv ==
    /\ \A k \in 1 .. Len(deck) :
         deck[k].kind \in Excitations => <<deck[k].at, deck[k].kind>> \in sourceKind
    /\ \A a, x, y : <<a, x>> \in sourceKind /\ <<a, y>> \in sourceKind => x = y

\* The ports driven at a place that was there stay.
LEMMA PlacesSame ==
    ASSUME NEW c, Grows(c), NEW e \in 0 .. Here
    PROVE  Places(SourcesAt(e))' = Places(SourcesAt(e))
<1>1. SourcesAt(e)' = SourcesAt(e) /\ SourcesAt(e) \subseteq 1 .. Len(deck)
    BY SourcesSame
<1>2. \A k \in SourcesAt(e) : deck'[k] = deck[k]
    BY <1>1, Grown
<1>3. Places(SourcesAt(e))' = {deck'[k].at : k \in SourcesAt(e)'}
    BY DEF Places
<1>4. Places(SourcesAt(e)) = {deck[k].at : k \in SourcesAt(e)}
    BY DEF Places
<1>5. QED
    BY <1>1, <1>2, <1>3, <1>4

\* An EX card drives its port, alone after a run.
LEMMA PlacesNext ==
    ASSUME NEW c, Grows(c)
    PROVE  Places(SourcesAt(Here))' = IF c.kind \in Excitations
                                      THEN (IF LR > LastOf(Excitations) THEN {} ELSE Places(SourcesAt(Here)))
                                           \cup {c.at}
                                      ELSE Places(SourcesAt(Here))
<1> DEFINE Old == SourcesAt(Here)
           New == SourcesAt(Here)'
<1>1. New = IF c.kind \in Excitations
            THEN (IF LR > LastOf(Excitations) THEN {} ELSE Old) \cup {Here}
            ELSE Old
    BY SourcesNext
<1>2. Old \subseteq 1 .. Len(deck)
    BY SourcesNext
<1>3. \A k \in Old : deck'[k] = deck[k]
    BY <1>2, Grown
<1>4. deck'[Here] = c
    BY Grown
<1>5. Places(SourcesAt(Here))' = {deck'[k].at : k \in New}
    BY DEF Places
<1>6. Places(SourcesAt(Here)) = {deck[k].at : k \in Old}
    BY DEF Places
<1> HIDE DEF Old, New
<1>7. CASE c.kind \notin Excitations
    BY <1>1, <1>3, <1>5, <1>6, <1>7
<1>8. CASE c.kind \in Excitations /\ LR > LastOf(Excitations)
    BY <1>1, <1>4, <1>5, <1>8
<1>9. CASE c.kind \in Excitations /\ ~(LR > LastOf(Excitations))
    <2>1. New = Old \cup {Here}
        BY <1>1, <1>9
    <2>2. {deck'[k].at : k \in New} = {deck[k].at : k \in Old} \cup {c.at}
        BY <1>3, <1>4, <2>1
    <2>3. QED
        BY <1>5, <1>6, <1>9, <2>2
<1>10. QED
    BY <1>7, <1>8, <1>9

\* An EX card replaces the sources of a run, or adds to those after it.
LEMMA SourceStep ==
    ASSUME DeckTyped, FlagInv, SourceInv, NEW c, Reads(c)
    PROVE  SourceInv'
<1>1. Grows(c) /\ SourcesRead(c)
    BY ReadsGrows DEF Reads
<1>2. PICK S : sources \in Seq(S)
    BY DEF SourceInv
<1>3. stale <=> LR > LastOf(Excitations)
    BY DEF FlagInv
<1>4. Places(SourcesAt(Here))' = IF c.kind \in Excitations
                                 THEN (IF stale THEN {} ELSE Ports(sources)) \cup {c.at}
                                 ELSE Ports(sources)
    BY <1>1, <1>3, PlacesNext DEF SourceInv
<1>5. ASSUME NEW a
      PROVE  VoltsAt(Here, a)' = IF c.kind \in Excitations
                                 THEN IF c.at = a THEN Driven(c.val)
                                      ELSE IF stale THEN 0 ELSE Of(sources, a)
                                 ELSE Of(sources, a)
    <2>1. VoltsAt(Here, a)' = IF c.kind \in Excitations
                               THEN IF c.at = a THEN Driven(c.val)
                                    ELSE IF LR > LastOf(Excitations) THEN 0 ELSE VoltsAt(Here, a)
                               ELSE VoltsAt(Here, a)
        BY <1>1, VoltsNext
    <2>2. QED
        BY <1>3, <2>1 DEF SourceInv
<1>6. CASE c.kind \notin Excitations
    <2>1. sources' = sources
        BY <1>1, <1>6 DEF SourcesRead
    <2>2. QED
        BY <1>2, <1>4, <1>5, <1>6, <2>1 DEF SourceInv
<1>7. CASE c.kind \in Excitations
    <2> DEFINE base == IF stale THEN <<>> ELSE sources
    <2>1. sources' = Append(base, <<c.at, Driven(c.val)>>)
        BY <1>1, <1>7 DEF SourcesRead
    <2>2. PICK b : b = base
        OBVIOUS
    <2>3. b \in Seq(S)
        BY <1>2, <2>2
    <2>4. PICK v : v = Driven(c.val)
        OBVIOUS
    <2>5. sources' = Append(b, <<c.at, v>>)
        BY <2>1, <2>2, <2>4
    <2>6. \E T : sources' \in Seq(T)
        BY <2>3, <2>5, Longer
    <2>7. ASSUME NEW a PROVE Of(sources', a) = VoltsAt(Here, a)'
        <3>1. Of(Append(b, <<c.at, v>>), a) = IF c.at = a THEN v ELSE Of(b, a)
            BY <2>3, FurtherSource
        <3>2. Of(b, a) = IF stale THEN 0 ELSE Of(sources, a)
            BY <2>2, NoSource
        <3>3. QED
            BY <1>5, <1>7, <2>4, <2>5, <3>1, <3>2
    <2>8. Ports(sources') = Places(SourcesAt(Here))'
        <3>1. Ports(Append(b, <<c.at, v>>)) = Ports(b) \cup {c.at}
            BY <2>3, FurtherSource
        <3>2. Ports(b) = IF stale THEN {} ELSE Ports(sources)
            BY <2>2, NoSource
        <3>3. QED
            BY <1>4, <1>7, <2>5, <3>1, <3>2
    <2>9. QED
        BY <2>6, <2>7, <2>8 DEF SourceInv
<1>8. QED
    BY <1>6, <1>7

\* A port stays of one kind, since an EX of another is refused.
LEMMA KindStep ==
    ASSUME DeckTyped, KindInv, NEW c, Reads(c)
    PROVE  KindInv'
<1>1. Grows(c) /\ SourcesRead(c)
    BY ReadsGrows DEF Reads
<1>2. /\ deck'[Here] = c /\ Len(deck') = Here /\ Len(deck) \in Nat /\ Here = Len(deck) + 1
      /\ \A k \in 1 .. Len(deck) : deck'[k] = deck[k]
    BY <1>1, Grown DEF Here
<1>3. /\ sourceKind \subseteq sourceKind'
      /\ c.kind \in Excitations => <<c.at, c.kind>> \in sourceKind'
    BY <1>1 DEF SourcesRead
<1>4. ASSUME NEW k \in 1 .. Len(deck'), deck'[k].kind \in Excitations
      PROVE  <<deck'[k].at, deck'[k].kind>> \in sourceKind'
    <2>1. CASE k = Here
        BY <1>2, <1>3, <1>4, <2>1
    <2>2. CASE k \in 1 .. Len(deck)
        BY <1>2, <1>3, <1>4, <2>2 DEF KindInv
    <2>3. QED
        BY <1>2, <2>1, <2>2
<1>5. ASSUME NEW a, NEW x, NEW y, <<a, x>> \in sourceKind', <<a, y>> \in sourceKind'
      PROVE  x = y
    <2>1. \A s \in sourceKind' : \/ s \in sourceKind
                                 \/ c.kind \in Excitations /\ s = <<c.at, c.kind>>
        BY <1>1 DEF SourcesRead
    <2>2. c.kind \in Excitations => \A z : <<c.at, z>> \in sourceKind => z = c.kind
        <3>1. SUFFICES ASSUME c.kind \in Excitations, NEW z, <<c.at, z>> \in sourceKind
                       PROVE  z = c.kind
            OBVIOUS
        <3>2. PICK s : s = <<c.at, z>>
            OBVIOUS
        <3>3. s \in sourceKind /\ s[1] = c.at /\ s[2] = z
            BY <3>1, <3>2
        <3>4. QED
            BY <1>1, <3>1, <3>3 DEF SourcesRead
    <2>3. /\ <<a, x>> \in sourceKind \/ (c.kind \in Excitations /\ a = c.at /\ x = c.kind)
          /\ <<a, y>> \in sourceKind \/ (c.kind \in Excitations /\ a = c.at /\ y = c.kind)
        BY <1>5, <2>1
    <2>4. QED
        BY <2>2, <2>3 DEF KindInv
<1>6. QED
    BY <1>4, <1>5 DEF KindInv

-----------------------------------------------------------------------------
(* Ranks: how many of a set of places come up to one of them.               *)

\* How many of S come up to x.
Rank(S, x) == Cardinality({k \in S : k <= x})

\* Places of a set have different ranks, up to the number of them.
LEMMA RankIs ==
    ASSUME NEW m \in Nat, NEW S, S \subseteq 1 .. m
    PROVE  /\ IsFiniteSet(S) /\ Cardinality(S) \in Nat
           /\ \A x \in S : Rank(S, x) \in 1 .. Cardinality(S)
           /\ \A x, y \in S : Rank(S, x) = Rank(S, y) => x = y
<1>1. IsFiniteSet(S)
    <2>1. IsFiniteSet(1 .. m)
        BY FS_Interval
    <2>2. QED
        BY <2>1, FS_Subset
<1>2. Cardinality(S) \in Nat
    BY <1>1, FS_CardinalityType
<1>3. ASSUME NEW x \in S PROVE Rank(S, x) \in 1 .. Cardinality(S)
    <2> DEFINE T == {k \in S : k <= x}
    <2>1. T \subseteq S /\ x \in T
        BY <1>3
    <2>2. IsFiniteSet(T) /\ Cardinality(T) <= Cardinality(S)
        BY <1>1, <2>1, FS_Subset
    <2>3. Cardinality(T) \in Nat /\ Cardinality(T) # 0
        BY <2>1, <2>2, FS_CardinalityType, FS_EmptySet
    <2>4. QED
        BY <1>2, <2>2, <2>3 DEF Rank
<1>4. ASSUME NEW x \in S, NEW y \in S, x < y PROVE Rank(S, x) # Rank(S, y)
    <2> DEFINE T == {k \in S : k <= x}
               U == {k \in S : k <= y}
    <2>0. x \in Nat /\ y \in Nat /\ S \subseteq Nat
        BY <1>4
    <2>1. U \subseteq S /\ T \subseteq U /\ y \in U /\ y \notin T
        <3>1. \A k \in S : k <= x => k <= y
            BY <1>4, <2>0
        <3>2. y <= y /\ ~(y <= x)
            BY <1>4, <2>0
        <3>3. QED
            BY <3>1, <3>2
    <2>2. IsFiniteSet(U)
        BY <1>1, <2>1, FS_Subset
    <2>3. Cardinality(T) # Cardinality(U)
        <3> HIDE DEF T, U
        <3>1. Cardinality(T) = Cardinality(U) => T = U
            BY <2>1, <2>2, FS_Subset
        <3>2. QED
            BY <2>1, <3>1
    <2>4. QED
        BY <2>3 DEF Rank
<1>5. ASSUME NEW x \in S, NEW y \in S, Rank(S, x) = Rank(S, y) PROVE x = y
    <2>1. ~(x < y) /\ ~(y < x)
        BY <1>4, <1>5
    <2>2. QED
        BY <2>1
<1>6. QED
    BY <1>1, <1>2, <1>3, <1>5

\* A place after them all has the rank of their number and one.
LEMMA RankNext ==
    ASSUME NEW m \in Nat, NEW S, S \subseteq 1 .. m, NEW T, T = S \cup {m + 1}
    PROVE  /\ Rank(T, m + 1) = Cardinality(S) + 1
           /\ Cardinality(T) = Cardinality(S) + 1
<1>1. IsFiniteSet(S) /\ Cardinality(S) \in Nat
    BY RankIs
<1>2. m + 1 \notin S
    OBVIOUS
<1>3. Cardinality(T) = Cardinality(S) + 1
    BY <1>1, <1>2, FS_AddElement
<1>4. {k \in T : k <= m + 1} = T
    <2>1. \A k \in T : k <= m + 1
        OBVIOUS
    <2>2. QED
        BY <2>1
<1>5. QED
    BY <1>3, <1>4 DEF Rank

-----------------------------------------------------------------------------

\* What neither ends a run of network cards nor begins another.
Keeping == Networks \cup Advice \cup Comments

\* The networks are the network cards, with nothing between two of them that ends
\* a run, and each begins with a group that is there or next.
NetInv ==
    /\ \E S : nets \in Seq(S)
    /\ Len(nets) = Cardinality(Before(Here, Networks))
    /\ \A k \in DOMAIN nets : nets[k].first \in 1 .. Len(groups) + 1
    /\ \A k \in Before(Here, Networks) :
         /\ \A j \in k .. LastOf(Networks) : deck[j].kind \in Keeping
         /\ destroyer = None => \A j \in k .. Len(deck) : deck[j].kind \in Keeping

\* All network cards are of one run.
LEMMA NetworksHere ==
    ASSUME DeckTyped, NetInv
    PROVE  NetworksAt(Here) = Before(Here, Networks)
<1>1. NetworksAt(Here) = {k \in Before(Here, Networks) :
                            \A j \in k .. LastOf(Networks) : deck[j].kind \in Keeping}
    BY DEF NetworksAt, LastOf, Keeping
<1>2. QED
    BY <1>1 DEF NetInv

\* A network card after one that destroys them is refused.
LEMMA NetStep ==
    ASSUME DeckTyped, NetInv, NEW c, Reads(c), NEW G, groups \in Seq(G)
    PROVE  NetInv'
<1>1. Grows(c) /\ NetworksRead(c) /\ GroupsRead(c) /\ c \in AnyCard
    BY ReadsGrows DEF Reads
<1>2. /\ deck'[Here] = c /\ Len(deck') = Here /\ Len(deck) \in Nat /\ Here = Len(deck) + 1
      /\ \A k \in 1 .. Len(deck) : deck'[k] = deck[k]
    BY <1>1, Grown DEF Here
<1>3. PICK S : nets \in Seq(S)
    BY DEF NetInv
<1>4. PICK n \in Nat : n = Len(nets)
    BY <1>3
<1>5. PICK q \in Nat : q = Len(groups)
    OBVIOUS
<1>6. Len(groups') \in {q, q + 1}
    BY <1>5, <1>1, Longer DEF GroupsRead
<1>7. DOMAIN nets = 1 .. n
    BY <1>3, <1>4
<1> DEFINE B == Before(Here, Networks)
           now == Before(Here, Networks)'
<1>8. now = B \cup (IF c.kind \in Networks THEN {Here} ELSE {})
    BY <1>1, BeforeNext
<1>9. /\ B \subseteq 1 .. Len(deck)
      /\ LastOf(Networks)' = IF c.kind \in Networks THEN Here ELSE LastOf(Networks)
      /\ LastOf(Networks) \in 0 .. Len(deck) /\ \A j \in B : j <= LastOf(Networks)
    <2>1. Here \in Nat \ {0}
        BY <1>1, Grown
    <2>2. QED
        BY <1>1, <1>2, <2>1, BeforeHere, LastNext
<1>10. n = Cardinality(B)
    BY <1>4 DEF NetInv
<1>11. \A k \in B : /\ \A j \in k .. LastOf(Networks) : deck[j].kind \in Keeping
                    /\ destroyer = None => \A j \in k .. Len(deck) : deck[j].kind \in Keeping
    BY DEF NetInv
<1>12. \A k \in 1 .. n : nets[k].first \in 1 .. q + 1
    BY <1>5, <1>7 DEF NetInv
<1>13. c.kind # None
    BY <1>1, ReaderAssumption DEF Kinds, None, Execute, Arming, Nec4Only, Comments, Advice, Geometry,
            Others
<1> HIDE DEF B, now
<1>14. CASE c.kind \in Networks
    <2> DEFINE new == [at |-> c.at, first |-> Len(groups) + 1]
    <2>1. nets' = Append(nets, new) /\ destroyer = None /\ destroyer' = None
        BY <1>1, <1>14 DEF NetworksRead, Destroyed
    <2>2. groups' = groups
        BY <1>1, <1>14 DEF GroupsRead, Networks, Execute
    <2>3. /\ \A k \in 1 .. n : nets'[k] = nets[k]
          /\ nets'[n + 1] = new /\ DOMAIN nets' = 1 .. n + 1 /\ Len(nets') = n + 1
          /\ nets' \in Seq(S \cup {new})
        BY <1>3, <1>4, <2>1, Longer
    <2>4. new.first = q + 1
        BY <1>5
    <2>5. \A k \in DOMAIN nets' : nets'[k].first \in 1 .. Len(groups') + 1
        <3> HIDE DEF new
        <3>1. QED
            BY <1>5, <1>12, <2>2, <2>3, <2>4
    <2>6. now = B \cup {Here} /\ LastOf(Networks)' = Here
        BY <1>8, <1>9, <1>14
    <2>7. Cardinality(now) = n + 1
        BY <1>2, <1>9, <1>10, <2>6, RankNext
    <2>8. c.kind \in Keeping
        BY <1>14 DEF Keeping
    <2>9. \A k \in now : \A j \in k .. Here : deck'[j].kind \in Keeping
        BY <1>2, <1>9, <1>11, <2>1, <2>6, <2>8
    <2>10. \A k \in now :
             /\ \A j \in k .. LastOf(Networks)' : deck'[j].kind \in Keeping
             /\ destroyer' = None => \A j \in k .. Len(deck') : deck'[j].kind \in Keeping
        BY <1>2, <2>6, <2>9
    <2>11. \E T : nets' \in Seq(T)
        BY <2>3
    <2>12. Keeping' = Keeping
        BY DEF Keeping
    <2>13. QED
        BY <2>3, <2>5, <2>7, <2>10, <2>11 DEF NetInv, now
<1>15. CASE c.kind \notin Networks
    <2>1. nets' = nets
        BY <1>1, <1>15 DEF NetworksRead
    <2>2. now = B /\ LastOf(Networks)' = LastOf(Networks)
        BY <1>8, <1>9, <1>15
    <2>3. \A k \in DOMAIN nets' : nets'[k].first \in 1 .. Len(groups') + 1
        BY <1>6, <1>7, <1>12, <2>1
    <2>4. \A k \in now : \A j \in k .. LastOf(Networks)' : deck'[j].kind \in Keeping
        BY <1>2, <1>9, <1>11, <2>2
    <2>5. ASSUME destroyer' = None, NEW k \in now, NEW j \in k .. Len(deck')
          PROVE  deck'[j].kind \in Keeping
        <3>1. nets # <<>>
            <4>1. k \in B
                BY <2>2
            <4>2. IsFiniteSet(B)
                BY <1>2, <1>9, RankIs
            <4>3. n # 0
                BY <1>10, <4>1, <4>2, FS_EmptySet
            <4>4. QED
                BY <1>4, <4>3
        <3>2. destroyer = None /\ c.kind \in Keeping
            BY <1>1, <1>13, <2>5, <3>1 DEF NetworksRead, Destroyed, Keeping
        <3>3. QED
            BY <1>2, <1>9, <1>11, <2>2, <2>5, <3>2
    <2>6. Len(nets') = Cardinality(now) /\ \E T : nets' \in Seq(T)
        BY <1>3, <1>4, <1>10, <2>1, <2>2
    <2>7. QED
        BY <2>3, <2>4, <2>5, <2>6 DEF NetInv, now
<1>16. QED
    BY <1>14, <1>15

-----------------------------------------------------------------------------
(* The groups: each is of an execute card, and answers as the cards ask.    *)

\* What group g says, and what the cards up to e ask.
Says(g, e) ==
    /\ g.ran = RunAt(e)
    /\ g.ran =>
         /\ g.whole = (LastRun(e) = 0 \/ Since(e, {"FR"}) # {})
         /\ g.part = (~g.whole /\ Since(e, Operator) # {})
         /\ g.freqs = IF Since(e, {"FR"}) # {} THEN LastVal(e, "FR", DefaultList)
                      ELSE <<LastVal(e, "FR", DefaultList)[Len(LastVal(e, "FR", DefaultList))]>>
         /\ g.ground = LastVal(e, "GN", 0)
         /\ g.kernel = (dialect = "nec4" \/ LastVal(e, "EK", FALSE))
         /\ \A a : Of(g.sources, a) = VoltsAt(e, a)
         /\ Ports(g.sources) = Places(SourcesAt(e))

\* The networks group i is solved with are those in force at e.
Networked(i, e) == Cardinality({k \in DOMAIN nets : nets[k].first <= i}) = Cardinality(NetworksAt(e))

\* Group i is of the execute card at e, and answers it.
Answered(i, e) == Rank(Executes, e) = i /\ Says(groups[i], e) /\ Networked(i, e)

\* The groups are as many as the execute cards, and answer them in their order.
GroupInv ==
    /\ \E S : groups \in Seq(S)
    /\ Len(groups) = Cardinality(Executes)
    /\ \A i \in 1 .. Len(groups) : \E e \in Executes : Answered(i, e)

\* What came since the run before a place that was there stays.
LEMMA SinceSame ==
    ASSUME NEW c, Grows(c), NEW e \in 0 .. Here, NEW K
    PROVE  Since(e, K)' = Since(e, K)
BY BeforeSame, LastRunSame DEF Since

\* A group goes on answering its execute card.
LEMMA SaysSame ==
    ASSUME NEW c, Grows(c), NEW e \in 0 .. Here, NEW g, Says(g, e)
    PROVE  Says(g, e)'
<1>1. RunAt(e)' = RunAt(e)
    BY BeforeSame DEF RunAt
<1>2. LastRun(e)' = LastRun(e)
    BY LastRunSame
<1>3. Since(e, {"FR"})' = Since(e, {"FR"}) /\ Since(e, Operator)' = Since(e, Operator)
    BY SinceSame
<1>4. LastVal(e, "FR", DefaultList)' = LastVal(e, "FR", DefaultList)
    BY ValSame
<1>5. LastVal(e, "GN", 0)' = LastVal(e, "GN", 0)
    BY ValSame
<1>6. LastVal(e, "EK", FALSE)' = LastVal(e, "EK", FALSE)
    BY ValSame
<1>7. \A a : VoltsAt(e, a)' = VoltsAt(e, a)
    BY VoltsSame
<1>8. Places(SourcesAt(e))' = Places(SourcesAt(e))
    BY PlacesSame
<1>9. dialect' = dialect
    BY DEF Grows
<1>10. QED
    BY <1>1, <1>2, <1>3, <1>4, <1>5, <1>6, <1>7, <1>8, <1>9 DEF Says

\* The execute card that comes now is answered as it asks.
LEMMA SaysNow ==
    ASSUME DeckTyped, FlagInv, OperatorInv, SourceInv, NEW c, Reads(c), c.kind \in Execute, NEW g,
           g = IF Answers(c) THEN Run ELSE NotRun
    PROVE  Says(g, Here)
<1>1. Here \in Nat \ {0}
    BY DEF Here, DeckTyped
<1>2. Answers(c) <=> RunAt(Here)
    BY AnswersIs
<1>3. CASE ~Answers(c)
    <2>1. g.ran = FALSE
        BY <1>3 DEF NotRun
    <2>2. RunAt(Here) = FALSE
        BY <1>2, <1>3 DEF RunAt
    <2>3. QED
        BY <2>1, <2>2 DEF Says
<1>4. CASE Answers(c)
    <2>1. g = Run
        BY <1>4
    <2>2. /\ g.ran = TRUE /\ g.sources = sources
          /\ g.freqs = IF freshFr THEN freqs ELSE <<freqs[Len(freqs)]>>
          /\ g.whole = (freshFr \/ ~executed) /\ g.part = (dirty /\ ~(freshFr \/ ~executed))
          /\ g.ground = ground /\ g.kernel = kernel
        BY <2>1 DEF Run
    <2>3. /\ Since(Here, {"FR"}) # {} <=> LastOf({"FR"}) > LR
          /\ Since(Here, Operator) # {} <=> LastOf(Operator) > LR
        BY <1>1, SinceIs
    <2>4. RunAt(Here) = TRUE
        BY <1>2, <1>4 DEF RunAt
    <2>5. (executed <=> LR # 0) /\ (freshFr <=> LastOf({"FR"}) > LR)
          /\ (dirty <=> executed /\ LastOf(Operator) > LR)
        BY DEF FlagInv
    <2>6. g.whole = (LastRun(Here) = 0 \/ Since(Here, {"FR"}) # {})
        BY <2>2, <2>3, <2>5 DEF LR
    <2>7. g.part = (~g.whole /\ Since(Here, Operator) # {})
        BY <2>2, <2>3, <2>5 DEF LR
    <2>8. freqs = LastVal(Here, "FR", DefaultList)
        BY DEF OperatorInv
    <2>9. g.freqs = IF Since(Here, {"FR"}) # {} THEN LastVal(Here, "FR", DefaultList)
                    ELSE <<LastVal(Here, "FR", DefaultList)[Len(LastVal(Here, "FR", DefaultList))]>>
        BY <2>2, <2>3, <2>5, <2>8
    <2>10. /\ g.ground = LastVal(Here, "GN", 0)
           /\ g.kernel = (dialect = "nec4" \/ LastVal(Here, "EK", FALSE))
        BY <2>2 DEF OperatorInv
    <2>11. /\ \A a : Of(g.sources, a) = VoltsAt(Here, a)
           /\ Ports(g.sources) = Places(SourcesAt(Here))
        BY <2>2 DEF SourceInv
    <2>12. QED
        BY <2>2, <2>4, <2>6, <2>7, <2>9, <2>10, <2>11 DEF Says
<1>5. QED
    BY <1>3, <1>4

\* The first group of a network read now is one yet to come.
LEMMA NetworkedSame ==
    ASSUME DeckTyped, NetInv, NEW c, Reads(c), NEW G, groups \in Seq(G),
           NEW i \in 1 .. Len(groups), NEW e \in 0 .. Here, Networked(i, e)
    PROVE  Networked(i, e)'
<1>1. Grows(c) /\ NetworksRead(c)
    BY ReadsGrows DEF Reads
<1>2. NetworksAt(e)' = NetworksAt(e)
    BY <1>1, NetworksSame
<1>3. CASE c.kind \notin Networks
    <2>1. nets' = nets
        BY <1>1, <1>3 DEF NetworksRead
    <2>2. QED
        BY <1>2, <2>1 DEF Networked
<1>4. CASE c.kind \in Networks
    <2> DEFINE new == [at |-> c.at, first |-> Len(groups) + 1]
               old == {k \in DOMAIN nets : nets[k].first <= i}
               now == {k \in DOMAIN nets' : nets'[k].first <= i}
    <2>1. nets' = Append(nets, new)
        BY <1>1, <1>4 DEF NetworksRead
    <2>2. PICK S : nets \in Seq(S)
        BY DEF NetInv
    <2>3. PICK n \in Nat : n = Len(nets)
        BY <2>2
    <2>4. /\ \A k \in 1 .. n : nets'[k] = nets[k]
          /\ nets'[n + 1] = new /\ DOMAIN nets' = 1 .. n + 1 /\ DOMAIN nets = 1 .. n
        BY <2>1, <2>2, <2>3, Longer
    <2>5. new.first = Len(groups) + 1 /\ Len(groups) \in Nat
        OBVIOUS
    <2>6. ~(new.first <= i)
        BY <2>5
    <2>7. now = old
        <3> HIDE DEF new
        <3>1. QED
            BY <2>4, <2>6
    <2>8. Networked(i, e)' <=> Cardinality(now) = Cardinality(NetworksAt(e)')
        BY DEF Networked
    <2>9. QED
        BY <1>2, <2>7, <2>8 DEF Networked
<1>5. QED
    BY <1>3, <1>4

\* A group has all networks read before it.
LEMMA NetworkedNow ==
    ASSUME DeckTyped, NetInv, NEW c, Reads(c), c.kind \in Execute, NEW G, groups \in Seq(G),
           NEW q \in Nat, q = Len(groups), NEW h, h = Here
    PROVE  Networked(q + 1, h)'
<1>1. Grows(c) /\ NetworksRead(c)
    BY ReadsGrows DEF Reads
<1>2. nets' = nets
    BY <1>1 DEF NetworksRead, Networks, Execute
<1>3. PICK S : nets \in Seq(S)
    BY DEF NetInv
<1>4. PICK n \in Nat : n = Len(nets)
    BY <1>3
<1>5. DOMAIN nets = 1 .. n
    BY <1>3, <1>4
<1>6. \A k \in 1 .. n : nets[k].first <= q + 1
    BY <1>5 DEF NetInv
<1>7. {k \in DOMAIN nets' : nets'[k].first <= q + 1} = 1 .. n
    BY <1>2, <1>5, <1>6
<1>8. Cardinality(1 .. n) = n
    BY FS_Interval
<1>9. h \in 0 .. Here
    BY <1>1, Grown
<1>10. NetworksAt(h)' = NetworksAt(h)
    BY <1>1, <1>9, NetworksSame
<1>11. NetworksAt(h) = Before(Here, Networks)
    BY NetworksHere
<1>12. n = Cardinality(Before(Here, Networks))
    BY <1>4 DEF NetInv
<1>13. QED
    BY <1>7, <1>8, <1>10, <1>11, <1>12 DEF Networked

\* The execute cards: another comes after them all, and changes no rank.
LEMMA ExecutesNext ==
    ASSUME NEW c, Grows(c), NEW h, h = Here
    PROVE  /\ Executes \subseteq 1 .. Here - 1 /\ h \in Nat \ {0}
           /\ Executes' = Executes \cup (IF c.kind \in Execute THEN {h} ELSE {})
           /\ c.kind \in Execute => /\ Cardinality(Executes)' = Cardinality(Executes) + 1
                                    /\ Rank(Executes, h)' = Cardinality(Executes) + 1
<1>1. h \in Nat \ {0} /\ Here = h
    BY Grown
<1>2. Executes = Before(Here, Execute) /\ Executes' = Before(Here, Execute)'
    BY DEF Executes, Here
<1>3. Executes' = Executes \cup (IF c.kind \in Execute THEN {h} ELSE {})
    BY <1>1, <1>2, BeforeNext
<1>4. Executes \subseteq 1 .. h - 1 /\ h - 1 \in Nat
    BY <1>1, <1>2, BeforeHere
<1>5. ASSUME c.kind \in Execute
      PROVE  /\ Cardinality(Executes)' = Cardinality(Executes) + 1
             /\ Rank(Executes, h)' = Cardinality(Executes) + 1
    <2>1. PICK m \in Nat : m = h - 1
        BY <1>4
    <2>2. PICK E, T : E = Executes /\ T = Executes'
        OBVIOUS
    <2>3. T = E \cup {m + 1} /\ E \subseteq 1 .. m /\ h = m + 1
        BY <1>1, <1>3, <1>4, <1>5, <2>1, <2>2
    <2>4. Cardinality(T) = Cardinality(E) + 1 /\ Rank(T, m + 1) = Cardinality(E) + 1
        BY <2>3, RankNext
    <2>5. Rank(Executes, h)' = Rank(T, h) /\ Cardinality(Executes)' = Cardinality(T)
        BY <2>2 DEF Rank
    <2>6. QED
        BY <2>2, <2>3, <2>4, <2>5
<1>6. QED
    BY <1>1, <1>3, <1>4, <1>5

\* The execute cards before keep their ranks.
LEMMA RankSame ==
    ASSUME NEW c, Grows(c), NEW e \in Executes
    PROVE  e \in 0 .. Here /\ e \in Executes' /\ Rank(Executes, e)' = Rank(Executes, e)
<1>1. PICK h \in Nat \ {0} : h = Here
    BY Grown
<1>2. /\ Executes \subseteq 1 .. h - 1
      /\ Executes' = Executes \cup (IF c.kind \in Execute THEN {h} ELSE {})
    BY <1>1, ExecutesNext
<1>3. e \in Nat /\ e < h
    BY <1>1, <1>2
<1>4. {k \in Executes' : k <= e} = {k \in Executes : k <= e}
    BY <1>1, <1>2, <1>3
<1>5. Rank(Executes, e)' = Rank(Executes, e)
    BY <1>4 DEF Rank
<1>6. QED
    BY <1>1, <1>2, <1>3, <1>5

\* An execute card adds the group that answers it.
LEMMA GroupStep ==
    ASSUME DeckTyped, FlagInv, OperatorInv, SourceInv, NetInv, GroupInv, NEW c, Reads(c)
    PROVE  GroupInv'
<1>1. Grows(c) /\ GroupsRead(c)
    BY ReadsGrows DEF Reads
<1>2. PICK S : groups \in Seq(S)
    BY DEF GroupInv
<1>3. PICK q \in Nat : q = Len(groups)
    BY <1>2
<1>4. PICK h \in Nat \ {0} : h = Here
    BY <1>1, Grown
<1>5. PICK E : E = Executes
    OBVIOUS
<1>6. q = Cardinality(E)
    BY <1>3, <1>5 DEF GroupInv
<1>7. /\ Executes' = E \cup (IF c.kind \in Execute THEN {h} ELSE {})
      /\ c.kind \in Execute => /\ Cardinality(Executes)' = q + 1
                               /\ Rank(Executes, h)' = q + 1
    BY <1>1, <1>4, <1>5, <1>6, ExecutesNext
<1>8. ASSUME NEW i \in 1 .. q, NEW e \in E, Answered(i, e), groups'[i] = groups[i]
      PROVE  e \in Executes' /\ Answered(i, e)'
    <2>1. e \in 0 .. Here /\ e \in Executes' /\ Rank(Executes, e)' = Rank(Executes, e)
        BY <1>1, <1>5, <1>8, RankSame
    <2>2. Networked(i, e)'
        BY <1>2, <1>3, <1>8, <2>1, NetworkedSame DEF Answered
    <2>3. PICK g : g = groups[i]
        OBVIOUS
    <2>4. Says(g, e)
        BY <1>8, <2>3 DEF Answered
    <2>5. Says(g, e)'
        BY <1>1, <2>1, <2>4, SaysSame
    <2>6. Says(groups[i], e)'
        BY <1>8, <2>3, <2>5
    <2>7. QED
        BY <1>8, <2>1, <2>2, <2>6 DEF Answered
<1>9. \A i \in 1 .. q : \E e \in E : Answered(i, e)
    BY <1>3, <1>5 DEF GroupInv
<1>10. CASE c.kind \notin Execute
    <2>1. groups' = groups /\ Executes' = E
        BY <1>1, <1>7, <1>10 DEF GroupsRead
    <2>2. \A i \in 1 .. q : \E e \in Executes' : Answered(i, e)'
        BY <1>8, <1>9, <2>1
    <2>3. QED
        BY <1>2, <1>3, <1>6, <2>1, <2>2 DEF GroupInv
<1>11. CASE c.kind \in Execute
    <2>1. PICK g : g = IF Answers(c) THEN Run ELSE NotRun
        OBVIOUS
    <2>2. groups' = Append(groups, g)
        BY <1>1, <1>11, <2>1 DEF GroupsRead
    <2>3. /\ groups' \in Seq(S \cup {g}) /\ Len(groups') = q + 1
          /\ \A i \in 1 .. q : groups'[i] = groups[i]
          /\ groups'[q + 1] = g
        BY <1>2, <1>3, <2>2, Longer
    <2>4. Says(g, h)'
        <3>1. Says(g, Here)
            BY <1>11, <2>1, SaysNow
        <3>2. Says(g, h) /\ h \in 0 .. Here
            BY <1>4, <3>1
        <3>3. QED
            BY <1>1, <3>2, SaysSame
    <2>5. Networked(q + 1, h)'
        BY <1>2, <1>3, <1>4, <1>11, NetworkedNow
    <2>6. Answered(q + 1, h)'
        <3>1. Says(groups[q + 1], h)'
            BY <2>3, <2>4
        <3>2. QED
            BY <1>7, <1>11, <2>5, <3>1 DEF Answered
    <2>7. h \in Executes'
        BY <1>7, <1>11
    <2>8. \A i \in 1 .. q : \E e \in Executes' : Answered(i, e)'
        BY <1>8, <1>9, <2>3
    <2>9. \A i \in 1 .. Len(groups') : \E e \in Executes' : Answered(i, e)'
        BY <2>3, <2>6, <2>7, <2>8
    <2>10. QED
        BY <1>7, <1>11, <2>3, <2>9 DEF GroupInv
<1>12. QED
    BY <1>10, <1>11

-----------------------------------------------------------------------------

\* What the reader's state has of the cards.
ReadInv == DeckTyped /\ FlagInv /\ OperatorInv /\ SourceInv /\ KindInv /\ NetInv /\ GroupInv

\* What an end of the cards leaves as it is.
Untouched == UNCHANGED <<dialect, deck, flags, drive, state, nets, destroyer, loading, runOpen, groups>>

\* What is said of the cards changes only with them.
LEMMA SameDeck ==
    ASSUME deck' = deck, dialect' = dialect
    PROVE  /\ Here' = Here
           /\ \A e, K : Before(e, K)' = Before(e, K)
           /\ \A e : RunAt(e)' = RunAt(e)
           /\ \A e : LastRun(e)' = LastRun(e)
           /\ \A e, K : Since(e, K)' = Since(e, K)
           /\ \A e : SourcesAt(e)' = SourcesAt(e)
           /\ \A e, a : VoltsAt(e, a)' = VoltsAt(e, a)
           /\ \A e : Places(SourcesAt(e))' = Places(SourcesAt(e))
           /\ \A e, kind, default : LastVal(e, kind, default)' = LastVal(e, kind, default)
           /\ \A e : NetworksAt(e)' = NetworksAt(e)
<1>1. Here' = Here
    BY DEF Here
<1>2. \A e, K : Before(e, K)' = Before(e, K)
    BY DEF Before
<1>3. \A e : RunAt(e)' = RunAt(e)
    BY <1>2 DEF RunAt
<1>4. \A e : LastRun(e)' = LastRun(e)
    BY <1>2, <1>3 DEF LastRun
<1>5. \A e, K : Since(e, K)' = Since(e, K)
    BY <1>2, <1>4 DEF Since
<1>6. \A e : SourcesAt(e)' = SourcesAt(e)
    BY <1>2, <1>4 DEF SourcesAt
<1>7. \A e, a : VoltsAt(e, a)' = VoltsAt(e, a)
    BY <1>6 DEF VoltsAt
<1>8. \A e : Places(SourcesAt(e))' = Places(SourcesAt(e))
    BY <1>6 DEF Places
<1>9. \A e, kind, default : LastVal(e, kind, default)' = LastVal(e, kind, default)
    BY <1>2 DEF LastVal
<1>10. \A e : NetworksAt(e)' = NetworksAt(e)
    BY <1>2 DEF NetworksAt
<1>11. QED
    BY <1>1, <1>2, <1>3, <1>4, <1>5, <1>6, <1>7, <1>8, <1>9, <1>10

\* The end of the cards changes none of it.
LEMMA ReadFrame == ASSUME ReadInv, Untouched PROVE ReadInv'
<1>1. DeckTyped'
    BY DEF DeckTyped, ReadInv, Untouched
<1>2. FlagInv'
    BY SameDeck DEF FlagInv, ReadInv, Untouched, flags, drive, LastOf, LR
<1>3. OperatorInv'
    BY SameDeck DEF OperatorInv, ReadInv, Untouched, state, LastVal
<1>4. SourceInv'
    BY SameDeck DEF SourceInv, ReadInv, Untouched, drive
<1>5. KindInv'
    BY DEF KindInv, ReadInv, Untouched, drive
<1>6. NetInv'
    BY SameDeck DEF NetInv, ReadInv, Untouched, LastOf
<1>7. GroupInv'
    <2>1. groups' = groups /\ nets' = nets /\ Executes' = Executes /\ dialect' = dialect
        BY SameDeck DEF Untouched, Executes
    <2>2. \A i, e : Networked(i, e) => Networked(i, e)'
        BY <2>1, SameDeck DEF Networked, Untouched
    <2>3. \A g, e : Says(g, e) => Says(g, e)'
        <3>1. SUFFICES ASSUME NEW g, NEW e, Says(g, e) PROVE Says(g, e)'
            OBVIOUS
        <3>2. /\ RunAt(e)' = RunAt(e) /\ LastRun(e)' = LastRun(e)
              /\ Since(e, {"FR"})' = Since(e, {"FR"}) /\ Since(e, Operator)' = Since(e, Operator)
              /\ LastVal(e, "FR", DefaultList)' = LastVal(e, "FR", DefaultList)
              /\ LastVal(e, "GN", 0)' = LastVal(e, "GN", 0)
              /\ LastVal(e, "EK", FALSE)' = LastVal(e, "EK", FALSE)
              /\ \A a : VoltsAt(e, a)' = VoltsAt(e, a)
              /\ Places(SourcesAt(e))' = Places(SourcesAt(e))
            BY SameDeck DEF Untouched
        <3>3. QED
            BY <2>1, <3>1, <3>2 DEF Says
    <2>4. \A i, e : Answered(i, e) => Answered(i, e)'
        BY <2>1, <2>2, <2>3 DEF Answered, Rank
    <2>5. QED
        BY <2>1, <2>4 DEF GroupInv, ReadInv
<1>8. QED
    BY <1>1, <1>2, <1>3, <1>4, <1>5, <1>6, <1>7 DEF ReadInv

\* Before the first card nothing is in force.
LEMMA ReadInit == Init => ReadInv
<1> SUFFICES ASSUME Init PROVE ReadInv
    OBVIOUS
<1>1. deck = <<>> /\ Len(deck) = 0 /\ Here = 1
    BY DEF Init, Here
<1>2. \A e \in {0, 1} : \A K : Before(e, K) = {}
    BY DEF Before
<1>3. \A K : LastOf(K) = 0
    BY <1>1, <1>2 DEF LastOf, Latest
<1>4. LR = 0
    BY <1>1, <1>2 DEF LR, LastRun, Latest
<1>5. \A kind, default : LastVal(1, kind, default) = default
    BY <1>2 DEF LastVal, Latest
<1>6. SourcesAt(1) = {}
    BY <1>2 DEF SourcesAt
<1>7. \A a : VoltsAt(1, a) = 0
    BY <1>6 DEF VoltsAt, Latest
<1>8. DeckTyped
    BY DEF Init, DeckTyped
<1>9. FlagInv
    BY <1>3, <1>4 DEF Init, FlagInv
<1>10. OperatorInv
    BY <1>1, <1>5 DEF Init, OperatorInv
<1>11. SourceInv
    <2>1. sources = <<>> /\ sources \in Seq({})
        BY DEF Init
    <2>2. Places({}) = {}
        BY DEF Places
    <2>3. QED
        BY <1>1, <1>6, <1>7, <2>1, <2>2, NoSource DEF SourceInv
<1>12. KindInv
    BY <1>1 DEF Init, KindInv
<1>13. NetInv
    <2>1. nets = <<>> /\ nets \in Seq({}) /\ DOMAIN <<>> = {} /\ Len(nets) = 0
        BY DEF Init
    <2>2. Cardinality({}) = 0
        BY FS_EmptySet
    <2>3. QED
        BY <1>1, <1>2, <2>1, <2>2 DEF NetInv
<1>14. GroupInv
    <2>1. groups = <<>> /\ groups \in Seq({}) /\ Len(groups) = 0
        BY DEF Init
    <2>2. Cardinality({}) = 0
        BY FS_EmptySet
    <2>3. Executes = {}
        BY <1>1, <1>2 DEF Executes
    <2>4. QED
        BY <2>1, <2>2, <2>3 DEF GroupInv
<1>15. QED
    BY <1>8, <1>9, <1>10, <1>11, <1>12, <1>13, <1>14 DEF ReadInv

\* While the cards are read, and when they are, the reader's state is what they say.
AnswersInv ==
    /\ pc # "refused" => ReadInv
    /\ pc = "read" => model = Model

\* The model is made of these.
LEMMA ModelSame == ASSUME groups' = groups, live' = live, log' = log, sourceKind' = sourceKind
                   PROVE  Model' = Model
BY DEF Model, Feeds, Used, Place, Ran, Volts

\* Every step keeps it.
LEMMA AnswersStep == ASSUME AnswersInv, [Next]_vars PROVE AnswersInv'
<1>1. CASE \E c : Reads(c)
    <2>1. PICK c : Reads(c)
        BY <1>1
    <2>2. pc = "reading" /\ pc' = "reading"
        BY <2>1 DEF Reads
    <2>3. ReadInv
        BY <2>2 DEF AnswersInv
    <2>4. DeckTyped /\ FlagInv /\ OperatorInv /\ SourceInv /\ KindInv /\ NetInv /\ GroupInv
        BY <2>3 DEF ReadInv
    <2>5. PICK G : groups \in Seq(G)
        BY <2>4 DEF GroupInv
    <2>6. DeckTyped' /\ FlagInv' /\ OperatorInv' /\ SourceInv' /\ KindInv'
        BY <2>1, <2>4, ReadsGrows, FlagStep, OperatorStep, SourceStep, KindStep
    <2>7. NetInv'
        BY <2>1, <2>4, <2>5, NetStep
    <2>8. GroupInv'
        BY <2>1, <2>4, GroupStep
    <2>9. QED
        BY <2>2, <2>6, <2>7, <2>8 DEF AnswersInv, ReadInv
<1>2. CASE pc' = "refused"
    BY <1>2 DEF AnswersInv
<1>3. CASE Ends /\ pc' # "refused"
    <2>1. pc = "reading" /\ model' = Model /\ Untouched
        BY <1>3 DEF Ends, Untouched
    <2>2. ReadInv'
        BY <2>1, ReadFrame DEF AnswersInv
    <2>3. Model' = Model
        BY <2>1, ModelSame DEF Untouched, drive, loading
    <2>4. QED
        BY <2>1, <2>2, <2>3 DEF AnswersInv
<1>4. CASE UNCHANGED vars
    <2>1. Untouched /\ pc' = pc /\ model' = model
        BY <1>4 DEF vars, Untouched
    <2>2. Model' = Model
        BY <2>1, ModelSame DEF Untouched, drive, loading
    <2>3. QED
        BY <2>1, <2>2, ReadFrame DEF AnswersInv
<1>5. QED
    BY <1>1, <1>2, <1>3, <1>4, Steps

\* The execute card of a group is the one of its rank.
LEMMA AtIs ==
    ASSUME DeckTyped, NEW i, NEW e \in Executes, Rank(Executes, e) = i
    PROVE  At(i) = e
<1>1. Executes \subseteq 1 .. Len(deck) /\ Len(deck) \in Nat
    BY DEF Executes, Before, DeckTyped
<1>2. \A x \in Executes : Rank(Executes, x) = i => x = e
    BY <1>1, RankIs
<1>3. At(i) = CHOOSE x \in Executes : Rank(Executes, x) = i
    BY DEF At, Rank
<1>4. QED
    BY <1>2, <1>3

\* The groups answer as the model says them.
LEMMA Answer == AnswersInv => AnswersAsNec
<1> SUFFICES ASSUME AnswersInv, pc = "read" PROVE AnswersAsNec
    BY DEF AnswersAsNec
<1>1. DeckTyped /\ KindInv /\ GroupInv /\ model = Model
    BY DEF AnswersInv, ReadInv
<1>2. PICK S : groups \in Seq(S)
    BY <1>1 DEF GroupInv
<1>3. DOMAIN groups = 1 .. Len(groups) /\ Len(groups) = Cardinality(Executes)
    BY <1>1, <1>2 DEF GroupInv
<1>4. Executes \subseteq 1 .. Len(deck) /\ Len(deck) \in Nat
    BY <1>1 DEF Executes, Before, DeckTyped
<1>5. ASSUME NEW i \in 1 .. Len(groups)
      PROVE  LET g == groups[i]
                 e == At(i)
                 list == LastVal(e, "FR", DefaultList)
             IN /\ g.ran = RunAt(e)
                /\ g.ran =>
                     /\ g.whole = (LastRun(e) = 0 \/ Since(e, {"FR"}) # {})
                     /\ g.part = (~g.whole /\ Since(e, Operator) # {})
                     /\ g.freqs = IF Since(e, {"FR"}) # {} THEN list ELSE <<list[Len(list)]>>
                     /\ g.ground = LastVal(e, "GN", 0)
                     /\ g.kernel = (dialect = "nec4" \/ LastVal(e, "EK", FALSE))
                     /\ \A k \in SourcesAt(e) :
                          /\ deck[k].at \in model.feeds
                          /\ deck[k].kind = "EX6" <=> deck[k].at \in model.currents
                     /\ \A a \in model.feeds : model.groups[i].volts[a] = VoltsAt(e, a)
                     /\ Cardinality({k \in DOMAIN nets : nets[k].first <= i}) = Cardinality(NetworksAt(e))
    <2>1. PICK e \in Executes : Answered(i, e)
        BY <1>1 DEF GroupInv
    <2>2. PICK g : g = groups[i]
        OBVIOUS
    <2>3. Says(g, e) /\ Networked(i, e) /\ Rank(Executes, e) = i
        BY <2>1, <2>2 DEF Answered
    <2>4. At(i) = e
        BY <1>1, <2>3, AtIs
    <2>5. /\ model.feeds = Feeds /\ model.currents = {a \in Feeds : <<a, "EX6">> \in sourceKind}
          /\ \A a \in Feeds : model.groups[i].volts[a] = Of(g.sources, a)
        <3>1. /\ Model.feeds = Feeds /\ Model.currents = {a \in Feeds : <<a, "EX6">> \in sourceKind}
              /\ Model.groups[i].volts = [a \in Feeds |-> Volts(groups[i], a)]
            BY <1>3, <1>5 DEF Model
        <3>2. \A a : Volts(g, a) = Of(g.sources, a)
            BY VoltsOf
        <3>3. QED
            BY <1>1, <2>2, <3>1, <3>2
    <2>6. g.ran => Ports(g.sources) \subseteq Feeds
        BY <1>3, <1>5, <2>2 DEF Feeds, Ports, Ran, ToSet
    <2>7. ASSUME g.ran, NEW k \in SourcesAt(e)
          PROVE  /\ deck[k].at \in model.feeds
                 /\ deck[k].kind = "EX6" <=> deck[k].at \in model.currents
        <3>1. deck[k].at \in Places(SourcesAt(e))
            BY <2>7 DEF Places
        <3>2. deck[k].at \in Feeds
            BY <2>3, <2>6, <2>7, <3>1 DEF Says
        <3>3. k \in 1 .. Len(deck) /\ deck[k].kind \in Excitations
            BY <1>4, <2>7 DEF SourcesAt, Before
        <3>4. <<deck[k].at, deck[k].kind>> \in sourceKind
            BY <1>1, <3>3 DEF KindInv
        <3>5. <<deck[k].at, "EX6">> \in sourceKind => deck[k].kind = "EX6"
            BY <1>1, <3>4 DEF KindInv
        <3>6. QED
            BY <2>5, <3>2, <3>4, <3>5
    <2>8. /\ g.ran = RunAt(e)
          /\ g.ran =>
               /\ g.whole = (LastRun(e) = 0 \/ Since(e, {"FR"}) # {})
               /\ g.part = (~g.whole /\ Since(e, Operator) # {})
               /\ g.freqs = IF Since(e, {"FR"}) # {} THEN LastVal(e, "FR", DefaultList)
                      ELSE <<LastVal(e, "FR", DefaultList)[Len(LastVal(e, "FR", DefaultList))]>>
               /\ g.ground = LastVal(e, "GN", 0)
               /\ g.kernel = (dialect = "nec4" \/ LastVal(e, "EK", FALSE))
        BY <2>3 DEF Says
    <2>9. g.ran => \A a \in model.feeds : model.groups[i].volts[a] = VoltsAt(e, a)
        BY <2>3, <2>5 DEF Says
    <2>10. Cardinality({k \in DOMAIN nets : nets[k].first <= i}) = Cardinality(NetworksAt(e))
        BY <2>3 DEF Networked
    <2>11. QED
        BY <2>2, <2>4, <2>7, <2>8, <2>9, <2>10
<1>6. QED
    BY <1>3, <1>5 DEF AnswersAsNec

\* Every execute card of a deck that is not refused answers as the cards up to it ask.
THEOREM Asked == Spec => []AnswersAsNec
<1>1. Init => AnswersInv
    BY ReadInit DEF AnswersInv, Init
<1>2. AnswersInv /\ [Next]_vars => AnswersInv'
    BY AnswersStep
<1>3. QED
    BY <1>1, <1>2, Answer, PTL DEF Spec

-----------------------------------------------------------------------------
(* The log of loads, and those in force.                                    *)

\* Loads of a log with n entries.
LoadsOf(s, n) == s \in Seq(Nat) /\ \A k \in 1 .. Len(s) : s[k] \in 1 .. n

\* How often the loads s of log l have an entry.
Times(s, l, entry)  == Cardinality({k \in DOMAIN s : l[s[k]] = entry})
\* And how many cards of S state it.
Stated(S, entry) == Cardinality({k \in S : /\ <<deck[k].at, deck[k].val>> = entry
                                           /\ deck[k].at # All /\ deck[k].val # 0})

\* An LD card that adds a load.
Lumps(c) == c.at \notin {None, All} /\ c.val # 0

\* No loads have no entry.
LEMMA NoLoads == /\ \A n : LoadsOf(<<>>, n)
                 /\ \A l, entry : Times(<<>>, l, entry) = 0
                 /\ \A entry : Stated({}, entry) = 0
<1>1. <<>> \in Seq(Nat) /\ Len(<<>>) = 0 /\ DOMAIN <<>> = {}
    OBVIOUS
<1>2. Cardinality({}) = 0
    BY FS_EmptySet
<1>3. \A n : LoadsOf(<<>>, n)
    BY <1>1 DEF LoadsOf
<1>4. \A l, entry : Times(<<>>, l, entry) = 0
    BY <1>1, <1>2 DEF Times
<1>5. \A entry : Stated({}, entry) = 0
    BY <1>2 DEF Stated
<1>6. QED
    BY <1>3, <1>4, <1>5

\* A further load counts once more, whatever else the log was given with it.
LEMMA FurtherLoad ==
    ASSUME NEW n \in Nat, NEW m \in Nat, n <= m, NEW s, LoadsOf(s, n), NEW x \in 1 .. m,
           NEW l, NEW j, \A k \in 1 .. n : j[k] = l[k], NEW entry
    PROVE  /\ LoadsOf(Append(s, x), m)
           /\ Times(Append(s, x), j, entry) = Times(s, l, entry) + (IF j[x] = entry THEN 1 ELSE 0)
<1> DEFINE t == Append(s, x)
           old == {k \in DOMAIN s : l[s[k]] = entry}
           now == {k \in DOMAIN t : j[t[k]] = entry}
<1>1. s \in Seq(Nat) /\ \A k \in 1 .. Len(s) : s[k] \in 1 .. n
    BY DEF LoadsOf
<1>2. PICK q \in Nat : q = Len(s)
    BY <1>1
<1>3. x \in Nat
    OBVIOUS
<1>4. t \in Seq(Nat)
    BY <1>1, <1>3
<1>5. /\ \A i \in 1 .. q : t[i] = s[i]
      /\ t[q + 1] = x /\ DOMAIN t = 1 .. q + 1 /\ DOMAIN s = 1 .. q /\ Len(t) = q + 1
    BY <1>1, <1>2, Longer
<1> HIDE DEF t
<1>6. LoadsOf(t, m)
    <2>1. ASSUME NEW k \in 1 .. Len(t) PROVE t[k] \in 1 .. m
        BY <1>1, <1>2, <1>5
    <2>2. QED
        BY <1>4, <2>1 DEF LoadsOf
<1>7. \A k \in 1 .. q : j[t[k]] = l[s[k]]
    BY <1>1, <1>2, <1>5
<1>8. now = old \cup (IF j[x] = entry THEN {q + 1} ELSE {})
    BY <1>5, <1>7
<1>9. old \subseteq 1 .. q
    BY <1>5
<1>10. IsFiniteSet(old) /\ Cardinality(old) \in Nat
    BY <1>9, RankIs
<1>11. q + 1 \notin old
    BY <1>9
<1>12. Cardinality(now) = Cardinality(old) + (IF j[x] = entry THEN 1 ELSE 0)
    <2> HIDE DEF old, now
    <2>1. CASE j[x] = entry
        <3>1. now = old \cup {q + 1}
            BY <1>8, <2>1
        <3>2. Cardinality(old \cup {q + 1}) = Cardinality(old) + 1
            BY <1>10, <1>11, FS_AddElement
        <3>3. QED
            BY <2>1, <3>1, <3>2
    <2>2. CASE j[x] # entry
        BY <1>8, <1>10, <2>2
    <2>3. QED
        BY <2>1, <2>2
<1>13. QED
    BY <1>6, <1>12 DEF Times, t

\* A longer log leaves what was counted.
LEMMA LongerLog ==
    ASSUME NEW n \in Nat, NEW m \in Nat, n <= m, NEW s, LoadsOf(s, n),
           NEW l, NEW j, \A k \in 1 .. n : j[k] = l[k]
    PROVE  LoadsOf(s, m) /\ \A entry : Times(s, j, entry) = Times(s, l, entry)
<1>1. s \in Seq(Nat) /\ \A k \in 1 .. Len(s) : s[k] \in 1 .. n
    BY DEF LoadsOf
<1>2. LoadsOf(s, m)
    BY <1>1 DEF LoadsOf
<1>3. DOMAIN s = 1 .. Len(s)
    BY <1>1
<1>4. \A k \in DOMAIN s : j[s[k]] = l[s[k]]
    BY <1>1, <1>3
<1>5. ASSUME NEW entry PROVE Times(s, j, entry) = Times(s, l, entry)
    <2>1. {k \in DOMAIN s : j[s[k]] = entry} = {k \in DOMAIN s : l[s[k]] = entry}
        BY <1>4
    <2>2. QED
        BY <2>1 DEF Times
<1>6. QED
    BY <1>2, <1>5

\* The loads in force are entries of the log, and a run of LD cards is open as
\* the cards have it.
LogInv == (\E S : log \in Seq(S)) /\ LoadsOf(live, Len(log)) /\ (runOpen <=> Open)

\* What an LD card does to the log: it only grows, and has the load read.
LEMMA LogNext ==
    ASSUME DeckTyped, LogInv, NEW c, Reads(c)
    PROVE  /\ \E S : log' \in Seq(S)
           /\ Len(log) \in Nat /\ Len(log') \in Nat /\ Len(log) <= Len(log')
           /\ \A k \in 1 .. Len(log) : log'[k] = log[k]
           /\ c.kind # "LD" => log' = log /\ live' = live
           /\ c.kind = "LD" /\ c.at = None => live' = <<>>
           /\ c.kind = "LD" /\ c.at # None /\ ~Lumps(c) => live' = Kept.live
           /\ c.kind = "LD" /\ Lumps(c) =>
                \E x \in 1 .. Len(log') : log'[x] = <<c.at, c.val>> /\ live' = Append(Kept.live, x)
<1>1. PICK S : log \in Seq(S)
    BY DEF LogInv
<1>2. PICK n \in Nat : n = Len(log)
    BY <1>1
<1>3. DOMAIN log = 1 .. n
    BY <1>1, <1>2
<1>4. LoadsRead(c)
    BY DEF Reads
<1>5. CASE c.kind # "LD"
    BY <1>1, <1>2, <1>4, <1>5 DEF LoadsRead
<1>6. CASE c.kind = "LD"
    <2>1. PICK entry : entry = <<c.at, c.val>>
        OBVIOUS
    <2>2. PICK x : x = IndexOf(entry)
        OBVIOUS
    <2>3. /\ live' = IF c.at = None THEN <<>>
                     ELSE IF Lumps(c) THEN Append(Kept.live, x) ELSE Kept.live
          /\ log' = IF Lumps(c) /\ x > n THEN Append(log, entry) ELSE log
        BY <1>2, <1>4, <1>6, <2>1, <2>2 DEF LoadsRead, Lumps
    <2>4. (x \in 1 .. n /\ log[x] = entry) \/ x = n + 1
        BY <1>2, <1>3, <2>2 DEF IndexOf
    <2>5. CASE Lumps(c) /\ x > n
        <3>1. x = n + 1 /\ log' = Append(log, entry)
            BY <2>3, <2>4, <2>5
        <3>2. /\ \A k \in 1 .. n : log'[k] = log[k]
              /\ log'[n + 1] = entry /\ Len(log') = n + 1
              /\ log' \in Seq(S \cup {entry})
            BY <1>1, <1>2, <3>1, Longer
        <3>3. x \in 1 .. Len(log') /\ log'[x] = <<c.at, c.val>> /\ live' = Append(Kept.live, x)
            BY <2>1, <2>3, <2>5, <3>1, <3>2 DEF Lumps
        <3>4. n <= Len(log') /\ Len(log') \in Nat
            BY <3>2
        <3>5. c.at # None
            BY <2>5 DEF Lumps
        <3>6. /\ \E R : log' \in Seq(R)
              /\ Len(log) \in Nat /\ Len(log') \in Nat /\ Len(log) <= Len(log')
              /\ \A k \in 1 .. Len(log) : log'[k] = log[k]
            <4>1. \E R : log' \in Seq(R)
                BY <3>2
            <4>2. QED
                BY <1>2, <3>2, <3>4, <4>1
        <3>7. QED
            BY <1>6, <2>5, <3>3, <3>4, <3>5, <3>6
    <2>6. CASE ~(Lumps(c) /\ x > n)
        <3>1. log' = log
            BY <2>3, <2>6
        <3>2. Lumps(c) => x \in 1 .. n /\ log[x] = entry
            BY <2>4, <2>6
        <3>3. /\ \E R : log' \in Seq(R)
              /\ Len(log) \in Nat /\ Len(log') \in Nat /\ Len(log) <= Len(log')
              /\ \A k \in 1 .. Len(log) : log'[k] = log[k]
            <4>1. \E R : log' \in Seq(R)
                BY <1>1, <3>1
            <4>2. n <= n
                OBVIOUS
            <4>3. QED
                BY <1>2, <3>1, <4>1, <4>2
        <3>4. Lumps(c) => /\ x \in 1 .. Len(log') /\ log'[x] = <<c.at, c.val>>
                          /\ live' = Append(Kept.live, x)
            BY <1>2, <2>1, <2>3, <3>1, <3>2 DEF Lumps
        <3>5. /\ c.at = None => live' = <<>>
              /\ c.at # None /\ ~Lumps(c) => live' = Kept.live
            BY <2>3
        <3>6. QED
            BY <1>6, <3>3, <3>4, <3>5
    <2>7. QED
        BY <2>5, <2>6
<1>7. QED
    BY <1>5, <1>6

\* The first LD card of a run finds none.
LEMMA KeptIs == Kept.live = IF runOpen THEN live ELSE <<>>
BY DEF Kept

\* An LD card leaves it so.
LEMMA LogStep ==
    ASSUME DeckTyped, LogInv, NEW c, Reads(c)
    PROVE  LogInv'
<1>1. /\ \E S : log' \in Seq(S)
      /\ Len(log) \in Nat /\ Len(log') \in Nat /\ Len(log) <= Len(log')
      /\ \A k \in 1 .. Len(log) : log'[k] = log[k]
      /\ c.kind # "LD" => log' = log /\ live' = live
      /\ c.kind = "LD" /\ c.at = None => live' = <<>>
      /\ c.kind = "LD" /\ c.at # None /\ ~Lumps(c) => live' = Kept.live
      /\ c.kind = "LD" /\ Lumps(c) =>
           \E x \in 1 .. Len(log') : log'[x] = <<c.at, c.val>> /\ live' = Append(Kept.live, x)
    BY LogNext
<1>2. PICK n \in Nat, m \in Nat : n = Len(log) /\ m = Len(log')
    BY <1>1
<1>3. n <= m /\ \A k \in 1 .. n : log'[k] = log[k]
    BY <1>1, <1>2
<1>4. PICK l, j : l = log /\ j = log'
    OBVIOUS
<1>5. PICK kept : kept = Kept.live
    OBVIOUS
<1>6. LoadsOf(live, n) /\ LoadsOf(kept, n)
    BY <1>2, <1>5, KeptIs, NoLoads DEF LogInv
<1>7. LoadsOf(live', m)
    <2>1. CASE c.kind # "LD"
        BY <1>1, <1>2, <1>6, <2>1
    <2>2. CASE c.kind = "LD" /\ c.at = None
        BY <1>1, <2>2, NoLoads
    <2>3. CASE c.kind = "LD" /\ c.at # None /\ ~Lumps(c)
        <3>1. live' = kept
            BY <1>1, <1>5, <2>3
        <3>2. LoadsOf(kept, m)
            BY <1>3, <1>6, LongerLog
        <3>3. QED
            BY <3>1, <3>2
    <2>4. CASE c.kind = "LD" /\ Lumps(c)
        <3>1. PICK x \in 1 .. m : live' = Append(kept, x)
            BY <1>1, <1>2, <1>5, <2>4
        <3>2. \A k \in 1 .. n : j[k] = l[k]
            BY <1>3, <1>4
        <3>3. LoadsOf(Append(kept, x), m)
            BY <1>3, <1>6, <3>2, FurtherLoad
        <3>4. QED
            BY <3>1, <3>3
    <2>5. QED
        BY <2>1, <2>2, <2>3, <2>4 DEF Lumps
<1>8. runOpen' <=> Open'
    <2>1. Grows(c)
        BY ReadsGrows
    <2>2. Open' <=> c.kind = "LD" \/ (Open /\ c.kind \in Transparent)
        BY <2>1, OpenNext
    <2>3. runOpen' <=> c.kind = "LD" \/ (runOpen /\ c.kind \in Transparent)
        BY DEF Reads, LoadsRead
    <2>4. QED
        BY <2>2, <2>3 DEF LogInv
<1>9. QED
    BY <1>1, <1>2, <1>7, <1>8 DEF LogInv

-----------------------------------------------------------------------------
(* The loads in force are those the cards in force state, as often.         *)

\* An entry is in force as often as the cards in force state it.
CountInv == \A entry : Times(live, log, entry) = Stated(LoadsAt(Here), entry)

\* The cards that were there state what they did.
LEMMA StatedSame ==
    ASSUME NEW c, Grows(c), NEW S, S \subseteq 1 .. Len(deck), NEW entry
    PROVE  Stated(S, entry)' = Stated(S, entry)
<1>1. \A k \in S : deck'[k] = deck[k]
    BY Grown
<1>2. {k \in S : <<deck'[k].at, deck'[k].val>> = entry /\ deck'[k].at # All /\ deck'[k].val # 0}
        = {k \in S : <<deck[k].at, deck[k].val>> = entry /\ deck[k].at # All /\ deck[k].val # 0}
    BY <1>1
<1>3. QED
    BY <1>2 DEF Stated

\* The card read now states its entry once more.
LEMMA StatedNext ==
    ASSUME NEW c, Grows(c), c.at # None, NEW S, S \subseteq 1 .. Len(deck), NEW entry, NEW h, h = Here
    PROVE  Stated(S \cup {h}, entry)'
           = Stated(S, entry) + (IF <<c.at, c.val>> = entry /\ Lumps(c) THEN 1 ELSE 0)
<1> DEFINE old == {k \in S : <<deck[k].at, deck[k].val>> = entry /\ deck[k].at # All /\ deck[k].val # 0}
           now == {k \in S \cup {h} :
                     <<deck'[k].at, deck'[k].val>> = entry /\ deck'[k].at # All /\ deck'[k].val # 0}
           more == <<c.at, c.val>> = entry /\ Lumps(c)
<1>1. PICK n \in Nat : n = Len(deck) /\ h = n + 1
    BY Grown DEF Here
<1>2. deck'[h] = c /\ \A k \in S : deck'[k] = deck[k]
    BY Grown
<1>3. now = old \cup (IF more THEN {h} ELSE {})
    BY <1>2 DEF Lumps
<1>4. old \subseteq 1 .. n
    BY <1>1
<1>5. IsFiniteSet(old) /\ Cardinality(old) \in Nat
    BY <1>4, RankIs
<1>6. h \notin old
    BY <1>1, <1>4
<1>7. Cardinality(now) = Cardinality(old) + (IF more THEN 1 ELSE 0)
    <2> HIDE DEF old, now, more
    <2>1. CASE more
        <3>1. now = old \cup {h}
            BY <1>3, <2>1
        <3>2. Cardinality(old \cup {h}) = Cardinality(old) + 1
            BY <1>5, <1>6, FS_AddElement
        <3>3. QED
            BY <2>1, <3>1, <3>2
    <2>2. CASE ~more
        BY <1>3, <1>5, <2>2
    <2>3. QED
        BY <2>1, <2>2
<1>8. Stated(S \cup {h}, entry)' = Cardinality(now)
    BY DEF Stated
<1>9. Stated(S, entry) = Cardinality(old)
    BY DEF Stated
<1>10. QED
    BY <1>7, <1>8, <1>9

\* An LD card that adds a load states it, and one that discards the run ends both.
LEMMA CountStep ==
    ASSUME DeckTyped, LogInv, CountInv, NEW c, Reads(c)
    PROVE  CountInv'
<1>1. /\ Len(log) \in Nat /\ Len(log') \in Nat /\ Len(log) <= Len(log')
      /\ \A k \in 1 .. Len(log) : log'[k] = log[k]
      /\ c.kind # "LD" => log' = log /\ live' = live
      /\ c.kind = "LD" /\ c.at = None => live' = <<>>
      /\ c.kind = "LD" /\ c.at # None /\ ~Lumps(c) => live' = Kept.live
      /\ c.kind = "LD" /\ Lumps(c) =>
           \E x \in 1 .. Len(log') : log'[x] = <<c.at, c.val>> /\ live' = Append(Kept.live, x)
    BY LogNext
<1>2. PICK n \in Nat, m \in Nat : n = Len(log) /\ m = Len(log')
    BY <1>1
<1>3. PICK l, j : l = log /\ j = log'
    OBVIOUS
<1>4. n <= m /\ \A k \in 1 .. n : j[k] = l[k]
    BY <1>1, <1>2, <1>3
<1>5. Grows(c)
    BY ReadsGrows
<1>6. /\ LoadsAt(Here)' = IF c.kind # "LD" THEN LoadsAt(Here)
                          ELSE IF c.at = None THEN {}
                          ELSE (IF Open THEN LoadsAt(Here) ELSE {}) \cup {Here}
      /\ LoadsAt(Here) \subseteq 1 .. Len(deck)
    BY <1>5, LoadsNext
<1>7. PICK kept, S, h : kept = Kept.live /\ S = (IF Open THEN LoadsAt(Here) ELSE {}) /\ h = Here
    OBVIOUS
<1>8. LoadsOf(live, n) /\ LoadsOf(kept, n)
    BY <1>2, <1>7, KeptIs, NoLoads DEF LogInv
<1>9. \A entry : Times(kept, l, entry) = Stated(S, entry)
    <2>1. CASE Open
        BY <1>3, <1>7, <2>1, KeptIs DEF LogInv, CountInv
    <2>2. CASE ~Open
        BY <1>7, <2>2, KeptIs, NoLoads DEF LogInv
    <2>3. QED
        BY <2>1, <2>2
<1>10. S \subseteq 1 .. Len(deck)
    BY <1>6, <1>7
<1>11. ASSUME NEW entry PROVE Times(live', j, entry) = Stated(LoadsAt(Here), entry)'
    <2>1. CASE c.kind # "LD"
        <3>1. PICK L : L = LoadsAt(Here)
            OBVIOUS
        <3>2. Stated(L, entry)' = Stated(L, entry)
            BY <1>5, <1>6, <3>1, StatedSame
        <3>3. LoadsAt(Here)' = L
            BY <1>6, <2>1, <3>1
        <3>4. Stated(LoadsAt(Here), entry)' = Stated(L, entry)'
            BY <3>3 DEF Stated
        <3>5. QED
            BY <1>1, <1>3, <2>1, <3>1, <3>2, <3>4 DEF CountInv
    <2>2. CASE c.kind = "LD" /\ c.at = None
        <3>1. LoadsAt(Here)' = {} /\ live' = <<>>
            BY <1>1, <1>6, <2>2
        <3>2. Cardinality({}) = 0
            BY FS_EmptySet
        <3>3. Stated(LoadsAt(Here), entry)' = 0
            BY <3>1, <3>2 DEF Stated
        <3>4. QED
            BY <3>1, <3>3, NoLoads
    <2>3. CASE c.kind = "LD" /\ c.at # None
        <3>1. LoadsAt(Here)' = S \cup {h}
            BY <1>6, <1>7, <2>3
        <3>2. Stated(LoadsAt(Here), entry)' = Stated(S \cup {h}, entry)'
            BY <3>1 DEF Stated
        <3>3. Stated(S \cup {h}, entry)'
              = Stated(S, entry) + (IF <<c.at, c.val>> = entry /\ Lumps(c) THEN 1 ELSE 0)
            BY <1>5, <1>7, <1>10, <2>3, StatedNext
        <3>4. Times(kept, j, entry) = Times(kept, l, entry)
            BY <1>4, <1>8, LongerLog
        <3>5. CASE ~Lumps(c)
            <4>1. live' = kept
                BY <1>1, <1>7, <2>3, <3>5
            <4>2. Stated(S, entry) + 0 = Stated(S, entry)
                <5>1. Stated(S, entry) \in Nat
                    <6>1. PICK q \in Nat : q = Len(deck)
                        BY <1>5, Grown
                    <6>2. {k \in S : <<deck[k].at, deck[k].val>> = entry /\ deck[k].at # All
                                     /\ deck[k].val # 0} \subseteq 1 .. q
                        BY <1>10, <6>1
                    <6>3. QED
                        BY <6>2, RankIs DEF Stated
                <5>2. QED
                    BY <5>1
            <4>3. QED
                BY <1>9, <3>2, <3>3, <3>4, <3>5, <4>1, <4>2
        <3>6. CASE Lumps(c)
            <4>1. PICK x \in 1 .. m : j[x] = <<c.at, c.val>> /\ live' = Append(kept, x)
                BY <1>1, <1>2, <1>3, <1>7, <2>3, <3>6
            <4>2. Times(Append(kept, x), j, entry)
                  = Times(kept, l, entry) + (IF j[x] = entry THEN 1 ELSE 0)
                BY <1>4, <1>8, FurtherLoad
            <4>3. QED
                BY <1>9, <3>2, <3>3, <3>6, <4>1, <4>2
        <3>7. QED
            BY <3>5, <3>6
    <2>4. QED
        BY <2>1, <2>2, <2>3
<1>12. QED
    BY <1>3, <1>11 DEF CountInv

-----------------------------------------------------------------------------
(* The loads of each group are those its execute card finds in force.       *)

\* Each group that ran has its loads as often as the cards in force at its execute
\* card state them.
LoadGroupInv ==
    /\ \A i \in 1 .. Len(groups) : LoadsOf(groups[i].loads, Len(log))
    /\ \A i \in 1 .. Len(groups) : \E e \in Executes :
         /\ Rank(Executes, e) = i
         /\ groups[i].ran =>
              \A entry : Times(groups[i].loads, log, entry) = Stated(LoadsAt(e), entry)

\* The groups keep theirs, and a run takes those in force.
LEMMA LoadGroupStep ==
    ASSUME DeckTyped, LogInv, CountInv, GroupInv, LoadGroupInv, NEW c, Reads(c)
    PROVE  LoadGroupInv'
<1>1. Grows(c) /\ GroupsRead(c)
    BY ReadsGrows DEF Reads
<1>2. PICK S : groups \in Seq(S)
    BY DEF GroupInv
<1>3. PICK q \in Nat : q = Len(groups)
    BY <1>2
<1>4. PICK h \in Nat \ {0} : h = Here
    BY <1>1, Grown
<1>5. PICK n \in Nat, m \in Nat : n = Len(log) /\ m = Len(log')
    BY LogNext
<1>6. PICK l, j : l = log /\ j = log'
    OBVIOUS
<1>7. n <= m /\ \A k \in 1 .. n : j[k] = l[k]
    BY <1>5, <1>6, LogNext
<1>8. PICK E : E = Executes
    OBVIOUS
<1>9. /\ Executes' = E \cup (IF c.kind \in Execute THEN {h} ELSE {})
      /\ c.kind \in Execute => Rank(Executes, h)' = q + 1
    BY <1>1, <1>3, <1>4, <1>8, ExecutesNext DEF GroupInv
<1>10. ASSUME NEW i \in 1 .. q, groups'[i] = groups[i]
       PROVE  /\ LoadsOf(groups'[i].loads, m)
              /\ \E e \in Executes' :
                   /\ Rank(Executes, e)' = i
                   /\ groups'[i].ran =>
                        \A entry : Times(groups'[i].loads, j, entry) = Stated(LoadsAt(e), entry)'
    <2>1. PICK e \in Executes :
            /\ Rank(Executes, e) = i
            /\ groups[i].ran =>
                 \A entry : Times(groups[i].loads, log, entry) = Stated(LoadsAt(e), entry)
        BY <1>3 DEF LoadGroupInv
    <2>2. e \in 0 .. Here /\ e \in Executes' /\ Rank(Executes, e)' = Rank(Executes, e)
        BY <1>1, RankSame
    <2>3. PICK s : s = groups[i].loads
        OBVIOUS
    <2>4. LoadsOf(s, n)
        BY <1>3, <1>5, <2>3 DEF LoadGroupInv
    <2>5. LoadsOf(s, m) /\ \A entry : Times(s, j, entry) = Times(s, l, entry)
        BY <1>7, <2>4, LongerLog
    <2>6. LoadsAt(e)' = LoadsAt(e) /\ LoadsAt(e) \subseteq 1 .. Len(deck)
        BY <1>1, <2>2, LoadsSame
    <2>7. ASSUME NEW entry PROVE Stated(LoadsAt(e), entry)' = Stated(LoadsAt(e), entry)
        <3>1. PICK L : L = LoadsAt(e)
            OBVIOUS
        <3>2. Stated(L, entry)' = Stated(L, entry)
            BY <1>1, <2>6, <3>1, StatedSame
        <3>3. Stated(LoadsAt(e), entry)' = Stated(L, entry)'
            BY <2>6, <3>1 DEF Stated
        <3>4. QED
            BY <3>1, <3>2, <3>3
    <2>8. groups'[i].ran =>
            \A entry : Times(groups'[i].loads, j, entry) = Stated(LoadsAt(e), entry)'
        BY <1>6, <1>10, <2>1, <2>3, <2>5, <2>7
    <2>9. QED
        BY <1>10, <2>1, <2>2, <2>3, <2>5, <2>8
<1>11. CASE c.kind \notin Execute
    <2>1. groups' = groups
        BY <1>1, <1>11 DEF GroupsRead
    <2>2. QED
        BY <1>3, <1>5, <1>6, <1>10, <2>1 DEF LoadGroupInv
<1>12. CASE c.kind \in Execute
    <2>1. PICK g : g = IF Answers(c) THEN Run ELSE NotRun
        OBVIOUS
    <2>2. groups' = Append(groups, g)
        BY <1>1, <1>12, <2>1 DEF GroupsRead
    <2>3. /\ Len(groups') = q + 1 /\ \A i \in 1 .. q : groups'[i] = groups[i]
          /\ groups'[q + 1] = g
        BY <1>2, <1>3, <2>2, Longer
    <2>4. j = l /\ m = n
        BY <1>5, <1>6, <1>12, LogNext DEF Execute
    <2>5. LoadsOf(g.loads, m)
        BY <1>5, <2>1, <2>4, NoLoads DEF LogInv, Run, NotRun
    <2>6. g.ran => g.loads = live
        BY <2>1 DEF Run, NotRun
    <2>7. h \in 0 .. Here /\ h = Here
        BY <1>4
    <2>8. LoadsAt(h)' = LoadsAt(h) /\ LoadsAt(h) \subseteq 1 .. Len(deck)
        BY <1>1, <2>7, LoadsSame
    <2>9. ASSUME NEW entry PROVE Stated(LoadsAt(h), entry)' = Times(live, l, entry)
        <3>1. PICK L : L = LoadsAt(h)
            OBVIOUS
        <3>2. Stated(L, entry)' = Stated(L, entry)
            BY <1>1, <2>8, <3>1, StatedSame
        <3>3. Stated(LoadsAt(h), entry)' = Stated(L, entry)'
            BY <2>8, <3>1 DEF Stated
        <3>4. L = LoadsAt(Here)
            BY <2>7, <3>1
        <3>5. QED
            BY <1>6, <3>2, <3>3, <3>4 DEF CountInv
    <2>10. g.ran => \A entry : Times(g.loads, j, entry) = Stated(LoadsAt(h), entry)'
        BY <2>4, <2>6, <2>9
    <2>11. h \in Executes' /\ Rank(Executes, h)' = q + 1
        BY <1>9, <1>12
    <2>12. ASSUME NEW i \in 1 .. q + 1
           PROVE  /\ LoadsOf(groups'[i].loads, m)
                  /\ \E e \in Executes' :
                       /\ Rank(Executes, e)' = i
                       /\ groups'[i].ran =>
                            \A entry : Times(groups'[i].loads, j, entry) = Stated(LoadsAt(e), entry)'
        <3>1. CASE i \in 1 .. q
            BY <1>10, <2>3, <3>1
        <3>2. CASE i = q + 1
            BY <2>3, <2>5, <2>10, <2>11, <3>2
        <3>3. QED
            BY <3>1, <3>2
    <2>13. QED
        BY <1>5, <1>6, <2>3, <2>12 DEF LoadGroupInv
<1>13. QED
    BY <1>11, <1>12

-----------------------------------------------------------------------------

\* All that is said of the loads.
LoadInv == DeckTyped /\ GroupInv /\ LogInv /\ CountInv /\ LoadGroupInv

\* The end of the cards changes none of it.
LEMMA LoadsFrame == ASSUME LoadInv, Untouched PROVE LogInv' /\ CountInv' /\ LoadGroupInv'
<1>1. /\ deck' = deck /\ log' = log /\ live' = live /\ groups' = groups /\ dialect' = dialect
      /\ runOpen' = runOpen
    BY DEF Untouched, loading
<1>2. Here' = Here /\ Executes' = Executes
    BY <1>1, SameDeck DEF Executes
<1>3. Transparent' = Transparent
    BY <1>1 DEF Transparent
<1>4. Open' <=> Open
    BY <1>1, <1>3, SameDeck DEF Open, LastOf, LdOrClear
<1>5. \A e : LoadsAt(e)' = LoadsAt(e)
    BY <1>1, <1>3, SameDeck DEF LoadsAt
<1>6. \A e, entry : Stated(LoadsAt(e), entry)' = Stated(LoadsAt(e), entry)
    BY <1>1, <1>5 DEF Stated
<1>7. LogInv'
    BY <1>1, <1>4 DEF LoadInv, LogInv
<1>8. CountInv'
    <2>1. ASSUME NEW entry PROVE Times(live', log', entry) = Stated(LoadsAt(Here), entry)'
        <3>1. PICK h : h = Here
            OBVIOUS
        <3>2. Stated(LoadsAt(h), entry)' = Stated(LoadsAt(h), entry)
            BY <1>6
        <3>3. Stated(LoadsAt(Here), entry)' = Stated(LoadsAt(Here), entry)
            BY <1>1, <1>2, <1>5, <3>1, <3>2 DEF Stated
        <3>4. QED
            BY <1>1, <3>3 DEF LoadInv, CountInv
    <2>2. QED
        BY <2>1 DEF CountInv
<1>9. LoadGroupInv'
    <2>1. ASSUME NEW i \in 1 .. Len(groups)
          PROVE  \E e \in Executes' :
                   /\ Rank(Executes, e)' = i
                   /\ groups[i].ran =>
                        \A entry : Times(groups[i].loads, log, entry) = Stated(LoadsAt(e), entry)'
        <3>1. PICK e \in Executes :
                /\ Rank(Executes, e) = i
                /\ groups[i].ran =>
                     \A entry : Times(groups[i].loads, log, entry) = Stated(LoadsAt(e), entry)
            BY DEF LoadInv, LoadGroupInv
        <3>2. Rank(Executes, e)' = Rank(Executes, e)
            BY <1>2 DEF Rank
        <3>3. QED
            BY <1>2, <1>6, <3>1, <3>2
    <2>2. QED
        BY <1>1, <2>1 DEF LoadInv, LoadGroupInv
<1>10. QED
    BY <1>7, <1>8, <1>9

\* A load of the model is the log's entry it stands for.
LEMMA PlaceIs ==
    ASSUME NEW n \in Nat, Used \subseteq 1 .. n, NEW k \in Used
    PROVE  Model.loads[Place(k)] = log[k]
<1>1. PICK U : U = Used
    OBVIOUS
<1>2. \A x : Place(x) = Rank(U, x)
    BY <1>1 DEF Place, Rank
<1>3. Place(k) \in 1 .. Cardinality(Used) /\ \A x \in Used : Place(x) = Place(k) => x = k
    BY <1>1, <1>2, RankIs
<1>4. Model.loads = [p \in 1 .. Cardinality(Used) |-> log[CHOOSE x \in Used : Place(x) = p]]
    BY DEF Model
<1>5. (CHOOSE x \in Used : Place(x) = Place(k)) = k
    BY <1>3
<1>6. QED
    BY <1>3, <1>4, <1>5

\* The loads the groups use are of the log.
LEMMA UsedIs ==
    ASSUME GroupInv, LogInv, LoadGroupInv
    PROVE  Used \subseteq 1 .. Len(log)
<1>1. DOMAIN groups = 1 .. Len(groups)
    BY DEF GroupInv
<1>2. \A s : LoadsOf(s, Len(log)) => ToSet(s) \subseteq 1 .. Len(log)
    <2>1. SUFFICES ASSUME NEW s, LoadsOf(s, Len(log)) PROVE ToSet(s) \subseteq 1 .. Len(log)
        OBVIOUS
    <2>2. DOMAIN s = 1 .. Len(s)
        BY <2>1 DEF LoadsOf
    <2>3. QED
        BY <2>1, <2>2 DEF LoadsOf, ToSet
<1>3. ToSet(live) \subseteq 1 .. Len(log)
    BY <1>2 DEF LogInv
<1>4. \A i \in Ran : ToSet(groups[i].loads) \subseteq 1 .. Len(log)
    BY <1>1, <1>2 DEF Ran, LoadGroupInv
<1>5. QED
    BY <1>3, <1>4 DEF Used

\* What the model solves a group with is what its cards state.
LEMMA Solved ==
    ASSUME LoadInv, model = Model
    PROVE  LoadsSolved
<1>1. DeckTyped /\ GroupInv /\ LogInv /\ LoadGroupInv
    BY DEF LoadInv
<1>2. DOMAIN groups = 1 .. Len(groups)
    BY <1>1 DEF GroupInv
<1>3. Used \subseteq 1 .. Len(log) /\ Len(log) \in Nat
    BY <1>1, UsedIs DEF LogInv
<1>4. ASSUME NEW i \in Ran, NEW entry
      PROVE  Cardinality({k \in DOMAIN groups[i].loads :
                            model.loads[model.groups[i].loads[k]] = entry})
             = Cardinality({k \in LoadsAt(At(i)) : /\ <<deck[k].at, deck[k].val>> = entry
                                                   /\ deck[k].at # All /\ deck[k].val # 0})
    <2>1. i \in 1 .. Len(groups) /\ groups[i].ran
        BY <1>2, <1>4 DEF Ran
    <2>2. PICK e \in Executes :
            /\ Rank(Executes, e) = i
            /\ groups[i].ran =>
                 \A x : Times(groups[i].loads, log, x) = Stated(LoadsAt(e), x)
        BY <1>1, <2>1 DEF LoadGroupInv
    <2>3. At(i) = e
        BY <1>1, <2>2, AtIs
    <2>4. Times(groups[i].loads, log, entry) = Stated(LoadsAt(e), entry)
        BY <2>1, <2>2
    <2>5. Model.groups[i].loads = [k \in DOMAIN groups[i].loads |-> Place(groups[i].loads[k])]
        BY <1>2, <2>1 DEF Model
    <2>6. ASSUME NEW k \in DOMAIN groups[i].loads
          PROVE  model.loads[model.groups[i].loads[k]] = log[groups[i].loads[k]]
        <3>1. PICK x : x = groups[i].loads[k]
            OBVIOUS
        <3>2. x \in Used
            BY <1>4, <2>6, <3>1 DEF Used, ToSet
        <3>3. Model.loads[Place(x)] = log[x]
            BY <1>3, <3>2, PlaceIs
        <3>4. model.groups[i].loads[k] = Place(x)
            BY <2>5, <2>6, <3>1
        <3>5. QED
            BY <3>1, <3>3, <3>4
    <2>7. {k \in DOMAIN groups[i].loads : model.loads[model.groups[i].loads[k]] = entry}
            = {k \in DOMAIN groups[i].loads : log[groups[i].loads[k]] = entry}
        BY <2>6
    <2>8. QED
        BY <2>3, <2>4, <2>7 DEF Times, Stated
<1>5. QED
    BY <1>4 DEF LoadsSolved

-----------------------------------------------------------------------------
(* The rows printed of a group's loads.                                     *)

\* The deck's geometry comes before its first load, as in NEC's decks it does.
GeometryFirst ==
    \A k \in 1 .. Len(deck) : deck[k].kind \in Geometry \cup {"CW"} => Before(k, {"LD"}) = {}

\* Geometry came first if it does with one card more, which is none after a load.
LEMMA FirstSoFar ==
    ASSUME NEW c, Grows(c), GeometryFirst'
    PROVE  GeometryFirst /\ (c.kind \in Geometry \cup {"CW"} => LastOf({"LD"}) = 0)
<1>1. /\ deck'[Here] = c /\ Len(deck') = Here /\ Len(deck) \in Nat /\ Here = Len(deck) + 1
      /\ \A k \in 1 .. Len(deck) : deck'[k] = deck[k]
    BY Grown DEF Here
<1>2. ASSUME NEW k \in 1 .. Here, deck'[k].kind \in Geometry \cup {"CW"}
      PROVE  Before(k, {"LD"}) = {}
    <2>1. k \in 0 .. Here
        BY <1>1
    <2>2. Before(k, {"LD"})' = Before(k, {"LD"})
        BY <2>1, BeforeSame
    <2>3. Before(k, {"LD"})' = {}
        BY <1>1, <1>2 DEF GeometryFirst
    <2>4. QED
        BY <2>2, <2>3
<1>3. GeometryFirst
    BY <1>1, <1>2 DEF GeometryFirst
<1>4. Here \in 1 .. Here
    BY <1>1
<1>5. c.kind \in Geometry \cup {"CW"} => Before(Here, {"LD"}) = {}
    BY <1>1, <1>2, <1>4
<1>6. QED
    BY <1>3, <1>5 DEF LastOf, Latest

\* Rows that say the loads s of the log l, one for one and in their order.
RowsAre(rows, l, s) ==
    /\ rows \in Seq(AnyCard) /\ s \in Seq(Nat)
    /\ Cardinality(Lumped(rows)) = Len(s)
    /\ \A k \in Lumped(rows) : l[s[Rank(Lumped(rows), k)]] = <<rows[k].at, rows[k].val>>

\* No rows say no loads.
LEMMA NoRow == ASSUME NEW l PROVE RowsAre(<<>>, l, <<>>)
<1>1. <<>> \in Seq(AnyCard) /\ <<>> \in Seq(Nat) /\ Len(<<>>) = 0 /\ DOMAIN <<>> = {}
    OBVIOUS
<1>2. Lumped(<<>>) = {}
    BY <1>1 DEF Lumped
<1>3. Cardinality({}) = 0
    BY FS_EmptySet
<1>4. QED
    BY <1>1, <1>2, <1>3 DEF RowsAre

\* A row of an LD card is a load, or none and the loads stay.
LEMMA FurtherRow ==
    ASSUME NEW l, NEW rows, NEW s, RowsAre(rows, l, s), NEW c \in AnyCard, c.at # None
    PROVE  /\ ~Lumps(c) => RowsAre(Append(rows, c), l, s)
           /\ Lumps(c) => \A x \in Nat : l[x] = <<c.at, c.val>> => RowsAre(Append(rows, c), l, Append(s, x))
<1> DEFINE t == Append(rows, c)
<1>1. rows \in Seq(AnyCard) /\ s \in Seq(Nat)
    BY DEF RowsAre
<1>2. PICK n \in Nat : n = Len(rows)
    BY <1>1
<1>3. t \in Seq(AnyCard)
    BY <1>1
<1>4. /\ \A i \in 1 .. n : t[i] = rows[i]
      /\ t[n + 1] = c /\ DOMAIN t = 1 .. n + 1 /\ DOMAIN rows = 1 .. n
    BY <1>1, <1>2, Longer
<1>5. PICK L, M : L = Lumped(rows) /\ M = Lumped(t)
    OBVIOUS
<1> HIDE DEF t
<1>6. M = L \cup (IF Lumps(c) THEN {n + 1} ELSE {}) /\ L \subseteq 1 .. n
    BY <1>4, <1>5 DEF Lumped, Lumps
<1>7. Cardinality(L) = Len(s) /\ \A k \in L : l[s[Rank(L, k)]] = <<rows[k].at, rows[k].val>>
    BY <1>5 DEF RowsAre
<1>8. \A k \in L : t[k] = rows[k]
    BY <1>4, <1>6
<1>9. CASE ~Lumps(c)
    <2>1. M = L
        BY <1>6, <1>9
    <2>2. RowsAre(t, l, s)
        BY <1>1, <1>3, <1>5, <1>7, <1>8, <2>1 DEF RowsAre
    <2>3. QED
        BY <1>9, <2>2 DEF t
<1>10. CASE Lumps(c)
    <2>1. SUFFICES ASSUME NEW x \in Nat, l[x] = <<c.at, c.val>>
                   PROVE  RowsAre(t, l, Append(s, x))
        BY <1>10 DEF t
    <2>2. PICK q \in Nat : q = Len(s)
        BY <1>1
    <2>3. PICK u : u = Append(s, x)
        OBVIOUS
    <2>4. u \in Seq(Nat)
        BY <1>1, <2>3
    <2>5. Len(u) = q + 1 /\ u[q + 1] = x /\ \A i \in 1 .. q : u[i] = s[i]
        BY <1>1, <2>2, <2>3, Longer
    <2>6. M = L \cup {n + 1}
        BY <1>6, <1>10
    <2>7. Cardinality(M) = q + 1 /\ Rank(M, n + 1) = q + 1
        <3>1. L \subseteq 1 .. n /\ Cardinality(L) = q
            BY <1>6, <1>7, <2>2
        <3>2. Cardinality(M) = Cardinality(L) + 1 /\ Rank(M, n + 1) = Cardinality(L) + 1
            BY <2>6, <3>1, RankNext
        <3>3. QED
            BY <3>1, <3>2
    <2>8. ASSUME NEW k \in M PROVE l[u[Rank(M, k)]] = <<t[k].at, t[k].val>>
        <3>1. CASE k = n + 1
            BY <1>4, <2>1, <2>5, <2>7, <3>1
        <3>2. CASE k \in L
            <4>1. {j \in M : j <= k} = {j \in L : j <= k}
                BY <1>6, <2>6, <3>2
            <4>2. Rank(M, k) = Rank(L, k)
                BY <4>1 DEF Rank
            <4>3. Rank(L, k) \in 1 .. q
                BY <1>6, <1>7, <2>2, <3>2, RankIs
            <4>4. QED
                BY <1>7, <1>8, <2>5, <3>2, <4>2, <4>3
        <3>3. QED
            BY <2>6, <3>1, <3>2
    <2>9. QED
        BY <1>3, <1>5, <2>3, <2>4, <2>5, <2>7, <2>8 DEF RowsAre
<1>11. QED
    BY <1>9, <1>10

\* A longer log leaves what the rows say.
LEMMA RowsLonger ==
    ASSUME NEW n \in Nat, NEW rows, NEW s, LoadsOf(s, n), NEW l, NEW j, \A k \in 1 .. n : j[k] = l[k],
           RowsAre(rows, l, s)
    PROVE  RowsAre(rows, j, s)
<1>1. PICK L : L = Lumped(rows)
    OBVIOUS
<1>2. /\ rows \in Seq(AnyCard) /\ s \in Seq(Nat)
      /\ Cardinality(L) = Len(s) /\ \A k \in L : l[s[Rank(L, k)]] = <<rows[k].at, rows[k].val>>
    BY <1>1 DEF RowsAre
<1>3. PICK q \in Nat : q = Len(rows)
    BY <1>2
<1>4. L \subseteq 1 .. q
    BY <1>1, <1>2, <1>3 DEF Lumped
<1>5. \A k \in L : Rank(L, k) \in 1 .. Len(s)
    BY <1>2, <1>4, RankIs
<1>6. \A k \in L : j[s[Rank(L, k)]] = l[s[Rank(L, k)]]
    BY <1>5 DEF LoadsOf
<1>7. QED
    BY <1>1, <1>2, <1>6 DEF RowsAre

\* What the walk makes of a card's loads and groups.
LEMMA WalkIs ==
    ASSUME StepInv, DeckTyped, NEW c, Reads(c)
    PROVE  /\ portal'.loads = IF c.kind # "LD" THEN portal.loads
                              ELSE IF c.at = None THEN <<>>
                              ELSE Append(IF portal.open THEN portal.loads ELSE <<>>, c)
           /\ portal'.open <=> \/ c.kind = "LD"
                               \/ portal.open /\ c.kind \in Transparent \cup Geometry \cup {"CW"}
           /\ portal'.groups = IF c.kind \in Execute
                               THEN Append(portal.groups,
                                       IF Answers(c)
                                       THEN [ran |-> TRUE, sources |-> portal.sources, loads |-> portal.loads]
                                       ELSE NoRows)
                               ELSE portal.groups
<1>1. portal \in Portal /\ Walks(c, Answers(c)) /\ c \in AnyCard
    BY ReadsGrows DEF StepInv, Reads
<1>2. CASE c.kind = "LD"
    <2>1. portal' = ReadsLoad(portal, c)
        BY <1>1, <1>2 DEF Walks, Execute, Networks, Comments, Advice, Geometry, Others, Excitations, Transparent
    <2>2. portal'.open = TRUE /\ portal'.groups = portal.groups
          /\ portal'.loads = IF c.at = None THEN <<>>
                             ELSE Append(IF portal.open THEN portal.loads ELSE <<>>, c)
        BY <1>1, <2>1 DEF ReadsLoad, Portal
    <2>3. QED
        BY <1>2, <2>2 DEF Execute
<1>3. CASE c.kind \in Excitations
    <2>1. portal' = ReadsSource(portal, c)
        BY <1>1, <1>3 DEF Walks, Execute, Networks, Comments, Advice, Geometry, Others, Excitations, Transparent
    <2>2. portal'.open = FALSE /\ portal'.groups = portal.groups /\ portal'.loads = portal.loads
        BY <1>1, <2>1 DEF ReadsSource, Portal
    <2>3. QED
        BY <1>3, <2>2 DEF Excitations, Execute, Comments, Advice, Geometry, Transparent
<1>4. CASE c.kind \in Execute
    <2>1. portal' = ReadsExecute(portal, Answers(c))
        BY <1>1, <1>4 DEF Walks, Execute, Networks, Comments, Advice, Geometry, Others, Excitations, Transparent
    <2>2. /\ portal'.open = FALSE /\ portal'.loads = portal.loads
          /\ portal'.groups = Append(portal.groups,
                IF Answers(c) THEN [ran |-> TRUE, sources |-> portal.sources, loads |-> portal.loads]
                ELSE NoRows)
        BY <1>1, <2>1 DEF ReadsExecute, Portal
    <2>3. QED
        BY <1>4, <2>2 DEF Execute, Comments, Advice, Geometry, Transparent
<1>5. CASE c.kind \in Geometry \cup {"CW"} \cup Transparent
    <2>1. portal' = portal
        BY <1>1, <1>5 DEF Walks, Execute, Networks, Comments, Advice, Geometry, Others, Excitations, Transparent
    <2>2. QED
        BY <1>5, <2>1 DEF Execute, Comments, Advice, Geometry, Transparent
<1>6. CASE c.kind \in ({"FR", "GN", "EK"} \cup Networks \cup Others) \ Transparent
    <2>1. portal' = [portal EXCEPT !.open = FALSE]
        BY <1>1, <1>6 DEF Walks, Execute, Networks, Comments, Advice, Geometry, Others, Excitations, Transparent
    <2>2. portal'.open = FALSE /\ portal'.groups = portal.groups /\ portal'.loads = portal.loads
        BY <1>1, <2>1 DEF Portal
    <2>3. QED
        BY <1>6, <2>2 DEF Execute, Networks, Others, Geometry, Transparent
<1>7. QED
    BY <1>1, <1>2, <1>3, <1>4, <1>5, <1>6 DEF Walks

\* The walk has a run of LD cards open when the reader does, and its rows, and those
\* of each group, say the loads.
PrintInv ==
    /\ portal.open <=> runOpen
    /\ RowsAre(portal.loads, log, live)
    /\ \A i \in 1 .. Len(groups) : RowsAre(portal.groups[i].loads, log, groups[i].loads)

\* A row is added with its load, and the two are discarded together.
LEMMA PrintStep ==
    ASSUME StepInv, LoadInv, PrintInv, NEW c, Reads(c), GeometryFirst'
    PROVE  PrintInv'
<1>1. DeckTyped /\ GroupInv /\ LogInv /\ LoadGroupInv
    BY DEF LoadInv
<1>2. Grows(c) /\ GroupsRead(c) /\ LoadsRead(c) /\ c \in AnyCard
    BY <1>1, ReadsGrows DEF Reads
<1>3. /\ portal'.loads = IF c.kind # "LD" THEN portal.loads
                         ELSE IF c.at = None THEN <<>>
                         ELSE Append(IF portal.open THEN portal.loads ELSE <<>>, c)
      /\ portal'.open <=> \/ c.kind = "LD"
                          \/ portal.open /\ c.kind \in Transparent \cup Geometry \cup {"CW"}
      /\ portal'.groups = IF c.kind \in Execute
                          THEN Append(portal.groups,
                                  IF Answers(c)
                                  THEN [ran |-> TRUE, sources |-> portal.sources, loads |-> portal.loads]
                                  ELSE NoRows)
                          ELSE portal.groups
    BY <1>1, WalkIs
<1>4. portal'.open <=> runOpen'
    <2>1. c.kind \in Geometry \cup {"CW"} => LastOf({"LD"}) = 0
        BY <1>2, FirstSoFar
    <2>2. LastOf({"LD"}) = 0 => ~runOpen
        BY <1>1 DEF LogInv, Open
    <2>3. runOpen' <=> c.kind = "LD" \/ (runOpen /\ c.kind \in Transparent)
        BY <1>2 DEF LoadsRead
    <2>4. QED
        BY <1>3, <2>1, <2>2, <2>3 DEF PrintInv
<1>5. PICK n \in Nat, m \in Nat : n = Len(log) /\ m = Len(log')
    BY <1>1, LogNext
<1>6. PICK l, j : l = log /\ j = log'
    OBVIOUS
<1>7. /\ n <= m /\ \A k \in 1 .. n : j[k] = l[k]
      /\ c.kind # "LD" => live' = live
      /\ c.kind = "LD" /\ c.at = None => live' = <<>>
      /\ c.kind = "LD" /\ c.at # None /\ ~Lumps(c) => live' = Kept.live
      /\ c.kind = "LD" /\ Lumps(c) =>
           \E x \in 1 .. m : j[x] = <<c.at, c.val>> /\ live' = Append(Kept.live, x)
    BY <1>1, <1>5, <1>6, LogNext
<1>8. RowsAre(portal'.loads, j, live')
    <2>1. PICK rows, s : /\ rows = (IF portal.open THEN portal.loads ELSE <<>>) /\ s = Kept.live
        OBVIOUS
    <2>2. LoadsOf(live, n) /\ RowsAre(portal.loads, l, live)
        BY <1>1, <1>5, <1>6 DEF LogInv, PrintInv
    <2>3. RowsAre(portal.loads, j, live)
        BY <1>7, <2>2, RowsLonger
    <2>4. RowsAre(rows, j, s)
        BY <2>1, <2>3, KeptIs, NoRow DEF PrintInv
    <2>5. CASE c.kind # "LD"
        BY <1>3, <1>7, <2>3, <2>5
    <2>6. CASE c.kind = "LD" /\ c.at = None
        BY <1>3, <1>7, <2>6, NoRow
    <2>7. CASE c.kind = "LD" /\ c.at # None
        <3>1. portal'.loads = Append(rows, c)
            BY <1>3, <2>1, <2>7
        <3>2. CASE ~Lumps(c)
            <4>1. live' = s
                BY <1>7, <2>1, <2>7, <3>2
            <4>2. RowsAre(Append(rows, c), j, s)
                BY <1>2, <2>4, <2>7, <3>2, FurtherRow
            <4>3. QED
                BY <3>1, <4>1, <4>2
        <3>3. CASE Lumps(c)
            <4>1. PICK x \in 1 .. m : j[x] = <<c.at, c.val>> /\ live' = Append(s, x)
                BY <1>7, <2>1, <2>7, <3>3
            <4>2. x \in Nat
                BY <4>1
            <4>3. RowsAre(Append(rows, c), j, Append(s, x))
                BY <1>2, <2>4, <2>7, <3>3, <4>1, <4>2, FurtherRow
            <4>4. QED
                BY <3>1, <4>1, <4>3
        <3>4. QED
            BY <3>2, <3>3
    <2>8. QED
        BY <2>5, <2>6, <2>7
<1>9. PICK q \in Nat : q = Len(groups)
    BY <1>1 DEF GroupInv
<1>10. \A i \in 1 .. q : RowsAre(portal.groups[i].loads, j, groups[i].loads)
    <2>1. SUFFICES ASSUME NEW i \in 1 .. q PROVE RowsAre(portal.groups[i].loads, j, groups[i].loads)
        OBVIOUS
    <2>2. PICK rows, s : rows = portal.groups[i].loads /\ s = groups[i].loads
        OBVIOUS
    <2>3. RowsAre(rows, l, s) /\ LoadsOf(s, n)
        BY <1>1, <1>5, <1>6, <1>9, <2>2 DEF PrintInv, LoadGroupInv
    <2>4. RowsAre(rows, j, s)
        BY <1>7, <2>3, RowsLonger
    <2>5. QED
        BY <2>2, <2>4
<1>11. CASE c.kind \notin Execute
    <2>1. groups' = groups /\ portal'.groups = portal.groups
        BY <1>2, <1>3, <1>11 DEF GroupsRead
    <2>2. QED
        BY <1>4, <1>6, <1>8, <1>9, <1>10, <2>1 DEF PrintInv
<1>12. CASE c.kind \in Execute
    <2>1. PICK S : groups \in Seq(S)
        BY <1>1 DEF GroupInv
    <2>2. PICK g, shown :
            /\ g = IF Answers(c) THEN Run ELSE NotRun
            /\ shown = IF Answers(c)
                       THEN [ran |-> TRUE, sources |-> portal.sources, loads |-> portal.loads]
                       ELSE NoRows
        OBVIOUS
    <2>3. groups' = Append(groups, g) /\ portal'.groups = Append(portal.groups, shown)
        BY <1>2, <1>3, <1>12, <2>2 DEF GroupsRead
    <2>4. Len(groups') = q + 1 /\ groups'[q + 1] = g /\ \A i \in 1 .. q : groups'[i] = groups[i]
        BY <1>9, <2>1, <2>3, Longer
    <2>5. portal.groups \in Seq(Shown) /\ Len(portal.groups) = q
        BY <1>9 DEF StepInv, Portal
    <2>6. /\ portal'.groups[q + 1] = shown
          /\ \A i \in 1 .. q : portal'.groups[i] = portal.groups[i]
        BY <2>3, <2>5, Longer
    <2>7. RowsAre(shown.loads, j, g.loads)
        <3>1. c.kind # "LD"
            BY <1>12 DEF Execute
        <3>2. RowsAre(portal.loads, j, live)
            BY <1>3, <1>7, <1>8, <3>1
        <3>3. CASE Answers(c)
            <4>1. shown.loads = portal.loads /\ g.loads = live
                BY <2>2, <3>3 DEF Run
            <4>2. QED
                BY <3>2, <4>1
        <3>4. CASE ~Answers(c)
            <4>1. shown.loads = <<>> /\ g.loads = <<>>
                BY <2>2, <3>4 DEF NoRows, NotRun
            <4>2. QED
                BY <4>1, NoRow
        <3>5. QED
            BY <3>3, <3>4
    <2>8. \A i \in 1 .. q + 1 : RowsAre(portal'.groups[i].loads, j, groups'[i].loads)
        <3>1. SUFFICES ASSUME NEW i \in 1 .. q + 1
                       PROVE  RowsAre(portal'.groups[i].loads, j, groups'[i].loads)
            OBVIOUS
        <3>2. CASE i \in 1 .. q
            BY <1>10, <2>4, <2>6, <3>2
        <3>3. CASE i = q + 1
            BY <2>4, <2>6, <2>7, <3>3
        <3>4. QED
            BY <3>2, <3>3
    <2>9. QED
        BY <1>4, <1>6, <1>8, <2>4, <2>8 DEF PrintInv
<1>13. QED
    BY <1>11, <1>12

\* The rows of every group say its loads.
LEMMA Printed == ASSUME PrintInv, GroupInv PROVE LoadsPrinted
<1>1. DOMAIN groups = 1 .. Len(groups)
    BY DEF GroupInv
<1>2. QED
    BY <1>1 DEF PrintInv, LoadsPrinted, RowsAre, Rank

-----------------------------------------------------------------------------

\* While the cards are read, and when they are, the loads in force are those of the
\* cards, and the rows those of the loads.
ForceInv ==
    /\ StepInv /\ Fixed /\ AnswersInv
    /\ pc # "refused" => LoadInv /\ (GeometryFirst => PrintInv)

\* Before the first card neither has any.
LEMMA ForceInit == Init => ForceInv
<1> SUFFICES ASSUME Init PROVE ForceInv
    OBVIOUS
<1>1. StepInv /\ Fixed /\ AnswersInv /\ ReadInv
    BY InitStep, ReadInit DEF Init, Fixed, AnswersInv
<1>2. /\ log = <<>> /\ live = <<>> /\ groups = <<>> /\ runOpen = FALSE /\ deck = <<>>
      /\ portal.loads = <<>> /\ portal.open = FALSE /\ portal.groups = <<>>
    BY DEF Init
<1>3. Here = 1 /\ Len(log) = 0 /\ Len(groups) = 0 /\ log \in Seq({})
    BY <1>2 DEF Here
<1>4. \A K : Before(1, K) = {}
    BY DEF Before
<1>5. LogInv
    BY <1>2, <1>3, <1>4, NoLoads DEF LogInv, Open, LastOf, Latest
<1>6. LoadsAt(1) = {}
    BY <1>4 DEF LoadsAt
<1>7. CountInv
    BY <1>2, <1>3, <1>6, NoLoads DEF CountInv
<1>8. LoadGroupInv
    BY <1>3 DEF LoadGroupInv
<1>9. PrintInv
    BY <1>2, <1>3, NoRow DEF PrintInv
<1>10. QED
    BY <1>1, <1>5, <1>7, <1>8, <1>9 DEF ForceInv, LoadInv, ReadInv

\* Every step keeps it.
LEMMA ForceStep == ASSUME ForceInv, [Next]_vars PROVE ForceInv'
<1>1. StepInv' /\ Fixed' /\ AnswersInv'
    BY NextStep, FixedStep, AnswersStep DEF ForceInv
<1>2. CASE \E c : Reads(c)
    <2>1. PICK c : Reads(c)
        BY <1>2
    <2>2. pc = "reading" /\ pc' = "reading"
        BY <2>1 DEF Reads
    <2>3. LoadInv /\ (GeometryFirst => PrintInv) /\ StepInv
        BY <2>2 DEF ForceInv
    <2>4. DeckTyped /\ GroupInv /\ LogInv /\ CountInv /\ LoadGroupInv
        BY <2>3 DEF LoadInv
    <2>5. DeckTyped' /\ GroupInv'
        BY <1>1, <2>2 DEF AnswersInv, ReadInv
    <2>6. LogInv' /\ CountInv' /\ LoadGroupInv'
        BY <2>1, <2>4, LogStep, CountStep, LoadGroupStep
    <2>7. GeometryFirst' => PrintInv'
        <3>1. Grows(c)
            BY <2>1, <2>4, ReadsGrows
        <3>2. QED
            BY <2>1, <2>3, <3>1, FirstSoFar, PrintStep
    <2>8. QED
        BY <1>1, <2>2, <2>5, <2>6, <2>7 DEF ForceInv, LoadInv
<1>3. CASE pc' = "refused"
    BY <1>1, <1>3 DEF ForceInv
<1>4. CASE (Ends \/ UNCHANGED vars) /\ pc' # "refused"
    <2>1. Untouched /\ portal' = portal /\ pc # "refused"
        BY <1>4 DEF Ends, vars, Untouched
    <2>2. LoadInv /\ (GeometryFirst => PrintInv)
        BY <2>1 DEF ForceInv
    <2>3. LogInv' /\ CountInv' /\ LoadGroupInv'
        BY <2>1, <2>2, LoadsFrame
    <2>4. DeckTyped' /\ GroupInv'
        BY <1>1, <1>4 DEF AnswersInv, ReadInv
    <2>5. GeometryFirst' <=> GeometryFirst
        BY <2>1, SameDeck DEF Untouched, GeometryFirst
    <2>6. PrintInv => PrintInv'
        BY <2>1 DEF PrintInv, Untouched, loading
    <2>7. QED
        BY <1>1, <2>2, <2>3, <2>4, <2>5, <2>6 DEF ForceInv, LoadInv
<1>5. QED
    BY <1>2, <1>3, <1>4, Steps

\* The loads every group is solved with are those of the LD cards in force at its execute
\* card, each as often as they state it, whatever the deck; and where a deck's geometry comes
\* first the printout's rows are those loads, one for one and in their order.
THEOREM InForce == Spec => [](LoadsSolved /\ (GeometryFirst => LoadsInForce))
<1>1. ForceInv => LoadsSolved /\ (GeometryFirst => LoadsInForce)
    <2> SUFFICES ASSUME ForceInv PROVE LoadsSolved /\ (GeometryFirst => LoadsInForce)
        OBVIOUS
    <2>1. CASE pc # "read"
        BY <2>1 DEF LoadsInForce, LoadsSolved, LoadsPrinted
    <2>2. CASE pc = "read"
        <3>1. LoadInv /\ model = Model /\ (GeometryFirst => PrintInv)
            BY <2>2 DEF ForceInv, AnswersInv
        <3>2. LoadsSolved /\ GroupInv
            BY <3>1, Solved DEF LoadInv
        <3>3. GeometryFirst => LoadsPrinted
            BY <3>1, <3>2, Printed
        <3>4. QED
            BY <3>2, <3>3 DEF LoadsInForce
    <2>3. QED
        BY <2>1, <2>2
<1>2. ForceInv /\ [Next]_vars => ForceInv'
    BY ForceStep
<1>3. QED
    BY <1>1, <1>2, ForceInit, PTL DEF Spec
=============================================================================
