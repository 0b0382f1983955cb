---------------------------- MODULE SolverCache ----------------------------
(***************************************************************************)
(* The cross-deck solver cache of the NEC-2 drop-in                        *)
(* (dropin/nec2c/_portal.py): what one engine process answers to a session *)
(* of decks, each answered by a solver that it built for the deck or, with *)
(* --cache, that it built for an earlier deck of the same operator.        *)
(*                                                                         *)
(* A deck is its shape (wires, ports, loads, networks), what it calls its  *)
(* wires (tags), its second medium (gd), and its runs: one for each execute *)
(* card that runs, with the operator it asks for (ground and kernel), the  *)
(* loads in force, the frequencies, the source voltages, and its place     *)
(* among ALL execute cards, those that run nothing included.  A fill is    *)
(* named by its frequency and operator, an answer is the set of its blocks. *)
(***************************************************************************)
EXTENDS Integers, Sequences, FiniteSets, FiniteSetsExt, Functions

CONSTANTS
    Decks,        \* the decks a session may send
    Model,        \* of each: parses (the reader takes it), shape, tags, gd, runs
    Undriven,     \* shapes of decks with no EX card
    Unbuildable,  \* operators build_solver refuses: the basis has no such kernel
    Singular,     \* operators that raise in the fill
    Unlisted,     \* decks that raise, when read or solved, what render_deck does not list
    Cap,          \* _CACHE_BYTES_CAP, in fills
    MaxDecks      \* bound: decks of a session

\* What a run asks for: an operator, loads, frequencies, voltages, and the
\* place of its card.
Runs == UNION {Range(Model[d].runs) : d \in Decks}

ASSUME SolverAssumption ==
    /\ Cap \in Nat /\ MaxDecks \in Nat
    /\ Unlisted \subseteq Decks
    /\ \A d \in Decks :
        /\ Model[d].parses \in BOOLEAN
        /\ Model[d].runs \in Seq(Runs) /\ Len(Model[d].runs) > 0
        /\ \A i, j \in DOMAIN Model[d].runs :
            Model[d].runs[i].place = Model[d].runs[j].place => i = j
    /\ \A r \in Runs : r.freqs \in Seq(Range(r.freqs)) /\ Len(r.freqs) > 0

VARIABLES
    mode,     \* serving: --cache; path: --cache-stats
    stats,    \* _cache_stats
    dryKeys,  \* _dry_run_keys
    solvers,  \* _solver_cache: per operator key, the solver built for it
    order,    \* its keys, the least recently used first
    sizes,    \* _cache_sizes
    decks,    \* _decks_rendered
    file,     \* the measurement file
    pc, deck, solver, run, step, answer,  \* the deck in hand, its solver, how
                                          \* far it is, and what it printed
    past      \* history: solved, keys (of solved decks), asked (fills by key),
              \* raised (fills that did), paid (fills kept since the last
              \* eviction pass), refused, unwritten (the last write failed),
              \* destroyed (by SimNEC)

held == <<solvers, order, sizes>>
work == <<deck, solver, run, step, answer>>
vars == <<mode, stats, dryKeys, held, decks, file, pc, work, past>>

NoFile == [none |-> TRUE]
NoDeck == "none"
NoSolver == [none |-> TRUE]
Counting == mode.serving \/ mode.path

\* _operator_key: neither the tags, nor gd, nor the places are in it.
Key(d) == [shape |-> Model[d].shape,
           ops   |-> [i \in DOMAIN Model[d].runs |-> Model[d].runs[i].op],
           loads |-> [i \in DOMAIN Model[d].runs |-> Model[d].runs[i].loads]]

Raising == Unbuildable \cup Singular
Point(d, i, j) == <<Model[d].runs[i].freqs[j], Model[d].runs[i].op>>
Refused(d) == Model[d].shape \in Undriven \/ Model[d].runs[1].op \in Raising
RaisesFilling(d) == Model[d].shape \notin Undriven /\ Model[d].runs[1].op \in Singular
New(d) == [built |-> d, portal |-> d, fills |-> {Point(d, 1, 1)}]

\* _group_loads, read at an execute card's place in the ARRIVING deck.
LoadsAt(d, p) ==
    UNION {Model[d].runs[i].loads : i \in {r \in DOMAIN Model[d].runs : Model[d].runs[r].place = p}}

\* The solver's ports are named by the deck it was built from.
Driven(s, d, i) == {Model[d].runs[i].volts : m \in {Model[s.built].tags} \cap {Model[d].tags}}

\* The error of run i; 0 is the refusal of the deck.
Error(i) == [run |-> i, kind |-> "error"]
Structure(s) == [run |-> 0, kind |-> "structure", shape |-> Model[s.built].shape, tags |-> Model[s.built].tags]
Block(s, d, i, j) ==
    [run |-> i, kind |-> "run", point |-> Point(d, i, j), shape |-> Model[s.built].shape,
     loads |-> LoadsAt(s.built, Model[d].runs[i].place), driven |-> Driven(s, d, i),
     far |-> Model[s.portal].gd]

Size(s) == 1 + Cardinality(s.fills)
Total(z, keys) == MapThenSumSet(LAMBDA k : z[k], keys)

\* _cache_measure of the most recent entry: what the previous deck filled.
Measured ==
    IF order = <<>> THEN sizes
    ELSE [sizes EXCEPT ![order[Len(order)]] = Size(solvers[order[Len(order)]])]

Fits(o, z, n) == Total(z, Range(SubSeq(o, n + 1, Len(o)))) <= Cap
\* Mutant: a structure too big for the cap is not kept either.
DroppedAll(o, z) == Min({n \in 0 .. Len(o) : Fits(o, z, n) \/ n = Len(o)})
Dropped(o, z) == Min({n \in 0 .. Len(o) - 1 : Fits(o, z, n) \/ n = Len(o) - 1})

\* _cache_evict, of cache s in order o with sizes z; st is the other counting.
Evict(s, o, z, st) ==
    LET n    == Dropped(o, z)
        kept == SubSeq(o, n + 1, Len(o))
    IN /\ order' = kept
       /\ solvers' = Restrict(s, Range(kept))
       /\ sizes' = Restrict(z, Range(kept))
       /\ stats' = [st EXCEPT !.evictions = @ + n, !.bytes = Total(z, Range(kept))]

MoveToEnd(o, k) ==
    LET p == CHOOSE i \in DOMAIN o : o[i] = k
    IN [i \in DOMAIN o |-> IF i < p THEN o[i] ELSE IF i < Len(o) THEN o[i + 1] ELSE k]

Zeros == [hits |-> 0, misses |-> 0, evictions |-> 0, fills |-> 0, bytes |-> 0]

\* configure_engine: whatever an earlier invocation cached is gone.
Init ==
    /\ mode \in [serving : BOOLEAN, path : BOOLEAN]
    /\ stats = Zeros
    /\ dryKeys = {}
    /\ solvers = <<>>
    /\ order = <<>>
    /\ sizes = <<>>
    /\ decks = 0
    /\ file = NoFile
    /\ pc = "idle"
    /\ deck = NoDeck
    /\ solver = NoSolver
    /\ run = 0
    /\ step = 0
    /\ answer = {}
    /\ past = [solved |-> 0, keys |-> {}, asked |-> {}, raised |-> 0, paid |-> 0,
               refused |-> 0, unwritten |-> FALSE, destroyed |-> FALSE]

\* A deck arrives and parses, or its reader refuses it (_DECK_REFUSALS).
Arrive(d) ==
    /\ pc = "idle" /\ decks < MaxDecks
    /\ deck' = d
    /\ pc' = IF Model[d].parses THEN "lookup" ELSE "frame"
    /\ answer' = IF Model[d].parses THEN {} ELSE {Error(0)}
    /\ past' = [past EXCEPT !.refused = @ + IF Model[d].parses THEN 0 ELSE 1]
    /\ UNCHANGED <<mode, stats, dryKeys, held, decks, file, solver, run, step>>

Answers(s) ==
    /\ solver' = s
    /\ answer' = {Structure(s)}
    /\ run' = 1 /\ step' = 1
    /\ pc' = "render"
    /\ UNCHANGED deck

\* The deck's first fill is paid in its solver's construction.
Counted(st, n) == [st EXCEPT !.fills = @ + IF Counting THEN n ELSE 0]

Solved(p) == [p EXCEPT !.solved = @ + 1, !.keys = @ \cup {Key(deck)}, !.paid = 0]
Built(p)  == [Solved(p) EXCEPT !.asked = @ \cup {<<Key(deck), Point(deck, 1, 1)>>}]

\* The mode that is off builds; the dry run builds and counts.
BuildsUncached ==
    /\ pc = "lookup" /\ ~mode.serving /\ ~Refused(deck)
    /\ LET seen == Key(deck) \in dryKeys
           st   == Counted(stats, 1)
       IN IF mode.path
          THEN /\ stats' = IF seen THEN [st EXCEPT !.hits = @ + 1]
                                   ELSE [st EXCEPT !.misses = @ + 1]
               /\ dryKeys' = dryKeys \cup {Key(deck)}
          ELSE UNCHANGED <<stats, dryKeys>>
    /\ Answers(New(deck))
    /\ past' = Built(past)
    /\ UNCHANGED <<mode, held, decks, file>>

Refuse ==
    /\ pc = "lookup" /\ Refused(deck)
    /\ mode.serving => Key(deck) \notin DOMAIN solvers
    /\ LET n == IF RaisesFilling(deck) THEN 1 ELSE 0
       IN /\ stats' = Counted(stats, n)
          /\ past' = [past EXCEPT !.refused = @ + 1, !.raised = @ + n]
    /\ sizes' = IF mode.serving THEN Measured ELSE sizes
    /\ answer' = {Error(0)}
    /\ pc' = "frame"
    /\ UNCHANGED <<mode, dryKeys, solvers, order, decks, file, deck, solver, run, step>>

\* Mutant: the cached solver goes on reading the deck it was built for.
HitKeepingPortal ==
    /\ pc = "lookup" /\ mode.serving /\ Key(deck) \in DOMAIN solvers
    /\ LET k == Key(deck)
       IN /\ Evict(solvers, MoveToEnd(order, k), Measured,
                   [stats EXCEPT !.hits = @ + 1])
          /\ Answers(solvers[k])
    /\ past' = Solved(past)
    /\ UNCHANGED <<mode, dryKeys, decks, file>>
Hit ==
    /\ pc = "lookup" /\ mode.serving /\ Key(deck) \in DOMAIN solvers
    /\ LET k == Key(deck)
           s == [solvers[k] EXCEPT !.portal = deck]
       IN /\ Evict([solvers EXCEPT ![k] = s],
                   MoveToEnd(order, k), Measured,
                   [stats EXCEPT !.hits = @ + 1])
          /\ Answers(s)
    /\ past' = Solved(past)
    /\ UNCHANGED <<mode, dryKeys, decks, file>>

Miss ==
    /\ pc = "lookup" /\ mode.serving /\ Key(deck) \notin DOMAIN solvers /\ ~Refused(deck)
    /\ LET k == Key(deck)
           s == New(deck)
       IN /\ Evict([x \in DOMAIN solvers \cup {k} |-> IF x = k THEN s ELSE solvers[x]],
                   Append(order, k),
                   [x \in DOMAIN Measured \cup {k} |-> IF x = k THEN Size(s) ELSE Measured[x]],
                   Counted([stats EXCEPT !.misses = @ + 1], 1))
          /\ Answers(s)
    /\ past' = Built(past)
    /\ UNCHANGED <<mode, dryKeys, decks, file>>

\* Mutant: the fill is not kept.
AtForgetting(pt) == UNCHANGED <<solver, solvers>>
\* DeckSolver.at: solver s, and the cache that holds it, with the fill kept.
At(pt) ==
    LET s == [solver EXCEPT !.fills = @ \cup {pt}]
    IN /\ solver' = s
       /\ solvers' = IF mode.serving /\ Key(deck) \in DOMAIN solvers
                     THEN [solvers EXCEPT ![Key(deck)] = s] ELSE solvers

Advance(i, j) ==
    /\ run' = i /\ step' = j
    /\ pc' = IF i > Len(Model[deck].runs) THEN "frame" ELSE "render"

\* _run_block: one frequency of a run.
Solve ==
    LET pt  == Point(deck, run, step)
        new == IF pt \in solver.fills THEN 0 ELSE 1
    IN /\ pc = "render"
       /\ pt \in solver.fills \/ Model[deck].runs[run].op \notin Raising
       /\ At(pt)
       /\ stats' = Counted(stats, new)
       /\ past' = [past EXCEPT !.asked = @ \cup {<<Key(deck), pt>>}, !.paid = @ + new]
       /\ answer' = answer \cup {Block(solver, deck, run, step)}
       /\ IF step < Len(Model[deck].runs[run].freqs) THEN Advance(run, step + 1)
                                              ELSE Advance(run + 1, 1)
       /\ UNCHANGED <<mode, dryKeys, order, sizes, decks, file, deck>>

\* Mutant: an exception nobody catches ends the engine.
RaiseUncaught ==
    /\ pc = "render"
    /\ Point(deck, run, step) \notin solver.fills
    /\ Model[deck].runs[run].op \in Raising
    /\ pc' = "killed"
    /\ UNCHANGED <<mode, stats, dryKeys, held, decks, file, work, past>>
\* A run that raises a type of the list prints its error, and the deck goes on
\* with the next.
Raise ==
    /\ pc = "render"
    /\ Point(deck, run, step) \notin solver.fills
    /\ Model[deck].runs[run].op \in Raising
    /\ LET n == IF Model[deck].runs[run].op \in Singular THEN 1 ELSE 0
       IN stats' = Counted(stats, n) /\ past' = [past EXCEPT !.raised = @ + n]
    /\ answer' = answer \cup {Error(run)}
    /\ Advance(run + 1, 1)
    /\ UNCHANGED <<mode, dryKeys, held, decks, file, deck, solver>>

\* render_deck catches the types it lists; the reader raises others (a frequency
\* that overflows, a line of separators), and so may a solve.  Such an exception
\* leaves the deck without its frame and ends the session.
Escapes ==
    /\ pc \in {"lookup", "render"} /\ deck \in Unlisted
    /\ pc' = "killed"
    /\ UNCHANGED <<mode, stats, dryKeys, held, decks, file, work, past>>

Payload(n) == [decks |-> n, hits |-> stats.hits, misses |-> stats.misses, fills |-> stats.fills,
               evictions |-> stats.evictions, bytes |-> stats.bytes, entries |-> Len(order),
               refused |-> past.refused]

\* Mutant: the file is written before the deck is counted.
FrameEarly ==
    /\ pc = "frame"
    /\ decks' = decks + 1
    /\ file' = IF mode.path THEN Payload(decks) ELSE file
    /\ past' = [past EXCEPT !.unwritten = FALSE]
    /\ pc' = "idle"
    /\ deck' = NoDeck /\ solver' = NoSolver /\ run' = 0 /\ step' = 0 /\ answer' = {}
    /\ UNCHANGED <<mode, stats, dryKeys, held>>
\* deck_frame's end; the write of the measurement file may fail.
Frame ==
    /\ pc = "frame"
    /\ decks' = decks + 1
    /\ \E fails \in IF mode.path THEN BOOLEAN ELSE {FALSE} :
        /\ file' = IF mode.path /\ ~fails THEN Payload(decks + 1) ELSE file
        /\ past' = [past EXCEPT !.unwritten = fails]
    /\ pc' = "idle"
    /\ deck' = NoDeck /\ solver' = NoSolver /\ run' = 0 /\ step' = 0 /\ answer' = {}
    /\ UNCHANGED <<mode, stats, dryKeys, held>>

\* SimNEC ends a session with Process.destroy.
Destroy ==
    /\ pc # "killed"
    /\ pc' = "killed"
    /\ past' = [past EXCEPT !.destroyed = TRUE]
    /\ UNCHANGED <<mode, stats, dryKeys, held, decks, file, work>>

\* The session stays where it is: ended, or at the bound.
Over ==
    /\ pc = "killed" \/ (pc = "idle" /\ decks = MaxDecks)
    /\ UNCHANGED vars

Engine == BuildsUncached \/ Refuse \/ Hit \/ Miss \/ Solve \/ Raise \/ Escapes \/ Frame
Next == Engine \/ (\E d \in Decks : Arrive(d)) \/ Destroy \/ Over

\* The engine goes on with a deck it holds; SimNEC need not send one.
Spec == Init /\ [][Next]_vars /\ WF_vars(Engine)

---------------------------------------------------------------------------
Keys == {Key(d) : d \in Decks}
PointsOf(d) == UNION {{Point(d, i, j) : j \in DOMAIN Model[d].runs[i].freqs} : i \in DOMAIN Model[d].runs}
Points == UNION {PointsOf(d) : d \in Decks}

\* Every variable has its type, and the keys of the cache, of its sizes and
\* of its recency are the same.
TypeOK ==
    /\ mode \in [serving : BOOLEAN, path : BOOLEAN]
    /\ \A c \in {"hits", "misses", "evictions", "fills"} : stats[c] \in Nat
    /\ dryKeys \subseteq Keys
    /\ DOMAIN solvers \subseteq Keys
    /\ \A k \in DOMAIN solvers :
        solvers[k] \in [built : Decks, portal : Decks, fills : SUBSET Points]
    /\ order \in Seq(DOMAIN solvers)
    /\ \A k \in DOMAIN solvers : \E i \in DOMAIN order : order[i] = k
    /\ \A i, j \in DOMAIN order : order[i] = order[j] => i = j
    /\ DOMAIN sizes = DOMAIN solvers
    /\ decks \in 0 .. MaxDecks
    /\ pc \in {"idle", "lookup", "render", "frame", "killed"}
    /\ pc \in {"lookup", "render", "frame"} => deck \in Decks
    /\ pc = "render" =>
        /\ run \in DOMAIN Model[deck].runs /\ step \in DOMAIN Model[deck].runs[run].freqs
        /\ solver \in [built : Decks, portal : Decks, fills : SUBSET Points]

\* What an engine that has just started, without the cache, prints for run i.
FreshRun(d, i) ==
    IF Model[d].runs[i].op \in Raising THEN {Error(i)}
    ELSE {Block(New(d), d, i, j) : j \in DOMAIN Model[d].runs[i].freqs}

Fresh(d) ==
    IF ~Model[d].parses \/ Refused(d) THEN {Error(0)}
    ELSE {Structure(New(d))} \cup UNION {FreshRun(d, i) : i \in DOMAIN Model[d].runs}

\* What a key leaves out and a cached solver still answers by: decks of one
\* key that agree on it are one deck to the solver.
KeyTells == \A d, e \in Decks : Key(d) = Key(e) =>
    /\ Model[d].tags = Model[e].tags
    /\ \A i \in DOMAIN Model[d].runs : Model[d].runs[i].place = Model[e].runs[i].place

\* Whatever was served before, and whichever mode, a deck's printout is the
\* one a fresh process gives: no load, source or second medium of the deck
\* the solver was built for shows in it.
AnswersAsFresh == pc = "frame" => answer = Fresh(deck)

\* Of StatsTell: hits + misses are the decks solved, refused ones in neither, and as long
\* as nothing was evicted hits are the decks whose operator had been solved
\* before: the dry run tells what serving would have saved.
HitsTellRepeats ==
    Counting =>
        /\ stats.hits + stats.misses = past.solved
        /\ stats.misses >= Cardinality(past.keys)
        /\ stats.evictions = 0 => stats.misses = Cardinality(past.keys)

\* Of StatsTell: while nothing was evicted, each operator of a structure is filled once for
\* a frequency, whatever decks asked for it; only a fill that raised is paid
\* again.
FillsOnce ==
    mode.serving /\ stats.evictions = 0 =>
        stats.fills = Cardinality(past.asked) + past.raised

\* The solver a deck is answered from is the most recent of the cache, and
\* has the deck for its portal deck: no eviction takes it away.
RenderedIsResident ==
    mode.serving /\ pc = "render" =>
        /\ order # <<>> /\ order[Len(order)] = Key(deck)
        /\ Key(deck) \in DOMAIN solvers
        /\ solvers[Key(deck)] = solver /\ solver.portal = deck

\* Of StatsTell: what the cache holds is under the cap, but for a single structure too big
\* for it and for what the last deck served has filled since it arrived.
Overshoot ==
    LET holds == Total([k \in DOMAIN solvers |-> Size(solvers[k])], DOMAIN solvers)
    IN mode.serving =>
        /\ holds <= stats.bytes + past.paid
        /\ stats.bytes <= Cap \/ Len(order) = 1

\* What the statistics of a session are for: to tell what the cache saves, how
\* often it fills and how large it is, refusals and evictions included.
StatsTell == HitsTellRepeats /\ FillsOnce /\ Overshoot

\* At whatever point the engine is destroyed, the measurement file counts
\* whole decks, and all of them but the one in hand if it could be written.
FileAtBoundary ==
    /\ file # NoFile => file.hits + file.misses + file.refused = file.decks
    /\ mode.path /\ ~past.unwritten /\ decks > 0 => file # NoFile /\ file.decks = decks

\* A deck that arrived is framed, errors and refusals included, unless SimNEC
\* destroys the engine: its reader waits for the NX.  "answer never raises"
\* (Seam) says it of every deck; the code keeps it of the decks that raise the
\* listed types only.
EveryDeckFramed ==
    pc \in {"lookup", "render", "frame"} /\ deck \notin Unlisted ~> pc = "idle" \/ past.destroyed
=============================================================================
