---------------------------- MODULE SweepAnchors ----------------------------
(***************************************************************************)
(* How a crew of worker processes comes by the ground tables of a buried   *)
(* deck's frequency sweep (_sommerfeld_below.py, get_grid_below): each     *)
(* frequency is filled exactly until the crew has asked for enough nearby  *)
(* ones, then blended from anchors, tables on a ladder that the crew shares *)
(* through the cache directory.  The processes share nothing else: the     *)
(* list of frequencies asked for and the anchors are files without a lock. *)
(*                                                                         *)
(* One soil.  A frequency is its place on the ladder, PerStep to a rung; a *)
(* size is its bucket of 1.25.  An anchor is its size and the deferred     *)
(* regions it has filled; its other regions it always has.  A file is      *)
(* loaded or stored in one step (DiskCache says why) and may be evicted.   *)
(* Tables are of a size that reaches the far annulus.                      *)
(***************************************************************************)
EXTENDS Integers, Sequences, FiniteSets, SequencesExt, Functions

CONSTANTS
    Procs,      \* the processes, by pid
    Keys,       \* the tables of the decks: frequency and size
    PerStep,    \* frequencies to one rung of the ladder
    Points,     \* _SOMM_BELOW_ANCHOR_POINTS
    Trigger,    \* _SOMM_BELOW_ANCHOR_TRIGGER
    Window,     \* _SOMM_BELOW_ANCHOR_WINDOW_STEPS, in frequencies
    SeenMax,    \* _SEEN_MAX
    AnchorMax,  \* _ANCHOR_CACHE_MAX
    Earlier,    \* sizes of the anchors earlier sweeps may have left; 0 is none
    Near, Far,  \* the deferred regions; those of Far have rows by the size
    MaxAsks,    \* bound: tables and regions asked for
    MaxFaults   \* bound: processes killed, failing writes and evicted files

Freqs == {k[1] : k \in Keys}
Sizes == {k[2] : k \in Keys}

ASSUME SweepAssumption ==
    /\ Procs \subseteq Nat /\ Keys \subseteq Nat \X (Nat \ {0}) /\ Earlier \subseteq Sizes \cup {0}
    /\ {PerStep, Points, Trigger, SeenMax, AnchorMax} \subseteq Nat \ {0}
    /\ {Window, MaxAsks, MaxFaults} \subseteq Nat
    /\ Points <= AnchorMax /\ Trigger <= SeenMax
    /\ Near \cap Far = {} /\ "none" \notin Near \cup Far

VARIABLES
    seen,      \* the file of the frequencies asked for
    anchors,   \* per rung: the anchor's file, or Absent
    exact,     \* the tables with a file of their own
    mine,      \* per process: _SWEEP_SEEN
    cache,     \* per process: _ANCHOR_CACHE, per rung
    fifo,      \* its rungs, the first put in first
    grids,     \* per process: _GRID_CACHE, and the regions filled of a blend
    pr,        \* per process: its call, see Idle
    dead,      \* the processes killed
    noted,     \* history: what the file of frequencies was told
    clean,     \* history: nothing it was told was lost
    asks, faults  \* bound counters

shared == <<seen, anchors, exact>>
held == <<mine, cache, fifo, grids>>
history == <<noted, clean>>
vars == <<shared, held, pr, dead, history, asks, faults>>

Regions == Near \cup Far
Absent == [size |-> 0, filled |-> {}]
NoKey == <<0, 0>>
None == "none"

\* _anchor_plan: the lowest of the Points rungs around a frequency.
Lowest(f) == f \div PerStep - (Points \div 2 - 1)
Plan(f) == [i \in 1 .. Points |-> Lowest(f) + i - 1]
Rungs == UNION {Range(Plan(f)) : f \in Freqs}

\* list: what it read of seen; known: what had been noted by then; left: the
\* rungs to go; grid: the anchor in hand; out: the anchors got so far; idx: the
\* region asked for; aligned: that it lies on the anchors' lattice; ready: they
\* were all there; dropped: one left the process's cache since.
Idle == [pc |-> "idle", key |-> NoKey, list |-> <<>>, known |-> {}, sweep |-> FALSE,
         left |-> <<>>, grid |-> Absent, out |-> {}, idx |-> None, aligned |-> FALSE,
         ready |-> FALSE, dropped |-> FALSE]

\* A directory of this soil's that is new, or has the anchors of earlier sweeps.
Init ==
    /\ seen = <<>> /\ exact = {}
    /\ \E n \in Earlier : anchors = [r \in Rungs |-> [Absent EXCEPT !.size = n]]
    /\ mine = [p \in Procs |-> {}] /\ grids = [p \in Procs |-> {}]
    /\ cache = [p \in Procs |-> [r \in Rungs |-> Absent]]
    /\ fifo = [p \in Procs |-> <<>>]
    /\ pr = [p \in Procs |-> Idle]
    /\ dead = {} /\ noted = {} /\ clean = TRUE /\ asks = 0 /\ faults = 0

At(p, pc) == p \notin dead /\ pr[p].pc = pc
Freq(p) == pr[p].key[1]
Size(p) == pr[p].key[2]
Becomes(p, new) == pr' = [pr EXCEPT ![p] = new]
Goes(p, pc) == Becomes(p, [pr[p] EXCEPT !.pc = pc])

\* The plan's rungs from the process's own on, wrapping around.
Walk(p, f) == [i \in 1 .. Points |-> Lowest(f) + ((p - Lowest(f) + i - 1) % Points)]

\* The frequencies of a list near to that of k, on tables of about its size.
NearBy(list, k) ==
    {l[1] : l \in {x \in list : x[1] - k[1] \in -Window .. Window /\ x[2] - k[2] \in -1 .. 1}}
Sweeps(list, k) == Cardinality(NearBy(list, k)) >= Trigger

\* Mutant: the size of the anchor is not asked after.
ServesAnySize(a, n, idx) == a # Absent /\ (idx # None => idx \in a.filled)
\* _anchor_serves.
Serves(a, n, idx) == a.size >= n /\ (idx # None => idx \in a.filled)

\* Mutant: what is on disk replaces what the process has.
AdoptTheirs(grid, other) == IF other = Absent THEN grid ELSE other
\* _adopt_regions: the larger, with the regions of the other that fit it.
Adopt(grid, other) ==
    LET grown == other.size > grid.size
        big   == IF grown THEN other ELSE grid
        small == IF grown THEN grid ELSE other
        fits  == IF small.size = big.size THEN Regions ELSE Near
    IN [big EXCEPT !.filled = @ \cup (small.filled \cap fits)]

Drops(p, r) == cache[p][r] = Absent /\ Len(fifo[p]) >= AnchorMax

\* _ANCHOR_CACHE[key] = a, with room made first.
Caches(p, r, a) ==
    LET rest == IF Drops(p, r) THEN Tail(fifo[p]) ELSE fifo[p]
        now  == IF cache[p][r] = Absent THEN Append(rest, r) ELSE rest
    IN /\ fifo' = [fifo EXCEPT ![p] = now]
       /\ cache' = [cache EXCEPT ![p] =
            [x \in Rungs |-> IF x = r THEN a ELSE IF x \in Range(now) THEN @[x] ELSE Absent]]

-----------------------------------------------------------------------------
\* get_grid_below misses in memory; the process's own list has the frequency
\* (and is shorter than _SWEEP_SEEN_MAX, where it would be cut).
Asks(p, k) ==
    /\ At(p, "idle") /\ asks < MaxAsks /\ asks' = asks + 1
    /\ {<<k, "exact">>, <<k, "blended">>} \cap grids[p] = {}
    /\ mine' = [mine EXCEPT ![p] = @ \cup {k}]
    /\ Becomes(p, [Idle EXCEPT !.pc = "noting", !.key = k])
    /\ UNCHANGED <<shared, cache, fifo, grids, dead, history, faults>>

\* A read of a blended table comes to a deferred region.
Reads(p, k, idx) ==
    /\ At(p, "idle") /\ asks < MaxAsks /\ asks' = asks + 1
    /\ <<k, "blended">> \in grids[p] /\ <<k, idx>> \notin grids[p]
    /\ Becomes(p, [Idle EXCEPT !.pc = "gathering", !.key = k, !.idx = idx,
                               !.left = Walk(p, k[1])])
    /\ UNCHANGED <<shared, held, dead, history, faults>>

\* Mutant: only what the process itself was asked counts.
DecidedAlone(p, list) ==
    [pr[p] EXCEPT !.pc = "fetching", !.list = <<>>, !.sweep = Sweeps(mine[p], pr[p].key)]
\* _is_sweep, with the list that note_seen returns.
Decided(p, list) ==
    [pr[p] EXCEPT !.pc = "fetching", !.list = <<>>,
                  !.sweep = Sweeps(mine[p] \cup Range(list), pr[p].key)]

\* note_seen reads the file; a frequency that is in it is not written.
Notes(p) ==
    /\ At(p, "noting")
    /\ LET read == IF pr[p].key \in Range(seen) THEN Decided(p, seen)
                   ELSE [pr[p] EXCEPT !.pc = "telling", !.list = seen]
       IN Becomes(p, [read EXCEPT !.known = noted])
    /\ UNCHANGED <<shared, held, dead, history, asks, faults>>

\* It writes what it read with its own at the end, whatever is there by now;
\* the write may fail.
Tells(p) ==
    /\ At(p, "telling")
    /\ LET told == Append(pr[p].list, pr[p].key)
           kept == IF Len(told) > SeenMax THEN Tail(told) ELSE told
       IN /\ Becomes(p, Decided(p, kept))
          /\ \/ /\ seen' = kept
                /\ noted' = noted \cup {pr[p].key}
                /\ clean' = (clean /\ kept = told /\ seen = pr[p].list)
                /\ UNCHANGED faults
             \/ /\ faults < MaxFaults /\ faults' = faults + 1
                /\ clean' = (clean /\ kept = told)
                /\ UNCHANGED <<seen, noted>>
    /\ UNCHANGED <<anchors, exact, held, dead, asks>>

Gets(p, kind) ==
    /\ grids' = [grids EXCEPT ![p] = @ \cup {<<pr[p].key, kind>>}]
    /\ Becomes(p, Idle)

\* A table that has a file is taken, sweep or not.
Fetches(p) ==
    /\ At(p, "fetching")
    /\ IF pr[p].key \in exact THEN Gets(p, "exact")
       ELSE /\ Becomes(p, IF pr[p].sweep
                          THEN [pr[p] EXCEPT !.pc = "gathering", !.left = Walk(p, Freq(p)),
                                                  !.known = {}, !.sweep = FALSE]
                          ELSE [pr[p] EXCEPT !.pc = "readying", !.left = Plan(Freq(p))])
            /\ UNCHANGED grids
    /\ UNCHANGED <<shared, mine, cache, fifo, dead, history, asks, faults>>

\* The anchor of rung r as _anchors_ready and _ensure_anchors find it: in
\* memory, or on disk; one that has been grown in memory is grown in place.
Found(p, r) == IF Serves(cache[p][r], Size(p), None) THEN cache[p][r] ELSE Adopt(cache[p][r], anchors[r])

\* One rung of _anchors_ready.
Readies(p) ==
    /\ At(p, "readying")
    /\ IF pr[p].left = <<>>
       THEN /\ Becomes(p, [pr[p] EXCEPT !.pc = "gathering", !.left = Walk(p, Freq(p)), !.ready = TRUE,
                                    !.known = {}])
            /\ UNCHANGED <<cache, fifo>>
       ELSE LET r == Head(pr[p].left)
                a == Found(p, r)
            IN IF Serves(a, Size(p), None)
               THEN /\ Becomes(p, [pr[p] EXCEPT !.left = Tail(@), !.dropped = @ \/ Drops(p, r)])
                    /\ Caches(p, r, a)
               ELSE /\ Goes(p, "filling")
                    /\ IF cache[p][r] # Absent /\ cache[p][r].size = a.size
                       THEN Caches(p, r, a) ELSE UNCHANGED <<cache, fifo>>
    /\ UNCHANGED <<shared, mine, grids, dead, history, asks, faults>>

\* fetch_or_fill of the exact table, which another process may have stored: the
\* same table either way.
Fills(p) ==
    /\ At(p, "filling")
    /\ Gets(p, "exact")
    /\ \/ exact' = exact \cup {pr[p].key} /\ UNCHANGED faults
       \/ faults < MaxFaults /\ faults' = faults + 1 /\ UNCHANGED exact
    /\ UNCHANGED <<seen, anchors, mine, cache, fifo, dead, history, asks>>

Wanted(p) == IF pr[p].aligned THEN pr[p].idx ELSE None

\* One rung of _ensure_anchors: from memory, else from disk, else to be grown.
Gathers(p) ==
    /\ At(p, "gathering") /\ pr[p].left # <<>>
    /\ LET r == Head(pr[p].left)
           a == IF Serves(cache[p][r], Size(p), Wanted(p)) THEN cache[p][r]
                ELSE Adopt(cache[p][r], anchors[r])
       IN IF Serves(a, Size(p), Wanted(p))
          THEN /\ Becomes(p, [pr[p] EXCEPT !.left = Tail(@), !.out = @ \cup {<<r, a>>},
                                           !.dropped = @ \/ Drops(p, r)])
               /\ Caches(p, r, a)
          ELSE /\ Becomes(p, [pr[p] EXCEPT !.pc = "growing", !.grid = a])
               /\ IF cache[p][r] # Absent /\ cache[p][r].size = a.size
                  THEN Caches(p, r, a) ELSE UNCHANGED <<cache, fifo>>
    /\ UNCHANGED <<shared, mine, grids, dead, history, asks, faults>>

\* Mutant: a worker waits for the anchor another is growing.
GrowsAlone(p) ==
    /\ At(p, "growing")
    /\ LET r == Head(pr[p].left)
           g == pr[p].grid
           a == [size   |-> IF g.size >= Size(p) THEN g.size ELSE Size(p),
                 filled |-> g.filled \cup ({Wanted(p)} \ {None})]
       IN /\ \A q \in Procs : q < p /\ pr[q].pc = "growing" => Head(pr[q].left) # r
          /\ Caches(p, r, a)
          /\ Becomes(p, [pr[p] EXCEPT !.pc = "gathering", !.left = Tail(@), !.grid = Absent,
                                      !.out = @ \cup {<<r, a>>}, !.dropped = @ \/ Drops(p, r)])
          /\ anchors' = [anchors EXCEPT ![r] = a]
    /\ UNCHANGED <<seen, exact, mine, grids, dead, history, asks, faults>>
\* The rows and the region that are missing are filled, on what the anchor has,
\* and the file is replaced by the result, whatever is there by now.
Grows(p) ==
    /\ At(p, "growing")
    /\ LET r == Head(pr[p].left)
           g == pr[p].grid
           a == [size   |-> IF g.size >= Size(p) THEN g.size ELSE Size(p),
                 filled |-> g.filled \cup ({Wanted(p)} \ {None})]
       IN /\ Caches(p, r, a)
          /\ Becomes(p, [pr[p] EXCEPT !.pc = "gathering", !.left = Tail(@), !.grid = Absent,
                                      !.out = @ \cup {<<r, a>>}, !.dropped = @ \/ Drops(p, r)])
          /\ \/ anchors' = [anchors EXCEPT ![r] = a] /\ UNCHANGED faults
             \/ faults < MaxFaults /\ faults' = faults + 1 /\ UNCHANGED anchors
    /\ UNCHANGED <<seen, exact, mine, grids, dead, history, asks>>

\* The anchors are there: a region on their lattice has them asked for again,
\* with the region filled; one off it is filled exactly.
Aligns(p) ==
    /\ At(p, "gathering") /\ pr[p].left = <<>> /\ ~pr[p].aligned
    /\ \/ /\ Becomes(p, [pr[p] EXCEPT !.aligned = TRUE, !.left = Walk(p, Freq(p)), !.out = {}])
          /\ UNCHANGED grids
       \/ Gets(p, IF pr[p].idx = None THEN "blended" ELSE pr[p].idx)
    /\ UNCHANGED <<shared, mine, cache, fifo, dead, history, asks, faults>>

\* The region's values are summed over the anchors.
Blends(p) ==
    /\ At(p, "gathering") /\ pr[p].left = <<>> /\ pr[p].aligned
    /\ Gets(p, IF pr[p].idx = None THEN "blended" ELSE pr[p].idx)
    /\ UNCHANGED <<shared, mine, cache, fifo, dead, history, asks, faults>>

\* The solve is cancelled: _cancel.poll raises between two anchors or in a fill.
Aborts(p) ==
    /\ At(p, "gathering") \/ At(p, "growing") \/ At(p, "filling")
    /\ Becomes(p, Idle)
    /\ UNCHANGED <<shared, held, dead, history, asks, faults>>

Dies(p) ==
    /\ p \notin dead /\ faults < MaxFaults /\ faults' = faults + 1
    /\ dead' = dead \cup {p}
    /\ cache' = [cache EXCEPT ![p] = [r \in Rungs |-> Absent]]
    /\ fifo' = [fifo EXCEPT ![p] = <<>>] /\ grids' = [grids EXCEPT ![p] = {}]
    /\ UNCHANGED <<shared, mine, pr, history, asks>>

\* The budget of the directory takes a file; the list of frequencies is none of
\* those it looks at.
Evicts ==
    /\ faults < MaxFaults /\ faults' = faults + 1
    /\ \/ \E r \in Rungs : anchors' = [anchors EXCEPT ![r] = Absent] /\ UNCHANGED exact
       \/ \E k \in exact : exact' = exact \ {k} /\ UNCHANGED anchors
    /\ UNCHANGED <<seen, held, pr, dead, history, asks>>

Step(p) ==
    \/ Notes(p) \/ Tells(p) \/ Fetches(p) \/ Readies(p) \/ Fills(p)
    \/ Gathers(p) \/ Grows(p) \/ Aligns(p) \/ Blends(p)

Finished ==
    /\ \A p \in Procs : p \in dead \/ pr[p].pc = "idle"
    /\ UNCHANGED vars

Next ==
    \/ \E p \in Procs :
         \/ Step(p) \/ Aborts(p) \/ Dies(p)
         \/ \E k \in Keys : Asks(p, k) \/ \E idx \in Regions : Reads(p, k, idx)
    \/ Evicts \/ Finished

\* A process that is not killed goes on with its call.
Spec == Init /\ [][Next]_vars /\ \A p \in Procs : WF_vars(Step(p))

-----------------------------------------------------------------------------
Anchors == [size : Sizes, filled : SUBSET Regions] \cup {Absent}
PCs == {"idle", "noting", "telling", "fetching", "readying", "filling",
        "gathering", "growing"}

\* Every variable has its type, and the first-in order is of the rungs cached.
TypeOK ==
    /\ seen \in Seq(Keys) /\ Len(seen) <= SeenMax
    /\ anchors \in [Rungs -> Anchors] /\ exact \subseteq Keys
    /\ mine \in [Procs -> SUBSET Keys]
    /\ grids \in [Procs -> SUBSET (Keys \X ({"exact", "blended"} \cup Regions))]
    /\ cache \in [Procs -> [Rungs -> Anchors]]
    /\ \A p \in Procs : /\ Range(fifo[p]) = {r \in Rungs : cache[p][r] # Absent}
                        /\ Len(fifo[p]) = Cardinality(Range(fifo[p])) /\ Len(fifo[p]) <= AnchorMax
    /\ \A p \in Procs :
         /\ pr[p].pc \in PCs /\ pr[p].key \in Keys \cup {NoKey}
         /\ pr[p].grid \in Anchors /\ pr[p].out \subseteq Rungs \X Anchors
         /\ pr[p].list \in Seq(Keys) /\ pr[p].left \in Seq(Rungs)
    /\ dead \subseteq Procs /\ noted \subseteq Keys /\ clean \in BOOLEAN
    /\ asks \in 0 .. MaxAsks /\ faults \in 0 .. MaxFaults

Asked == UNION {mine[p] : p \in Procs}

\* Of SweepCounted: "a lone frequency must never pay for them": a process buys anchors for a
\* table only when the crew has asked for enough frequencies near it, on tables
\* of about its size, whatever the list lost or kept.
NeverEarly ==
    \A p \in Procs :
        pr[p].pc = "growing" /\ ~pr[p].ready /\ pr[p].idx = None => Sweeps(Asked, pr[p].key)

\* Of SweepCounted: a table is filled exactly for want of a sweep
\* only if there were too few near frequencies among its process's own and, as
\* long as no two of the crew wrote the list at once and it was never full,
\* among all the crew had noted when it looked.
NoneMissed ==
    \A p \in Procs :
        pr[p].pc \in {"readying", "filling"} =>
            ~Sweeps(mine[p] \cup (IF clean THEN pr[p].known ELSE {}), pr[p].key)

\* Of SweepCounted: "so a blend costs no fill now": a process that found its anchors ready grows
\* none, unless its cache was full and dropped one while it looked.
ReadyCostsNothing ==
    \A p \in Procs : pr[p].pc = "growing" /\ pr[p].ready => pr[p].dropped

\* "A crew counts as one sweep": anchors are bought for a sweep, the crew's or
\* the process's own, and for a sweep they are not bought again.
SweepCounted == NeverEarly /\ NoneMissed /\ ReadyCostsNothing

\* A blend is summed over an anchor at each of its rungs, each of the table's
\* size at least and with the region asked for, whoever grew or replaced the
\* files and whatever left the cache between the two walks.
AnchorsServe ==
    \A p \in Procs : pr[p].pc = "gathering" /\ pr[p].left = <<>> =>
        /\ {ra[1] : ra \in pr[p].out} = Range(Plan(Freq(p)))
        /\ \A ra \in pr[p].out :
             /\ ra[2].size >= Size(p)
             /\ pr[p].aligned /\ pr[p].idx # None => pr[p].idx \in ra[2].filled

\* An anchor in a process's memory only grows, whatever smaller file another
\* process put in the place of a larger one.
NeverShrinks ==
    [][\A p \in Procs, r \in Rungs : cache[p][r] # Absent /\ cache'[p][r] # Absent =>
          /\ cache'[p][r].size >= cache[p][r].size
          /\ cache[p][r].filled \cap Near \subseteq cache'[p][r].filled]_vars

\* "Nothing waits on anything": a call ends although other processes are
\* killed in the middle of the same anchor.
EveryCallEnds == \A p \in Procs : pr[p].pc # "idle" ~> pr[p].pc = "idle" \/ p \in dead
=============================================================================
