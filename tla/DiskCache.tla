----------------------------- MODULE DiskCache -----------------------------
(***************************************************************************)
(* The directory of tabulated grids that every momwire process of a user   *)
(* shares (_somm_disk_cache.py): loads that verify, stores by a temp file  *)
(* and os.replace, eviction by a scan followed by unlinks.  No lock.       *)
(*                                                                         *)
(* A file is the set of its parts: a grid's is the nodes filled so far, and *)
(* a file cut short or of another format has a part of that name.  Absent  *)
(* is no part at all.  The scan of a directory and the stats of its        *)
(* entries are one step.                                                   *)
(***************************************************************************)
EXTENDS Integers, Sequences, FiniteSets, SequencesExt, FiniteSetsExt

CONSTANTS
    Procs, Keys, Nodes,
    Base,        \* the nodes of a fresh grid
    None,
    Cut, Alien,  \* the parts of a file cut short and of one that does not verify
    Limit,       \* max_bytes
    MaxCalls,    \* bound: calls of one process
    MaxFaults,   \* bound: failing writes
    MaxDeaths    \* bound: processes killed

ASSUME CacheAssumption ==
    /\ IsFiniteSet(Keys) /\ IsFiniteSet(Nodes) /\ Base \subseteq Nodes /\ Base # {}
    /\ Cut \notin Nodes /\ Alien \notin Nodes /\ Cut # Alien /\ None \notin Keys
    /\ {Limit, MaxCalls, MaxFaults, MaxDeaths} \subseteq Nat

VARIABLES
    dir,      \* per key: the file under its name, or Absent
    order,    \* the keys with a file, the least recently used first
    tmp,      \* per process: its temp file, or Absent
    mem,      \* per process and key: the grid in memory, or Absent
    pr,       \* per process: pc, key, out (to be stored), files and total
              \* (what its scan found)
    warned,   \* _WRITE_WARNED: the processes that gave up storing
    dead,     \* the processes killed
    latest,   \* history: the last process to replace a file
    calls, faults  \* bound counters, see MaxCalls and MaxFaults

bounds == <<calls, faults>>
files == <<dir, order, latest>>
vars == <<files, tmp, mem, pr, warned, dead, bounds>>

Grids == {g \in SUBSET Nodes : Base \subseteq g}
Absent == {}
Half == {Cut}
Foreign == {Alien}
Total(d) == MapThenSumSet(LAMBDA k : Cardinality(d[k]), Keys)
Whole(file) == file \in Grids

Idle == [pc |-> "idle", grow |-> FALSE, key |-> None, out |-> Absent,
         files |-> <<>>, total |-> 0]

\* A directory left by earlier processes, of whatever size.
Init ==
    /\ dir \in [Keys -> Grids \cup {Absent, Foreign}]
    /\ order \in SetToAllKPermutations({k \in Keys : dir[k] # Absent})
    /\ Len(order) = Cardinality({k \in Keys : dir[k] # Absent})
    /\ tmp = [p \in Procs |-> Absent]
    /\ mem = [p \in Procs |-> [k \in Keys |-> Absent]]
    /\ pr = [p \in Procs |-> Idle]
    /\ warned = {} /\ dead = {} /\ latest = None
    /\ calls = [p \in Procs |-> 0] /\ faults = 0

At(p, pc) == p \notin dead /\ pr[p].pc = pc
Key(p) == pr[p].key
Becomes(p, new) == pr' = [pr EXCEPT ![p] = new]
Goes(p, pc) == Becomes(p, [pr[p] EXCEPT !.pc = pc])
Newest(k) == order' = Append(RemoveFirst(order, k), k)

-----------------------------------------------------------------------------
\* fetch_or_fill, on a miss in memory.
Fetches(p, k) ==
    /\ At(p, "idle") /\ mem[p][k] = Absent /\ calls[p] < MaxCalls
    /\ Becomes(p, [Idle EXCEPT !.pc = "loading", !.key = k])
    /\ calls' = [calls EXCEPT ![p] = @ + 1]
    /\ UNCHANGED <<files, tmp, mem, warned, dead, faults>>

\* A lazy grid fills a node and note_mutated is called.
Grows(p, k, n) ==
    /\ At(p, "idle") /\ mem[p][k] # Absent /\ n \notin mem[p][k] /\ calls[p] < MaxCalls
    /\ mem' = [mem EXCEPT ![p][k] = @ \cup {n}]
    /\ Becomes(p, [Idle EXCEPT !.pc = "loading", !.key = k, !.grow = TRUE])
    /\ calls' = [calls EXCEPT ![p] = @ + 1]
    /\ UNCHANGED <<files, tmp, warned, dead, faults>>

\* Mutant: what is read is not verified.
LoadsUnchecked(p) ==
    /\ At(p, "loading")
    /\ LET file == dir[Key(p)] IN
         IF file = Absent
         THEN Becomes(p, [pr[p] EXCEPT !.pc = IF pr[p].grow THEN "storing" ELSE "filling",
                                       !.out = mem[p][Key(p)]])
         ELSE Becomes(p, [pr[p] EXCEPT !.pc = "touching", !.out = file])
    /\ UNCHANGED <<files, tmp, mem, warned, dead, bounds>>

\* Mutant: note_mutated stores what is stored, not the union.
LoadsTheirs(p) ==
    /\ At(p, "loading")
    /\ LET file == dir[Key(p)] IN
         Becomes(p, IF Whole(file)
                    THEN [pr[p] EXCEPT !.pc = "touching", !.out = file]
                    ELSE [pr[p] EXCEPT !.pc = IF pr[p].grow THEN "storing" ELSE "filling",
                                       !.out = mem[p][Key(p)]])
    /\ UNCHANGED <<files, tmp, mem, warned, dead, bounds>>

\* _load up to the verified grid: anything but a whole file is a miss.
\* note_mutated stores the union of its grid and what is stored.
Loads(p) ==
    /\ At(p, "loading")
    /\ LET file == dir[Key(p)]
           own == mem[p][Key(p)]
       IN Becomes(p,
            IF Whole(file)
            THEN [pr[p] EXCEPT !.pc = "touching",
                               !.out = IF pr[p].grow THEN own \cup file ELSE file]
            ELSE [pr[p] EXCEPT !.pc = IF pr[p].grow THEN "storing" ELSE "filling",
                               !.out = own])
    /\ UNCHANGED <<files, tmp, mem, warned, dead, bounds>>

\* os.utime, on whatever is under the name by now; then a hit is handed out.
Touches(p) ==
    /\ At(p, "touching")
    /\ IF dir[Key(p)] = Absent THEN UNCHANGED order ELSE Newest(Key(p))
    /\ IF pr[p].grow
       THEN Goes(p, "storing") /\ UNCHANGED mem
       ELSE Becomes(p, Idle) /\ mem' = [mem EXCEPT ![p][Key(p)] = pr[p].out]
    /\ UNCHANGED <<dir, latest, tmp, warned, dead, bounds>>

\* fill() returns a fresh grid, or raises and nothing is written.
Fills(p) ==
    /\ At(p, "filling")
    /\ \/ /\ mem' = [mem EXCEPT ![p][Key(p)] = Base]
          /\ Becomes(p, [pr[p] EXCEPT !.pc = "storing", !.out = Base])
       \/ Becomes(p, Idle) /\ UNCHANGED mem
    /\ UNCHANGED <<files, tmp, warned, dead, bounds>>

\* Mutant: the file is written under its own name.
OpensInPlace(p) ==
    /\ At(p, "storing")
    /\ IF p \in warned THEN Becomes(p, Idle) /\ UNCHANGED <<tmp, dir, order>>
       ELSE /\ Goes(p, "writing")
            /\ tmp' = [tmp EXCEPT ![p] = Half]
            /\ dir' = [dir EXCEPT ![Key(p)] = Half]
            /\ Newest(Key(p))
    /\ UNCHANGED <<latest, mem, warned, dead, bounds>>

\* _store opens a temp file of its own; a process that was refused once does not.
Opens(p) ==
    /\ At(p, "storing")
    /\ IF p \in warned THEN Becomes(p, Idle) /\ UNCHANGED tmp
       ELSE /\ Goes(p, "writing")
            /\ tmp' = [tmp EXCEPT ![p] = Half]
    /\ UNCHANGED <<files, mem, warned, dead, bounds>>

Writes(p) ==
    /\ At(p, "writing")
    /\ tmp' = [tmp EXCEPT ![p] = pr[p].out]
    /\ Goes(p, "replacing")
    /\ UNCHANGED <<files, mem, warned, dead, bounds>>

Replaces(p) ==
    /\ At(p, "replacing")
    /\ dir' = [dir EXCEPT ![Key(p)] = tmp[p]] /\ Newest(Key(p)) /\ latest' = p
    /\ tmp' = [tmp EXCEPT ![p] = Absent]
    /\ Goes(p, "scanning")
    /\ UNCHANGED <<mem, warned, dead, bounds>>

\* The write or the replace raises: the temp file goes, and a process that finds
\* no file under the name gives up storing.
StoreFails(p) ==
    /\ At(p, "writing") \/ At(p, "replacing")
    /\ faults < MaxFaults /\ faults' = faults + 1
    /\ tmp' = [tmp EXCEPT ![p] = Absent]
    /\ warned' = IF dir[Key(p)] = Absent THEN warned \cup {p} ELSE warned
    /\ Becomes(p, Idle)
    /\ UNCHANGED <<files, mem, dead, calls>>

\* _evict's scan; temp files of an hour ago, which no running process has, go.
Scans(p) ==
    /\ At(p, "scanning")
    /\ \E stale \in SUBSET dead :
         tmp' = [q \in Procs |-> IF q \in stale THEN Absent ELSE tmp[q]]
    /\ Becomes(p, [pr[p] EXCEPT
         !.pc = "evicting", !.total = Total(dir),
         !.files = [i \in DOMAIN order |-> <<order[i], Cardinality(dir[order[i]])>>]])
    /\ UNCHANGED <<files, mem, warned, dead, bounds>>

\* Mutant: a write removes one file at most.
EvictsOne(p) ==
    /\ At(p, "evicting")
    /\ IF pr[p].files = <<>> \/ pr[p].total <= Limit
       THEN Becomes(p, Idle) /\ UNCHANGED <<dir, order>>
       ELSE LET oldest == Head(pr[p].files)[1]
                left == [pr[p] EXCEPT !.files = Tail(@)]
            IN IF oldest = Key(p) \/ dir[oldest] = Absent
               THEN Becomes(p, left) /\ UNCHANGED <<dir, order>>
               ELSE /\ dir' = [dir EXCEPT ![oldest] = Absent]
                    /\ order' = RemoveFirst(order, oldest)
                    /\ Becomes(p, Idle)
    /\ UNCHANGED <<latest, tmp, mem, warned, dead, bounds>>

\* One turn of _evict's loop over what its scan found: the file just written
\* stays, a file that is gone is not counted, the rest goes oldest first until
\* the total fits.
Evicts(p) ==
    /\ At(p, "evicting")
    /\ IF pr[p].files = <<>> \/ pr[p].total <= Limit
       THEN Becomes(p, Idle) /\ UNCHANGED <<dir, order>>
       ELSE LET oldest == Head(pr[p].files)[1]
                left == [pr[p] EXCEPT !.files = Tail(@)]
            IN IF oldest = Key(p) \/ dir[oldest] = Absent
               THEN Becomes(p, left) /\ UNCHANGED <<dir, order>>
               ELSE /\ dir' = [dir EXCEPT ![oldest] = Absent]
                    /\ order' = RemoveFirst(order, oldest)
                    /\ Becomes(p, [left EXCEPT !.total = @ - Head(pr[p].files)[2]])
    /\ UNCHANGED <<latest, tmp, mem, warned, dead, bounds>>

\* Killed at any point; its temp file stays.
Dies(p) ==
    /\ p \notin dead /\ Cardinality(dead) < MaxDeaths
    /\ dead' = dead \cup {p}
    /\ UNCHANGED <<files, tmp, mem, pr, warned, bounds>>

Step(p) ==
    \/ Loads(p) \/ Touches(p) \/ Fills(p) \/ Opens(p) \/ Writes(p)
    \/ Replaces(p) \/ StoreFails(p) \/ Scans(p) \/ Evicts(p)

Finished ==
    /\ \A p \in Procs : p \in dead \/ pr[p].pc = "idle"
    /\ UNCHANGED vars

Next ==
    \/ \E p \in Procs :
         \/ Step(p) \/ Dies(p)
         \/ \E k \in Keys : Fetches(p, k) \/ \E n \in Nodes : Grows(p, k, n)
    \/ Finished

Spec == Init /\ [][Next]_vars

-----------------------------------------------------------------------------
PCs == {"idle", "loading", "touching", "filling", "storing", "writing",
        "replacing", "scanning", "evicting"}

\* The type of the state; order lists the files there are, each once.
TypeOK ==
    /\ dir \in [Keys -> Grids \cup {Absent, Half, Foreign}]
    /\ IsInjective(order) /\ ToSet(order) = {k \in Keys : dir[k] # Absent}
    /\ tmp \in [Procs -> Grids \cup {Absent, Half}]
    /\ mem \in [Procs -> [Keys -> SUBSET Nodes \cup {Half, Foreign}]]
    /\ \A p \in Procs :
         /\ pr[p].pc \in PCs /\ pr[p].key \in Keys \cup {None}
         /\ pr[p].out \in SUBSET Nodes \cup {Half, Foreign}
         /\ pr[p].files \in Seq(Keys \X Nat) /\ pr[p].total \in Int
    /\ warned \subseteq Procs /\ dead \subseteq Procs
    /\ latest \in Procs \cup {None}
    /\ calls \in [Procs -> 0..MaxCalls] /\ faults \in 0..MaxFaults

\* "A reader never sees a partial write": whoever dies or fails, and however
\* many write one key, no file under a key's name is cut short.
NeverTorn == \A k \in Keys : dir[k] # Half

\* "Never an error": a grid handed out is a grid, whatever is on disk.
ServedWhole == \A p \in Procs, k \in Keys : mem[p][k] # Absent => Whole(mem[p][k])

\* A fill is never undone in memory nor lost on the way to a file: a process
\* that stores writes at least what it holds of the grid.
StoresAll ==
    \A p \in Procs : At(p, "replacing") => mem[p][Key(p)] \subseteq tmp[p]

\* Eviction: once the last process to write a file has ended its call, the
\* directory fits, whatever other processes wrote and removed meanwhile, unless
\* a single file is too large by itself.
Budget ==
    latest # None /\ latest \notin dead /\ pr[latest].pc \notin {"scanning", "evicting"}
        => Total(dir) <= Limit \/ Len(order) <= 1
=============================================================================
