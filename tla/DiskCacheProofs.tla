-------------------------- MODULE DiskCacheProofs --------------------------
(***************************************************************************)
(* Proofs about DiskCache, for any number of processes, keys, nodes,       *)
(* calls, failing writes and killed processes: no file is torn, no hit is  *)
(* anything but a grid, no store loses a node, and the directory fits.     *)
(***************************************************************************)
EXTENDS DiskCache, FiniteSetTheorems, SequenceTheorems, TLAPS

\* The files under names, in memory and on the way to the disk are whole, or
\* absent, or what they openly are.
Contents ==
    /\ dir \in [Keys -> Grids \cup {Absent, Foreign}]
    /\ tmp \in [Procs -> Grids \cup {Absent, Half}]
    /\ mem \in [Procs -> [Keys -> Grids \cup {Absent}]]

\* The call a process is in: it names a key; a process told of a mutation has
\* the grid, one that looks for a grid does not; and what it is about to hand
\* out or to store is a grid with at least the nodes it has in memory.
Call(p) ==
    /\ DOMAIN pr[p] = {"pc", "grow", "key", "out", "files", "total"}
    /\ pr[p].pc # "idle" => Key(p) \in Keys
    /\ At(p, "loading") =>
         mem[p][Key(p)] \in IF pr[p].grow THEN Grids ELSE {Absent}
    /\ pr[p].pc \in {"touching", "storing", "writing"} /\ p \notin dead =>
         pr[p].out \in Grids /\ mem[p][Key(p)] \subseteq pr[p].out
    /\ At(p, "replacing") => tmp[p] \in Grids /\ mem[p][Key(p)] \subseteq tmp[p]

Calls == DOMAIN pr = Procs /\ \A p \in Procs : Call(p)

CacheInv == Contents /\ Calls

-----------------------------------------------------------------------------
\* A grid is never mistaken for a file that is absent, cut short or foreign,
\* and a grid with more nodes is a grid.
LEMMA GridFacts ==
    /\ Base \in Grids
    /\ Absent \notin Grids /\ Half \notin Grids /\ Foreign \notin Grids
    /\ Half # Absent /\ Half # Foreign
    /\ \A g \in Grids : \A n \in Nodes : g \cup {n} \in Grids
    /\ \A g, h \in Grids : g \cup h \in Grids
<1> USE CacheAssumption DEF Grids, Absent, Half, Foreign
<1>1. Half # Absent /\ Half # Foreign
  OBVIOUS
<1>2. Half \notin Grids /\ Foreign \notin Grids /\ Absent \notin Grids
  OBVIOUS
<1>3. Base \in Grids /\ \A g, h \in Grids : g \cup h \in Grids
  OBVIOUS
<1>4. \A g \in Grids : \A n \in Nodes : g \cup {n} \in Grids
  OBVIOUS
<1> QED BY <1>1, <1>2, <1>3, <1>4

\* A step of one process disturbs nobody else's call: memory is its own, and
\* the temp files it may remove are those of the dead.
LEMMA OthersKept ==
    ASSUME Calls, NEW p \in Procs, NEW new, Becomes(p, new), UNCHANGED dead,
           \A q \in Procs \ {p} : /\ mem'[q] = mem[q]
                                  /\ q \notin dead => tmp'[q] = tmp[q]
    PROVE  pr'[p] = new /\ (Call(p)' => Calls')
<1>1. pr'[p] = new /\ DOMAIN pr' = Procs
  BY DEF Calls, Becomes
<1>2. ASSUME NEW q \in Procs \ {p} PROVE Call(q)'
  <2>1. pr'[q] = pr[q] /\ Call(q)
    BY DEF Calls, Becomes
  <2> QED BY <2>1 DEF Call, At, Key
<1> QED BY <1>1, <1>2 DEF Calls

LEMMA InitCacheInv == Init => CacheInv
<1> SUFFICES ASSUME Init PROVE CacheInv
  OBVIOUS
<1>1. Contents
  BY DEF Init, Contents
<1>2. Calls
  BY DEF Init, Calls, Call, Idle, At
<1> QED BY <1>1, <1>2 DEF CacheInv

-----------------------------------------------------------------------------
(* The steps of one call.                                                  *)

LEMMA FetchesStep ==
    ASSUME CacheInv, NEW p \in Procs, NEW k \in Keys, Fetches(p, k)
    PROVE  CacheInv'
<1> DEFINE new == [Idle EXCEPT !.pc = "loading", !.key = k]
<1>1. Becomes(p, new) /\ UNCHANGED <<dir, tmp, mem, dead>> /\ mem[p][k] = Absent
  BY DEF Fetches, files
<1>2. pr'[p] = new /\ (Call(p)' => Calls')
  BY <1>1, OthersKept DEF CacheInv
<1>3. Call(p)'
  BY <1>1, <1>2 DEF Call, At, Key, Idle
<1> QED BY <1>1, <1>2, <1>3 DEF CacheInv, Contents

LEMMA GrowsStep ==
    ASSUME CacheInv, NEW p \in Procs, NEW k \in Keys, NEW n \in Nodes,
           Grows(p, k, n)
    PROVE  CacheInv'
<1> DEFINE new == [Idle EXCEPT !.pc = "loading", !.key = k, !.grow = TRUE]
<1>1. /\ Becomes(p, new) /\ UNCHANGED <<dir, tmp, dead>>
      /\ mem' = [mem EXCEPT ![p][k] = @ \cup {n}] /\ mem[p][k] # Absent
  BY DEF Grows, files
<1>2. mem' \in [Procs -> [Keys -> Grids \cup {Absent}]] /\ mem'[p][k] \in Grids
  BY <1>1, GridFacts DEF CacheInv, Contents
<1>3. pr'[p] = new /\ (Call(p)' => Calls')
  BY <1>1, OthersKept DEF CacheInv, Contents
<1>4. Call(p)'
  BY <1>2, <1>3 DEF Call, At, Key, Idle
<1> QED BY <1>1, <1>2, <1>3, <1>4 DEF CacheInv, Contents

\* What is read counts only if it is whole; the union has both.
LEMMA LoadsStep ==
    ASSUME CacheInv, NEW p \in Procs, Loads(p)
    PROVE  CacheInv'
<1> DEFINE file == dir[Key(p)]
           own == mem[p][Key(p)]
           new == IF Whole(file)
                  THEN [pr[p] EXCEPT !.pc = "touching",
                                     !.out = IF pr[p].grow THEN own \cup file ELSE file]
                  ELSE [pr[p] EXCEPT !.pc = IF pr[p].grow THEN "storing" ELSE "filling",
                                     !.out = own]
<1>1. Becomes(p, new) /\ UNCHANGED <<dir, tmp, mem, dead>> /\ At(p, "loading")
  BY DEF Loads, files
<1>2. pr'[p] = new /\ (Call(p)' => Calls')
  BY <1>1, OthersKept DEF CacheInv
<1>3. /\ Key(p) \in Keys /\ own \in IF pr[p].grow THEN Grids ELSE {Absent}
      /\ DOMAIN pr[p] = {"pc", "grow", "key", "out", "files", "total"}
  BY <1>1 DEF CacheInv, Calls, Call, At
<1>4. Call(p)'
  <2>1. CASE Whole(file)
    <3>1. pr'[p] = [pr[p] EXCEPT !.pc = "touching",
                         !.out = IF pr[p].grow THEN own \cup file ELSE file]
      BY <1>2, <2>1
    <3> QED BY <1>1, <1>3, <2>1, <3>1, GridFacts DEF Call, At, Key, Whole, Absent
  <2>2. CASE ~Whole(file)
    <3>1. pr'[p] = [pr[p] EXCEPT !.pc = IF pr[p].grow THEN "storing" ELSE "filling",
                                 !.out = own]
      BY <1>2, <2>2
    <3> QED BY <1>1, <1>3, <3>1 DEF Call, At, Key
  <2> QED BY <2>1, <2>2
<1> QED BY <1>1, <1>2, <1>4 DEF CacheInv, Contents

\* A hit joins the memory; a mutation goes on to be stored.
LEMMA TouchesStep ==
    ASSUME CacheInv, NEW p \in Procs, Touches(p)
    PROVE  CacheInv'
<1>1. UNCHANGED <<dir, tmp, dead>> /\ At(p, "touching")
  BY DEF Touches
<1>2. /\ Key(p) \in Keys /\ pr[p].out \in Grids /\ mem[p][Key(p)] \subseteq pr[p].out
      /\ DOMAIN pr[p] = {"pc", "grow", "key", "out", "files", "total"}
  BY <1>1 DEF CacheInv, Calls, Call, At
<1>3. CASE pr[p].grow
  <2> DEFINE new == [pr[p] EXCEPT !.pc = "storing"]
  <2>1. Becomes(p, new) /\ UNCHANGED mem
    BY <1>3 DEF Touches, Goes
  <2>2. pr'[p] = new /\ (Call(p)' => Calls')
    BY <1>1, <2>1, OthersKept DEF CacheInv
  <2>3. Call(p)'
    BY <1>1, <1>2, <2>1, <2>2 DEF Call, At, Key
  <2> QED BY <1>1, <2>1, <2>2, <2>3 DEF CacheInv, Contents
<1>4. CASE ~pr[p].grow
  <2>1. Becomes(p, Idle) /\ mem' = [mem EXCEPT ![p][Key(p)] = pr[p].out]
    BY <1>4 DEF Touches
  <2>2. mem' \in [Procs -> [Keys -> Grids \cup {Absent}]]
    BY <1>2, <2>1 DEF CacheInv, Contents
  <2>3. pr'[p] = Idle /\ (Call(p)' => Calls')
    BY <1>1, <2>1, OthersKept DEF CacheInv, Contents
  <2>4. Call(p)'
    BY <2>3 DEF Call, At, Idle
  <2> QED BY <1>1, <2>2, <2>3, <2>4 DEF CacheInv, Contents
<1> QED BY <1>3, <1>4

LEMMA FillsStep ==
    ASSUME CacheInv, NEW p \in Procs, Fills(p)
    PROVE  CacheInv'
<1>1. UNCHANGED <<dir, tmp, dead>> /\ At(p, "filling")
  BY DEF Fills, files
<1>2. Key(p) \in Keys /\ DOMAIN pr[p] = {"pc", "grow", "key", "out", "files", "total"}
  BY <1>1 DEF CacheInv, Calls, Call, At
<1>3. CASE Becomes(p, Idle) /\ UNCHANGED mem
  <2>1. pr'[p] = Idle /\ (Call(p)' => Calls')
    BY <1>1, <1>3, OthersKept DEF CacheInv
  <2>2. Call(p)'
    BY <2>1 DEF Call, At, Idle
  <2> QED BY <1>1, <1>3, <2>1, <2>2 DEF CacheInv, Contents
<1>4. CASE /\ mem' = [mem EXCEPT ![p][Key(p)] = Base]
           /\ Becomes(p, [pr[p] EXCEPT !.pc = "storing", !.out = Base])
  <2> DEFINE new == [pr[p] EXCEPT !.pc = "storing", !.out = Base]
  <2>1. mem' \in [Procs -> [Keys -> Grids \cup {Absent}]] /\ mem'[p][Key(p)] = Base
    BY <1>2, <1>4, GridFacts DEF CacheInv, Contents
  <2>2. pr'[p] = new /\ (Call(p)' => Calls')
    BY <1>1, <1>4, OthersKept DEF CacheInv, Contents
  <2>3. Call(p)'
    BY <1>2, <2>1, <2>2, GridFacts DEF Call, At, Key
  <2> QED BY <1>1, <2>1, <2>2, <2>3 DEF CacheInv, Contents
<1> QED BY <1>3, <1>4 DEF Fills

-----------------------------------------------------------------------------
(* The steps of a store.                                                   *)

LEMMA OpensStep ==
    ASSUME CacheInv, NEW p \in Procs, Opens(p)
    PROVE  CacheInv'
<1>1. UNCHANGED <<dir, mem, dead>> /\ At(p, "storing")
  BY DEF Opens, files
<1>2. /\ Key(p) \in Keys /\ pr[p].out \in Grids /\ mem[p][Key(p)] \subseteq pr[p].out
      /\ DOMAIN pr[p] = {"pc", "grow", "key", "out", "files", "total"}
  BY <1>1 DEF CacheInv, Calls, Call, At
<1>3. CASE Becomes(p, Idle) /\ UNCHANGED tmp
  <2>1. pr'[p] = Idle /\ (Call(p)' => Calls')
    BY <1>1, <1>3, OthersKept DEF CacheInv
  <2>2. Call(p)'
    BY <2>1 DEF Call, At, Idle
  <2> QED BY <1>1, <1>3, <2>1, <2>2 DEF CacheInv, Contents
<1>4. CASE Goes(p, "writing") /\ tmp' = [tmp EXCEPT ![p] = Half]
  <2> DEFINE new == [pr[p] EXCEPT !.pc = "writing"]
  <2>1. tmp' \in [Procs -> Grids \cup {Absent, Half}]
    BY <1>4 DEF CacheInv, Contents
  <2>2. pr'[p] = new /\ (Call(p)' => Calls')
    BY <1>1, <1>4, OthersKept DEF CacheInv, Contents, Goes
  <2>3. Call(p)'
    BY <1>1, <1>2, <2>2 DEF Call, At, Key
  <2> QED BY <1>1, <2>1, <2>2, <2>3 DEF CacheInv, Contents
<1> QED BY <1>3, <1>4 DEF Opens

LEMMA WritesStep ==
    ASSUME CacheInv, NEW p \in Procs, Writes(p)
    PROVE  CacheInv'
<1> DEFINE new == [pr[p] EXCEPT !.pc = "replacing"]
<1>1. /\ UNCHANGED <<dir, mem, dead>> /\ At(p, "writing") /\ Becomes(p, new)
      /\ tmp' = [tmp EXCEPT ![p] = pr[p].out]
  BY DEF Writes, files, Goes
<1>2. /\ Key(p) \in Keys /\ pr[p].out \in Grids /\ mem[p][Key(p)] \subseteq pr[p].out
      /\ DOMAIN pr[p] = {"pc", "grow", "key", "out", "files", "total"}
  BY <1>1 DEF CacheInv, Calls, Call, At
<1>3. tmp' \in [Procs -> Grids \cup {Absent, Half}] /\ tmp'[p] = pr[p].out
  BY <1>1, <1>2 DEF CacheInv, Contents
<1>4. pr'[p] = new /\ (Call(p)' => Calls')
  BY <1>1, OthersKept DEF CacheInv, Contents
<1>5. Call(p)'
  BY <1>1, <1>2, <1>3, <1>4 DEF Call, At, Key
<1> QED BY <1>1, <1>3, <1>4, <1>5 DEF CacheInv, Contents

\* os.replace puts a whole file under the name.
LEMMA ReplacesStep ==
    ASSUME CacheInv, NEW p \in Procs, Replaces(p)
    PROVE  CacheInv'
<1> DEFINE new == [pr[p] EXCEPT !.pc = "scanning"]
<1>1. /\ UNCHANGED <<mem, dead>> /\ At(p, "replacing") /\ Becomes(p, new)
      /\ tmp' = [tmp EXCEPT ![p] = Absent]
      /\ dir' = [dir EXCEPT ![Key(p)] = tmp[p]]
  BY DEF Replaces, Goes
<1>2. /\ Key(p) \in Keys /\ tmp[p] \in Grids
      /\ DOMAIN pr[p] = {"pc", "grow", "key", "out", "files", "total"}
  BY <1>1 DEF CacheInv, Calls, Call, At
<1>3. Contents'
  BY <1>1, <1>2 DEF CacheInv, Contents
<1>4. pr'[p] = new /\ (Call(p)' => Calls')
  BY <1>1, OthersKept DEF CacheInv, Contents
<1>5. Call(p)'
  BY <1>2, <1>4 DEF Call, At, Key
<1> QED BY <1>3, <1>4, <1>5 DEF CacheInv

LEMMA StoreFailsStep ==
    ASSUME CacheInv, NEW p \in Procs, StoreFails(p)
    PROVE  CacheInv'
<1>1. /\ UNCHANGED <<dir, mem, dead>> /\ Becomes(p, Idle)
      /\ tmp' = [tmp EXCEPT ![p] = Absent]
  BY DEF StoreFails, files
<1>2. Contents'
  BY <1>1 DEF CacheInv, Contents
<1>3. pr'[p] = Idle /\ (Call(p)' => Calls')
  BY <1>1, OthersKept DEF CacheInv, Contents
<1>4. Call(p)'
  BY <1>3 DEF Call, At, Idle
<1> QED BY <1>2, <1>3, <1>4 DEF CacheInv

-----------------------------------------------------------------------------
(* The steps of an eviction.                                               *)

LEMMA ScansStep ==
    ASSUME CacheInv, NEW p \in Procs, Scans(p)
    PROVE  CacheInv'
<1>1. PICK stale \in SUBSET dead :
        tmp' = [q \in Procs |-> IF q \in stale THEN Absent ELSE tmp[q]]
  BY DEF Scans
<1> DEFINE new == [pr[p] EXCEPT
               !.pc = "evicting", !.total = Total(dir),
               !.files = [i \in DOMAIN order |-> <<order[i], Cardinality(dir[order[i]])>>]]
<1>2. Becomes(p, new)
  BY DEF Scans
<1>3. /\ UNCHANGED <<dir, mem, dead>> /\ Key(p) \in Keys
      /\ DOMAIN pr[p] = {"pc", "grow", "key", "out", "files", "total"}
  BY DEF Scans, files, CacheInv, Calls, Call, At
<1>4. Contents'
  BY <1>1, <1>3 DEF CacheInv, Contents
<1>5. pr'[p] = new /\ (Call(p)' => Calls')
  BY <1>1, <1>2, <1>3, OthersKept DEF CacheInv
<1>6. Call(p)'
  BY <1>2, <1>3, <1>5 DEF Call, At, Key
<1> QED BY <1>4, <1>5, <1>6 DEF CacheInv

\* A turn of the loop removes a file or leaves the directory alone.
LEMMA EvictsStep ==
    ASSUME CacheInv, NEW p \in Procs, Evicts(p)
    PROVE  CacheInv'
<1>1. /\ UNCHANGED <<tmp, mem, dead>>
      /\ dir' = dir \/ \E oldest : dir' = [dir EXCEPT ![oldest] = Absent]
  BY DEF Evicts
<1>2. /\ Key(p) \in Keys /\ pr[p].pc = "evicting"
      /\ DOMAIN pr[p] = {"pc", "grow", "key", "out", "files", "total"}
  BY DEF Evicts, CacheInv, Calls, Call, At
<1>3. PICK new : /\ Becomes(p, new) /\ new.pc \in {"idle", "evicting"}
                 /\ DOMAIN new = {"pc", "grow", "key", "out", "files", "total"}
                 /\ new.pc = "evicting" => new.key = Key(p)
  <2> DEFINE left == [pr[p] EXCEPT !.files = Tail(@)]
             less == [left EXCEPT !.total = @ - Head(pr[p].files)[2]]
  <2>1. Becomes(p, Idle) \/ Becomes(p, left) \/ Becomes(p, less)
    BY DEF Evicts
  <2>2. Idle.pc = "idle" /\ DOMAIN Idle = {"pc", "grow", "key", "out", "files", "total"}
    BY DEF Idle
  <2>3. /\ left.pc = "evicting" /\ left.key = Key(p) /\ DOMAIN left = DOMAIN pr[p]
        /\ less.pc = "evicting" /\ less.key = Key(p) /\ DOMAIN less = DOMAIN pr[p]
    BY <1>2 DEF Key
  <2> HIDE DEF left, less
  <2> QED BY <1>2, <2>1, <2>2, <2>3
<1>4. Contents'
  BY <1>1 DEF CacheInv, Contents
<1>5. pr'[p] = new /\ (Call(p)' => Calls')
  BY <1>1, <1>3, OthersKept DEF CacheInv
<1>6. Call(p)'
  BY <1>2, <1>3, <1>5 DEF Call, At, Key
<1> QED BY <1>4, <1>5, <1>6 DEF CacheInv

-----------------------------------------------------------------------------
\* Every step keeps the invariant; the dead keep their call and do nothing.
LEMMA StepCacheInv == CacheInv /\ [Next]_vars => CacheInv'
<1> SUFFICES ASSUME CacheInv, [Next]_vars PROVE CacheInv'
  OBVIOUS
<1>1. ASSUME NEW p \in Procs, Step(p) PROVE CacheInv'
  BY <1>1, LoadsStep, TouchesStep, FillsStep, OpensStep, WritesStep, ReplacesStep,
     StoreFailsStep, ScansStep, EvictsStep DEF Step
<1>2. ASSUME NEW p \in Procs, Dies(p) PROVE CacheInv'
  <2>1. UNCHANGED <<dir, tmp, mem, pr>> /\ dead \subseteq dead'
    BY <1>2 DEF Dies, files
  <2>2. ASSUME NEW q \in Procs PROVE Call(q)'
    <3>1. Call(q)
      BY DEF CacheInv, Calls
    <3> QED BY <2>1, <3>1 DEF Call, At, Key
  <2> QED BY <2>1, <2>2 DEF CacheInv, Contents, Calls
<1>3. CASE UNCHANGED vars
  BY <1>3 DEF vars, files, CacheInv, Contents, Calls, Call, At, Key
<1> QED
  BY <1>1, <1>2, <1>3, FetchesStep, GrowsStep DEF Next, Finished

LEMMA CacheInvariant == Spec => []CacheInv
  BY InitCacheInv, StepCacheInv, PTL DEF Spec

-----------------------------------------------------------------------------
(* The size of a directory, a sum over its keys.                           *)

\* g sums the sizes of the files of each set of keys in S.
Adds(d, S, g) ==
    g = [s \in S |->
           IF s = {} THEN 0
           ELSE LET x == CHOOSE x \in s : TRUE IN Cardinality(d[x]) + g[s \ {x}]]

\* The sets of at most n keys.
Few(n) == {s \in SUBSET Keys : Cardinality(s) <= n}

\* Nat is the only set of numbers that has 0 and, with each of its elements,
\* the next one.
LEMMA SetInduction ==
    ASSUME NEW T, T \subseteq Nat, 0 \in T, \A m \in T : m + 1 \in T
    PROVE  T = Nat
<1> DEFINE U == Nat \ T
           R == {ss \in Nat \X Nat : ss[1] < ss[2]}
<1>1. IsWellFoundedOn(R, Nat)
  BY NatLessThanWellFounded DEF OpToRel
<1>2. SUFFICES ASSUME U # {} PROVE FALSE
  OBVIOUS
<1>3. PICK x \in U : \A y \in U : ~(<<y, x>> \in R)
  BY <1>1, <1>2, WFMin
<1>4. x - 1 \in Nat /\ x - 1 < x /\ (x - 1) + 1 = x
  BY <1>3
<1>5. x - 1 \in T
  BY <1>3, <1>4
<1> QED BY <1>3, <1>4, <1>5

\* A set of keys less one of them is smaller.
LEMMA OneOfFew ==
    ASSUME NEW n \in Nat, NEW s \in Few(n + 1), NEW x \in s
    PROVE  x \in Keys /\ s \ {x} \in Few(n)
<1>1. x \in Keys
  BY DEF Few
<1>2. IsFiniteSet(s) /\ Cardinality(s) \in Nat
  BY FS_Subset, FS_CardinalityType, CacheAssumption DEF Few
<1>3. Cardinality(s \ {x}) = Cardinality(s) - 1
  BY <1>1, <1>2, FS_RemoveElement
<1> QED BY <1>1, <1>2, <1>3 DEF Few

\* With enough keys allowed the sets are all sets of keys.
LEMMA FewOfAll ==
    /\ Few(0) = {{}}
    /\ \A n \in Nat : Few(n) \subseteq Few(n + 1)
    /\ \E n \in Nat : Few(n) = SUBSET Keys
<1>1. \A s \in SUBSET Keys : IsFiniteSet(s) /\ Cardinality(s) \in Nat /\ Cardinality(s) <= Cardinality(Keys)
  BY FS_Subset, FS_CardinalityType, CacheAssumption
<1>2. Cardinality(Keys) \in Nat
  BY FS_CardinalityType, CacheAssumption
<1>3. \A s \in SUBSET Keys : Cardinality(s) <= 0 <=> s = {}
  BY <1>1, FS_EmptySet
<1>4. Few(0) = {{}}
  BY <1>3 DEF Few
<1>5. \A n \in Nat : Few(n) \subseteq Few(n + 1)
  BY <1>1 DEF Few
<1>6. Few(Cardinality(Keys)) = SUBSET Keys
  BY <1>1 DEF Few
<1> QED BY <1>2, <1>4, <1>5, <1>6

\* The recursive sum has a solution.
LEMMA AddsUp ==
    ASSUME NEW d
    PROVE  \E g : Adds(d, SUBSET Keys, g)
<1> DEFINE T == {n \in Nat : \E g : Adds(d, Few(n), g)}
<1>1. 0 \in T
  <2> DEFINE g == [s \in {{}} |-> 0]
  <2>1. g = [s \in {{}} |-> IF s = {} THEN 0
             ELSE LET x == CHOOSE x \in s : TRUE IN Cardinality(d[x]) + g[s \ {x}]]
    OBVIOUS
  <2> HIDE DEF g
  <2>2. Adds(d, Few(0), g)
    BY <2>1, FewOfAll DEF Adds
  <2> QED BY <2>2
<1>2. ASSUME NEW n \in T PROVE n + 1 \in T
  <2>0. n \in Nat
    OBVIOUS
  <2>1. PICK g : Adds(d, Few(n), g)
    OBVIOUS
  <2> DEFINE Sum(f, s) == IF s = {} THEN 0
                          ELSE LET x == CHOOSE x \in s : TRUE IN Cardinality(d[x]) + f[s \ {x}]
             h == [s \in Few(n + 1) |-> Sum(g, s)]
  <2>2. \A s \in Few(n) : h[s] = g[s]
    BY <2>0, <2>1, FewOfAll DEF Adds
  <2>3. ASSUME NEW s \in Few(n + 1) PROVE Sum(g, s) = Sum(h, s)
    <3>1. CASE s = {}
      BY <3>1
    <3>2. CASE s # {}
      <4> DEFINE x == CHOOSE x \in s : TRUE
      <4>1. x \in s
        BY <3>2
      <4>5. s \ {x} \in Few(n)
        BY <2>0, <4>1, OneOfFew
      <4>2. h[s \ {x}] = g[s \ {x}]
        BY <2>2, <4>5
      <4> HIDE DEF h
      <4> QED BY <3>2, <4>2
    <3> QED BY <3>1, <3>2
  <2>4. h = [s \in Few(n + 1) |-> Sum(h, s)]
    <3>1. h = [s \in Few(n + 1) |-> Sum(g, s)]
      OBVIOUS
    <3> HIDE DEF h, Sum
    <3> QED BY <2>3, <3>1
  <2> HIDE DEF h
  <2>5. Adds(d, Few(n + 1), h)
    BY <2>4 DEF Adds
  <2> QED BY <2>0, <2>5
<1>3. T = Nat
  <2>1. T \subseteq Nat
    OBVIOUS
  <2> HIDE DEF T
  <2> QED BY <1>1, <1>2, <2>1, SetInduction
<1>4. PICK n \in Nat : Few(n) = SUBSET Keys
  BY FewOfAll
<1>5. n \in T
  BY <1>3
<1> QED BY <1>4, <1>5

\* Total is that sum, over the keys in the order CHOOSE takes them.
Taken(s) == CHOOSE x \in s : TRUE

Summed(d, g) ==
    /\ Total(d) = g[Keys] /\ g[{}] = 0
    /\ \A s \in SUBSET Keys : s # {} =>
         /\ Taken(s) \in s
         /\ g[s] = Cardinality(d[Taken(s)]) + g[s \ {Taken(s)}]

\* The fold over the keys is such a sum.
LEMMA TotalAdds ==
    ASSUME NEW d
    PROVE  \E g : Summed(d, g)
<1>1. Total(d) = (CHOOSE g : Adds(d, SUBSET Keys, g))[Keys]
  BY DEF Total, MapThenSumSet, MapThenFoldSet, Adds
<1>2. PICK g : g = CHOOSE f : Adds(d, SUBSET Keys, f)
  OBVIOUS
<1>3. Adds(d, SUBSET Keys, g)
  BY <1>2, AddsUp
<1>4. ASSUME NEW s \in SUBSET Keys, s # {}
      PROVE  g[s] = Cardinality(d[Taken(s)]) + g[s \ {Taken(s)}] /\ Taken(s) \in s
  BY <1>3, <1>4 DEF Adds, Taken
<1>5. g[{}] = 0
  <2>1. {} \in SUBSET Keys
    OBVIOUS
  <2> QED BY <1>3, <2>1 DEF Adds
<1>6. Total(d) = g[Keys]
  BY <1>1, <1>2
<1> QED BY <1>4, <1>5, <1>6 DEF Summed

\* Files have sizes.
Sized(d) == \A k \in Keys : Cardinality(d[k]) \in Nat

\* The size of a directory is a number; a file that goes takes its own from it.
LEMMA SumsTyped ==
    ASSUME NEW d, Sized(d), NEW g, Summed(d, g)
    PROVE  \A s \in SUBSET Keys : g[s] \in Nat
<1> DEFINE T == {n \in Nat : \A s \in Few(n) : g[s] \in Nat}
<1>0. g[{}] = 0
  BY DEF Summed
<1>1. 0 \in T
  <2>1. ASSUME NEW s \in Few(0) PROVE g[s] \in Nat
    <3>1. s = {}
      BY FewOfAll
    <3> QED BY <1>0, <3>1
  <2> QED BY <2>1
<1>2. ASSUME NEW n \in T PROVE n + 1 \in T
  <2>1. ASSUME NEW s \in Few(n + 1), s # {} PROVE g[s] \in Nat
    <3>1. g[s] = Cardinality(d[Taken(s)]) + g[s \ {Taken(s)}] /\ Taken(s) \in s
      BY <2>1 DEF Few, Summed
    <3>2. s \ {Taken(s)} \in Few(n) /\ Taken(s) \in Keys
      BY <3>1, OneOfFew
    <3> QED BY <3>1, <3>2 DEF Sized
  <2>2. ASSUME NEW s \in Few(n + 1) PROVE g[s] \in Nat
    BY <1>0, <2>1
  <2>3. n + 1 \in Nat
    OBVIOUS
  <2> QED BY <2>2, <2>3
<1>3. T = Nat
  <2>1. T \subseteq Nat
    OBVIOUS
  <2> HIDE DEF T
  <2> QED BY <1>1, <1>2, <2>1, SetInduction
<1>4. PICK n \in Nat : Few(n) = SUBSET Keys
  BY FewOfAll
<1> QED BY <1>3, <1>4

LEMMA TotalTyped ==
    ASSUME NEW d, Sized(d)
    PROVE  Total(d) \in Nat
<1>1. PICK g : Summed(d, g)
  BY TotalAdds
<1>2. g[Keys] \in Nat
  BY <1>1, SumsTyped
<1> QED BY <1>1, <1>2 DEF Summed

LEMMA TotalLess ==
    ASSUME NEW d, Sized(d), NEW o \in Keys, NEW e, e[o] = Absent,
           \A k \in Keys \ {o} : e[k] = d[k]
    PROVE  Total(e) = Total(d) - Cardinality(d[o])
<1>1. PICK g : Summed(d, g)
  BY TotalAdds
<1>2. PICK h : Summed(e, h)
  BY TotalAdds
<1>3. \A s \in SUBSET Keys : g[s] \in Nat
  BY <1>1, SumsTyped
<1>4. Cardinality(e[o]) = 0 /\ Cardinality(d[o]) \in Nat
  BY FS_EmptySet DEF Absent, Sized
<1> DEFINE Less(s) == h[s] = g[s] - (IF o \in s THEN Cardinality(d[o]) ELSE 0)
           T == {n \in Nat : \A s \in Few(n) : Less(s)}
<1>0. Less({})
  BY <1>1, <1>2 DEF Summed
<1>5. 0 \in T
  BY <1>0, FewOfAll
<1>6. ASSUME NEW n \in T PROVE n + 1 \in T
  <2>1. ASSUME NEW s \in Few(n + 1), s # {} PROVE Less(s)
    <3> DEFINE x == Taken(s)
    <3>1. /\ g[s] = Cardinality(d[x]) + g[s \ {x}] /\ x \in s
          /\ h[s] = Cardinality(e[x]) + h[s \ {x}]
      BY <1>1, <1>2, <2>1 DEF Few, Summed
    <3>2. s \ {x} \in Few(n) /\ x \in Keys
      BY <3>1, OneOfFew
    <3>3. Less(s \ {x}) /\ g[s \ {x}] \in Nat /\ Cardinality(d[x]) \in Nat
      BY <1>3, <3>2 DEF Few, Sized
    <3> HIDE DEF x
    <3>4. CASE x = o
      BY <1>4, <3>1, <3>3, <3>4
    <3>5. CASE x # o
      BY <1>4, <3>1, <3>2, <3>3, <3>5
    <3> QED BY <3>4, <3>5
  <2>2. ASSUME NEW s \in Few(n + 1) PROVE Less(s)
    <3> HIDE DEF Less
    <3> QED BY <1>0, <2>1
  <2>3. n + 1 \in Nat
    OBVIOUS
  <2> HIDE DEF Less
  <2> QED BY <2>2, <2>3
<1>7. T = Nat
  <2>1. T \subseteq Nat
    OBVIOUS
  <2> HIDE DEF T
  <2> QED BY <1>5, <1>6, <2>1, SetInduction
<1>8. PICK n \in Nat : Few(n) = SUBSET Keys
  BY FewOfAll
<1>9. Less(Keys)
  BY <1>7, <1>8
<1> QED BY <1>1, <1>2, <1>9 DEF Summed
-----------------------------------------------------------------------------
(* The order of use.                                                       *)

\* o lists the keys of S, each once.
Lists(o, S) == o \in Seq(Keys) /\ IsInjective(o) /\ ToSet(o) = S

\* A sequence less its i-th element.
LEMMA RemovedAt ==
    ASSUME NEW o \in Seq(Keys), NEW i \in 1..Len(o)
    PROVE  /\ RemoveAt(o, i) \in Seq(Keys)
           /\ Len(RemoveAt(o, i)) = Len(o) - 1
           /\ \A j \in 1..Len(o) - 1 : RemoveAt(o, i)[j] = IF j < i THEN o[j] ELSE o[j + 1]
<1>1. PICK n \in Nat : n = Len(o)
  OBVIOUS
<1> DEFINE a == SubSeq(o, 1, i - 1)
           b == SubSeq(o, i + 1, n)
<1>2. i \in 1..n /\ i - 1 \in Nat /\ n - i \in Nat
  BY <1>1
<1>3. a \in Seq(Keys) /\ Len(a) = i - 1 /\ \A j \in 1..i - 1 : a[j] = o[j]
  BY <1>1, <1>2
<1>4. b \in Seq(Keys) /\ Len(b) = n - i /\ \A j \in 1..n - i : b[j] = o[i + j]
  BY <1>1, <1>2
<1> HIDE DEF a, b
<1>5. /\ a \o b \in Seq(Keys) /\ Len(a \o b) = n - 1
      /\ \A j \in 1..n - 1 : (a \o b)[j] = IF j <= i - 1 THEN a[j] ELSE b[j - (i - 1)]
  <2>1. /\ a \o b \in Seq(Keys) /\ Len(a \o b) = Len(a) + Len(b)
        /\ \A j \in 1..Len(a) + Len(b) : (a \o b)[j] = IF j <= Len(a) THEN a[j] ELSE b[j - Len(a)]
    BY <1>3, <1>4, ConcatProperties
  <2>2. Len(a) + Len(b) = n - 1
    BY <1>2, <1>3, <1>4
  <2> QED BY <1>3, <2>1, <2>2
<1>6. ASSUME NEW j \in 1..n - 1
      PROVE  (a \o b)[j] = IF j < i THEN o[j] ELSE o[j + 1]
  <2>1. CASE j < i
    BY <1>2, <1>3, <1>5, <2>1
  <2>2. CASE ~(j < i)
    <3>1. j - (i - 1) \in 1..n - i /\ i + (j - (i - 1)) = j + 1 /\ ~(j <= i - 1)
      BY <1>2, <2>2
    <3> QED BY <1>4, <1>5, <2>2, <3>1
  <2> QED BY <2>1, <2>2
<1>7. RemoveAt(o, i) = a \o b
  BY <1>1 DEF RemoveAt, a, b
<1> QED BY <1>1, <1>5, <1>6, <1>7

\* A key removed, and a key put last, leave every other key listed once.
LEMMA RemovesFirst ==
    ASSUME NEW S, NEW o, Lists(o, S), NEW k \in Keys
    PROVE  Lists(RemoveFirst(o, k), S \ {k})
<1>1. PICK n \in Nat : n = Len(o) /\ DOMAIN o = 1..n
  BY DEF Lists
<1>2. CASE \E i \in 1..n : o[i] = k
  <2>1. PICK i \in 1..n : o[i] = k
    BY <1>2
  <2> DEFINE I == {j \in 1..n : o[j] = k}
             r == RemoveAt(o, i)
  <2>2. I = {i}
    BY <1>1, <2>1 DEF Lists, IsInjective
  <2>3. Min(I) = i
    BY <2>2 DEF Min
  <2>4. RemoveFirst(o, k) = r
    BY <1>1, <1>2, <2>2, <2>3 DEF RemoveFirst, SelectInSeq
  <2>5. /\ r \in Seq(Keys) /\ Len(r) = n - 1 /\ DOMAIN r = 1..n - 1
        /\ \A j \in 1..n - 1 : r[j] = IF j < i THEN o[j] ELSE o[j + 1]
    BY <1>1, RemovedAt DEF Lists
  <2> HIDE DEF r
  <2> DEFINE old(j) == IF j < i THEN j ELSE j + 1
  <2>6. \A j \in 1..n - 1 : old(j) \in 1..n /\ old(j) # i /\ r[j] = o[old(j)]
    BY <1>1, <2>5
  <2>7. \A j, m \in 1..n - 1 : old(j) = old(m) => j = m
    BY <1>1
  <2>8. IsInjective(r)
    <3> HIDE DEF old
    <3>1. ASSUME NEW j \in 1..n - 1, NEW m \in 1..n - 1, r[j] = r[m] PROVE j = m
      <4>1. old(j) \in DOMAIN o /\ old(m) \in DOMAIN o /\ o[old(j)] = o[old(m)]
        BY <1>1, <2>6, <3>1
      <4>2. old(j) = old(m)
        BY <4>1, Zenon DEF IsInjective, Lists
      <4> QED BY <2>7, <4>2
    <3> QED BY <2>5, <3>1, Zenon DEF IsInjective
  <2>9. ASSUME NEW j \in 1..n - 1 PROVE r[j] \in S \ {k}
    <3> DEFINE m == old(j)
    <3>1. m \in 1..n /\ m # i /\ r[j] = o[m]
      BY <2>6
    <3> HIDE DEF m
    <3> QED BY <1>1, <2>1, <3>1 DEF ToSet, Lists, IsInjective
  <2>10. ASSUME NEW x \in S \ {k} PROVE x \in ToSet(r)
    <3>1. PICK j \in 1..n : o[j] = x
      BY <1>1 DEF Lists, ToSet
    <3>2. CASE j < i
      <4>1. j \in 1..n - 1 /\ r[j] = x
        BY <2>5, <3>1, <3>2
      <4> QED BY <2>5, <4>1 DEF ToSet
    <3>3. CASE j > i
      <4>1. j - 1 \in 1..n - 1 /\ ~(j - 1 < i) /\ (j - 1) + 1 = j
        BY <3>3
      <4>2. r[j - 1] = x
        BY <2>5, <3>1, <4>1
      <4> QED BY <2>5, <4>1, <4>2 DEF ToSet
    <3> QED BY <2>1, <3>1, <3>2, <3>3
  <2>11. ToSet(r) \subseteq S \ {k}
    BY <2>5, <2>9 DEF ToSet
  <2> QED BY <2>4, <2>5, <2>8, <2>10, <2>11 DEF Lists
<1>3. CASE ~\E i \in 1..n : o[i] = k
  <2>1. RemoveFirst(o, k) = o
    BY <1>1, <1>3 DEF RemoveFirst
  <2>2. k \notin S
    BY <1>1, <1>3 DEF Lists, ToSet
  <2> QED BY <2>1, <2>2
<1> QED BY <1>2, <1>3

LEMMA Renewed ==
    ASSUME NEW S, NEW o, Lists(o, S), NEW k \in Keys
    PROVE  Lists(Append(RemoveFirst(o, k), k), S \cup {k})
<1> DEFINE r == RemoveFirst(o, k)
<1>1. Lists(r, S \ {k})
  BY RemovesFirst
<1> HIDE DEF r
<1>2. PICK n \in Nat : n = Len(r) /\ DOMAIN r = 1..n
  BY <1>1 DEF Lists
<1>3. /\ Append(r, k) \in Seq(Keys) /\ DOMAIN Append(r, k) = 1..n + 1
      /\ Append(r, k)[n + 1] = k /\ \A j \in 1..n : Append(r, k)[j] = r[j]
  BY <1>1, <1>2 DEF Lists
<1>4. \A j \in 1..n : r[j] # k
  BY <1>1, <1>2 DEF Lists, ToSet
<1>5. IsInjective(Append(r, k))
  <2> SUFFICES ASSUME NEW a \in 1..n + 1, NEW b \in 1..n + 1, Append(r, k)[a] = Append(r, k)[b]
               PROVE  a = b
    BY <1>3 DEF IsInjective
  <2>1. CASE a \in 1..n /\ b \in 1..n
    BY <1>1, <1>2, <1>3, <2>1 DEF Lists, IsInjective
  <2>2. CASE a = n + 1 \/ b = n + 1
    BY <1>3, <1>4, <2>2
  <2> QED BY <2>1, <2>2
<1>6. ToSet(Append(r, k)) = ToSet(r) \cup {k}
  <2>1. \A j \in 1..n : j \in 1..n + 1
    OBVIOUS
  <2>2. n + 1 \in 1..n + 1 /\ \A j \in 1..n + 1 : j \in 1..n \/ j = n + 1
    OBVIOUS
  <2> QED BY <1>2, <1>3, <2>1, <2>2 DEF ToSet
<1> QED BY <1>1, <1>3, <1>5, <1>6 DEF Lists, r
---------------------------------------------------------------------
(* The budget.                                                             *)

\* What the scan of call c found: keys with sizes, and a total.
Found(c) == c.files \in Seq(Keys \X Nat) /\ c.total \in Int

\* The eviction of call c over directory d: the total it goes by is not less
\* than the size of the directory, every file there still is, but for the one
\* the call wrote, is ahead of it, and with its size.
Going(d, c) ==
    /\ Total(d) <= c.total
    /\ \A k \in Keys : d[k] # Absent /\ k # c.key =>
         \E i \in DOMAIN c.files : c.files[i][1] = k
    /\ \A i \in DOMAIN c.files :
         d[c.files[i][1]] # Absent => Cardinality(d[c.files[i][1]]) = c.files[i][2]

\* A directory that fits, or of one file.
Fits(d) == Total(d) <= Limit \/ \E only : \A k \in Keys : d[k] # Absent => k = only

\* The eviction of the last process to write is on its way, or has come to its
\* end and the directory fits.
Kept ==
    latest # None =>
        /\ latest \in Procs
        /\ At(latest, "evicting") => Going(dir, pr[latest])
        /\ latest \notin dead /\ pr[latest].pc \notin {"scanning", "evicting"} => Fits(dir)

Listing == Lists(order, {k \in Keys : dir[k] # Absent})
Scanned == \A p \in Procs : At(p, "evicting") => Found(pr[p])

SizeInv == Listing /\ Scanned /\ Kept

\* What is under names is finite.
LEMMA DirSized ==
    ASSUME Contents
    PROVE  Sized(dir)
<1>1. ASSUME NEW k \in Keys PROVE IsFiniteSet(dir[k])
  <2>1. dir[k] \in SUBSET Nodes \/ dir[k] = {} \/ dir[k] = {Alien}
    BY DEF Contents, Grids, Absent, Foreign
  <2>2. IsFiniteSet({}) /\ IsFiniteSet({Alien})
    BY FS_EmptySet, FS_Singleton
  <2>3. ASSUME dir[k] \in SUBSET Nodes PROVE IsFiniteSet(dir[k])
    BY <2>3, FS_Subset, CacheAssumption
  <2> QED BY <2>1, <2>2, <2>3
<1> QED BY <1>1, FS_CardinalityType DEF Sized

\* e is directory d less the file of key o.
Less(d, e, o) == e[o] = Absent /\ \A k \in Keys \ {o} : e[k] = d[k]

\* Whoever removes a file, what fits does and what goes on goes on.
LEMMA FitsLess ==
    ASSUME NEW d, Sized(d), NEW o \in Keys, NEW e, Less(d, e, o), Fits(d)
    PROVE  Fits(e)
<1>1. Total(e) = Total(d) - Cardinality(d[o]) /\ Total(d) \in Nat /\ Cardinality(d[o]) \in Nat
  BY TotalLess, TotalTyped DEF Less, Sized
<1>2. CASE Total(d) <= Limit
  BY <1>1, <1>2, CacheAssumption DEF Fits
<1>3. ASSUME NEW only, \A k \in Keys : d[k] # Absent => k = only
      PROVE  Fits(e)
  BY <1>3 DEF Fits, Less
<1> QED BY <1>2, <1>3 DEF Fits

LEMMA GoingLess ==
    ASSUME NEW d, Sized(d), NEW o \in Keys, NEW e, Less(d, e, o),
           NEW c, Found(c), Going(d, c)
    PROVE  Going(e, c)
<1>1. Total(e) = Total(d) - Cardinality(d[o]) /\ Total(d) \in Nat /\ Cardinality(d[o]) \in Nat
  BY TotalLess, TotalTyped DEF Less, Sized
<1>2. Total(e) <= c.total
  BY <1>1 DEF Going, Found
<1>3. \A i \in DOMAIN c.files : c.files[i][1] \in Keys
  BY DEF Found
<1>4. \A k \in Keys : e[k] # Absent => e[k] = d[k]
  BY DEF Less
<1> QED BY <1>2, <1>3, <1>4 DEF Going

\* The loop leaves the file it comes to, where it is the one just written or
\* gone.
LEMMA GoingPast ==
    ASSUME NEW d, NEW c, Found(c), Going(d, c), c.files # <<>>,
           Head(c.files)[1] = c.key \/ d[Head(c.files)[1]] = Absent,
           NEW t, Found(t), t.files = Tail(c.files), t.key = c.key, t.total = c.total
    PROVE  Going(d, t)
<1>1. PICK n \in Nat : n = Len(c.files) /\ DOMAIN c.files = 1..n /\ n # 0
  BY EmptySeq DEF Found
<1>2. /\ DOMAIN t.files = 1..n - 1 /\ \A i \in 1..n - 1 : t.files[i] = c.files[i + 1]
      /\ Head(c.files) = c.files[1]
  BY <1>1, HeadTailProperties DEF Found
<1>3. ASSUME NEW k \in Keys, d[k] # Absent, k # t.key
      PROVE  \E i \in DOMAIN t.files : t.files[i][1] = k
  <2>1. PICK i \in 1..n : c.files[i][1] = k
    BY <1>1, <1>3 DEF Going
  <2>2. i # 1
    BY <1>2, <1>3, <2>1
  <2>3. i - 1 \in 1..n - 1 /\ (i - 1) + 1 = i
    BY <2>2
  <2>4. t.files[i - 1] = c.files[i]
    BY <1>2, <2>3
  <2> QED BY <1>2, <2>1, <2>3, <2>4
<1>4. ASSUME NEW i \in DOMAIN t.files, d[t.files[i][1]] # Absent
      PROVE  Cardinality(d[t.files[i][1]]) = t.files[i][2]
  <2>1. i \in 1..n - 1 /\ i + 1 \in 1..n /\ t.files[i] = c.files[i + 1]
    BY <1>2
  <2> QED BY <1>1, <1>4, <2>1 DEF Going
<1> QED BY <1>3, <1>4 DEF Going

\* The loop removes the file it comes to.
LEMMA GoingOn ==
    ASSUME NEW d, Sized(d), NEW c, Found(c), Going(d, c), c.files # <<>>,
           d[Head(c.files)[1]] # Absent,
           NEW e, Less(d, e, Head(c.files)[1]),
           NEW t, Found(t), t.files = Tail(c.files), t.key = c.key,
           t.total = c.total - Head(c.files)[2]
    PROVE  Going(e, t)
<1>1. PICK n \in Nat : n = Len(c.files) /\ DOMAIN c.files = 1..n /\ n # 0
  BY EmptySeq DEF Found
<1>2. /\ DOMAIN t.files = 1..n - 1 /\ \A i \in 1..n - 1 : t.files[i] = c.files[i + 1]
      /\ Head(c.files) = c.files[1]
  BY <1>1, HeadTailProperties DEF Found
<1>3. PICK o \in Keys : o = Head(c.files)[1]
  BY <1>1, <1>2 DEF Found
<1>4. Cardinality(d[o]) = Head(c.files)[2]
  BY <1>1, <1>2, <1>3 DEF Going
<1>5. Total(e) = Total(d) - Cardinality(d[o]) /\ Total(d) \in Nat /\ Cardinality(d[o]) \in Nat
  BY <1>3, TotalLess, TotalTyped DEF Less, Sized
<1>6. Total(e) <= t.total
  BY <1>4, <1>5 DEF Going, Found
<1>7. \A k \in Keys : e[k] # Absent => e[k] = d[k] /\ k # o
  BY <1>3 DEF Less
<1>8. ASSUME NEW k \in Keys, e[k] # Absent, k # t.key
      PROVE  \E i \in DOMAIN t.files : t.files[i][1] = k
  <2>1. PICK i \in 1..n : c.files[i][1] = k
    BY <1>1, <1>7, <1>8 DEF Going
  <2>2. i # 1
    BY <1>2, <1>3, <1>7, <1>8, <2>1
  <2>3. i - 1 \in 1..n - 1 /\ (i - 1) + 1 = i
    BY <2>2
  <2>4. t.files[i - 1] = c.files[i]
    BY <1>2, <2>3
  <2> QED BY <1>2, <2>1, <2>3, <2>4
<1>9. ASSUME NEW i \in DOMAIN t.files, e[t.files[i][1]] # Absent
      PROVE  Cardinality(e[t.files[i][1]]) = t.files[i][2]
  <2>1. i \in 1..n - 1 /\ i + 1 \in 1..n /\ t.files[i] = c.files[i + 1]
    BY <1>2
  <2>2. t.files[i][1] \in Keys
    <3>1. PICK f : f = t.files
      OBVIOUS
    <3>2. f \in Seq(Keys \X Nat)
      BY <3>1 DEF Found
    <3>3. f[i] \in Keys \X Nat
      BY <3>1, <3>2
    <3> QED BY <3>1, <3>3
  <2>3. e[t.files[i][1]] = d[t.files[i][1]]
    BY <1>7, <1>9, <2>2
  <2> QED BY <1>1, <1>9, <2>1, <2>3 DEF Going
<1> QED BY <1>6, <1>8, <1>9 DEF Going

\* The loop ends.
LEMMA GoingEnds ==
    ASSUME NEW d, Sized(d), NEW c, Found(c), Going(d, c), c.files = <<>> \/ c.total <= Limit
    PROVE  Fits(d)
<1>1. CASE c.files = <<>>
  <2>1. DOMAIN c.files = {}
    BY <1>1
  <2>2. \A k \in Keys : d[k] # Absent => k = c.key
    BY <2>1 DEF Going
  <2> QED BY <2>2 DEF Fits
<1>2. CASE c.total <= Limit
  <2>1. Total(d) \in Nat /\ Limit \in Nat
    BY TotalTyped, CacheAssumption
  <2> QED BY <1>2, <2>1 DEF Fits, Going, Found
<1> QED BY <1>1, <1>2
----------------------------------------------------------------------
(* The steps keep the budget.                                              *)

\* An order of all the files there are lists each once.
LEMMA InitSizeInv == Init => SizeInv
<1> SUFFICES ASSUME Init PROVE SizeInv
  OBVIOUS
<1> DEFINE S == {k \in Keys : dir[k] # Absent}
<1>1. PICK U \in SUBSET S : order \in SetToSeqs(U)
  BY DEF Init, SetToAllKPermutations
<1>2. PICK n \in Nat : n = Cardinality(U) /\ IsFiniteSet(S) /\ IsFiniteSet(U)
  BY FS_Subset, FS_CardinalityType, CacheAssumption
<1>3. order \in [1..n -> U] /\ \A i, j \in 1..n : i # j => order[i] # order[j]
  BY <1>1, <1>2 DEF SetToSeqs
<1>4. order \in Seq(Keys) /\ Len(order) = n /\ DOMAIN order = 1..n
  BY <1>3
<1>5. U = S
  BY <1>2, <1>4, FS_Subset DEF Init
<1>6. ToSet(order) = U
  <2>1. order \in Injection(1..n, U)
    BY <1>3 DEF Injection, IsInjective
  <2>2. Cardinality(1..n) = n
    BY FS_Interval
  <2>3. order \in Surjection(1..n, U)
    BY <1>2, <2>1, <2>2, FS_Injection
  <2> QED BY <1>4, <1>3, <2>3 DEF Surjection, ToSet
<1>7. Listing
  BY <1>3, <1>4, <1>5, <1>6 DEF Listing, Lists, IsInjective
<1>8. Scanned /\ Kept
  BY DEF Init, Scanned, Kept, At, Idle
<1> QED BY <1>7, <1>8 DEF SizeInv

\* The steps that neither write nor remove a file, and are of no eviction.
LEMMA ElsewhereKept ==
    ASSUME CacheInv, SizeInv, NEW p \in Procs, NEW new, Becomes(p, new),
           UNCHANGED <<dir, latest, dead>>,
           pr[p].pc \notin {"scanning", "evicting"}, new.pc \notin {"scanning", "evicting"}
    PROVE  Scanned' /\ Kept'
<1>1. pr'[p] = new /\ \A q \in Procs \ {p} : pr'[q] = pr[q]
  BY DEF CacheInv, Calls, Becomes
<1>2. Scanned'
  BY <1>1 DEF SizeInv, Scanned, At, Found
<1>3. Kept'
  BY <1>1 DEF SizeInv, Kept, At
<1> QED BY <1>2, <1>3

\* p's call goes on to c, in no eviction.
Elsewhere(p, c) == Becomes(p, c) /\ c.pc \notin {"scanning", "evicting"}

\* All the steps of that kind; a touch changes the order only.
LEMMA ElsewhereSize ==
    ASSUME CacheInv, SizeInv, NEW p \in Procs,
           \/ Loads(p) \/ Fills(p) \/ Opens(p) \/ Writes(p) \/ StoreFails(p) \/ Touches(p)
           \/ \E k \in Keys : Fetches(p, k) \/ \E n \in Nodes : Grows(p, k, n)
    PROVE  SizeInv'
<1>1. UNCHANGED <<dir, latest, dead>>
  BY DEF Loads, Fills, Opens, Writes, StoreFails, Touches, Fetches, Grows, files
<1>2. pr[p].pc \notin {"scanning", "evicting"}
  BY DEF Loads, Fills, Opens, Writes, StoreFails, Touches, Fetches, Grows, At
<1>3. DOMAIN pr[p] = {"pc", "grow", "key", "out", "files", "total"}
  BY DEF CacheInv, Calls, Call
<1>4. Idle.pc = "idle"
  BY DEF Idle
<1>5. \A pc, o : [pr[p] EXCEPT !.pc = pc].pc = pc /\ [pr[p] EXCEPT !.pc = pc, !.out = o].pc = pc
  BY <1>3
<1>6. ASSUME NEW pc \in {"storing", "writing", "replacing"}, Goes(p, pc)
      PROVE  \E c : Elsewhere(p, c)
  <2> DEFINE c == [pr[p] EXCEPT !.pc = pc]
  <2>1. Becomes(p, c) /\ c.pc = pc
    BY <1>5, <1>6 DEF Goes
  <2> HIDE DEF c
  <2> QED BY <2>1 DEF Elsewhere
<1>7. ASSUME Becomes(p, Idle) PROVE \E c : Elsewhere(p, c)
  BY <1>4, <1>7 DEF Elsewhere
<1>8. ASSUME Loads(p) PROVE \E c : Elsewhere(p, c)
  <2> DEFINE file == dir[Key(p)]
             own == mem[p][Key(p)]
             hit == [pr[p] EXCEPT !.pc = "touching",
                                  !.out = IF pr[p].grow THEN own \cup file ELSE file]
             miss == [pr[p] EXCEPT !.pc = IF pr[p].grow THEN "storing" ELSE "filling",
                                   !.out = own]
  <2>1. Becomes(p, IF Whole(file) THEN hit ELSE miss)
    BY <1>8 DEF Loads
  <2>2. hit.pc = "touching" /\ miss.pc \in {"storing", "filling"}
    BY <1>5
  <2> HIDE DEF hit, miss
  <2> QED BY <2>1, <2>2 DEF Elsewhere
<1>9. ASSUME Fills(p) PROVE \E c : Elsewhere(p, c)
  <2> DEFINE c == [pr[p] EXCEPT !.pc = "storing", !.out = Base]
  <2>1. Becomes(p, c) \/ Becomes(p, Idle)
    BY <1>9 DEF Fills
  <2>2. c.pc = "storing"
    BY <1>5
  <2> HIDE DEF c
  <2> QED BY <1>7, <2>1, <2>2 DEF Elsewhere
<1>10. ASSUME Opens(p) \/ Writes(p) \/ StoreFails(p) \/ Touches(p) PROVE \E c : Elsewhere(p, c)
  BY <1>6, <1>7, <1>10 DEF Opens, Writes, StoreFails, Touches
<1>11. ASSUME NEW k \in Keys, Fetches(p, k) \/ \E n \in Nodes : Grows(p, k, n)
       PROVE  \E c : Elsewhere(p, c)
  <2> DEFINE a == [Idle EXCEPT !.pc = "loading", !.key = k]
             b == [Idle EXCEPT !.pc = "loading", !.key = k, !.grow = TRUE]
  <2>1. Becomes(p, a) \/ Becomes(p, b)
    BY <1>11 DEF Fetches, Grows
  <2>2. a.pc = "loading" /\ b.pc = "loading"
    BY DEF Idle
  <2> HIDE DEF a, b
  <2> QED BY <2>1, <2>2 DEF Elsewhere
<1>12. \E c : Elsewhere(p, c)
  BY <1>8, <1>9, <1>10, <1>11
<1>13. Scanned' /\ Kept'
  BY <1>1, <1>2, <1>12, ElsewhereKept DEF Elsewhere
<1>14. Listing'
  <2>1. order' = order \/ (Newest(Key(p)) /\ dir[Key(p)] # Absent /\ Key(p) \in Keys)
    BY DEF Loads, Fills, Opens, Writes, StoreFails, Touches, Fetches, Grows, files,
           CacheInv, Calls, Call, At
  <2>2. CASE order' = order
    BY <1>1, <2>2 DEF SizeInv, Listing
  <2>3. CASE Newest(Key(p)) /\ dir[Key(p)] # Absent /\ Key(p) \in Keys
    <3> DEFINE S == {k \in Keys : dir[k] # Absent}
    <3>1. Lists(order', S \cup {Key(p)})
      BY <2>3, Renewed DEF SizeInv, Listing, Newest
    <3>2. S \cup {Key(p)} = S
      BY <2>3
    <3> QED BY <1>1, <3>1, <3>2 DEF Listing
  <2> QED BY <2>1, <2>2, <2>3
<1> QED BY <1>13, <1>14 DEF SizeInv

\* A file written is scanned for next.
LEMMA ReplacesSize ==
    ASSUME CacheInv, SizeInv, NEW p \in Procs, Replaces(p)
    PROVE  SizeInv'
<1> DEFINE new == [pr[p] EXCEPT !.pc = "scanning"]
           S == {k \in Keys : dir[k] # Absent}
<1>1. /\ UNCHANGED dead /\ Becomes(p, new) /\ latest' = p
      /\ dir' = [dir EXCEPT ![Key(p)] = tmp[p]] /\ Newest(Key(p))
  BY DEF Replaces, Goes
<1>2. Key(p) \in Keys /\ tmp[p] \in Grids /\ p \notin dead
      /\ DOMAIN pr[p] = {"pc", "grow", "key", "out", "files", "total"}
  BY DEF Replaces, CacheInv, Calls, Call, At
<1>3. pr'[p].pc = "scanning" /\ \A q \in Procs \ {p} : pr'[q] = pr[q]
  BY <1>1, <1>2 DEF CacheInv, Calls, Becomes
<1>4. Scanned'
  BY <1>1, <1>3 DEF SizeInv, Scanned, At, Found
<1>5. Kept'
  BY <1>1, <1>3 DEF Kept, At
<1>6. tmp[p] # Absent
  BY <1>2, GridFacts
<1>7. {k \in Keys : dir'[k] # Absent} = S \cup {Key(p)}
  BY <1>1, <1>2, <1>6 DEF CacheInv, Contents
<1>8. Listing'
  <2>1. Lists(order', S \cup {Key(p)})
    BY <1>1, <1>2, Renewed DEF SizeInv, Listing, Newest
  <2> QED BY <1>7, <2>1 DEF Listing
<1> QED BY <1>4, <1>5, <1>8 DEF SizeInv

\* A scan finds every file, with its size.
LEMMA ScansSize ==
    ASSUME CacheInv, SizeInv, NEW p \in Procs, Scans(p)
    PROVE  SizeInv'
<1> DEFINE list == [i \in DOMAIN order |-> <<order[i], Cardinality(dir[order[i]])>>]
           new == [pr[p] EXCEPT !.pc = "evicting", !.total = Total(dir), !.files = list]
<1>1. UNCHANGED <<dir, order, latest, dead>> /\ Becomes(p, new) /\ p \notin dead /\ pr[p].pc = "scanning"
  BY DEF Scans, files, At
<1>2. DOMAIN pr[p] = {"pc", "grow", "key", "out", "files", "total"} /\ Sized(dir)
  BY DirSized DEF CacheInv, Calls, Call
<1>3. /\ pr'[p].files = list /\ pr'[p].total = Total(dir) /\ pr'[p].pc = "evicting"
      /\ \A q \in Procs \ {p} : pr'[q] = pr[q]
  BY <1>1, <1>2 DEF CacheInv, Calls, Becomes
<1>4. PICK n \in Nat : n = Len(order) /\ DOMAIN order = 1..n
  BY DEF SizeInv, Listing, Lists
<1>5. \A i \in 1..n : order[i] \in Keys /\ list[i] = <<order[i], Cardinality(dir[order[i]])>>
  BY <1>4 DEF SizeInv, Listing, Lists
<1>6. list \in Seq(Keys \X Nat) /\ DOMAIN list = 1..n
  BY <1>2, <1>4, <1>5 DEF Sized
<1> HIDE DEF list
<1>7. Found(pr[p])'
  BY <1>2, <1>3, <1>6, TotalTyped DEF Found
<1>8. Going(dir, pr'[p])
  <2>1. \A k \in Keys : dir[k] # Absent => \E i \in 1..n : order[i] = k
    BY <1>4 DEF SizeInv, Listing, Lists, ToSet
  <2>2. \A k \in Keys : dir[k] # Absent => \E i \in 1..n : list[i][1] = k
    BY <1>5, <2>1
  <2>3. \A i \in 1..n : Cardinality(dir[list[i][1]]) = list[i][2]
    BY <1>5
  <2>4. Total(dir) <= Total(dir)
    BY <1>2, TotalTyped
  <2> QED BY <1>3, <1>6, <2>2, <2>3, <2>4 DEF Going
<1>9. Scanned'
  BY <1>1, <1>3, <1>7 DEF SizeInv, Scanned, At, Found
<1>10. Kept'
  BY <1>1, <1>3, <1>8 DEF SizeInv, Kept, At
<1>11. Listing'
  BY <1>1 DEF SizeInv, Listing
<1> QED BY <1>9, <1>10, <1>11 DEF SizeInv

\* A turn of the loop ends the eviction, passes a file by or removes it; of an
\* eviction that is not the last writer's only what it removes matters.
LEMMA EvictsSize ==
    ASSUME CacheInv, SizeInv, NEW p \in Procs, Evicts(p)
    PROVE  SizeInv'
<1> DEFINE c == pr[p]
           oldest == Head(c.files)[1]
           left == [c EXCEPT !.files = Tail(@)]
           less == [left EXCEPT !.total = @ - Head(c.files)[2]]
<1>1. UNCHANGED <<latest, dead>> /\ p \notin dead /\ c.pc = "evicting" /\ Found(c)
  BY DEF Evicts, At, SizeInv, Scanned
<1>2. DOMAIN c = {"pc", "grow", "key", "out", "files", "total"} /\ Sized(dir)
  BY DirSized DEF CacheInv, Calls, Call
<1>3. ASSUME NEW new, Becomes(p, new)
      PROVE  pr'[p] = new /\ \A q \in Procs \ {p} : pr'[q] = pr[q]
  BY <1>3 DEF CacheInv, Calls, Becomes
<1>4. CASE (c.files = <<>> \/ c.total <= Limit) /\ Becomes(p, Idle) /\ UNCHANGED <<dir, order>>
  <2>1. pr'[p] = Idle /\ \A q \in Procs \ {p} : pr'[q] = pr[q]
    BY <1>3, <1>4
  <2>2. Idle.pc = "idle"
    BY DEF Idle
  <2>3. latest = p /\ latest # None => Fits(dir)
    <3> SUFFICES ASSUME latest = p, latest # None PROVE Fits(dir)
      OBVIOUS
    <3>1. Going(dir, c)
      BY <1>1 DEF SizeInv, Kept, At
    <3> QED BY <1>1, <1>2, <1>4, <3>1, GoingEnds
  <2>4. Scanned' /\ Listing'
    BY <1>1, <1>4, <2>1, <2>2 DEF SizeInv, Scanned, Listing, At, Found
  <2>5. Kept'
    BY <1>1, <1>4, <2>1, <2>2, <2>3 DEF SizeInv, Kept, At
  <2> QED BY <2>4, <2>5 DEF SizeInv
<1>5. ASSUME c.files # <<>>
      PROVE  /\ Head(c.files) \in Keys \X Nat /\ Tail(c.files) \in Seq(Keys \X Nat)
             /\ left.files = Tail(c.files) /\ left.key = c.key /\ left.total = c.total
             /\ left.pc = "evicting" /\ Found(left)
             /\ less.files = Tail(c.files) /\ less.key = c.key
             /\ less.total = c.total - Head(c.files)[2]
             /\ less.pc = "evicting" /\ Found(less)
  <2>1. Head(c.files) \in Keys \X Nat /\ Tail(c.files) \in Seq(Keys \X Nat)
    BY <1>1, <1>5, HeadTailProperties DEF Found
  <2> QED BY <1>1, <1>2, <2>1 DEF Found
<1>6. CASE /\ c.files # <<>> /\ (oldest = Key(p) \/ dir[oldest] = Absent)
           /\ Becomes(p, left) /\ UNCHANGED <<dir, order>>
  <2>1. pr'[p] = left /\ \A q \in Procs \ {p} : pr'[q] = pr[q]
    BY <1>3, <1>6
  <2> HIDE DEF left, less
  <2>2. latest = p /\ latest # None => Going(dir, left)
    <3> SUFFICES ASSUME latest = p, latest # None PROVE Going(dir, left)
      OBVIOUS
    <3>1. Going(dir, c)
      BY <1>1 DEF SizeInv, Kept, At
    <3> QED BY <1>1, <1>5, <1>6, <3>1, GoingPast DEF Key
  <2>3. Scanned' /\ Listing'
    BY <1>1, <1>5, <1>6, <2>1 DEF SizeInv, Scanned, Listing, At, Found
  <2>4. Kept'
    BY <1>1, <1>5, <1>6, <2>1, <2>2 DEF SizeInv, Kept, At
  <2> QED BY <2>3, <2>4 DEF SizeInv
<1>7. CASE /\ c.files # <<>> /\ dir[oldest] # Absent
           /\ dir' = [dir EXCEPT ![oldest] = Absent] /\ order' = RemoveFirst(order, oldest)
           /\ Becomes(p, less)
  <2>1. pr'[p] = less /\ \A q \in Procs \ {p} : pr'[q] = pr[q]
    BY <1>3, <1>7
  <2> HIDE DEF left, less
  <2>2. PICK o \in Keys : o = oldest
    BY <1>5, <1>7
  <2>3. Less(dir, dir', o)
    BY <1>7, <2>2 DEF Less, CacheInv, Contents
  <2>4. latest # None /\ latest = p => Going(dir', less)
    <3> SUFFICES ASSUME latest = p, latest # None PROVE Going(dir', less)
      OBVIOUS
    <3>1. Going(dir, c)
      BY <1>1 DEF SizeInv, Kept, At
    <3> QED BY <1>1, <1>2, <1>5, <1>7, <2>2, <2>3, <3>1, GoingOn
  <2>5. Scanned'
    BY <1>1, <1>5, <1>7, <2>1 DEF SizeInv, Scanned, At, Found
  <2>6. Listing'
    <3> DEFINE S == {k \in Keys : dir[k] # Absent}
    <3>1. Lists(order', S \ {o})
      BY <1>7, <2>2, RemovesFirst DEF SizeInv, Listing
    <3>2. {k \in Keys : dir'[k] # Absent} = S \ {o}
      BY <2>2, <2>3 DEF Less
    <3> QED BY <3>1, <3>2 DEF Listing
  <2>7. ASSUME latest # None, latest # p PROVE Kept'
    <3>1. latest \in Procs /\ pr'[latest] = pr[latest]
      BY <2>1, <2>7 DEF SizeInv, Kept
    <3>2. ASSUME At(latest, "evicting") PROVE Going(dir', pr[latest])
      <4>1. Going(dir, pr[latest]) /\ Found(pr[latest])
        BY <2>7, <3>1, <3>2 DEF SizeInv, Kept, Scanned
      <4> QED BY <1>2, <2>3, <4>1, GoingLess
    <3>3. latest \notin dead /\ pr[latest].pc \notin {"scanning", "evicting"} => Fits(dir')
      BY <1>2, <2>3, <2>7, FitsLess DEF SizeInv, Kept
    <3> QED BY <1>1, <3>1, <3>2, <3>3 DEF Kept, At
  <2>8. ASSUME latest # None, latest = p PROVE Kept'
    BY <1>1, <1>5, <1>7, <2>1, <2>4, <2>8 DEF Kept, At
  <2>9. Kept'
    BY <1>1, <2>7, <2>8 DEF Kept
  <2> QED BY <2>5, <2>6, <2>9 DEF SizeInv
<1> QED BY <1>4, <1>6, <1>7 DEF Evicts

\* Every step keeps the budget.
LEMMA StepSizeInv == CacheInv /\ SizeInv /\ [Next]_vars => SizeInv'
<1> SUFFICES ASSUME CacheInv, SizeInv, [Next]_vars PROVE SizeInv'
  OBVIOUS
<1>1. ASSUME NEW p \in Procs, Step(p) PROVE SizeInv'
  BY <1>1, ElsewhereSize, ReplacesSize, ScansSize, EvictsSize DEF Step
<1>2. ASSUME NEW p \in Procs, Dies(p) PROVE SizeInv'
  BY <1>2 DEF Dies, files, SizeInv, Listing, Scanned, Kept, At, Found
<1>3. CASE UNCHANGED vars
  BY <1>3 DEF vars, files, SizeInv, Listing, Scanned, Kept, At, Found
<1> QED BY <1>1, <1>2, <1>3, ElsewhereSize DEF Next, Finished

\* At most one file, in a directory of which the order is kept.
LEMMA OneFile ==
    ASSUME Listing, NEW only, \A k \in Keys : dir[k] # Absent => k = only
    PROVE  Len(order) <= 1
<1>1. PICK n \in Nat : n = Len(order) /\ DOMAIN order = 1..n
  BY DEF Listing, Lists
<1>2. \A i \in 1..n : order[i] = only
  BY <1>1 DEF Listing, Lists, ToSet
<1>3. n <= 1
  <2> SUFFICES ASSUME n > 1 PROVE FALSE
    BY <1>1
  <2>1. 1 \in 1..n /\ 2 \in 1..n
    BY <1>1
  <2> QED BY <1>1, <1>2, <2>1 DEF Listing, Lists, IsInjective
<1> QED BY <1>1, <1>3

-----------------------------------------------------------------------------
\* No file under a key's name is ever cut short (_store's temp file and
\* os.replace).
THEOREM Untorn == Spec => []NeverTorn
<1>1. CacheInv => NeverTorn
  BY GridFacts DEF CacheInv, Contents, NeverTorn
<1> QED BY <1>1, CacheInvariant, PTL

\* Whatever is on disk, what fetch_or_fill hands out is a grid (_load verifies).
THEOREM HandedOutWhole == Spec => []ServedWhole
<1>1. CacheInv => ServedWhole
  BY DEF CacheInv, Contents, ServedWhole, Whole
<1> QED BY <1>1, CacheInvariant, PTL

\* A store writes at least the nodes its process holds (note_mutated's union).
THEOREM NothingLost == Spec => []StoresAll
<1>1. CacheInv => StoresAll
  BY DEF CacheInv, Calls, Call, StoresAll
<1> QED BY <1>1, CacheInvariant, PTL

\* _evict: once the last process to write has ended its call, the directory
\* fits the budget, unless a single file does not, whatever others wrote and
\* removed meanwhile.
THEOREM DirectoryFits == Spec => []Budget
<1>1. SizeInv => Budget
  BY OneFile DEF SizeInv, Kept, Fits, Budget
<1> QED BY <1>1, CacheInvariant, InitSizeInv, StepSizeInv, PTL DEF Spec
=============================================================================
