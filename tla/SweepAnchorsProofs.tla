------------------------ MODULE SweepAnchorsProofs ------------------------
(***************************************************************************)
(* Proofs about SweepAnchors, for any crew, any tables and any number of   *)
(* calls, killed processes, failing writes and evicted files: when anchors *)
(* are bought, what a blend is summed over, and that an anchor in memory   *)
(* only grows.                                                             *)
(***************************************************************************)
EXTENDS SweepAnchors, SequenceTheorems, FiniteSetTheorems, TLAPS

\* A call, field by field (Idle says what they are).
Calls == [pc : PCs, key : Keys \cup {NoKey}, list : Seq(Keys), known : SUBSET Keys,
          sweep : BOOLEAN, left : Seq(Rungs), grid : Anchors, out : SUBSET (Rungs \X Anchors),
          idx : Regions \cup {None}, aligned : BOOLEAN, ready : BOOLEAN, dropped : BOOLEAN]

Typed ==
    /\ seen \in Seq(Keys) /\ anchors \in [Rungs -> Anchors]
    /\ mine \in [Procs -> SUBSET Keys]
    /\ cache \in [Procs -> [Rungs -> Anchors]] /\ fifo \in [Procs -> Seq(Rungs)]
    /\ pr \in [Procs -> Calls] /\ noted \subseteq Keys /\ clean \in BOOLEAN

\* The file of frequencies has what the crew was asked, and all it was told as
\* long as nothing was lost.
ListKept ==
    /\ Range(seen) \subseteq Asked
    /\ clean => noted \subseteq Range(seen)

\* The list a process has read, and what it decides from it.
Counts(p) ==
    /\ pr[p].pc # "idle" => pr[p].key \in Keys
    /\ pr[p].pc \in {"noting", "telling"} => pr[p].key \in mine[p]
    /\ Range(pr[p].list) \subseteq Asked
    /\ pr[p].pc = "telling" /\ clean => pr[p].known \subseteq Range(pr[p].list)
    /\ pr[p].sweep => pr[p].key \in Keys /\ Sweeps(Asked, pr[p].key)
    /\ pr[p].pc \in {"gathering", "growing"} /\ ~pr[p].ready /\ pr[p].idx = None =>
         Sweeps(Asked, pr[p].key)
    /\ (pr[p].pc = "fetching" /\ ~pr[p].sweep) \/ pr[p].pc \in {"readying", "filling"} =>
         ~Sweeps(mine[p] \cup (IF clean THEN pr[p].known ELSE {}), pr[p].key)

\* The walk over a table's rungs: the anchors got and the rungs to go are the
\* plan, and each anchor got serves.
Walks(p) ==
    /\ pr[p].pc \in {"noting", "telling", "fetching", "readying", "filling"} =>
         pr[p].out = {} /\ ~pr[p].aligned /\ pr[p].idx = None /\ ~pr[p].ready
    /\ pr[p].pc = "readying" => Range(pr[p].left) \subseteq Range(Plan(Freq(p)))
    /\ pr[p].pc \in {"gathering", "growing"} =>
         /\ {ra[1] : ra \in pr[p].out} \cup Range(pr[p].left) = Range(Plan(Freq(p)))
         /\ \A ra \in pr[p].out : Serves(ra[2], Size(p), Wanted(p))
    /\ pr[p].pc = "growing" => pr[p].left # <<>>
    /\ pr[p].ready => pr[p].idx = None

\* What a process has in memory is in its first-in order; the anchors it found
\* ready are there still, unless one was dropped; and the anchor it grows is at
\* least what it has.
Holds(p) ==
    /\ \A r \in Rungs : cache[p][r] # Absent => r \in Range(fifo[p])
    /\ p \notin dead /\ ~pr[p].dropped =>
         /\ pr[p].pc = "readying" =>
              \A r \in Range(Plan(Freq(p))) \ Range(pr[p].left) : cache[p][r].size >= Size(p)
         /\ pr[p].pc = "gathering" /\ pr[p].ready =>
              \A r \in Range(Plan(Freq(p))) : cache[p][r].size >= Size(p)
    /\ pr[p].pc = "growing" /\ pr[p].ready => pr[p].dropped
    /\ p \notin dead /\ pr[p].pc = "growing" =>
         LET had == cache[p][Head(pr[p].left)]
         IN pr[p].grid.size >= had.size /\ had.filled \cap Near \subseteq pr[p].grid.filled

SweepInv ==
    /\ Typed /\ ListKept
    /\ \A p \in Procs : Counts(p) /\ Walks(p) /\ Holds(p)

-----------------------------------------------------------------------------
(* The operators of the model.                                             *)

LEMMA Constants ==
    /\ \A k \in Keys : k[1] \in Freqs /\ k[1] \in Nat /\ k[2] \in Sizes /\ k[2] \in Nat /\ k[2] >= 1
    /\ \A f \in Freqs : f \in Nat
    /\ \A n \in Sizes : n \in Nat /\ n >= 1
    /\ Procs \subseteq Nat /\ Points \in Nat /\ Points >= 1 /\ PerStep \in Nat /\ PerStep >= 1
    /\ Window \in Nat /\ Trigger \in Nat /\ SeenMax \in Nat /\ AnchorMax \in Nat
    /\ None \notin Regions
BY SweepAssumption DEF Freqs, Sizes, None, Regions

LEMMA AnchorIs ==
    /\ Absent \in Anchors
    /\ \A a \in Anchors : a.size \in Nat /\ a.filled \subseteq Regions
    /\ \A a \in Anchors : a.size = 0 <=> a = Absent
    /\ \A n \in Sizes : \A g \in SUBSET Regions : [size |-> n, filled |-> g] \in Anchors
BY Constants DEF Anchors, Absent

\* Division with a remainder.
LEMMA Division ==
    ASSUME NEW a \in Int, NEW n \in Nat, n >= 1
    PROVE  a % n \in 0 .. n - 1 /\ a \div n \in Int /\ a = n * (a \div n) + (a % n)
OBVIOUS

LEMMA Remainder ==
    ASSUME NEW a \in Int, NEW n \in Nat, n >= 1, NEW q \in Int, NEW r \in 0 .. n - 1,
           a = n * q + r
    PROVE  a % n = r
OBVIOUS

\* From any start, n numbers in a row have every remainder.
LEMMA EveryRemainder ==
    ASSUME NEW a \in Int, NEW n \in Nat, n >= 1, NEW t \in 0 .. n - 1
    PROVE  \E m \in 0 .. n - 1 : (a + m) % n = t
<1> DEFINE q == (t - a) \div n
           m == (t - a) % n
<1>1. m \in 0 .. n - 1 /\ q \in Int /\ t - a = n * q + m
  BY Division
<1> HIDE DEF q, m
<1>2. -q \in Int /\ n * (-q) = -(n * q)
  BY <1>1
<1>3. a + m = n * (-q) + t
  BY <1>1, <1>2
<1>4. \A b \in Int, z \in Int : b = n * z + t => b % n = t
  BY Remainder
<1>5. a + m \in Int
  BY <1>1
<1> QED BY <1>1, <1>2, <1>3, <1>4, <1>5

LEMMA PlanIs ==
    ASSUME NEW f \in Freqs
    PROVE  /\ Lowest(f) \in Int
           /\ Range(Plan(f)) = Lowest(f) .. Lowest(f) + Points - 1
           /\ Range(Plan(f)) \subseteq Rungs
           /\ Plan(f) \in Seq(Rungs)
<1>1. Lowest(f) \in Int
  BY Constants DEF Lowest
<1>2. Range(Plan(f)) = Lowest(f) .. Lowest(f) + Points - 1
  <2>1. \A i \in 1 .. Points : Plan(f)[i] = Lowest(f) + i - 1
    BY DEF Plan
  <2>2. DOMAIN Plan(f) = 1 .. Points
    BY DEF Plan
  <2>3. \A x \in Lowest(f) .. Lowest(f) + Points - 1 : x - Lowest(f) + 1 \in 1 .. Points
    BY <1>1, Constants
  <2>4. ASSUME NEW x \in Lowest(f) .. Lowest(f) + Points - 1
        PROVE  x \in Range(Plan(f))
    BY <1>1, <2>1, <2>2, <2>3, Constants DEF Range
  <2>5. ASSUME NEW x \in Range(Plan(f))
        PROVE  x \in Lowest(f) .. Lowest(f) + Points - 1
    BY <1>1, <2>1, <2>2, Constants DEF Range
  <2> QED BY <2>4, <2>5
<1>3. Range(Plan(f)) \subseteq Rungs
  BY DEF Rungs
<1>4. Plan(f) \in Seq(Rungs)
  <2>1. Plan(f) \in [1 .. Points -> Rungs]
    BY <1>3 DEF Plan, Range
  <2> QED BY <2>1, Constants, SeqDef
<1> QED BY <1>1, <1>2, <1>3, <1>4

\* A walk goes over the rungs of the plan, from whichever it starts.
LEMMA WalkIs ==
    ASSUME NEW f \in Freqs, NEW p \in Procs
    PROVE  Walk(p, f) \in Seq(Rungs) /\ Range(Walk(p, f)) = Range(Plan(f))
<1> DEFINE low == Lowest(f)
           a == p - low
           w == Walk(p, f)
<1>1. low \in Int /\ Range(Plan(f)) = low .. low + Points - 1 /\ Range(Plan(f)) \subseteq Rungs
  BY PlanIs
<1>2. a \in Int /\ Points \in Nat /\ Points >= 1
  BY <1>1, Constants
<1>3. DOMAIN w = 1 .. Points /\ \A i \in 1 .. Points : w[i] = low + ((p - low + i - 1) % Points)
  BY DEF Walk
<1> HIDE DEF w, low
<1>4. \A i \in 1 .. Points : w[i] = low + ((a + (i - 1)) % Points)
  <2> TAKE i \in 1 .. Points
  <2>1. p - low + i - 1 = a + (i - 1)
    BY <1>1, <1>2, Constants
  <2> QED BY <1>3, <2>1
<1> HIDE DEF a
<1>5. ASSUME NEW i \in 1 .. Points
      PROVE  w[i] \in low .. low + Points - 1
  <2>1. a + (i - 1) \in Int
    BY <1>2
  <2>2. (a + (i - 1)) % Points \in 0 .. Points - 1
    BY <1>2, <2>1, Division
  <2> QED BY <1>1, <1>2, <1>4, <2>2
<1>6. ASSUME NEW x \in low .. low + Points - 1
      PROVE  x \in Range(w)
  <2>1. x - low \in 0 .. Points - 1
    BY <1>1, <1>2
  <2>2. PICK m \in 0 .. Points - 1 : (a + m) % Points = x - low
    BY <1>2, <2>1, EveryRemainder
  <2>3. m + 1 \in 1 .. Points /\ (m + 1) - 1 = m
    BY <1>2
  <2>4. w[m + 1] = low + ((a + m) % Points)
    BY <1>4, <2>3
  <2>5. w[m + 1] = x
    BY <1>1, <1>2, <2>2, <2>4
  <2> QED BY <1>3, <2>3, <2>5 DEF Range
<1>7. Range(w) = low .. low + Points - 1
  BY <1>3, <1>5, <1>6 DEF Range
<1>8. w \in Seq(Rungs)
  <2>1. w \in [1 .. Points -> Rungs]
    BY <1>1, <1>3, <1>5 DEF w, Walk
  <2> QED BY <2>1, <1>2, SeqDef
<1> QED BY <1>1, <1>7, <1>8 DEF w

\* Adopting an anchor takes nothing from the one in hand but far regions whose
\* rows are of another size.
LEMMA AdoptIs ==
    ASSUME NEW g \in Anchors, NEW h \in Anchors
    PROVE  /\ Adopt(g, h) \in Anchors
           /\ Adopt(g, h).size >= g.size
           /\ g.filled \cap Near \subseteq Adopt(g, h).filled
<1> DEFINE big == IF h.size > g.size THEN h ELSE g
           small == IF h.size > g.size THEN g ELSE h
           fits == IF small.size = big.size THEN Regions ELSE Near
           all == big.filled \cup (small.filled \cap fits)
<1>1. big \in Anchors /\ small \in Anchors /\ big.size >= g.size /\ Near \subseteq fits
  BY AnchorIs DEF Regions
<1>2. Adopt(g, h) = [big EXCEPT !.filled = all]
  BY DEF Adopt
<1>3. all \subseteq Regions /\ g.filled \cap Near \subseteq all
  BY <1>1, AnchorIs
<1>4. big.size = 0 => small.size = 0 /\ all = {}
  <2>1. big.size \in Nat /\ small.size \in Nat /\ g.size \in Nat /\ h.size \in Nat
    BY <1>1, AnchorIs
  <2>2. big.size >= small.size
    BY <2>1
  <2>3. big.size = 0 => big = Absent /\ small = Absent
    BY <1>1, <2>1, <2>2, AnchorIs
  <2> QED BY <2>3 DEF Absent
<1> HIDE DEF big, small, all
<1>5. big = [size |-> big.size, filled |-> big.filled]
  BY <1>1 DEF Anchors, Absent
<1>6. Adopt(g, h) = [size |-> big.size, filled |-> all]
  BY <1>2, <1>5
<1>7. CASE big.size = 0
  BY <1>1, <1>3, <1>4, <1>6, <1>7, AnchorIs DEF Absent
<1>8. CASE big.size # 0
  <2>1. big.size \in Sizes
    BY <1>1, <1>8 DEF Anchors, Absent
  <2>2. [size |-> big.size, filled |-> all] \in Anchors
    BY <1>3, <2>1, AnchorIs
  <2> QED BY <1>1, <1>3, <1>6, <2>2
<1> QED BY <1>7, <1>8

\* A longer list counts no fewer frequencies.
LEMMA SweepsGrow ==
    ASSUME NEW list \in SUBSET Keys, NEW more \in SUBSET Keys, list \subseteq more,
           NEW k \in Keys, Sweeps(list, k)
    PROVE  Sweeps(more, k)
<1> DEFINE near == (k[1] - Window) .. (k[1] + Window)
<1>1. IsFiniteSet(near)
  BY Constants, FS_Interval
<1>2. NearBy(more, k) \subseteq near
  BY Constants DEF NearBy
<1>3. IsFiniteSet(NearBy(more, k))
  BY <1>1, <1>2, FS_Subset
<1>4. NearBy(list, k) \subseteq NearBy(more, k)
  BY DEF NearBy
<1>5. IsFiniteSet(NearBy(list, k)) /\ Cardinality(NearBy(list, k)) <= Cardinality(NearBy(more, k))
  BY <1>3, <1>4, FS_Subset
<1>6. Cardinality(NearBy(list, k)) \in Nat /\ Cardinality(NearBy(more, k)) \in Nat
  BY <1>3, <1>5, FS_CardinalityType
<1> QED BY <1>5, <1>6, Constants DEF Sweeps

LEMMA RangeIs ==
    ASSUME NEW S, NEW s \in Seq(S)
    PROVE  /\ Range(s) \subseteq S
           /\ s # <<>> => /\ Head(s) \in S /\ Tail(s) \in Seq(S)
                          /\ Range(s) = {Head(s)} \cup Range(Tail(s))
           /\ \A e \in S : Append(s, e) \in Seq(S) /\ Range(Append(s, e)) = Range(s) \cup {e}
           /\ Range(<<>>) = {}
<1>1. Range(s) \subseteq S
  BY RangeOfSeq
<1>2. Range(<<>>) = {}
  BY DEF Range
<1>3. ASSUME s # <<>>
      PROVE  Head(s) \in S /\ Tail(s) \in Seq(S) /\ Range(s) = {Head(s)} \cup Range(Tail(s))
  <2>1. PICK n \in Nat : n = Len(s) /\ n >= 1
    BY <1>3, EmptySeq
  <2>2. /\ Head(s) \in S /\ Tail(s) \in Seq(S) /\ Len(Tail(s)) = n - 1
        /\ \A i \in 1 .. Len(Tail(s)) : Tail(s)[i] = s[i + 1]
    BY <1>3, <2>1, HeadTailProperties
  <2>3. Head(s) = s[1]
    BY <1>3
  <2>4. Range(s) = {s[i] : i \in 1 .. n} /\ Range(Tail(s)) = {Tail(s)[i] : i \in 1 .. n - 1}
    BY <2>1, <2>2, RangeEquality
  <2>5. \A i \in 1 .. n - 1 : Tail(s)[i] = s[i + 1] /\ i + 1 \in 1 .. n
    BY <2>1, <2>2
  <2>6. \A i \in 1 .. n : i = 1 \/ (i - 1 \in 1 .. n - 1 /\ s[i] = Tail(s)[i - 1])
    BY <2>1, <2>5
  <2>7. ASSUME NEW x \in Range(s) PROVE x \in {Head(s)} \cup Range(Tail(s))
    <3>1. PICK i \in 1 .. n : x = s[i]
      BY <2>4
    <3>2. i = 1 \/ (i - 1 \in 1 .. n - 1 /\ x = Tail(s)[i - 1])
      BY <2>6, <3>1
    <3> QED BY <2>3, <2>4, <3>1, <3>2
  <2>8. ASSUME NEW x \in {Head(s)} \cup Range(Tail(s)) PROVE x \in Range(s)
    BY <2>1, <2>3, <2>4, <2>5
  <2> QED BY <2>2, <2>7, <2>8
<1>4. ASSUME NEW e \in S
      PROVE  Append(s, e) \in Seq(S) /\ Range(Append(s, e)) = Range(s) \cup {e}
  <2>1. /\ Append(s, e) = s \o <<e>> /\ <<e>> \in Seq(S) /\ Append(s, e) \in Seq(S)
    BY AppendIsConcat, AppendProperties
  <2>2. Range(s \o <<e>>) = Range(s) \cup Range(<<e>>)
    <3>1. <<e>> \in Seq(S)
      BY <2>1
    <3>2. \A t \in Seq(S) : Range(s \o t) = Range(s) \cup Range(t)
      BY RangeConcatenation
    <3> QED BY <3>1, <3>2
  <2>3. Range(<<e>>) = {e}
    BY DEF Range
  <2> QED BY <2>1, <2>2, <2>3
<1> QED BY <1>1, <1>2, <1>3, <1>4

\* What caching an anchor does: nothing is added but the anchor, and nothing is
\* taken unless the cache was full and the rung new.
LEMMA CachesIs ==
    ASSUME Typed, NEW p \in Procs, NEW r \in Rungs, NEW a \in Anchors, Caches(p, r, a),
           \A x \in Rungs : cache[p][x] # Absent => x \in Range(fifo[p])
    PROVE  /\ cache' \in [Procs -> [Rungs -> Anchors]] /\ fifo' \in [Procs -> Seq(Rungs)]
           /\ \A q \in Procs \ {p} : cache'[q] = cache[q] /\ fifo'[q] = fifo[q]
           /\ cache'[p][r] = a
           /\ \A x \in Rungs \ {r} : cache'[p][x] \in {cache[p][x], Absent}
           /\ ~Drops(p, r) => \A x \in Rungs \ {r} : cache'[p][x] = cache[p][x]
           /\ \A x \in Rungs : cache'[p][x] # Absent => x \in Range(fifo'[p])
<1> DEFINE rest == IF Drops(p, r) THEN Tail(fifo[p]) ELSE fifo[p]
           now == IF cache[p][r] = Absent THEN Append(rest, r) ELSE rest
<1>1. fifo[p] \in Seq(Rungs) /\ cache[p] \in [Rungs -> Anchors]
  BY DEF Typed
<1>2. rest \in Seq(Rungs)
  <2>1. CASE Drops(p, r)
    <3>1. Len(fifo[p]) >= 1
      BY <2>1, SweepAssumption DEF Drops
    <3>2. fifo[p] # <<>>
      BY <3>1
    <3> QED BY <1>1, <2>1, <3>2, RangeIs
  <2>2. CASE ~Drops(p, r)
    BY <1>1, <2>2
  <2> QED BY <2>1, <2>2
<1> HIDE DEF rest
<1>0. /\ Append(rest, r) \in Seq(Rungs)
      /\ Range(Append(rest, r)) = Range(rest) \cup {r}
      /\ Range(rest) \subseteq Rungs
  BY <1>2, RangeIs
<1>3. now \in Seq(Rungs) /\ Range(rest) \subseteq Range(now) /\ Range(now) \subseteq Rungs
  BY <1>0, <1>2
<1>4. r \in Range(now)
  <2>1. CASE cache[p][r] = Absent
    BY <1>0, <2>1
  <2>2. CASE cache[p][r] # Absent
    BY <2>2 DEF Drops, rest
  <2> QED BY <2>1, <2>2
<1>5. ~Drops(p, r) => \A x \in Rungs : cache[p][x] # Absent => x \in Range(now)
  BY <1>3 DEF rest
<1>6. /\ fifo' = [fifo EXCEPT ![p] = now]
      /\ cache' = [cache EXCEPT ![p] =
            [x \in Rungs |-> IF x = r THEN a ELSE IF x \in Range(now) THEN cache[p][x] ELSE Absent]]
  BY DEF Caches, rest
<1> HIDE DEF now
<1>7. fifo' \in [Procs -> Seq(Rungs)] /\ fifo'[p] = now /\ \A q \in Procs \ {p} : fifo'[q] = fifo[q]
  BY <1>3, <1>6 DEF Typed
<1>8. /\ cache' \in [Procs -> [Rungs -> Anchors]]
      /\ \A q \in Procs \ {p} : cache'[q] = cache[q]
      /\ \A x \in Rungs : cache'[p][x] = IF x = r THEN a ELSE IF x \in Range(now) THEN cache[p][x] ELSE Absent
  BY <1>1, <1>6, AnchorIs DEF Typed
<1> QED BY <1>1, <1>4, <1>5, <1>7, <1>8

\* The rungs of one anchor more.
LEMMA OneMore ==
    ASSUME NEW out, NEW r, NEW a
    PROVE  {ra[1] : ra \in out \cup {<<r, a>>}} = {ra[1] : ra \in out} \cup {r}
<1>1. <<r, a>>[1] = r
  OBVIOUS
<1>2. ASSUME NEW x \in {ra[1] : ra \in out \cup {<<r, a>>}}
      PROVE  x \in {ra[1] : ra \in out} \cup {r}
  <2>1. PICK ra \in out \cup {<<r, a>>} : x = ra[1]
    OBVIOUS
  <2> QED BY <1>1, <2>1
<1>3. ASSUME NEW x \in {ra[1] : ra \in out} \cup {r}
      PROVE  x \in {ra[1] : ra \in out \cup {<<r, a>>}}
  BY <1>1
<1> QED BY <1>2, <1>3

-----------------------------------------------------------------------------
(* The steps.                                                              *)

\* What a process that takes no step keeps, whatever the others note, lose,
\* store or evict.
LEMMA OthersKeep ==
    ASSUME Typed, Typed', Asked \subseteq Asked', clean' => clean, dead \subseteq dead',
           NEW q \in Procs, Counts(q), Walks(q), Holds(q),
           pr'[q] = pr[q], mine'[q] = mine[q], cache'[q] = cache[q], fifo'[q] = fifo[q]
    PROVE  Counts(q)' /\ Walks(q)' /\ Holds(q)'
<1>1. Walks(q)'
  BY DEF Walks, Freq, Size, Wanted
<1>2. Holds(q)'
  BY DEF Holds, Freq, Size
<1>3. Counts(q)'
  <2>0. Asked \subseteq Keys /\ Asked' \subseteq Keys
    BY DEF Typed, Asked
  <2>1. ASSUME NEW k \in Keys, Sweeps(Asked, k) PROVE Sweeps(Asked', k)
    BY <2>0, <2>1, SweepsGrow
  <2>2. ASSUME pr[q].key \in Keys, ~Sweeps(mine[q] \cup (IF clean THEN pr[q].known ELSE {}), pr[q].key)
        PROVE  ~Sweeps(mine[q] \cup (IF clean' THEN pr[q].known ELSE {}), pr[q].key)
    <3>1. mine[q] \in SUBSET Keys /\ pr[q].known \in SUBSET Keys
      BY DEF Typed, Calls
    <3>2. mine[q] \cup (IF clean' THEN pr[q].known ELSE {})
            \subseteq mine[q] \cup (IF clean THEN pr[q].known ELSE {})
      OBVIOUS
    <3>3. mine[q] \cup (IF clean' THEN pr[q].known ELSE {}) \in SUBSET Keys
      BY <3>1
    <3>4. mine[q] \cup (IF clean THEN pr[q].known ELSE {}) \in SUBSET Keys
      BY <3>1
    <3> QED BY <2>2, <3>2, <3>3, <3>4, SweepsGrow
  <2> QED BY <2>1, <2>2 DEF Counts
<1> QED BY <1>1, <1>2, <1>3

\* A step of p alone: the others' part of the state is as it was, and what the
\* crew shares has only grown, or has lost what the history says it lost.
Alone(p) ==
    /\ Asked \subseteq Asked' /\ (clean' => clean) /\ dead \subseteq dead'
    /\ \A q \in Procs \ {p} : /\ pr'[q] = pr[q] /\ mine'[q] = mine[q]
                              /\ cache'[q] = cache[q] /\ fifo'[q] = fifo[q]

LEMMA Closes ==
    ASSUME SweepInv, NEW p \in Procs, Alone(p), Typed', ListKept',
           Counts(p)', Walks(p)', Holds(p)'
    PROVE  SweepInv'
<1>1. ASSUME NEW q \in Procs PROVE Counts(q)' /\ Walks(q)' /\ Holds(q)'
  <2>1. CASE q = p
    BY <2>1
  <2>2. CASE q # p
    BY <2>2, OthersKeep DEF SweepInv, Alone
  <2> QED BY <2>1, <2>2
<1> QED BY <1>1 DEF SweepInv

LEMMA IdleIs == Idle \in Calls
BY EmptySeq, AnchorIs DEF Idle, Calls, PCs

LEMMA IdleKeeps ==
    ASSUME SweepInv, NEW p \in Procs, pr' = [pr EXCEPT ![p] = Idle],
           UNCHANGED <<seen, anchors, mine, cache, fifo, dead, history>>
    PROVE  SweepInv'
<1>1. Typed'
  BY IdleIs DEF SweepInv, Typed, history
<1>2. pr'[p] = Idle
  BY DEF SweepInv, Typed
<1>3. Counts(p)' /\ Walks(p)' /\ Holds(p)' /\ Alone(p) /\ ListKept'
  <2>1. Counts(p)'
    BY <1>2 DEF Idle, Counts, Range
  <2>2. Walks(p)'
    BY <1>2 DEF Idle, Walks
  <2>3. Holds(p)'
    BY <1>2 DEF Idle, Holds, SweepInv
  <2>4. Alone(p) /\ ListKept'
    BY DEF Alone, ListKept, SweepInv, Asked, history, Typed
  <2> QED BY <2>1, <2>2, <2>3, <2>4
<1> QED BY <1>1, <1>3, Closes

LEMMA AsksKeeps ==
    ASSUME SweepInv, NEW p \in Procs, NEW k \in Keys, Asks(p, k)
    PROVE  SweepInv'
<1> DEFINE new == [Idle EXCEPT !.pc = "noting", !.key = k]
<1>1. new \in Calls
  BY EmptySeq, AnchorIs DEF Idle, Calls, PCs
<1>2. Typed'
  BY <1>1 DEF SweepInv, Typed, Asks, Becomes, shared, history
<1>3. pr'[p] = new /\ mine'[p] = mine[p] \cup {k}
  BY DEF SweepInv, Typed, Asks, Becomes
<1>4. Alone(p) /\ Asked \subseteq Asked'
  BY DEF SweepInv, Typed, Asks, Becomes, Alone, Asked, history
<1>5. ListKept'
  BY <1>4 DEF SweepInv, ListKept, Asks, shared, history
<1>6. Counts(p)'
  BY <1>3 DEF Idle, Counts, Range
<1>7. Walks(p)'
  BY <1>3 DEF Idle, Walks
<1>8. Holds(p)'
  BY <1>3 DEF Idle, Holds, SweepInv, Asks
<1> QED BY <1>2, <1>4, <1>5, <1>6, <1>7, <1>8, Closes

LEMMA ReadsKeeps ==
    ASSUME SweepInv, NEW p \in Procs, NEW k \in Keys, NEW idx \in Regions, Reads(p, k, idx)
    PROVE  SweepInv'
<1> DEFINE new == [Idle EXCEPT !.pc = "gathering", !.key = k, !.idx = idx, !.left = Walk(p, k[1])]
<1>0. k[1] \in Freqs
  BY Constants
<1>1. Walk(p, k[1]) \in Seq(Rungs) /\ Range(Walk(p, k[1])) = Range(Plan(k[1]))
  BY <1>0, WalkIs
<1>2. new \in Calls
  BY <1>1, EmptySeq, AnchorIs DEF Idle, Calls, PCs
<1>3. Typed'
  BY <1>2 DEF SweepInv, Typed, Reads, Becomes, shared, held, history
<1>4. pr'[p] = new
  BY DEF SweepInv, Typed, Reads, Becomes
<1>5. Alone(p) /\ ListKept'
  BY DEF SweepInv, Typed, ListKept, Reads, Becomes, Alone, Asked, shared, held, history
<1>6. Counts(p)'
  BY <1>4, Constants DEF Idle, Counts, Range
<1>7. Walks(p)'
  BY <1>1, <1>4 DEF Idle, Walks, Freq
<1>8. Holds(p)'
  BY <1>4 DEF Idle, Holds, SweepInv, Reads, held
<1> QED BY <1>3, <1>5, <1>6, <1>7, <1>8, Closes

\* What _is_sweep decides from a list: it counts the process's own and the
\* list's, so no more than the crew was asked, and no less than was noted.
LEMMA DecidedIs ==
    ASSUME Typed, NEW p \in Procs, NEW k \in Keys, NEW list \in Seq(Keys), Range(list) \subseteq Asked,
           NEW known \in SUBSET Keys, NEW whole \in BOOLEAN, whole => known \subseteq Range(list)
    PROVE  /\ Sweeps(mine[p] \cup Range(list), k) => Sweeps(Asked, k)
           /\ ~Sweeps(mine[p] \cup Range(list), k) =>
                ~Sweeps(mine[p] \cup (IF whole THEN known ELSE {}), k)
           /\ Sweeps(mine[p] \cup Range(list), k) \in BOOLEAN
<1> DEFINE counted == mine[p] \cup Range(list)
           least == mine[p] \cup (IF whole THEN known ELSE {})
<1>1. mine[p] \in SUBSET Keys /\ mine[p] \subseteq Asked /\ Asked \in SUBSET Keys
  BY DEF Typed, Asked
<1>2. counted \in SUBSET Keys /\ counted \subseteq Asked
  BY <1>1, RangeIs
<1>3. least \in SUBSET Keys /\ least \subseteq counted
  BY <1>1
<1>4. Sweeps(counted, k) => Sweeps(Asked, k)
  BY <1>1, <1>2, SweepsGrow
<1>5. Sweeps(least, k) => Sweeps(counted, k)
  BY <1>2, <1>3, SweepsGrow
<1> QED BY <1>4, <1>5 DEF Sweeps

LEMMA NotesKeeps ==
    ASSUME SweepInv, NEW p \in Procs, Notes(p)
    PROVE  SweepInv'
<1>0. Typed /\ ListKept /\ Counts(p) /\ Walks(p) /\ Holds(p) /\ p \notin dead /\ pr[p].pc = "noting"
  BY DEF SweepInv, Notes, At
<1>1. pr[p] \in Calls /\ pr[p].key \in Keys /\ seen \in Seq(Keys) /\ noted \in SUBSET Keys
  BY <1>0 DEF Typed, Counts
<1> DEFINE sw == Sweeps(mine[p] \cup Range(seen), pr[p].key)
           told == [pr[p] EXCEPT !.pc = "fetching", !.list = <<>>, !.sweep = sw, !.known = noted]
           asked == [pr[p] EXCEPT !.pc = "telling", !.list = seen, !.known = noted]
<1>2. /\ sw => Sweeps(Asked, pr[p].key)
      /\ ~sw => ~Sweeps(mine[p] \cup (IF clean THEN noted ELSE {}), pr[p].key)
      /\ sw \in BOOLEAN
  BY <1>0, <1>1, DecidedIs DEF ListKept, Typed
<1>3. told = [Decided(p, seen) EXCEPT !.known = noted]
  BY <1>1 DEF Decided, Calls
<1> HIDE DEF sw
<1>4. told \in Calls /\ asked \in Calls
  BY <1>1, <1>2, EmptySeq DEF Calls, PCs
<1>5. (pr' = [pr EXCEPT ![p] = told]) \/ (pr' = [pr EXCEPT ![p] = asked])
  BY <1>1, <1>3 DEF Notes, Becomes, Calls
<1> HIDE DEF told, asked
<1>6. Typed'
  BY <1>0, <1>4, <1>5 DEF Notes, Typed, shared, held, history
<1>7. (pr'[p] = told) \/ (pr'[p] = asked)
  BY <1>0, <1>5 DEF Typed
<1>8. Alone(p) /\ ListKept' /\ Asked' = Asked
  BY <1>0, <1>5 DEF Notes, Typed, ListKept, Alone, Asked, shared, held, history
<1>9. Counts(p)'
  <2>1. CASE pr'[p] = told
    BY <1>0, <1>1, <1>2, <1>8, <2>1 DEF Notes, Counts, Calls, Range, told, held, history
  <2>2. CASE pr'[p] = asked
    BY <1>0, <1>1, <1>8, <2>2 DEF Notes, Counts, ListKept, Calls, asked, held, history
  <2> QED BY <1>7, <2>1, <2>2
<1>a. Walks(p)'
  BY <1>0, <1>1, <1>7 DEF Walks, Calls, told, asked
<1>b. Holds(p)'
  BY <1>0, <1>1, <1>7 DEF Notes, Holds, Calls, told, asked, held
<1> QED BY <1>6, <1>8, <1>9, <1>a, <1>b, Closes

LEMMA TellsKeeps ==
    ASSUME SweepInv, NEW p \in Procs, Tells(p)
    PROVE  SweepInv'
<1>0. Typed /\ ListKept /\ Counts(p) /\ Walks(p) /\ Holds(p) /\ p \notin dead /\ pr[p].pc = "telling"
  BY DEF SweepInv, Tells, At
<1>1. pr[p] \in Calls /\ pr[p].key \in Keys /\ pr[p].key \in mine[p] /\ pr[p].list \in Seq(Keys)
  BY <1>0 DEF Typed, Counts, Calls
<1> DEFINE told == Append(pr[p].list, pr[p].key)
           kept == IF Len(told) > SeenMax THEN Tail(told) ELSE told
           sw == Sweeps(mine[p] \cup Range(kept), pr[p].key)
<1>2. told \in Seq(Keys) /\ Range(told) = Range(pr[p].list) \cup {pr[p].key} /\ told # <<>>
  BY <1>1, RangeIs, AppendProperties
<1> HIDE DEF told
<1>3. kept \in Seq(Keys) /\ Range(kept) \subseteq Range(told)
  BY <1>2, RangeIs
<1>4. Range(kept) \subseteq Asked
  BY <1>0, <1>1, <1>2, <1>3 DEF Counts, Asked
<1>5. /\ pr' = [pr EXCEPT ![p] = Decided(p, kept)]
      /\ clean' \in BOOLEAN
      /\ clean' => clean /\ kept = told
      /\ \/ /\ seen' = kept /\ noted' = noted \cup {pr[p].key}
            /\ clean' => seen = pr[p].list
         \/ seen' = seen /\ noted' = noted
  BY <1>0 DEF Tells, Becomes, held, told, Typed
<1>u. anchors' = anchors /\ mine' = mine /\ cache' = cache /\ fifo' = fifo /\ dead' = dead
  BY DEF Tells, held
<1> HIDE DEF kept
<1>6. clean' => pr[p].known \subseteq Range(kept)
  BY <1>0, <1>2, <1>5 DEF Counts
<1>7. /\ sw => Sweeps(Asked, pr[p].key)
      /\ ~sw => ~Sweeps(mine[p] \cup (IF clean' THEN pr[p].known ELSE {}), pr[p].key)
      /\ sw \in BOOLEAN
  <2>1. pr[p].known \in SUBSET Keys
    BY <1>1 DEF Calls
  <2>2. \A whole \in BOOLEAN : (whole => pr[p].known \subseteq Range(kept)) =>
          /\ sw => Sweeps(Asked, pr[p].key)
          /\ ~sw => ~Sweeps(mine[p] \cup (IF whole THEN pr[p].known ELSE {}), pr[p].key)
          /\ sw \in BOOLEAN
    BY <1>0, <1>1, <1>3, <1>4, <2>1, DecidedIs
  <2> QED BY <1>5, <1>6, <2>2
<1> DEFINE new == [pr[p] EXCEPT !.pc = "fetching", !.list = <<>>, !.sweep = sw]
<1>8. pr' = [pr EXCEPT ![p] = new]
  BY <1>5 DEF Decided
<1> HIDE DEF sw
<1>9. new \in Calls
  BY <1>1, <1>7, EmptySeq DEF Calls, PCs
<1> HIDE DEF new
<1>a. Typed'
  <2>1. seen' \in Seq(Keys) /\ noted' \subseteq Keys /\ clean' \in BOOLEAN
    BY <1>0, <1>1, <1>3, <1>5 DEF Typed
  <2>2. pr' \in [Procs -> Calls]
    BY <1>0, <1>8, <1>9 DEF Typed
  <2> QED BY <1>0, <1>u, <2>1, <2>2 DEF Typed
<1>b. pr'[p] = new
  BY <1>0, <1>8 DEF Typed
<1>c. Alone(p) /\ Asked' = Asked
  BY <1>0, <1>5, <1>u, <1>8 DEF Typed, Alone, Asked
<1>d. ListKept'
  BY <1>0, <1>2, <1>4, <1>5, <1>c DEF ListKept
<1>e. Counts(p)'
  <2>1. /\ new.pc = "fetching" /\ new.key = pr[p].key /\ new.list = <<>> /\ new.sweep = sw
        /\ new.known = pr[p].known
    BY <1>1 DEF Calls, new
  <2> QED BY <1>1, <1>7, <1>b, <1>c, <1>u, <2>1 DEF Counts, Range
<1>f. Walks(p)'
  BY <1>0, <1>1, <1>b DEF Walks, Calls, new
<1>g. Holds(p)'
  BY <1>0, <1>1, <1>u, <1>b DEF Holds, Calls, new
<1> QED BY <1>a, <1>c, <1>d, <1>e, <1>f, <1>g, Closes

LEMMA FetchesKeeps ==
    ASSUME SweepInv, NEW p \in Procs, Fetches(p)
    PROVE  SweepInv'
<1>0. Typed /\ ListKept /\ Counts(p) /\ Walks(p) /\ Holds(p) /\ p \notin dead /\ pr[p].pc = "fetching"
  BY DEF SweepInv, Fetches, At
<1>1. pr[p] \in Calls /\ pr[p].key \in Keys /\ Freq(p) \in Freqs
  BY <1>0, Constants DEF Typed, Counts, Freq
<1>2. CASE pr[p].key \in exact
  BY <1>2, IdleKeeps DEF Fetches, Gets, Becomes, shared, history
<1>3. CASE pr[p].key \notin exact
  <2> DEFINE sweeps == [pr[p] EXCEPT !.pc = "gathering", !.left = Walk(p, Freq(p)),
                                     !.known = {}, !.sweep = FALSE]
             lone == [pr[p] EXCEPT !.pc = "readying", !.left = Plan(Freq(p))]
             new == IF pr[p].sweep THEN sweeps ELSE lone
  <2>1. /\ Walk(p, Freq(p)) \in Seq(Rungs) /\ Plan(Freq(p)) \in Seq(Rungs)
        /\ Range(Walk(p, Freq(p))) = Range(Plan(Freq(p)))
    BY <1>1, WalkIs, PlanIs
  <2>2. pr' = [pr EXCEPT ![p] = new]
    BY <1>3 DEF Fetches, Becomes
  <2>3. new \in Calls
    BY <1>1, <2>1 DEF Calls, PCs
  <2> HIDE DEF new
  <2>4. pr'[p] = new
    BY <1>0, <2>2 DEF Typed
  <2>5. /\ UNCHANGED <<seen, anchors, mine, cache, fifo, dead, noted, clean>>
    BY DEF Fetches, shared, history
  <2>6. Typed'
    BY <1>0, <2>2, <2>3, <2>5 DEF Typed
  <2>7. Alone(p) /\ ListKept' /\ Asked' = Asked
    BY <1>0, <2>2, <2>5 DEF Typed, Alone, ListKept, Asked
  <2>8. Counts(p)'
    BY <1>0, <1>1, <2>4, <2>5, <2>7 DEF Counts, Calls, new
  <2>9. Walks(p)'
    <3>1. new.key = pr[p].key /\ new.out = {} /\ ~new.ready /\ new.idx = None
      BY <1>0, <1>1 DEF Walks, Calls, new
    <3>2. \/ new.pc = "gathering" /\ new.left = Walk(p, Freq(p))
          \/ new.pc = "readying" /\ new.left = Plan(Freq(p)) /\ ~new.aligned
      BY <1>0, <1>1 DEF Walks, Calls, new
    <3> QED BY <2>1, <2>4, <3>1, <3>2 DEF Walks, Freq
  <2>a. Holds(p)'
    <3>1. new.key = pr[p].key /\ ~new.ready
      BY <1>0, <1>1 DEF Walks, Calls, new
    <3>2. new.pc = "gathering" \/ (new.pc = "readying" /\ new.left = Plan(Freq(p)))
      BY <1>0, <1>1 DEF Calls, new
    <3> QED BY <1>0, <2>4, <2>5, <3>1, <3>2 DEF Holds, Freq
  <2> QED BY <2>6, <2>7, <2>8, <2>9, <2>a, Closes
<1> QED BY <1>2, <1>3

LEMMA FillsKeeps ==
    ASSUME SweepInv, NEW p \in Procs, Fills(p)
    PROVE  SweepInv'
BY IdleKeeps DEF Fills, Gets, Becomes, history

LEMMA AbortsKeeps ==
    ASSUME SweepInv, NEW p \in Procs, Aborts(p)
    PROVE  SweepInv'
BY IdleKeeps DEF Aborts, Becomes, shared, held

LEMMA BlendsKeeps ==
    ASSUME SweepInv, NEW p \in Procs, Blends(p)
    PROVE  SweepInv'
BY IdleKeeps DEF Blends, Gets, Becomes, shared

LEMMA AlignsKeeps ==
    ASSUME SweepInv, NEW p \in Procs, Aligns(p)
    PROVE  SweepInv'
<1>0. /\ Typed /\ ListKept /\ Counts(p) /\ Walks(p) /\ Holds(p)
      /\ p \notin dead /\ pr[p].pc = "gathering" /\ pr[p].left = <<>>
  BY DEF SweepInv, Aligns, At
<1>1. pr[p] \in Calls /\ pr[p].key \in Keys /\ Freq(p) \in Freqs
  BY <1>0, Constants DEF Typed, Counts, Freq
<1> DEFINE new == [pr[p] EXCEPT !.aligned = TRUE, !.left = Walk(p, Freq(p)), !.out = {}]
<1>2. CASE pr' = [pr EXCEPT ![p] = Idle]
  BY <1>2, IdleKeeps DEF Aligns, shared
<1>3. CASE pr' = [pr EXCEPT ![p] = new]
  <2>1. Walk(p, Freq(p)) \in Seq(Rungs) /\ Range(Walk(p, Freq(p))) = Range(Plan(Freq(p)))
    BY <1>1, WalkIs
  <2>2. new \in Calls
    BY <1>1, <2>1 DEF Calls
  <2>3. /\ new.pc = "gathering" /\ new.key = pr[p].key /\ new.out = {} /\ new.idx = pr[p].idx
        /\ new.left = Walk(p, Freq(p)) /\ new.ready = pr[p].ready /\ new.dropped = pr[p].dropped
        /\ new.list = pr[p].list /\ new.sweep = pr[p].sweep
    BY <1>0, <1>1 DEF Calls
  <2> HIDE DEF new
  <2>4. pr'[p] = new
    BY <1>0, <1>3 DEF Typed
  <2>5. UNCHANGED <<seen, anchors, mine, cache, fifo, dead, noted, clean>>
    BY <1>3 DEF Aligns, Gets, shared, history
  <2>6. Typed'
    BY <1>0, <1>3, <2>2, <2>5 DEF Typed
  <2>7. Alone(p) /\ ListKept' /\ Asked' = Asked
    BY <1>0, <1>3, <2>5 DEF Typed, Alone, ListKept, Asked
  <2>8. Counts(p)'
    BY <1>0, <2>3, <2>4, <2>7 DEF Counts
  <2>9. Walks(p)'
    BY <1>0, <2>1, <2>3, <2>4 DEF Walks, Freq
  <2>a. Holds(p)'
    BY <1>0, <2>3, <2>4, <2>5 DEF Holds, Freq, Size
  <2> QED BY <2>6, <2>7, <2>8, <2>9, <2>a, Closes
<1> QED BY <1>2, <1>3 DEF Aligns, Gets, Becomes

LEMMA ReadiesKeeps ==
    ASSUME SweepInv, NEW p \in Procs, Readies(p)
    PROVE  SweepInv'
<1>0. /\ Typed /\ ListKept /\ Counts(p) /\ Walks(p) /\ Holds(p)
      /\ p \notin dead /\ pr[p].pc = "readying"
  BY DEF SweepInv, Readies, At
<1>1. pr[p] \in Calls /\ pr[p].key \in Keys /\ Freq(p) \in Freqs /\ pr[p].left \in Seq(Rungs)
  BY <1>0, Constants DEF Typed, Counts, Freq, Calls
<1>2. pr[p].out = {} /\ ~pr[p].aligned /\ pr[p].idx = None /\ ~pr[p].ready
  BY <1>0 DEF Walks
<1>3. UNCHANGED <<seen, anchors, mine, dead, noted, clean>>
  BY DEF Readies, shared, history
<1>4. CASE pr[p].left = <<>>
  <2> DEFINE new == [pr[p] EXCEPT !.pc = "gathering", !.left = Walk(p, Freq(p)), !.ready = TRUE,
                                  !.known = {}]
  <2>1. Walk(p, Freq(p)) \in Seq(Rungs) /\ Range(Walk(p, Freq(p))) = Range(Plan(Freq(p)))
    BY <1>1, WalkIs
  <2>2. pr' = [pr EXCEPT ![p] = new] /\ UNCHANGED <<cache, fifo>>
    BY <1>4 DEF Readies, Becomes
  <2>3. new \in Calls
    BY <1>1, <2>1 DEF Calls, PCs
  <2>4. /\ new.pc = "gathering" /\ new.key = pr[p].key /\ new.out = {} /\ new.idx = None
        /\ new.left = Walk(p, Freq(p)) /\ new.ready /\ new.dropped = pr[p].dropped
        /\ new.list = pr[p].list /\ new.sweep = pr[p].sweep /\ ~new.aligned
    BY <1>1, <1>2 DEF Calls
  <2> HIDE DEF new
  <2>5. pr'[p] = new
    BY <1>0, <2>2 DEF Typed
  <2>6. Typed'
    BY <1>0, <1>3, <2>2, <2>3 DEF Typed
  <2>7. Alone(p) /\ ListKept' /\ Asked' = Asked
    BY <1>0, <1>3, <2>2 DEF Typed, Alone, ListKept, Asked
  <2>8. Counts(p)'
    BY <1>0, <2>4, <2>5, <2>7 DEF Counts
  <2>9. Walks(p)'
    BY <1>0, <2>1, <2>4, <2>5 DEF Walks, Freq
  <2>a. Holds(p)'
    <3>1. ~pr[p].dropped => \A r \in Range(Plan(Freq(p))) : cache[p][r].size >= Size(p)
      BY <1>0, <1>4 DEF Holds, Range
    <3> QED BY <1>0, <1>3, <2>2, <2>4, <2>5, <3>1 DEF Holds, Freq, Size
  <2> QED BY <2>6, <2>7, <2>8, <2>9, <2>a, Closes
<1>5. CASE pr[p].left # <<>>
  <2> DEFINE r == Head(pr[p].left)
             a == Found(p, r)
             next == [pr[p] EXCEPT !.left = Tail(@), !.dropped = @ \/ Drops(p, r)]
             lone == [pr[p] EXCEPT !.pc = "filling"]
  <2>1. r \in Rungs /\ Tail(pr[p].left) \in Seq(Rungs) /\ Range(pr[p].left) = {r} \cup Range(Tail(pr[p].left))
    BY <1>1, <1>5, RangeIs
  <2>2. a \in Anchors
    BY <1>0, <2>1, AdoptIs DEF Found, Typed
  <2>3. \/ Serves(a, Size(p), None) /\ pr' = [pr EXCEPT ![p] = next] /\ Caches(p, r, a)
        \/ pr' = [pr EXCEPT ![p] = lone] /\ (Caches(p, r, a) \/ UNCHANGED <<cache, fifo>>)
    BY <1>5 DEF Readies, Becomes, Goes
  <2>4. \A x \in Rungs : cache[p][x] # Absent => x \in Range(fifo[p])
    BY <1>0 DEF Holds
  <2> HIDE DEF r, a
  <2>c. Caches(p, r, a) =>
           /\ cache' \in [Procs -> [Rungs -> Anchors]] /\ fifo' \in [Procs -> Seq(Rungs)]
           /\ \A q \in Procs \ {p} : cache'[q] = cache[q] /\ fifo'[q] = fifo[q]
           /\ cache'[p][r] = a
           /\ ~Drops(p, r) => \A x \in Rungs \ {r} : cache'[p][x] = cache[p][x]
           /\ \A x \in Rungs : cache'[p][x] # Absent => x \in Range(fifo'[p])
    BY <1>0, <2>1, <2>2, <2>4, CachesIs
  <2>5. /\ cache' \in [Procs -> [Rungs -> Anchors]] /\ fifo' \in [Procs -> Seq(Rungs)]
        /\ \A q \in Procs \ {p} : cache'[q] = cache[q] /\ fifo'[q] = fifo[q]
        /\ \A x \in Rungs : cache'[p][x] # Absent => x \in Range(fifo'[p])
    BY <1>0, <2>3, <2>4, <2>c DEF Typed
  <2>6. Drops(p, r) \in BOOLEAN
    BY DEF Drops
  <2>7. next \in Calls /\ lone \in Calls
    BY <1>1, <2>1, <2>6 DEF Calls, PCs
  <2>8. /\ next.pc = "readying" /\ next.key = pr[p].key /\ next.out = {} /\ next.idx = None
        /\ next.left = Tail(pr[p].left) /\ ~next.ready /\ ~next.aligned /\ next.list = pr[p].list
        /\ next.sweep = pr[p].sweep /\ next.known = pr[p].known
        /\ next.dropped = (pr[p].dropped \/ Drops(p, r))
    BY <1>0, <1>1, <1>2 DEF Calls
  <2>9. /\ lone.pc = "filling" /\ lone.key = pr[p].key /\ lone.out = {} /\ lone.idx = None
        /\ ~lone.ready /\ ~lone.aligned /\ lone.list = pr[p].list
        /\ lone.sweep = pr[p].sweep /\ lone.known = pr[p].known
    BY <1>1, <1>2 DEF Calls
  <2> HIDE DEF next, lone
  <2>a. pr' \in [Procs -> Calls] /\ (pr'[p] = next \/ pr'[p] = lone) /\ \A q \in Procs \ {p} : pr'[q] = pr[q]
    BY <1>0, <2>3, <2>7 DEF Typed
  <2>b. Typed'
    BY <1>0, <1>3, <2>5, <2>a DEF Typed
  <2>d. Alone(p) /\ ListKept' /\ Asked' = Asked
    BY <1>0, <1>3, <2>5, <2>a DEF Alone, ListKept, Asked
  <2>e. Counts(p)'
    BY <1>0, <1>3, <2>8, <2>9, <2>a, <2>d DEF Counts
  <2>f. Walks(p)'
    BY <1>0, <2>1, <2>8, <2>9, <2>a DEF Walks, Freq
  <2>g. Holds(p)'
    <3>1. CASE Serves(a, Size(p), None) /\ pr'[p] = next /\ Caches(p, r, a)
      <4>1. ASSUME ~next.dropped, NEW x \in Range(Plan(Freq(p))) \ Range(next.left)
            PROVE  cache'[p][x].size >= Size(p)
        <5>1. CASE x = r
          BY <2>c, <3>1, <5>1 DEF Serves
        <5>2. CASE x # r
          <6>1. x \in Rungs /\ x \notin Range(pr[p].left) /\ ~pr[p].dropped /\ ~Drops(p, r)
            BY <1>1, <2>1, <2>8, <4>1, <5>2, PlanIs
          <6> QED BY <1>0, <2>c, <3>1, <4>1, <5>2, <6>1 DEF Holds
        <5> QED BY <5>1, <5>2
      <4> QED BY <2>5, <2>8, <3>1, <4>1 DEF Holds, Freq, Size
    <3>2. CASE pr'[p] = lone
      BY <2>5, <2>9, <3>2 DEF Holds
    <3>3. (Serves(a, Size(p), None) /\ pr'[p] = next /\ Caches(p, r, a)) \/ pr'[p] = lone
      BY <1>0, <2>3 DEF Typed
    <3> QED BY <3>1, <3>2, <3>3
  <2> QED BY <2>b, <2>d, <2>e, <2>f, <2>g, Closes
<1> QED BY <1>4, <1>5

LEMMA GathersKeeps ==
    ASSUME SweepInv, NEW p \in Procs, Gathers(p)
    PROVE  SweepInv'
<1>0. /\ Typed /\ ListKept /\ Counts(p) /\ Walks(p) /\ Holds(p)
      /\ p \notin dead /\ pr[p].pc = "gathering" /\ pr[p].left # <<>>
  BY DEF SweepInv, Gathers, At
<1>1. pr[p] \in Calls /\ pr[p].key \in Keys /\ Freq(p) \in Freqs /\ pr[p].left \in Seq(Rungs)
  BY <1>0, Constants DEF Typed, Counts, Freq, Calls
<1>2. UNCHANGED <<seen, anchors, mine, dead, noted, clean>>
  BY DEF Gathers, shared, history
<1> DEFINE r == Head(pr[p].left)
           a == IF Serves(cache[p][r], Size(p), Wanted(p)) THEN cache[p][r]
                ELSE Adopt(cache[p][r], anchors[r])
           next == [pr[p] EXCEPT !.left = Tail(@), !.out = @ \cup {<<r, a>>},
                                 !.dropped = @ \/ Drops(p, r)]
           grows == [pr[p] EXCEPT !.pc = "growing", !.grid = a]
<1>3. r \in Rungs /\ Tail(pr[p].left) \in Seq(Rungs) /\ Range(pr[p].left) = {r} \cup Range(Tail(pr[p].left))
  BY <1>0, <1>1, RangeIs
<1>4. /\ cache[p][r] \in Anchors /\ a \in Anchors /\ a.size >= cache[p][r].size
      /\ cache[p][r].filled \cap Near \subseteq a.filled
  BY <1>0, <1>3, AdoptIs, AnchorIs DEF Typed
<1>5. Serves(cache[p][r], Size(p), Wanted(p)) => Serves(a, Size(p), Wanted(p))
  OBVIOUS
<1>6. \/ Serves(a, Size(p), Wanted(p)) /\ pr' = [pr EXCEPT ![p] = next] /\ Caches(p, r, a)
      \/ /\ ~Serves(a, Size(p), Wanted(p)) /\ pr' = [pr EXCEPT ![p] = grows]
         /\ Caches(p, r, a) \/ UNCHANGED <<cache, fifo>>
  BY DEF Gathers, Becomes
<1>7. \A x \in Rungs : cache[p][x] # Absent => x \in Range(fifo[p])
  BY <1>0 DEF Holds
<1> HIDE DEF a, r
<1>8. Caches(p, r, a) =>
         /\ cache' \in [Procs -> [Rungs -> Anchors]] /\ fifo' \in [Procs -> Seq(Rungs)]
         /\ \A q \in Procs \ {p} : cache'[q] = cache[q] /\ fifo'[q] = fifo[q]
         /\ cache'[p][r] = a
         /\ ~Drops(p, r) => \A x \in Rungs \ {r} : cache'[p][x] = cache[p][x]
         /\ \A x \in Rungs : cache'[p][x] # Absent => x \in Range(fifo'[p])
  BY <1>0, <1>3, <1>4, <1>7, CachesIs
<1>9. /\ cache' \in [Procs -> [Rungs -> Anchors]] /\ fifo' \in [Procs -> Seq(Rungs)]
      /\ \A q \in Procs \ {p} : cache'[q] = cache[q] /\ fifo'[q] = fifo[q]
      /\ \A x \in Rungs : cache'[p][x] # Absent => x \in Range(fifo'[p])
  BY <1>0, <1>6, <1>7, <1>8 DEF Typed
<1>a. next \in Calls /\ grows \in Calls
  <2>1. Drops(p, r) \in BOOLEAN
    BY DEF Drops
  <2>2. pr[p].out \subseteq Rungs \X Anchors /\ <<r, a>> \in Rungs \X Anchors
    BY <1>1, <1>3, <1>4 DEF Calls
  <2>3. pr[p].out \cup {<<r, a>>} \in SUBSET (Rungs \X Anchors)
    BY <2>2
  <2>4. next \in Calls
    BY <1>1, <1>3, <2>1, <2>3 DEF Calls
  <2>5. grows \in Calls
    BY <1>1, <1>4 DEF Calls, PCs
  <2> QED BY <2>4, <2>5
<1>b. /\ next.pc = "gathering" /\ next.key = pr[p].key /\ next.idx = pr[p].idx
      /\ next.aligned = pr[p].aligned /\ next.ready = pr[p].ready
      /\ next.left = Tail(pr[p].left) /\ next.out = pr[p].out \cup {<<r, a>>}
      /\ next.list = pr[p].list /\ next.sweep = pr[p].sweep
      /\ next.dropped = (pr[p].dropped \/ Drops(p, r))
  BY <1>0, <1>1 DEF Calls
<1>c. /\ grows.pc = "growing" /\ grows.key = pr[p].key /\ grows.idx = pr[p].idx
      /\ grows.aligned = pr[p].aligned /\ grows.ready = pr[p].ready
      /\ grows.left = pr[p].left /\ grows.out = pr[p].out /\ grows.grid = a
      /\ grows.list = pr[p].list /\ grows.sweep = pr[p].sweep
      /\ grows.dropped = pr[p].dropped
  BY <1>1 DEF Calls
<1> HIDE DEF next, grows
<1>d. /\ pr' \in [Procs -> Calls] /\ \A q \in Procs \ {p} : pr'[q] = pr[q]
      /\ \/ Serves(a, Size(p), Wanted(p)) /\ pr'[p] = next /\ Caches(p, r, a)
         \/ /\ ~Serves(a, Size(p), Wanted(p)) /\ pr'[p] = grows
            /\ Caches(p, r, a) \/ UNCHANGED <<cache, fifo>>
  BY <1>0, <1>6, <1>a DEF Typed
<1>e. Typed'
  BY <1>0, <1>2, <1>9, <1>d DEF Typed
<1>f. Alone(p) /\ ListKept' /\ Asked' = Asked
  BY <1>0, <1>2, <1>9, <1>d DEF Alone, ListKept, Asked
<1>g. Counts(p)'
  BY <1>0, <1>2, <1>b, <1>c, <1>d, <1>f DEF Counts
<1>h. CASE pr'[p] = next /\ Serves(a, Size(p), Wanted(p)) /\ Caches(p, r, a)
  <2>1. Walks(p)'
    <3>1. {ra[1] : ra \in next.out} = {ra[1] : ra \in pr[p].out} \cup {r}
      <4>1. {ra[1] : ra \in pr[p].out \cup {<<r, a>>}} = {ra[1] : ra \in pr[p].out} \cup {r}
        BY OneMore, Zenon
      <4> QED BY <1>b, <4>1, Zenon
    <3>2. Size(p)' = Size(p) /\ Wanted(p)' = Wanted(p) /\ Freq(p)' = Freq(p)
      BY <1>b, <1>h DEF Size, Wanted, Freq
    <3>3. \A ra \in next.out : Serves(ra[2], Size(p), Wanted(p))
      BY <1>0, <1>b, <1>h DEF Walks
    <3>4. {ra[1] : ra \in next.out} \cup Range(next.left) = Range(Plan(Freq(p)))
      BY <1>0, <1>3, <1>b, <3>1 DEF Walks
    <3>5. pr[p].ready => pr[p].idx = None
      BY <1>0 DEF Walks
    <3> QED BY <1>b, <1>h, <3>2, <3>3, <3>4, <3>5 DEF Walks
  <2>2. ASSUME ~next.dropped, next.ready, NEW x \in Range(Plan(Freq(p)))
        PROVE  cache'[p][x].size >= Size(p)
    <3>1. x \in Rungs /\ ~pr[p].dropped /\ ~Drops(p, r) /\ pr[p].ready
      BY <1>1, <1>b, <2>2, PlanIs
    <3>2. CASE x = r
      BY <1>8, <1>h, <3>2 DEF Serves
    <3>3. CASE x # r
      BY <1>0, <1>8, <1>h, <3>1, <3>3 DEF Holds
    <3> QED BY <3>2, <3>3
  <2>3. Holds(p)'
    BY <1>9, <1>b, <1>h, <2>2 DEF Holds, Freq, Size
  <2> QED BY <1>e, <1>f, <1>g, <2>1, <2>3, Closes
<1>i. CASE /\ pr'[p] = grows /\ ~Serves(a, Size(p), Wanted(p))
           /\ Caches(p, r, a) \/ UNCHANGED <<cache, fifo>>
  <2>1. Walks(p)'
    <3>1. Size(p)' = Size(p) /\ Wanted(p)' = Wanted(p) /\ Freq(p)' = Freq(p)
      BY <1>c, <1>i DEF Size, Wanted, Freq
    <3> QED BY <1>0, <1>c, <1>i, <3>1 DEF Walks
  \* Anchors found ready serve from memory.
  <2>2. pr[p].ready => pr[p].dropped
    <3> SUFFICES ASSUME pr[p].ready, ~pr[p].dropped PROVE FALSE
      OBVIOUS
    <3>1. pr[p].idx = None /\ r \in Range(Plan(Freq(p)))
      BY <1>0, <1>3 DEF Walks
    <3>2. Wanted(p) = None /\ cache[p][r].size >= Size(p)
      BY <1>0, <3>1 DEF Holds, Wanted
    <3>3. Serves(cache[p][r], Size(p), Wanted(p))
      BY <3>2 DEF Serves
    <3> QED BY <1>5, <1>i, <3>3
  <2>3. cache'[p][r] = a \/ cache'[p][r] = cache[p][r]
    BY <1>8, <1>i
  <2>4. a.size >= cache'[p][r].size /\ cache'[p][r].filled \cap Near \subseteq a.filled
    BY <1>4, <2>3, AnchorIs
  <2>5. Holds(p)'
    <3>1. Head(grows.left) = r
      BY <1>c DEF r
    <3> QED BY <1>9, <1>c, <1>i, <2>2, <2>4, <3>1 DEF Holds
  <2> QED BY <1>e, <1>f, <1>g, <2>1, <2>5, Closes
<1> QED BY <1>d, <1>h, <1>i

LEMMA GrowsKeeps ==
    ASSUME SweepInv, NEW p \in Procs, Grows(p)
    PROVE  SweepInv'
<1>0. /\ Typed /\ ListKept /\ Counts(p) /\ Walks(p) /\ Holds(p)
      /\ p \notin dead /\ pr[p].pc = "growing" /\ pr[p].left # <<>>
  BY DEF SweepInv, Grows, At, Walks
<1>1. /\ pr[p] \in Calls /\ pr[p].key \in Keys /\ Freq(p) \in Freqs /\ pr[p].left \in Seq(Rungs)
      /\ Size(p) \in Sizes /\ Size(p) \in Nat /\ Size(p) >= 1
      /\ pr[p].grid \in Anchors /\ pr[p].idx \in Regions \cup {None}
  BY <1>0, Constants DEF Typed, Counts, Freq, Size, Calls
<1>2. UNCHANGED <<seen, mine, dead, noted, clean>>
  BY DEF Grows, history
<1> DEFINE r == Head(pr[p].left)
           g == pr[p].grid
           a == [size   |-> IF g.size >= Size(p) THEN g.size ELSE Size(p),
                 filled |-> g.filled \cup ({Wanted(p)} \ {None})]
           new == [pr[p] EXCEPT !.pc = "gathering", !.left = Tail(@), !.grid = Absent,
                                !.out = @ \cup {<<r, a>>}, !.dropped = @ \/ Drops(p, r)]
<1>3. r \in Rungs /\ Tail(pr[p].left) \in Seq(Rungs) /\ Range(pr[p].left) = {r} \cup Range(Tail(pr[p].left))
  BY <1>0, <1>1, RangeIs
\* What is grown has all the anchor in hand had, and what was asked for.
<1>4. a \in Anchors /\ a.size >= g.size /\ g.filled \subseteq a.filled /\ Serves(a, Size(p), Wanted(p))
  <2>1. g.size \in Nat /\ g.filled \subseteq Regions /\ (g.size # 0 => g.size \in Sizes)
    BY <1>1, AnchorIs DEF Anchors, Absent
  <2>2. Wanted(p) \in Regions \cup {None}
    BY <1>1 DEF Wanted
  <2>3. a.size \in Sizes /\ a.size >= g.size /\ a.size >= Size(p)
    BY <1>1, <2>1
  <2>4. a.filled \in SUBSET Regions
    BY <2>1, <2>2
  <2>5. [size |-> a.size, filled |-> a.filled] \in Anchors
    BY <2>3, <2>4, AnchorIs
  <2>6. Serves(a, Size(p), Wanted(p))
    BY <2>3 DEF Serves
  <2> QED BY <2>3, <2>5, <2>6
<1>5. /\ Caches(p, r, a) /\ pr' = [pr EXCEPT ![p] = new]
      /\ anchors' = [anchors EXCEPT ![r] = a] \/ anchors' = anchors
  BY DEF Grows, Becomes
<1>6. \A x \in Rungs : cache[p][x] # Absent => x \in Range(fifo[p])
  BY <1>0 DEF Holds
<1> HIDE DEF a, r
<1>7. /\ cache' \in [Procs -> [Rungs -> Anchors]] /\ fifo' \in [Procs -> Seq(Rungs)]
      /\ \A q \in Procs \ {p} : cache'[q] = cache[q] /\ fifo'[q] = fifo[q]
      /\ \A x \in Rungs : cache'[p][x] # Absent => x \in Range(fifo'[p])
  BY <1>0, <1>3, <1>4, <1>5, <1>6, CachesIs
<1>8. new \in Calls
  <2>1. Drops(p, r) \in BOOLEAN
    BY DEF Drops
  <2>2. pr[p].out \subseteq Rungs \X Anchors /\ <<r, a>> \in Rungs \X Anchors
    BY <1>1, <1>3, <1>4 DEF Calls
  <2>3. pr[p].out \cup {<<r, a>>} \in SUBSET (Rungs \X Anchors)
    BY <2>2
  <2> QED BY <1>1, <1>3, <2>1, <2>3, AnchorIs DEF Calls, PCs
<1>9. /\ new.pc = "gathering" /\ new.key = pr[p].key /\ new.idx = pr[p].idx
      /\ new.aligned = pr[p].aligned /\ new.ready = pr[p].ready
      /\ new.left = Tail(pr[p].left) /\ new.out = pr[p].out \cup {<<r, a>>}
      /\ new.list = pr[p].list /\ new.sweep = pr[p].sweep
      /\ new.dropped = (pr[p].dropped \/ Drops(p, r))
  BY <1>1 DEF Calls
<1> HIDE DEF new
<1>a. pr' \in [Procs -> Calls] /\ pr'[p] = new /\ \A q \in Procs \ {p} : pr'[q] = pr[q]
  BY <1>0, <1>5, <1>8 DEF Typed
<1>b. Typed'
  <2>1. anchors' \in [Rungs -> Anchors]
    BY <1>0, <1>3, <1>4, <1>5 DEF Typed
  <2> QED BY <1>0, <1>2, <1>7, <1>a, <2>1 DEF Typed
<1>c. Alone(p) /\ ListKept' /\ Asked' = Asked
  BY <1>0, <1>2, <1>7, <1>a DEF Alone, ListKept, Asked
<1>d. Counts(p)'
  BY <1>0, <1>2, <1>9, <1>a, <1>c DEF Counts
<1>e. Walks(p)'
  <2>1. {ra[1] : ra \in new.out} = {ra[1] : ra \in pr[p].out} \cup {r}
    <3>1. {ra[1] : ra \in pr[p].out \cup {<<r, a>>}} = {ra[1] : ra \in pr[p].out} \cup {r}
      BY OneMore, Zenon
    <3> QED BY <1>9, <3>1, Zenon
  <2>2. Size(p)' = Size(p) /\ Wanted(p)' = Wanted(p) /\ Freq(p)' = Freq(p)
    BY <1>9, <1>a DEF Size, Wanted, Freq
  <2>3. \A ra \in new.out : Serves(ra[2], Size(p), Wanted(p))
    BY <1>0, <1>4, <1>9 DEF Walks
  <2>4. {ra[1] : ra \in new.out} \cup Range(new.left) = Range(Plan(Freq(p)))
    BY <1>0, <1>3, <1>9, <2>1 DEF Walks
  <2>5. pr[p].ready => pr[p].idx = None
    BY <1>0 DEF Walks
  <2> QED BY <1>9, <1>a, <2>2, <2>3, <2>4, <2>5 DEF Walks
<1>f. Holds(p)'
  <2>1. pr[p].ready => pr[p].dropped
    BY <1>0 DEF Holds
  <2> QED BY <1>7, <1>9, <1>a, <2>1 DEF Holds
<1> QED BY <1>b, <1>c, <1>d, <1>e, <1>f, Closes

LEMMA DiesKeeps ==
    ASSUME SweepInv, NEW p \in Procs, Dies(p)
    PROVE  SweepInv'
<1>0. Typed /\ ListKept /\ \A q \in Procs : Counts(q) /\ Walks(q) /\ Holds(q)
  BY DEF SweepInv
<1>1. /\ cache' = [cache EXCEPT ![p] = [r \in Rungs |-> Absent]]
      /\ fifo' = [fifo EXCEPT ![p] = <<>>] /\ dead' = dead \cup {p}
      /\ UNCHANGED <<seen, anchors, mine, pr, noted, clean>>
  BY DEF Dies, shared, history
<1>2. [r \in Rungs |-> Absent] \in [Rungs -> Anchors] /\ <<>> \in Seq(Rungs)
  BY AnchorIs, EmptySeq
<1>3. Typed'
  BY <1>0, <1>1, <1>2 DEF Typed
<1>4. Alone(p) /\ ListKept' /\ Asked' = Asked
  BY <1>0, <1>1 DEF Typed, Alone, ListKept, Asked
<1>5. Counts(p)'
  BY <1>0, <1>1, <1>4 DEF Counts
<1>6. Walks(p)'
  BY <1>0, <1>1 DEF Walks, Freq, Size, Wanted
<1>7. Holds(p)'
  <2>1. p \in dead' /\ cache'[p] = [r \in Rungs |-> Absent]
    BY <1>0, <1>1 DEF Typed
  <2> QED BY <1>0, <1>1, <2>1 DEF Holds
<1> QED BY <1>3, <1>4, <1>5, <1>6, <1>7, Closes

LEMMA EvictsKeeps ==
    ASSUME SweepInv, Evicts
    PROVE  SweepInv'
<1>0. Typed /\ ListKept /\ \A q \in Procs : Counts(q) /\ Walks(q) /\ Holds(q)
  BY DEF SweepInv
<1>1. /\ UNCHANGED <<seen, mine, cache, fifo, pr, dead, noted, clean>>
      /\ (\E r \in Rungs : anchors' = [anchors EXCEPT ![r] = Absent]) \/ anchors' = anchors
  BY DEF Evicts, held, history
<1>2. Typed'
  BY <1>0, <1>1, AnchorIs DEF Typed
<1>3. Asked' = Asked
  BY <1>1 DEF Asked
<1>4. ListKept'
  BY <1>0, <1>1, <1>3 DEF ListKept
<1>5. \A q \in Procs : Counts(q)' /\ Walks(q)' /\ Holds(q)'
  BY <1>0, <1>1, <1>2, <1>3, OthersKeep
<1> QED BY <1>2, <1>4, <1>5 DEF SweepInv

LEMMA SweepInit == Init => SweepInv
<1> SUFFICES ASSUME Init PROVE SweepInv
  OBVIOUS
<1>1. PICK n \in Earlier : anchors = [r \in Rungs |-> [Absent EXCEPT !.size = n]]
  BY DEF Init
<1>2. anchors \in [Rungs -> Anchors]
  <2>1. [Absent EXCEPT !.size = n] = [size |-> n, filled |-> {}]
    BY DEF Absent
  <2>2. [size |-> n, filled |-> {}] \in Anchors
    <3>1. CASE n \in Sizes
      BY <3>1, AnchorIs
    <3>2. CASE n = 0
      BY <3>2, AnchorIs DEF Absent
    <3> QED BY <3>1, <3>2, SweepAssumption
  <2> QED BY <1>1, <2>1, <2>2
<1>3. Typed
  BY <1>2, IdleIs, AnchorIs, EmptySeq DEF Init, Typed
<1>4. ListKept
  BY DEF Init, ListKept, Range
<1>5. ASSUME NEW p \in Procs PROVE Counts(p) /\ Walks(p) /\ Holds(p)
  <2>1. pr[p] = Idle /\ cache[p] = [r \in Rungs |-> Absent] /\ fifo[p] = <<>>
    BY DEF Init
  <2>2. Counts(p)
    BY <2>1 DEF Counts, Idle, Range
  <2>3. Walks(p)
    BY <2>1 DEF Walks, Idle
  <2>4. Holds(p)
    BY <2>1 DEF Holds, Idle
  <2> QED BY <2>2, <2>3, <2>4
<1> QED BY <1>3, <1>4, <1>5 DEF SweepInv

LEMMA SweepStep == SweepInv /\ [Next]_vars => SweepInv'
<1> SUFFICES ASSUME SweepInv, [Next]_vars PROVE SweepInv'
  OBVIOUS
<1>1. CASE UNCHANGED vars
  <2>1. UNCHANGED <<seen, anchors, mine, cache, fifo, pr, dead, noted, clean>>
    BY <1>1 DEF vars, shared, held, history
  <2>2. Typed' /\ Asked' = Asked
    BY <2>1 DEF SweepInv, Typed, Asked
  <2>3. \A q \in Procs : Counts(q)' /\ Walks(q)' /\ Holds(q)'
    BY <2>1, <2>2, OthersKeep DEF SweepInv
  <2>4. ListKept'
    BY <2>1, <2>2 DEF SweepInv, ListKept
  <2> QED BY <2>2, <2>3, <2>4 DEF SweepInv
<1>2. ASSUME NEW p \in Procs, Step(p) PROVE SweepInv'
  BY <1>2, NotesKeeps, TellsKeeps, FetchesKeeps, ReadiesKeeps, FillsKeeps, GathersKeeps,
     GrowsKeeps, AlignsKeeps, BlendsKeeps DEF Step
<1>3. ASSUME NEW p \in Procs, Aborts(p) \/ Dies(p) PROVE SweepInv'
  BY <1>3, AbortsKeeps, DiesKeeps
<1>4. ASSUME NEW p \in Procs, NEW k \in Keys, Asks(p, k) \/ (\E idx \in Regions : Reads(p, k, idx))
      PROVE  SweepInv'
  BY <1>4, AsksKeeps, ReadsKeeps
<1>5. CASE Evicts
  BY <1>5, EvictsKeeps
<1> QED BY <1>1, <1>2, <1>3, <1>4, <1>5 DEF Next, Finished

\* The inductive invariant of the crew: what each list a process has read can
\* tell it, where each walk is, and what each process has in memory, whatever
\* the other processes store, lose or evict between its steps.
THEOREM SweepInvariant == Spec => []SweepInv
BY SweepInit, SweepStep, PTL DEF Spec

\* A crew counts as one sweep: whatever the file of frequencies lost, anchors
\* are bought for no table that the crew has not asked enough neighbours of; and
\* until it loses something, no process fills a table exactly that the notes it
\* read put in a sweep.  Anchors found ready are not bought again.
THEOREM AnchorsAreBoughtForASweep == Spec => []SweepCounted
<1>1. SweepInv => SweepCounted
  <2> SUFFICES ASSUME SweepInv PROVE SweepCounted
    OBVIOUS
  <2>1. NeverEarly
    BY DEF SweepInv, Counts, NeverEarly
  <2>2. NoneMissed
    BY DEF SweepInv, Counts, NoneMissed
  <2>3. ReadyCostsNothing
    BY DEF SweepInv, Holds, ReadyCostsNothing
  <2> QED BY <2>1, <2>2, <2>3 DEF SweepCounted
<1> QED BY <1>1, SweepInvariant, PTL

\* A blend has an anchor of its own size at least at each rung of its plan, with
\* the region it was asked for, although the files are replaced and evicted and
\* the cache drops rungs between the walk that grows them and the walk that
\* takes them.
THEOREM BlendsAreServed == Spec => []AnchorsServe
<1>1. SweepInv => AnchorsServe
  <2> SUFFICES ASSUME SweepInv, NEW p \in Procs, pr[p].pc = "gathering", pr[p].left = <<>>
               PROVE  /\ {ra[1] : ra \in pr[p].out} = Range(Plan(Freq(p)))
                      /\ \A ra \in pr[p].out :
                           /\ ra[2].size >= Size(p)
                           /\ pr[p].aligned /\ pr[p].idx # None => pr[p].idx \in ra[2].filled
    BY DEF AnchorsServe
  <2>1. Walks(p)
    BY DEF SweepInv
  <2>2. Range(pr[p].left) = {}
    BY DEF Range
  <2>3. {ra[1] : ra \in pr[p].out} \cup Range(pr[p].left) = Range(Plan(Freq(p)))
    BY <2>1 DEF Walks
  <2>4. \A ra \in pr[p].out : Serves(ra[2], Size(p), Wanted(p))
    BY <2>1 DEF Walks
  <2>5. {ra[1] : ra \in pr[p].out} = Range(Plan(Freq(p)))
    BY <2>2, <2>3
  <2>6. \A ra \in pr[p].out : /\ ra[2].size >= Size(p)
                              /\ pr[p].aligned /\ pr[p].idx # None => pr[p].idx \in ra[2].filled
    BY <2>4 DEF Serves, Wanted
  <2> QED BY <2>5, <2>6
<1> QED BY <1>1, SweepInvariant, PTL

\* What NeverShrinks says of one step.
Grown == \A p \in Procs, r \in Rungs : cache[p][r] # Absent /\ cache'[p][r] # Absent =>
            /\ cache'[p][r].size >= cache[p][r].size
            /\ cache[p][r].filled \cap Near \subseteq cache'[p][r].filled

\* An anchor put in the place of a lesser one takes nothing from the cache.
LEMMA CachesGrow ==
    ASSUME SweepInv, NEW p \in Procs, NEW r \in Rungs, NEW a \in Anchors, Caches(p, r, a),
           a.size >= cache[p][r].size, cache[p][r].filled \cap Near \subseteq a.filled
    PROVE  Grown
<1>1. /\ \A q \in Procs \ {p} : cache'[q] = cache[q]
      /\ cache'[p][r] = a
      /\ \A x \in Rungs \ {r} : cache'[p][x] \in {cache[p][x], Absent}
  BY CachesIs DEF SweepInv, Holds
<1>2. \A q \in Procs, x \in Rungs : cache[q][x].size \in Nat
  BY AnchorIs DEF SweepInv, Typed
<1>3. ASSUME NEW q \in Procs, NEW x \in Rungs, cache'[q][x] # Absent
      PROVE  /\ cache'[q][x].size >= cache[q][x].size
             /\ cache[q][x].filled \cap Near \subseteq cache'[q][x].filled
  <2>1. CASE q = p /\ x = r
    BY <1>1, <2>1
  <2>2. CASE ~(q = p /\ x = r)
    <3>1. cache'[q][x] = cache[q][x]
      BY <1>1, <1>3, <2>2
    <3> QED BY <1>2, <3>1
  <2> QED BY <2>1, <2>2
<1> QED BY <1>3 DEF Grown

LEMMA SameCache ==
    ASSUME SweepInv, UNCHANGED cache
    PROVE  Grown
<1>1. \A q \in Procs, x \in Rungs : cache[q][x].size \in Nat
  BY AnchorIs DEF SweepInv, Typed
<1> QED BY <1>1 DEF Grown

\* An anchor in memory only grows: what a process adopts from a file, or grows
\* from the anchor in hand, is at least what it has, although the file may be
\* smaller by the time it is read.
THEOREM MemoryNeverShrinks == Spec => NeverShrinks
<1>1. ASSUME SweepInv, NEW p \in Procs, Readies(p) PROVE Grown
  <2>1. pr[p].left \in Seq(Rungs)
    BY <1>1 DEF SweepInv, Typed, Calls
  <2>2. CASE pr[p].left = <<>>
    BY <1>1, <2>2, SameCache DEF Readies
  <2>3. CASE pr[p].left # <<>>
    <3> DEFINE r == Head(pr[p].left)
               a == Found(p, r)
    <3>1. r \in Rungs
      BY <2>1, <2>3, RangeIs
    <3>2. /\ a \in Anchors /\ a.size >= cache[p][r].size
          /\ cache[p][r].filled \cap Near \subseteq a.filled
      <4>1. cache[p][r] \in Anchors /\ anchors[r] \in Anchors
        BY <1>1, <3>1 DEF SweepInv, Typed
      <4> QED BY <4>1, AdoptIs, AnchorIs DEF Found
    <3>3. Caches(p, r, a) \/ UNCHANGED cache
      BY <1>1, <2>3 DEF Readies
    <3> HIDE DEF r, a
    <3> QED BY <1>1, <3>1, <3>2, <3>3, CachesGrow, SameCache
  <2> QED BY <2>2, <2>3
<1>2. ASSUME SweepInv, NEW p \in Procs, Gathers(p) PROVE Grown
  <2> DEFINE r == Head(pr[p].left)
             a == IF Serves(cache[p][r], Size(p), Wanted(p)) THEN cache[p][r]
                  ELSE Adopt(cache[p][r], anchors[r])
  <2>1. r \in Rungs
    <3>1. pr[p].left \in Seq(Rungs) /\ pr[p].left # <<>>
      BY <1>2 DEF SweepInv, Typed, Calls, Gathers
    <3> QED BY <3>1, RangeIs
  <2>2. /\ a \in Anchors /\ a.size >= cache[p][r].size
        /\ cache[p][r].filled \cap Near \subseteq a.filled
    <3>1. cache[p][r] \in Anchors /\ anchors[r] \in Anchors
      BY <1>2, <2>1 DEF SweepInv, Typed
    <3> QED BY <3>1, AdoptIs, AnchorIs
  <2>3. Caches(p, r, a) \/ UNCHANGED cache
    BY <1>2 DEF Gathers
  <2> HIDE DEF r, a
  <2> QED BY <1>2, <2>1, <2>2, <2>3, CachesGrow, SameCache
<1>3. ASSUME SweepInv, NEW p \in Procs, Grows(p) PROVE Grown
  <2> DEFINE r == Head(pr[p].left)
             g == pr[p].grid
             a == [size   |-> IF g.size >= Size(p) THEN g.size ELSE Size(p),
                   filled |-> g.filled \cup ({Wanted(p)} \ {None})]
  <2>0. Typed /\ Counts(p) /\ Walks(p) /\ Holds(p) /\ p \notin dead /\ pr[p].pc = "growing"
    BY <1>3 DEF SweepInv, Grows, At
  <2>1. r \in Rungs
    <3>1. pr[p].left \in Seq(Rungs) /\ pr[p].left # <<>>
      BY <2>0 DEF Typed, Calls, Walks
    <3> QED BY <3>1, RangeIs
  <2>2. g.size >= cache[p][r].size /\ cache[p][r].filled \cap Near \subseteq g.filled
    BY <2>0 DEF Holds
  <2>3. /\ g.size \in Nat /\ g.filled \subseteq Regions /\ (g.size # 0 => g.size \in Sizes)
        /\ cache[p][r].size \in Nat
    <3>1. g \in Anchors /\ cache[p][r] \in Anchors
      BY <2>0, <2>1 DEF Typed, Calls
    <3> HIDE DEF g, r
    <3>2. g.size # 0 => g.size \in Sizes
      BY <3>1 DEF Anchors, Absent
    <3> QED BY <3>1, <3>2, AnchorIs
  <2>4. Size(p) \in Sizes /\ Size(p) \in Nat /\ Size(p) >= 1 /\ Wanted(p) \in Regions \cup {None}
    BY <2>0, Constants DEF Counts, Size, Wanted, Typed, Calls
  <2>5. a.size \in Sizes /\ a.size >= cache[p][r].size /\ a.filled \in SUBSET Regions
    BY <2>2, <2>3, <2>4
  <2>6. a \in Anchors /\ cache[p][r].filled \cap Near \subseteq a.filled
    BY <2>2, <2>5, AnchorIs
  <2>7. Caches(p, r, a)
    BY <1>3 DEF Grows
  <2> HIDE DEF r, a, g
  <2> QED BY <1>3, <2>1, <2>5, <2>6, <2>7, CachesGrow
<1>4. ASSUME SweepInv, NEW p \in Procs, Dies(p) PROVE Grown
  <2>1. /\ \A q \in Procs \ {p} : cache'[q] = cache[q]
        /\ \A r \in Rungs : cache'[p][r] = Absent
    BY <1>4 DEF SweepInv, Typed, Dies
  <2>2. \A q \in Procs, x \in Rungs : cache[q][x].size \in Nat
    BY <1>4, AnchorIs DEF SweepInv, Typed
  <2> QED BY <2>1, <2>2 DEF Grown
<1>5. ASSUME SweepInv, [Next]_vars PROVE Grown
  <2>1. CASE UNCHANGED vars
    BY <1>5, <2>1, SameCache DEF vars, held
  <2>2. ASSUME NEW p \in Procs, Step(p) PROVE Grown
    <3>1. CASE Readies(p) \/ Gathers(p) \/ Grows(p)
      BY <1>1, <1>2, <1>3, <1>5, <3>1
    <3>2. CASE Notes(p) \/ Tells(p) \/ Fetches(p) \/ Fills(p) \/ Aligns(p) \/ Blends(p)
      BY <1>5, <3>2, SameCache DEF Notes, Tells, Fetches, Fills, Aligns, Blends, held
    <3> QED BY <2>2, <3>1, <3>2 DEF Step
  <2>3. ASSUME NEW p \in Procs, Aborts(p) \/ Dies(p) PROVE Grown
    BY <1>4, <1>5, <2>3, SameCache DEF Aborts, held
  <2>4. ASSUME NEW p \in Procs, NEW k \in Keys, Asks(p, k) \/ (\E idx \in Regions : Reads(p, k, idx))
        PROVE  Grown
    BY <1>5, <2>4, SameCache DEF Asks, Reads, held
  <2>5. CASE Evicts
    BY <1>5, <2>5, SameCache DEF Evicts, held
  <2> QED BY <1>5, <2>1, <2>2, <2>3, <2>4, <2>5 DEF Next, Finished
<1>6. SweepInv /\ [Next]_vars => [Grown]_vars
  BY <1>5
<1>7. Spec => [][Grown]_vars
  BY <1>6, SweepInvariant, PTL DEF Spec
<1> QED BY <1>7 DEF NeverShrinks, Grown
=============================================================================
