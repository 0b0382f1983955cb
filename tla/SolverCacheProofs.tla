------------------------- MODULE SolverCacheProofs -------------------------
(***************************************************************************)
(* What a session of decks is answered, for every set of decks: where the  *)
(* operator key tells decks apart (KeyTells), each is answered as a fresh  *)
(* process answers it, from whichever solver; the measurement file counts  *)
(* whole decks; and the statistics tell what was solved, filled and held.  *)
(***************************************************************************)
EXTENDS SolverCache, SequenceTheorems, FiniteSetTheorems, TLAPS

\* A solver that was built holds only fills that did not raise.
Held(s) == ~Refused(s.built) /\ \A pt \in s.fills : pt[2] \notin Raising

\* What is printed when run i is at its frequency j.
Printed(d, i, j) ==
    ({Structure(New(d))} \cup (UNION {FreshRun(d, n) : n \in 1 .. i - 1}))
        \cup {Block(New(d), d, i, m) : m \in 1 .. j - 1}

HeldInv == \A k \in DOMAIN solvers : Held(solvers[k]) /\ Key(solvers[k].built) = k

RenderInv == pc = "render" =>
    /\ Held(solver) /\ Key(solver.built) = Key(deck) /\ solver.portal = deck
    /\ ~Refused(deck)
    /\ step > 1 => Model[deck].runs[run].op \notin Raising
    /\ answer = Printed(deck, run, step)

ParsedInv == pc \in {"lookup", "render"} => Model[deck].parses

AnswerInv == HeldInv /\ RenderInv /\ ParsedInv /\ AnswersAsFresh

\* The runs of decks of one key stand and ask alike.
LEMMA SameRuns ==
    ASSUME KeyTells, NEW d \in Decks, NEW e \in Decks, Key(d) = Key(e)
    PROVE  /\ Model[d].shape = Model[e].shape /\ Model[d].tags = Model[e].tags
           /\ DOMAIN Model[d].runs = DOMAIN Model[e].runs
           /\ \A i \in DOMAIN Model[d].runs :
               /\ Model[d].runs[i].op = Model[e].runs[i].op
               /\ Model[d].runs[i].loads = Model[e].runs[i].loads
               /\ Model[d].runs[i].place = Model[e].runs[i].place
<1> DEFINE ops(x) == [i \in DOMAIN Model[x].runs |-> Model[x].runs[i].op]
           lds(x) == [i \in DOMAIN Model[x].runs |-> Model[x].runs[i].loads]
<1>1. Model[d].shape = Model[e].shape /\ ops(d) = ops(e) /\ lds(d) = lds(e)
    BY DEF Key
<1>2. DOMAIN ops(d) = DOMAIN Model[d].runs /\ DOMAIN ops(e) = DOMAIN Model[e].runs
    OBVIOUS
<1>3. DOMAIN Model[d].runs = DOMAIN Model[e].runs
    BY <1>1, <1>2
<1>4. ASSUME NEW i \in DOMAIN Model[d].runs
      PROVE  /\ Model[d].runs[i].op = Model[e].runs[i].op
             /\ Model[d].runs[i].loads = Model[e].runs[i].loads
    <2>1. ops(d)[i] = ops(e)[i] /\ lds(d)[i] = lds(e)[i]
        BY <1>1
    <2>2. QED
        BY <2>1, <1>3
<1>5. QED
    BY <1>1, <1>3, <1>4 DEF KeyTells

\* A solver held for deck d, whichever deck it was built for, prints what one
\* built for d does.
LEMMA SameBlocks ==
    ASSUME KeyTells, NEW d \in Decks, NEW s, s.built \in Decks,
           Key(s.built) = Key(d), s.portal = d
    PROVE  /\ Structure(s) = Structure(New(d))
           /\ \A i, j : Block(s, d, i, j) = Block(New(d), d, i, j)
<1> DEFINE b == s.built
<1>1. /\ Model[b].shape = Model[d].shape /\ Model[b].tags = Model[d].tags
      /\ DOMAIN Model[b].runs = DOMAIN Model[d].runs
      /\ \A i \in DOMAIN Model[b].runs :
          /\ Model[b].runs[i].loads = Model[d].runs[i].loads
          /\ Model[b].runs[i].place = Model[d].runs[i].place
    BY SameRuns
<1>2. ASSUME NEW p
      PROVE  LoadsAt(b, p) = LoadsAt(d, p)
    <2>1. {r \in DOMAIN Model[b].runs : Model[b].runs[r].place = p}
          = {r \in DOMAIN Model[d].runs : Model[d].runs[r].place = p}
        BY <1>1
    <2>2. \A r \in DOMAIN Model[b].runs : Model[b].runs[r].loads = Model[d].runs[r].loads
        BY <1>1
    <2>3. QED
        BY <2>1, <2>2 DEF LoadsAt
<1>3. New(d).built = d /\ New(d).portal = d
    BY DEF New
<1>4. \A i : Driven(s, d, i) = Driven(New(d), d, i)
    BY <1>1, <1>3 DEF Driven
<1>5. QED
    BY <1>1, <1>2, <1>3, <1>4 DEF Structure, Block

\* Decks of one key are refused alike.
LEMMA SameRefusal ==
    ASSUME KeyTells, NEW d \in Decks, NEW e \in Decks, Key(d) = Key(e)
    PROVE  Refused(d) = Refused(e)
<1>1. 1 \in DOMAIN Model[d].runs
    BY SolverAssumption
<1>2. QED
    BY <1>1, SameRuns DEF Refused

\* A new solver is held by the key of its deck.
LEMMA NewHeld ==
    ASSUME NEW d \in Decks, ~Refused(d)
    PROVE  Held(New(d)) /\ Key(New(d).built) = Key(d) /\ New(d).portal = d
<1>1. Point(d, 1, 1)[2] = Model[d].runs[1].op
    BY DEF Point
<1>2. QED
    BY <1>1 DEF Held, New, Refused

\* A set of numbers that has one has a least one.
LEMMA Least ==
    ASSUME NEW S, S \subseteq Nat, S # {}
    PROVE  Min(S) \in S
<1>1. \A y, z \in Nat : y < z => <<y, z>> \in OpToRel(<, Nat)
    BY DEF OpToRel
<1>2. \E R : IsWellFoundedOn(R, Nat) /\ \A y, z \in Nat : y < z => <<y, z>> \in R
    BY <1>1, NatLessThanWellFounded, Zenon
<1>3. PICK R : IsWellFoundedOn(R, Nat) /\ \A y, z \in Nat : y < z => <<y, z>> \in R
    BY <1>2
<1>4. PICK x \in S : \A y \in S : ~(<<y, x>> \in R)
    <2>1. IsWellFoundedOn(R, Nat)
        BY <1>3
    <2>2. QED
        BY <2>1, WFMin, Zenon
<1>5. ASSUME NEW y \in S
      PROVE  x =< y
    <2>1. x \in Nat /\ y \in Nat
        OBVIOUS
    <2>2. ~(y < x)
        BY <1>3, <1>4, <2>1, Zenon
    <2>3. QED
        BY <2>1, <2>2
<1>6. QED
    BY <1>4, <1>5 DEF Min

\* The recency order o lists the keys D, each once.
Lists(o, D) ==
    /\ o \in Seq(D)
    /\ \A k \in D : \E i \in DOMAIN o : o[i] = k
    /\ \A i, j \in DOMAIN o : o[i] = o[j] => i = j

\* A new key at the end keeps the order a list of the keys.
LEMMA AppendLists ==
    ASSUME NEW D, NEW o, Lists(o, D), NEW k, k \notin D
    PROVE  /\ Lists(Append(o, k), D \cup {k})
           /\ Append(o, k) # <<>> /\ Append(o, k)[Len(Append(o, k))] = k
<1> DEFINE a == Append(o, k)
<1>1. /\ a \in Seq(D \cup {k}) /\ Len(a) = Len(o) + 1 /\ a[Len(a)] = k
      /\ \A i \in 1 .. Len(o) : a[i] = o[i]
    BY DEF Lists
<1>2. /\ DOMAIN o = 1 .. Len(o) /\ DOMAIN a = 1 .. Len(o) + 1 /\ Len(o) \in Nat
      /\ \A i \in DOMAIN o : o[i] \in D
    BY <1>1 DEF Lists
<1>3. \A x \in D \cup {k} : \E i \in DOMAIN a : a[i] = x
    BY <1>1, <1>2 DEF Lists
<1>4. \A i, j \in DOMAIN a : a[i] = a[j] => i = j
    BY <1>1, <1>2 DEF Lists
<1>5. a # <<>>
    BY <1>1, <1>2
<1>6. QED
    BY <1>1, <1>3, <1>4, <1>5 DEF Lists

\* Moving a key to the end keeps the order a list of the same keys.
LEMMA MoveLists ==
    ASSUME NEW D, NEW o, Lists(o, D), NEW k \in D
    PROVE  /\ Lists(MoveToEnd(o, k), D)
           /\ MoveToEnd(o, k) # <<>> /\ MoveToEnd(o, k)[Len(MoveToEnd(o, k))] = k
<1> DEFINE p == CHOOSE i \in DOMAIN o : o[i] = k
           m == MoveToEnd(o, k)
<1>1. p \in DOMAIN o /\ o[p] = k
    BY DEF Lists
<1>2. DOMAIN o = 1 .. Len(o) /\ Len(o) \in Nat /\ \A i \in DOMAIN o : o[i] \in D
    BY DEF Lists
<1> HIDE DEF p
<1>3. m = [i \in DOMAIN o |-> IF i < p THEN o[i] ELSE IF i < Len(o) THEN o[i + 1] ELSE k]
    BY DEF MoveToEnd, p
<1>4. m \in Seq(D) /\ Len(m) = Len(o) /\ DOMAIN m = DOMAIN o
    BY <1>1, <1>2, <1>3
<1> HIDE DEF m
<1>5. m # <<>> /\ m[Len(m)] = k
    BY <1>1, <1>2, <1>3, <1>4
<1>6. ASSUME NEW x \in D
      PROVE  \E i \in DOMAIN m : m[i] = x
    <2>1. PICK i \in DOMAIN o : o[i] = x
        BY DEF Lists
    <2>2. CASE i < p
        BY <2>1, <2>2, <1>3, <1>4
    <2>3. CASE i = p
        BY <2>1, <2>3, <1>1, <1>2, <1>4, <1>5
    <2>4. CASE i > p
        <3>1. i - 1 \in DOMAIN o /\ ~(i - 1 < p) /\ i - 1 < Len(o) /\ (i - 1) + 1 = i
            BY <2>1, <2>4, <1>1, <1>2
        <3>2. m[i - 1] = o[i]
            BY <3>1, <1>3
        <3>3. QED
            BY <3>1, <3>2, <2>1, <1>4
    <2>5. QED
        BY <2>2, <2>3, <2>4, <2>1, <1>1, <1>2
<1>7. ASSUME NEW i \in DOMAIN m, NEW j \in DOMAIN m, m[i] = m[j]
      PROVE  i = j
    <2> DEFINE f(x) == IF x < p THEN x ELSE IF x < Len(o) THEN x + 1 ELSE p
    <2>1. \A x \in DOMAIN m : f(x) \in DOMAIN o /\ m[x] = o[f(x)]
        BY <1>1, <1>2, <1>3, <1>4
    <2>2. f(i) = f(j)
        BY <1>7, <2>1 DEF Lists
    <2>3. QED
        BY <2>2, <1>1, <1>2, <1>4
<1>8. QED
    BY <1>4, <1>5, <1>6, <1>7 DEF Lists, m

\* An eviction pass drops from the front, never the most recent, and as many as
\* it takes for the rest to fit, if it can.
LEMMA DroppedSome ==
    ASSUME NEW D, NEW o, Lists(o, D), o # <<>>, NEW z
    PROVE  /\ Dropped(o, z) \in 0 .. Len(o) - 1
           /\ Fits(o, z, Dropped(o, z)) \/ Dropped(o, z) = Len(o) - 1
<1> DEFINE S == {n \in 0 .. Len(o) - 1 : Fits(o, z, n) \/ n = Len(o) - 1}
<1>1. Len(o) \in Nat \ {0}
    BY DEF Lists
<1>2. Len(o) - 1 \in S /\ S \subseteq Nat
    BY <1>1
<1>3. Min(S) \in S
    <2> HIDE DEF S
    <2> QED
        BY <1>2, Least
<1>4. QED
    BY <1>3 DEF Dropped

Evicted(s, o, st) ==
    /\ solvers' = [k \in DOMAIN solvers' |-> s[k]]
    /\ DOMAIN solvers' \subseteq DOMAIN s
    /\ Lists(order', DOMAIN solvers')
    /\ order' # <<>> /\ order'[Len(order')] = o[Len(o)]
    /\ DOMAIN sizes' = DOMAIN solvers'
    /\ \E n \in Nat : \E b : stats' = [st EXCEPT !.evictions = @ + n, !.bytes = b]

\* An eviction pass keeps the most recent entry, and entries as they were.
LEMMA EvictKeeps ==
    ASSUME NEW s, NEW o, NEW z, NEW st,
           Lists(o, DOMAIN s), o # <<>>, Evict(s, o, z, st)
    PROVE  Evicted(s, o, st)
<1> DEFINE n    == Dropped(o, z)
           kept == SubSeq(o, n + 1, Len(o))
<1>1. n \in 0 .. Len(o) - 1
    BY DroppedSome
<1>2. /\ order' = kept
      /\ solvers' = [k \in Range(kept) |-> s[k]]
      /\ sizes' = [k \in Range(kept) |-> z[k]]
      /\ stats' = [st EXCEPT !.evictions = @ + n, !.bytes = Total(z, Range(kept))]
    BY DEF Evict, Restrict
<1>3. o \in Seq(DOMAIN s) /\ Len(o) \in Nat /\ DOMAIN o = 1 .. Len(o)
    BY DEF Lists
<1> HIDE DEF n
<1>4. /\ Len(kept) = Len(o) - n /\ DOMAIN kept = 1 .. Len(o) - n
      /\ \A i \in 1 .. Len(o) - n : kept[i] = o[i + n]
      /\ kept = [i \in 1 .. Len(o) - n |-> kept[i]]
    BY <1>1, <1>3
<1> HIDE DEF kept
<1>5. Range(kept) = {kept[i] : i \in DOMAIN kept}
    BY DEF Range
<1>6. Range(kept) \subseteq DOMAIN s
    BY <1>1, <1>3, <1>4, <1>5
<1>7. kept \in Seq(Range(kept))
    <2> DEFINE R == Range(kept)
    <2>1. /\ Len(o) - n \in Nat /\ \A i \in 1 .. Len(o) - n : kept[i] \in R
          /\ kept = [i \in 1 .. Len(o) - n |-> kept[i]]
        BY <1>1, <1>3, <1>4, <1>5
    <2> HIDE DEF R
    <2>2. kept \in Seq(R)
        BY <2>1
    <2>3. QED
        BY <2>2 DEF R
<1>8. \A i, j \in DOMAIN kept : kept[i] = kept[j] => i = j
    <2> SUFFICES ASSUME NEW i \in DOMAIN kept, NEW j \in DOMAIN kept, kept[i] = kept[j]
                 PROVE  i = j
        OBVIOUS
    <2>1. i + n \in DOMAIN o /\ j + n \in DOMAIN o /\ o[i + n] = o[j + n]
        BY <1>1, <1>3, <1>4
    <2>2. i + n = j + n
        BY <2>1 DEF Lists
    <2>3. QED
        BY <2>2, <1>1, <1>3, <1>4
<1>9. Lists(kept, Range(kept))
    BY <1>5, <1>7, <1>8 DEF Lists
<1>10. kept # <<>> /\ kept[Len(kept)] = o[Len(o)]
    <2>1. PICK m \in Nat : m = Len(o) /\ n \in 0 .. m - 1
        BY <1>1, <1>3
    <2>2. m - n \in 1 .. m - n /\ (m - n) + n = m /\ Len(kept) = m - n
        BY <1>4, <2>1
    <2>3. kept[m - n] = o[m]
        BY <1>4, <2>1, <2>2
    <2>4. kept # <<>>
        <3>1. Len(<<>>) = 0 /\ Len(kept) # 0
            BY <2>1, <2>2
        <3>2. QED
            BY <3>1, Zenon
    <2>5. QED
        BY <2>1, <2>2, <2>3, <2>4
<1>11. \E m \in Nat : \E b : stats' = [st EXCEPT !.evictions = @ + m, !.bytes = b]
    <2>1. n \in Nat
        BY <1>1, <1>3
    <2>2. QED
        BY <1>2, <2>1, Zenon
<1>12. DOMAIN solvers' = Range(kept) /\ DOMAIN sizes' = Range(kept)
    BY <1>2
<1>13. \A k \in Range(kept) : solvers'[k] = s[k]
    BY <1>2
<1>14. QED
    BY <1>2, <1>6, <1>9, <1>10, <1>11, <1>12, <1>13 DEF Evicted

---------------------------------------------------------------------------

\* A deck has a first run, each run a first frequency, and the runs and the
\* frequencies are numbered.
LEMMA Positions ==
    ASSUME NEW d \in Decks
    PROVE  /\ DOMAIN Model[d].runs = 1 .. Len(Model[d].runs)
           /\ Len(Model[d].runs) \in Nat \ {0}
           /\ \A i \in DOMAIN Model[d].runs :
               /\ DOMAIN Model[d].runs[i].freqs = 1 .. Len(Model[d].runs[i].freqs)
               /\ Len(Model[d].runs[i].freqs) \in Nat \ {0}
               /\ \A j \in DOMAIN Model[d].runs[i].freqs : Point(d, i, j) \in Points
<1>1. Model[d].runs \in Seq(Runs) /\ Len(Model[d].runs) > 0
    BY SolverAssumption
<1>2. ASSUME NEW i \in DOMAIN Model[d].runs
      PROVE  /\ DOMAIN Model[d].runs[i].freqs = 1 .. Len(Model[d].runs[i].freqs)
             /\ Len(Model[d].runs[i].freqs) \in Nat \ {0}
    <2> DEFINE r == Model[d].runs[i]
               S == Range(r.freqs)
    <2>1. r \in Runs
        BY <1>1
    <2>2. r.freqs \in Seq(S) /\ Len(r.freqs) > 0
        BY <2>1, SolverAssumption
    <2> HIDE DEF r, S
    <2>3. DOMAIN r.freqs = 1 .. Len(r.freqs) /\ Len(r.freqs) \in Nat \ {0}
        BY <2>2
    <2>4. QED
        BY <2>3 DEF r
<1>3. ASSUME NEW i \in DOMAIN Model[d].runs, NEW j \in DOMAIN Model[d].runs[i].freqs
      PROVE  Point(d, i, j) \in Points
    BY DEF Points, PointsOf
<1>4. QED
    BY <1>1, <1>2, <1>3

Entry == [built : Decks, portal : Decks, fills : SUBSET Points]

TypeInv ==
    /\ TypeOK
    /\ solvers = [k \in DOMAIN solvers |-> solvers[k]]
    /\ stats \in [hits : Nat, misses : Nat, evictions : Nat, fills : Nat, bytes : {stats.bytes}]
    /\ pc \in {"lookup", "render", "frame"} => decks < MaxDecks

\* A new solver is an entry, and the key of its deck a key.
LEMMA NewEntry ==
    ASSUME NEW d \in Decks
    PROVE  New(d) \in Entry /\ Key(d) \in Keys
<1>1. Point(d, 1, 1) \in Points
    <2>1. 1 \in DOMAIN Model[d].runs /\ 1 \in DOMAIN Model[d].runs[1].freqs
        BY Positions
    <2>2. QED
        BY <2>1, Positions
<1>2. QED
    BY <1>1 DEF New, Entry, Keys

\* A deck that is answered begins with its first run.
LEMMA Begins ==
    ASSUME NEW s \in Entry, deck \in Decks, Answers(s)
    PROVE  /\ pc' = "render" /\ deck' = deck /\ solver' = s
           /\ run' \in DOMAIN Model[deck].runs /\ step' \in DOMAIN Model[deck].runs[run'].freqs
BY Positions DEF Answers

\* Counting fills keeps the counters numbers, and leaves hits and misses.
LEMMA CountedNat ==
    ASSUME NEW st, st \in [hits : Nat, misses : Nat, evictions : Nat, fills : Nat, bytes : {st.bytes}],
           NEW n \in Nat
    PROVE  /\ Counted(st, n) \in [hits : Nat, misses : Nat, evictions : Nat, fills : Nat,
                                   bytes : {st.bytes}]
           /\ Counted(st, n).hits = st.hits /\ Counted(st, n).misses = st.misses
BY DEF Counted

\* One more hit, or one more miss.
LEMMA OneMore ==
    ASSUME NEW b,
           NEW st \in [hits : Nat, misses : Nat, evictions : Nat, fills : Nat, bytes : {b}]
    PROVE  /\ [st EXCEPT !.hits = @ + 1]
              \in [hits : Nat, misses : Nat, evictions : Nat, fills : Nat, bytes : {b}]
           /\ [st EXCEPT !.misses = @ + 1]
              \in [hits : Nat, misses : Nat, evictions : Nat, fills : Nat, bytes : {b}]
OBVIOUS

\* An eviction pass keeps the counters numbers, and leaves hits and misses.
LEMMA EvictCounts ==
    ASSUME NEW s, NEW o, NEW st, Evicted(s, o, st),
           st \in [hits : Nat, misses : Nat, evictions : Nat, fills : Nat, bytes : {st.bytes}]
    PROVE  /\ stats' \in [hits : Nat, misses : Nat, evictions : Nat, fills : Nat,
                           bytes : {stats'.bytes}]
           /\ stats'.hits = st.hits /\ stats'.misses = st.misses
<1>1. PICK n \in Nat : \E b : stats' = [st EXCEPT !.evictions = @ + n, !.bytes = b]
    BY DEF Evicted
<1> PICK b : stats' = [st EXCEPT !.evictions = @ + n, !.bytes = b]
    BY <1>1
<1>2. stats' = [hits |-> st.hits, misses |-> st.misses, evictions |-> st.evictions + n,
                fills |-> st.fills, bytes |-> b]
    OBVIOUS
<1>3. st.hits \in Nat /\ st.misses \in Nat /\ st.evictions + n \in Nat /\ st.fills \in Nat
    OBVIOUS
<1>4. QED
    BY <1>2, <1>3

\* A hit keeps the types and is counted as one solved deck.
LEMMA HitTyped ==
    ASSUME TypeInv, Hit
    PROVE  /\ TypeInv'
           /\ stats'.hits + stats'.misses = stats.hits + stats.misses + 1
<1> DEFINE k == Key(deck)
           s == [solvers[k] EXCEPT !.portal = deck]
           t == [solvers EXCEPT ![k] = s]
           o == MoveToEnd(order, k)
           st == [stats EXCEPT !.hits = @ + 1]
<1>1. k \in DOMAIN solvers /\ deck \in Decks /\ Evict(t, o, Measured, st) /\ Answers(s)
    BY DEF Hit, TypeInv, TypeOK
<1>2. s \in Entry
    <2>1. solvers[k] \in Entry
        BY <1>1 DEF TypeInv, TypeOK, Entry
    <2>2. QED
        BY <1>1, <2>1 DEF Entry
<1>3. DOMAIN t = DOMAIN solvers /\ \A x \in DOMAIN t : t[x] \in Entry
    BY <1>1, <1>2 DEF TypeInv, TypeOK, Entry
<1>4. Lists(order, DOMAIN solvers)
    BY DEF TypeInv, TypeOK, Lists
<1>5. Lists(o, DOMAIN t) /\ o # <<>>
    BY <1>1, <1>3, <1>4, MoveLists
<1> HIDE DEF t, o, st
<1>6. Evicted(t, o, st)
    BY <1>1, <1>5, EvictKeeps
<1>7. st \in [hits : Nat, misses : Nat, evictions : Nat, fills : Nat, bytes : {st.bytes}]
    BY DEF TypeInv, st
<1>8. /\ \A x \in DOMAIN solvers' : solvers'[x] \in Entry /\ x \in Keys
      /\ solvers' = [x \in DOMAIN solvers' |-> solvers'[x]]
    BY <1>3, <1>6 DEF TypeInv, TypeOK, Evicted
<1>9. /\ pc' = "render" /\ deck' = deck /\ solver' = s
      /\ run' \in DOMAIN Model[deck].runs /\ step' \in DOMAIN Model[deck].runs[run'].freqs
    BY <1>1, <1>2, Begins
<1>10. UNCHANGED <<mode, dryKeys, decks, file>> /\ decks < MaxDecks
    BY DEF Hit, TypeInv
<1>11. /\ stats' \in [hits : Nat, misses : Nat, evictions : Nat, fills : Nat, bytes : {stats'.bytes}]
       /\ stats'.hits = st.hits /\ stats'.misses = st.misses
    BY <1>6, <1>7, EvictCounts
<1>12. stats'.hits + stats'.misses = stats.hits + stats.misses + 1
    BY <1>11 DEF TypeInv, st
<1>13. Lists(order', DOMAIN solvers') /\ DOMAIN sizes' = DOMAIN solvers'
    BY <1>6 DEF Evicted
<1>14. TypeOK'
    BY <1>1, <1>2, <1>8, <1>9, <1>10, <1>11, <1>13 DEF TypeInv, TypeOK, Lists, Entry
<1>15. QED
    BY <1>8, <1>10, <1>11, <1>12, <1>14 DEF TypeInv

\* A miss keeps the types and is counted as one solved deck.
LEMMA MissTyped ==
    ASSUME TypeInv, Miss
    PROVE  /\ TypeInv'
           /\ stats'.hits + stats'.misses = stats.hits + stats.misses + 1
<1> DEFINE k == Key(deck)
           s == New(deck)
           t == [x \in DOMAIN solvers \cup {k} |-> IF x = k THEN s ELSE solvers[x]]
           o == Append(order, k)
           z == [x \in DOMAIN Measured \cup {k} |-> IF x = k THEN Size(s) ELSE Measured[x]]
           m == [stats EXCEPT !.misses = @ + 1]
           st == Counted(m, 1)
<1>1. k \notin DOMAIN solvers /\ deck \in Decks /\ Evict(t, o, z, st) /\ Answers(s)
    BY DEF Miss, TypeInv, TypeOK
<1>2. s \in Entry /\ k \in Keys
    BY <1>1, NewEntry
<1> HIDE DEF s
<1>3. DOMAIN t = DOMAIN solvers \cup {k} /\ \A x \in DOMAIN t : t[x] \in Entry
    BY <1>1, <1>2 DEF TypeInv, TypeOK, Entry
<1>4. Lists(order, DOMAIN solvers)
    BY DEF TypeInv, TypeOK, Lists
<1>5. Lists(o, DOMAIN t) /\ o # <<>>
    BY <1>1, <1>3, <1>4, AppendLists
<1> HIDE DEF t, o, z
<1>6. Evicted(t, o, st)
    BY <1>1, <1>5, EvictKeeps
<1>7. /\ m \in [hits : Nat, misses : Nat, evictions : Nat, fills : Nat, bytes : {m.bytes}]
      /\ m.hits = stats.hits /\ m.misses = stats.misses + 1 /\ m.bytes = stats.bytes
    BY DEF TypeInv
<1> HIDE DEF m
<1>8. /\ st \in [hits : Nat, misses : Nat, evictions : Nat, fills : Nat, bytes : {m.bytes}]
      /\ st.hits = m.hits /\ st.misses = m.misses
    BY <1>7, CountedNat
<1> HIDE DEF st
<1>9. st \in [hits : Nat, misses : Nat, evictions : Nat, fills : Nat, bytes : {st.bytes}]
    BY <1>8
<1>10. /\ stats' \in [hits : Nat, misses : Nat, evictions : Nat, fills : Nat, bytes : {stats'.bytes}]
       /\ stats'.hits = st.hits /\ stats'.misses = st.misses
    BY <1>6, <1>9, EvictCounts
<1>11. stats'.hits + stats'.misses = stats.hits + stats.misses + 1
    BY <1>7, <1>8, <1>10 DEF TypeInv
<1>12. /\ \A x \in DOMAIN solvers' : solvers'[x] \in Entry /\ x \in Keys
       /\ solvers' = [x \in DOMAIN solvers' |-> solvers'[x]]
       /\ Lists(order', DOMAIN solvers') /\ DOMAIN sizes' = DOMAIN solvers'
    BY <1>2, <1>3, <1>6 DEF TypeInv, TypeOK, Evicted
<1>13. /\ pc' = "render" /\ deck' = deck /\ solver' = s
       /\ run' \in DOMAIN Model[deck].runs /\ step' \in DOMAIN Model[deck].runs[run'].freqs
    BY <1>1, <1>2, Begins
<1>14. UNCHANGED <<mode, dryKeys, decks, file>> /\ decks < MaxDecks
    BY DEF Miss, TypeInv
<1>15. TypeOK'
    BY <1>1, <1>2, <1>10, <1>12, <1>13, <1>14 DEF TypeInv, TypeOK, Lists, Entry
<1>16. QED
    BY <1>10, <1>11, <1>12, <1>14, <1>15 DEF TypeInv

\* Where the printing of a deck stands after run i's frequency j.
LEMMA Advances ==
    ASSUME deck \in Decks, run \in DOMAIN Model[deck].runs,
           step \in DOMAIN Model[deck].runs[run].freqs,
           NEW i, NEW j, Advance(i, j),
           \/ i = run + 1 /\ j = 1
           \/ i = run /\ j = step + 1 /\ step < Len(Model[deck].runs[run].freqs)
    PROVE  /\ run' = i /\ step' = j
           /\ \/ /\ pc' = "frame" /\ run = Len(Model[deck].runs) /\ i = run + 1
              \/ /\ pc' = "render"
                 /\ i \in DOMAIN Model[deck].runs /\ j \in DOMAIN Model[deck].runs[i].freqs
<1>1. CASE i = run + 1 /\ j = 1
    <2>1. CASE run + 1 > Len(Model[deck].runs)
        BY <1>1, <2>1, Positions DEF Advance
    <2>2. CASE run + 1 <= Len(Model[deck].runs)
        <3>1. run + 1 \in DOMAIN Model[deck].runs
            BY <2>2, Positions
        <3>2. 1 \in DOMAIN Model[deck].runs[run + 1].freqs
            BY <3>1, Positions
        <3>3. QED
            BY <1>1, <2>2, <3>1, <3>2, Positions DEF Advance
    <2>3. QED
        BY <2>1, <2>2, Positions
<1>2. CASE i = run /\ j = step + 1 /\ step < Len(Model[deck].runs[run].freqs)
    <2>1. step + 1 \in DOMAIN Model[deck].runs[run].freqs
        BY <1>2, Positions
    <2>2. ~(run > Len(Model[deck].runs))
        BY Positions
    <2>3. QED
        BY <1>2, <2>1, <2>2 DEF Advance
<1>3. QED
    BY <1>1, <1>2

\* A step that leaves the cache alone and keeps the counters' types.
LEMMA CacheAlone ==
    ASSUME TypeInv, UNCHANGED <<mode, solvers, order>>, DOMAIN sizes' = DOMAIN sizes,
           stats' \in [hits : Nat, misses : Nat, evictions : Nat, fills : Nat,
                       bytes : {stats'.bytes}],
           dryKeys' \subseteq Keys, decks' \in 0 .. MaxDecks,
           pc' \in {"idle", "lookup", "render", "frame", "killed"},
           pc' \in {"lookup", "render", "frame"} => deck' \in Decks,
           pc' \in {"lookup", "render", "frame"} => decks' < MaxDecks,
           pc' = "render" => /\ run' \in DOMAIN Model[deck'].runs
                             /\ step' \in DOMAIN Model[deck'].runs[run'].freqs
                             /\ solver' \in Entry
    PROVE  TypeInv'
BY DEF TypeInv, TypeOK, Entry

\* A frequency solved keeps the types, and leaves hits and misses.
LEMMA SolveTyped ==
    ASSUME TypeInv, Solve
    PROVE  TypeInv' /\ stats'.hits = stats.hits /\ stats'.misses = stats.misses
<1> DEFINE pt == Point(deck, run, step)
           new == IF pt \in solver.fills THEN 0 ELSE 1
           s == [solver EXCEPT !.fills = @ \cup {pt}]
<1>1. /\ pc = "render" /\ At(pt) /\ stats' = Counted(stats, new)
      /\ UNCHANGED <<mode, dryKeys, order, sizes, decks, file, deck>>
      /\ \/ step < Len(Model[deck].runs[run].freqs) /\ Advance(run, step + 1)
         \/ Advance(run + 1, 1)
    BY DEF Solve
<1>2. /\ deck \in Decks /\ run \in DOMAIN Model[deck].runs
      /\ step \in DOMAIN Model[deck].runs[run].freqs /\ solver \in Entry
    BY <1>1 DEF TypeInv, TypeOK, Entry
<1>3. pt \in Points
    BY <1>2, Positions
<1>4. s \in Entry
    BY <1>2, <1>3 DEF Entry
<1>5. /\ stats' \in [hits : Nat, misses : Nat, evictions : Nat, fills : Nat, bytes : {stats'.bytes}]
      /\ stats'.hits = stats.hits /\ stats'.misses = stats.misses
    <2>1. new \in Nat
        OBVIOUS
    <2> HIDE DEF new
    <2>2. /\ stats' \in [hits : Nat, misses : Nat, evictions : Nat, fills : Nat, bytes : {stats.bytes}]
          /\ stats'.hits = stats.hits /\ stats'.misses = stats.misses
        BY <1>1, <2>1, CountedNat DEF TypeInv
    <2>3. QED
        BY <2>2
<1>6. /\ pc' \in {"render", "frame"}
      /\ pc' = "render" => run' \in DOMAIN Model[deck].runs
                           /\ step' \in DOMAIN Model[deck].runs[run'].freqs
    <2>1. CASE step < Len(Model[deck].runs[run].freqs) /\ Advance(run, step + 1)
        BY <1>2, <2>1, Advances
    <2>2. CASE Advance(run + 1, 1)
        BY <1>2, <2>2, Advances
    <2>3. QED
        BY <1>1, <2>1, <2>2
<1> HIDE DEF s
<1>7. /\ solver' = s
      /\ solvers' = [x \in DOMAIN solvers |-> IF mode.serving /\ x = Key(deck) THEN s ELSE solvers[x]]
    BY <1>1 DEF At, TypeInv, s
<1>8. /\ DOMAIN solvers' = DOMAIN solvers /\ solvers' = [x \in DOMAIN solvers' |-> solvers'[x]]
      /\ \A x \in DOMAIN solvers' : solvers'[x] \in Entry
    BY <1>4, <1>7 DEF TypeInv, TypeOK, Entry
<1>9. TypeOK'
    BY <1>1, <1>2, <1>4, <1>5, <1>6, <1>7, <1>8 DEF TypeInv, TypeOK, Entry
<1>10. decks' < MaxDecks
    BY <1>1 DEF TypeInv
<1>11. QED
    BY <1>5, <1>8, <1>9, <1>10 DEF TypeInv

\* Every step keeps the types.
LEMMA TypeStep ==
    ASSUME TypeInv, [Next]_vars
    PROVE  TypeInv'
<1> USE DEF TypeInv, TypeOK
<1>1. ASSUME NEW d \in Decks, Arrive(d)
      PROVE  TypeInv'
    BY <1>1, CacheAlone DEF Arrive, held
<1>2. CASE BuildsUncached
    <2>1. /\ deck \in Decks /\ Answers(New(deck)) /\ New(deck) \in Entry /\ Key(deck) \in Keys
          /\ UNCHANGED <<mode, held, decks, file>> /\ dryKeys' \subseteq Keys
          /\ decks < MaxDecks
        BY <1>2, NewEntry DEF BuildsUncached
    <2>2. Counted(stats, 1) \in [hits : Nat, misses : Nat, evictions : Nat, fills : Nat,
                                 bytes : {stats.bytes}]
        BY CountedNat
    <2>3. stats' \in [hits : Nat, misses : Nat, evictions : Nat, fills : Nat, bytes : {stats'.bytes}]
        <3> DEFINE st == Counted(stats, 1)
        <3>1. \/ stats' = [st EXCEPT !.hits = @ + 1]
              \/ stats' = [st EXCEPT !.misses = @ + 1]
              \/ stats' = stats
            BY <1>2 DEF BuildsUncached
        <3> HIDE DEF st
        <3>2. st \in [hits : Nat, misses : Nat, evictions : Nat, fills : Nat, bytes : {stats.bytes}]
            BY <2>2 DEF st
        <3>3. PICK b : b = stats.bytes
            OBVIOUS
        <3>4. st \in [hits : Nat, misses : Nat, evictions : Nat, fills : Nat, bytes : {b}]
            BY <3>2, <3>3
        <3>5. /\ [st EXCEPT !.hits = @ + 1]
                 \in [hits : Nat, misses : Nat, evictions : Nat, fills : Nat, bytes : {b}]
              /\ [st EXCEPT !.misses = @ + 1]
                 \in [hits : Nat, misses : Nat, evictions : Nat, fills : Nat, bytes : {b}]
            BY <3>4, OneMore
        <3>6. \/ stats' = stats
              \/ stats' \in [hits : Nat, misses : Nat, evictions : Nat, fills : Nat, bytes : {b}]
            BY <3>1, <3>5, Zenon
        <3>7. QED
            BY <3>6
    <2>4. QED
        BY <2>1, <2>3, Begins, CacheAlone DEF held
<1>3. CASE Refuse
    <2>1. Counted(stats, 0) \in [hits : Nat, misses : Nat, evictions : Nat, fills : Nat,
                                 bytes : {stats.bytes}]
        BY CountedNat
    <2>2. Counted(stats, 1) \in [hits : Nat, misses : Nat, evictions : Nat, fills : Nat,
                                 bytes : {stats.bytes}]
        BY CountedNat
    <2>3. stats' \in [hits : Nat, misses : Nat, evictions : Nat, fills : Nat, bytes : {stats'.bytes}]
        BY <1>3, <2>1, <2>2 DEF Refuse
    <2>4. DOMAIN sizes' = DOMAIN sizes
        BY <1>3 DEF Refuse, Measured
    <2>5. QED
        BY <1>3, <2>3, <2>4, CacheAlone DEF Refuse
<1>4. CASE Hit
    BY <1>4, HitTyped
<1>5. CASE Miss
    BY <1>5, MissTyped
<1>6. CASE Solve
    BY <1>6, SolveTyped
<1>7. CASE Raise
    <2>1. /\ pc = "render" /\ Advance(run + 1, 1)
          /\ UNCHANGED <<mode, dryKeys, held, decks, file, deck, solver>>
        BY <1>7 DEF Raise
    <2>2. /\ Counted(stats, 0) \in [hits : Nat, misses : Nat, evictions : Nat, fills : Nat,
                                    bytes : {stats.bytes}]
          /\ Counted(stats, 1) \in [hits : Nat, misses : Nat, evictions : Nat, fills : Nat,
                                    bytes : {stats.bytes}]
        BY CountedNat
    <2>3. stats' \in [hits : Nat, misses : Nat, evictions : Nat, fills : Nat, bytes : {stats'.bytes}]
        BY <1>7, <2>2 DEF Raise
    <2>4. /\ pc' \in {"render", "frame"}
          /\ pc' = "render" => run' \in DOMAIN Model[deck].runs
                               /\ step' \in DOMAIN Model[deck].runs[run'].freqs
        BY <2>1, Advances
    <2>5. solver \in Entry
        BY <2>1 DEF Entry
    <2>6. QED
        BY <2>1, <2>3, <2>4, <2>5, CacheAlone DEF held
<1>8. CASE Frame
    BY <1>8, SolverAssumption, CacheAlone DEF Frame, held
<1>9. CASE Destroy
    BY <1>9, CacheAlone DEF Destroy, held, work
<1>9a. CASE Escapes
    BY <1>9a, CacheAlone DEF Escapes, held, work
<1>10. CASE UNCHANGED vars
    BY <1>10 DEF vars, held, work
<1>11. QED
    BY <1>1, <1>2, <1>3, <1>4, <1>5, <1>6, <1>7, <1>8, <1>9, <1>9a, <1>10 DEF Next, Engine, Over

---------------------------------------------------------------------------

\* One more frequency, or the end of a run, is one more step of the printout.
LEMMA PrintedNext ==
    ASSUME NEW d \in Decks, NEW i \in DOMAIN Model[d].runs,
           NEW j \in DOMAIN Model[d].runs[i].freqs
    PROVE  LET next == Printed(d, i, j) \cup {Block(New(d), d, i, j)}
           IN /\ next = Printed(d, i, j + 1)
              /\ Model[d].runs[i].op \notin Raising /\ j = Len(Model[d].runs[i].freqs)
                    => next = Printed(d, i + 1, 1)
              /\ Model[d].runs[i].op \in Raising
                    => Printed(d, i, 1) \cup {Error(i)} = Printed(d, i + 1, 1)
<1> DEFINE B(m) == Block(New(d), d, i, m)
           F(n) == FreshRun(d, n)
           S == {Structure(New(d))}
           Prev == UNION {F(n) : n \in 1 .. i - 1}
<1>1. i \in Nat /\ j \in Nat /\ 1 <= i /\ 1 <= j
    BY Positions
<1>2. Printed(d, i, j) = S \cup Prev \cup {B(m) : m \in 1 .. j - 1}
    BY Zenon DEF Printed
<1>3. Printed(d, i, j + 1) = S \cup Prev \cup {B(m) : m \in 1 .. j}
    <2>1. (j + 1) - 1 = j
        BY <1>1
    <2>2. QED
        BY <2>1, Zenon DEF Printed
<1>4. {B(m) : m \in 1 .. j} = {B(m) : m \in 1 .. j - 1} \cup {B(j)}
    <2>1. 1 .. j = (1 .. j - 1) \cup {j}
        BY <1>1
    <2> HIDE DEF B
    <2>2. QED
        BY <2>1
<1>5. Printed(d, i + 1, 1) = S \cup (Prev \cup F(i))
    <2>1. 1 .. (i + 1) - 1 = (1 .. i - 1) \cup {i} /\ 1 .. 1 - 1 = {}
        BY <1>1
    <2>2. UNION {F(n) : n \in 1 .. (i + 1) - 1} = Prev \cup F(i)
        <3> HIDE DEF F
        <3>1. {F(n) : n \in 1 .. (i + 1) - 1} = {F(n) : n \in 1 .. i - 1} \cup {F(i)}
            BY <2>1
        <3>2. QED
            BY <3>1
    <2>3. QED
        BY <2>1, <2>2 DEF Printed
<1>6. Printed(d, i, 1) = S \cup Prev
    <2>1. 1 .. 1 - 1 = {}
        OBVIOUS
    <2>2. QED
        BY <2>1 DEF Printed
<1>7. Model[d].runs[i].op \notin Raising /\ j = Len(Model[d].runs[i].freqs)
        => F(i) = {B(m) : m \in 1 .. j}
    BY Positions DEF FreshRun
<1>8. Model[d].runs[i].op \in Raising => F(i) = {Error(i)}
    BY DEF FreshRun
<1> HIDE DEF B, F, S, Prev
<1>9. QED
    <2>1. Printed(d, i, j) \cup {B(j)} = Printed(d, i, j + 1)
        BY <1>2, <1>3, <1>4
    <2>2. F(i) = {B(m) : m \in 1 .. j} => Printed(d, i, j) \cup {B(j)} = Printed(d, i + 1, 1)
        BY <1>2, <1>4, <1>5
    <2>3. QED
        BY <2>1, <2>2, <1>5, <1>6, <1>7, <1>8 DEF B

\* Past the last run all of the printout is there.
LEMMA PrintedAll ==
    ASSUME NEW d \in Decks, Model[d].parses, ~Refused(d)
    PROVE  Printed(d, Len(Model[d].runs) + 1, 1) = Fresh(d)
<1>1. 1 .. (Len(Model[d].runs) + 1) - 1 = DOMAIN Model[d].runs /\ 1 .. 1 - 1 = {}
    BY Positions
<1>2. {Block(New(d), d, Len(Model[d].runs) + 1, m) : m \in 1 .. 1 - 1} = {}
    BY <1>1
<1>3. QED
    BY <1>1, <1>2 DEF Printed, Fresh

\* Before the first run only the structure is.
LEMMA PrintedFirst ==
    ASSUME NEW d \in Decks
    PROVE  Printed(d, 1, 1) = {Structure(New(d))}
<1>1. 1 .. 1 - 1 = {}
    OBVIOUS
<1>2. QED
    BY <1>1 DEF Printed

\* A deck begins to print from a solver of its key as from a new one.
LEMMA BeginsAsFresh ==
    ASSUME KeyTells, deck \in Decks, Model[deck].parses, ~Refused(deck),
           NEW s \in Entry, Held(s), Key(s.built) = Key(deck), s.portal = deck, Answers(s)
    PROVE  RenderInv' /\ ParsedInv' /\ AnswersAsFresh'
<1>1. /\ pc' = "render" /\ deck' = deck /\ solver' = s /\ run' = 1 /\ step' = 1
      /\ answer' = {Structure(s)}
    BY DEF Answers
<1>2. answer' = Printed(deck, 1, 1)
    <2>1. s.built \in Decks
        BY DEF Entry
    <2>2. QED
        BY <1>1, <2>1, SameBlocks, PrintedFirst
<1>3. QED
    BY <1>1, <1>2 DEF RenderInv, ParsedInv, AnswersAsFresh

\* A hit begins the printout a fresh process begins.
LEMMA HitAnswers ==
    ASSUME KeyTells, TypeInv, AnswerInv, Hit
    PROVE  AnswerInv'
<1> DEFINE k == Key(deck)
           s == [solvers[k] EXCEPT !.portal = deck]
           t == [solvers EXCEPT ![k] = s]
           o == MoveToEnd(order, k)
           st == [stats EXCEPT !.hits = @ + 1]
<1>1. /\ k \in DOMAIN solvers /\ deck \in Decks /\ pc = "lookup"
      /\ Evict(t, o, Measured, st) /\ Answers(s)
    BY DEF Hit, TypeInv, TypeOK
<1>2. solvers[k] \in Entry /\ Held(solvers[k]) /\ Key(solvers[k].built) = k
    BY <1>1 DEF TypeInv, TypeOK, Entry, AnswerInv, HeldInv
<1>3. s \in Entry /\ s.built = solvers[k].built /\ s.fills = solvers[k].fills /\ s.portal = deck
    BY <1>1, <1>2 DEF Entry
<1>4. Held(s) /\ Key(s.built) = k
    BY <1>2, <1>3 DEF Held
<1>5. ~Refused(deck)
    BY <1>1, <1>2, SameRefusal DEF Entry, Held
<1>6. DOMAIN t = DOMAIN solvers /\ \A x \in DOMAIN t : Held(t[x]) /\ Key(t[x].built) = x
    BY <1>1, <1>4 DEF TypeInv, AnswerInv, HeldInv
<1>7. Lists(o, DOMAIN t) /\ o # <<>>
    <2>1. Lists(order, DOMAIN solvers)
        BY DEF TypeInv, TypeOK, Lists
    <2>2. QED
        BY <1>1, <1>6, <2>1, MoveLists
<1> HIDE DEF s, t, o, st
<1>8. Evicted(t, o, st)
    BY <1>1, <1>7, EvictKeeps
<1>9. HeldInv'
    BY <1>6, <1>8 DEF Evicted, HeldInv
<1>10. RenderInv' /\ ParsedInv' /\ AnswersAsFresh'
    BY <1>1, <1>3, <1>4, <1>5, BeginsAsFresh DEF AnswerInv, ParsedInv
<1>11. QED
    BY <1>9, <1>10 DEF AnswerInv

\* A miss begins the printout a fresh process begins.
LEMMA MissAnswers ==
    ASSUME KeyTells, TypeInv, AnswerInv, Miss
    PROVE  AnswerInv'
<1> DEFINE k == Key(deck)
           s == New(deck)
           t == [x \in DOMAIN solvers \cup {k} |-> IF x = k THEN s ELSE solvers[x]]
           o == Append(order, k)
           z == [x \in DOMAIN Measured \cup {k} |-> IF x = k THEN Size(s) ELSE Measured[x]]
           st == Counted([stats EXCEPT !.misses = @ + 1], 1)
<1>1. /\ k \notin DOMAIN solvers /\ deck \in Decks /\ pc = "lookup" /\ ~Refused(deck)
      /\ Evict(t, o, z, st) /\ Answers(s)
    BY DEF Miss, TypeInv, TypeOK
<1>2. s \in Entry /\ Held(s) /\ Key(s.built) = k /\ s.portal = deck
    BY <1>1, NewEntry, NewHeld
<1>3. DOMAIN t = DOMAIN solvers \cup {k} /\ \A x \in DOMAIN t : Held(t[x]) /\ Key(t[x].built) = x
    <2> HIDE DEF s
    <2> QED
        BY <1>2 DEF AnswerInv, HeldInv
<1>4. Lists(o, DOMAIN t) /\ o # <<>>
    <2>1. Lists(order, DOMAIN solvers)
        BY DEF TypeInv, TypeOK, Lists
    <2>2. QED
        BY <1>1, <1>3, <2>1, AppendLists
<1> HIDE DEF s, t, o, z, st
<1>5. Evicted(t, o, st)
    BY <1>1, <1>4, EvictKeeps
<1>6. HeldInv'
    BY <1>3, <1>5 DEF Evicted, HeldInv
<1>7. RenderInv' /\ ParsedInv' /\ AnswersAsFresh'
    BY <1>1, <1>2, BeginsAsFresh DEF AnswerInv, ParsedInv
<1>8. QED
    BY <1>6, <1>7 DEF AnswerInv

\* A frequency solved prints the block a fresh process prints.
LEMMA SolveAnswers ==
    ASSUME KeyTells, TypeInv, AnswerInv, Solve
    PROVE  AnswerInv'
<1> DEFINE pt == Point(deck, run, step)
           s == [solver EXCEPT !.fills = @ \cup {pt}]
           runs == Model[deck].runs
<1>1. /\ pc = "render" /\ At(pt) /\ UNCHANGED deck
      /\ pt \in solver.fills \/ runs[run].op \notin Raising
      /\ answer' = answer \cup {Block(solver, deck, run, step)}
      /\ IF step < Len(runs[run].freqs) THEN Advance(run, step + 1) ELSE Advance(run + 1, 1)
    BY DEF Solve
<1>2. /\ deck \in Decks /\ run \in DOMAIN runs /\ step \in DOMAIN runs[run].freqs
      /\ solver \in Entry
    BY <1>1 DEF TypeInv, TypeOK, Entry
<1>3. /\ Held(solver) /\ Key(solver.built) = Key(deck) /\ solver.portal = deck
      /\ ~Refused(deck) /\ Model[deck].parses /\ answer = Printed(deck, run, step)
    BY <1>1 DEF AnswerInv, RenderInv, ParsedInv
<1>4. runs[run].op \notin Raising /\ pt[2] = runs[run].op
    BY <1>1, <1>3 DEF Held, Point
<1>5. /\ s.built = solver.built /\ s.portal = solver.portal
      /\ s.fills = solver.fills \cup {pt}
    BY <1>2 DEF Entry
<1>6. Held(s)
    BY <1>3, <1>4, <1>5 DEF Held
<1> HIDE DEF s
<1>7. /\ solver' = s
      /\ solvers' = [x \in DOMAIN solvers |-> IF mode.serving /\ x = Key(deck) THEN s ELSE solvers[x]]
    BY <1>1 DEF At, TypeInv, s
<1>8. HeldInv'
    BY <1>3, <1>5, <1>6, <1>7 DEF AnswerInv, HeldInv
<1>9. answer' = Printed(deck, run, step) \cup {Block(New(deck), deck, run, step)}
    BY <1>1, <1>2, <1>3, SameBlocks DEF Entry
<1>10. Len(runs[run].freqs) \in Nat /\ step \in 1 .. Len(runs[run].freqs) /\ run \in Nat
    BY <1>2, Positions
<1>11. CASE step < Len(runs[run].freqs)
    <2>1. pc' = "render" /\ run' = run /\ step' = step + 1
        BY <1>1, <1>2, <1>10, <1>11, Advances
    <2>2. answer' = Printed(deck, run, step + 1)
        BY <1>2, <1>9, PrintedNext
    <2>3. QED
        BY <1>1, <1>3, <1>4, <1>5, <1>6, <1>7, <1>8, <2>1, <2>2
           DEF AnswerInv, RenderInv, ParsedInv, AnswersAsFresh
<1>12. CASE step = Len(runs[run].freqs)
    <2>1. answer' = Printed(deck, run + 1, 1)
        BY <1>2, <1>4, <1>9, <1>12, PrintedNext
    <2>2. run' = run + 1 /\ step' = 1
        BY <1>1, <1>2, <1>10, <1>12, Advances
    <2>3. CASE pc' = "frame" /\ run = Len(runs)
        <3>1. answer' = Fresh(deck)
            BY <1>2, <1>3, <2>1, <2>3, PrintedAll
        <3>2. QED
            BY <1>1, <1>8, <2>3, <3>1 DEF AnswerInv, RenderInv, ParsedInv, AnswersAsFresh
    <2>4. CASE pc' = "render"
        BY <1>1, <1>3, <1>5, <1>6, <1>7, <1>8, <2>1, <2>2, <2>4
           DEF AnswerInv, RenderInv, ParsedInv, AnswersAsFresh
    <2>5. QED
        BY <1>1, <1>2, <1>10, <1>12, <2>3, <2>4, Advances
<1>13. QED
    BY <1>10, <1>11, <1>12

\* A run that raises prints the error a fresh process prints.
LEMMA RaiseAnswers ==
    ASSUME TypeInv, AnswerInv, Raise
    PROVE  AnswerInv'
<1> DEFINE runs == Model[deck].runs
<1>1. /\ pc = "render" /\ UNCHANGED <<deck, solver, solvers>> /\ runs[run].op \in Raising
      /\ answer' = answer \cup {Error(run)} /\ Advance(run + 1, 1)
    BY DEF Raise, held
<1>2. deck \in Decks /\ run \in DOMAIN runs /\ step \in DOMAIN runs[run].freqs
    BY <1>1 DEF TypeInv, TypeOK
<1>3. /\ Held(solver) /\ Key(solver.built) = Key(deck) /\ solver.portal = deck
      /\ ~Refused(deck) /\ Model[deck].parses /\ answer = Printed(deck, run, step)
      /\ ~(step > 1)
    BY <1>1 DEF AnswerInv, RenderInv, ParsedInv
<1>4. step = 1
    BY <1>2, <1>3, Positions
<1>5. answer' = Printed(deck, run + 1, 1)
    BY <1>1, <1>2, <1>3, <1>4, PrintedNext
<1>6. /\ run' = run + 1 /\ step' = 1
      /\ (pc' = "frame" /\ run = Len(runs)) \/ pc' = "render"
    BY <1>1, <1>2, Advances
<1>7. HeldInv'
    BY <1>1 DEF AnswerInv, HeldInv
<1>8. CASE pc' = "frame" /\ run = Len(runs)
    <2>1. answer' = Fresh(deck)
        BY <1>2, <1>3, <1>5, <1>8, PrintedAll
    <2>2. QED
        BY <1>1, <1>7, <1>8, <2>1 DEF AnswerInv, RenderInv, ParsedInv, AnswersAsFresh
<1>9. CASE pc' = "render"
    BY <1>1, <1>3, <1>5, <1>6, <1>7, <1>9 DEF AnswerInv, RenderInv, ParsedInv, AnswersAsFresh
<1>10. QED
    BY <1>6, <1>8, <1>9

\* Every step keeps what is printed what a fresh process prints.
LEMMA AnswerStep ==
    ASSUME KeyTells, TypeInv, AnswerInv, [Next]_vars
    PROVE  AnswerInv'
<1> USE DEF AnswerInv, HeldInv, RenderInv, ParsedInv, AnswersAsFresh
<1>1. ASSUME NEW d \in Decks, Arrive(d)
      PROVE  AnswerInv'
    BY <1>1 DEF Arrive, Fresh, held
<1>2. CASE BuildsUncached
    <2>1. /\ pc = "lookup" /\ deck \in Decks /\ ~Refused(deck) /\ Model[deck].parses
          /\ Answers(New(deck)) /\ UNCHANGED solvers
        BY <1>2 DEF BuildsUncached, TypeInv, TypeOK, held
    <2>2. RenderInv' /\ ParsedInv' /\ AnswersAsFresh'
        BY <2>1, NewEntry, NewHeld, BeginsAsFresh
    <2>3. QED
        BY <2>1, <2>2
<1>3. CASE Refuse
    BY <1>3 DEF Refuse, Fresh
<1>4. CASE Hit
    BY <1>4, HitAnswers
<1>5. CASE Miss
    BY <1>5, MissAnswers
<1>6. CASE Solve
    BY <1>6, SolveAnswers
<1>7. CASE Raise
    BY <1>7, RaiseAnswers
<1>8. CASE Frame
    BY <1>8 DEF Frame, held
<1>9. CASE Destroy
    BY <1>9 DEF Destroy, held, work
<1>9a. CASE Escapes
    BY <1>9a DEF Escapes, held, work
<1>10. CASE UNCHANGED vars
    BY <1>10 DEF vars, held, work
<1>11. QED
    BY <1>1, <1>2, <1>3, <1>4, <1>5, <1>6, <1>7, <1>8, <1>9, <1>9a, <1>10 DEF Next, Engine, Over

\* At the start the types hold.
LEMMA InitTyped == Init => TypeInv
<1> SUFFICES ASSUME Init PROVE TypeInv
    OBVIOUS
<1>1. solvers = <<>> /\ order = <<>> /\ sizes = <<>>
    BY DEF Init
<1>2. DOMAIN solvers = {} /\ DOMAIN sizes = {} /\ DOMAIN order = {} /\ order \in Seq({})
    BY <1>1
<1>3. solvers = [k \in DOMAIN solvers |-> solvers[k]]
    BY <1>1, <1>2
<1>4. QED
    BY <1>2, <1>3, SolverAssumption DEF Init, TypeInv, TypeOK, Zeros

\* Every variable has its type in every session, and the cache, its sizes and
\* its recency list the same keys, each once.
THEOREM Typed == Spec => []TypeOK
<1>1. Init => TypeInv
    BY InitTyped
<1>2. TypeInv /\ [Next]_vars => TypeInv'
    BY TypeStep
<1>3. TypeInv => TypeOK
    BY DEF TypeInv
<1>4. QED
    BY <1>1, <1>2, <1>3, PTL DEF Spec

\* Where the key tells apart all that a solver answers by, no printout shows
\* that its solver was built for another deck.
THEOREM Answered == ASSUME KeyTells PROVE Spec => []AnswersAsFresh
<1>1. Init => TypeInv /\ AnswerInv
    <2>1. Init => solvers = <<>> /\ pc = "idle"
        BY DEF Init
    <2>2. Init => AnswerInv
        BY <2>1 DEF AnswerInv, HeldInv, RenderInv, ParsedInv, AnswersAsFresh
    <2>3. QED
        BY <2>2, InitTyped
<1>2. TypeInv /\ AnswerInv /\ [Next]_vars => (TypeInv /\ AnswerInv)'
    BY TypeStep, AnswerStep
<1>3. AnswerInv => AnswersAsFresh
    BY DEF AnswerInv
<1>4. QED
    BY <1>1, <1>2, <1>3, PTL DEF Spec

---------------------------------------------------------------------------

\* What an eviction pass over cache t leaves of its most recent entry.
LEMMA KeptLast ==
    ASSUME NEW t, NEW o, NEW st, NEW k, NEW s, Evicted(t, o, st), o[Len(o)] = k, t[k] = s
    PROVE  /\ order' # <<>> /\ order'[Len(order')] = k
           /\ k \in DOMAIN solvers' /\ solvers'[k] = s
<1>1. order' # <<>> /\ order'[Len(order')] = k
    BY DEF Evicted
<1>2. order' \in Seq(DOMAIN solvers')
    BY DEF Evicted, Lists
<1>3. Len(order') \in DOMAIN order'
    BY <1>1, <1>2
<1>4. k \in DOMAIN solvers'
    BY <1>1, <1>2, <1>3
<1>5. QED
    BY <1>1, <1>4 DEF Evicted

\* After a hit the deck's solver is the most recent of the cache.
LEMMA HitResident ==
    ASSUME TypeInv, Hit
    PROVE  RenderedIsResident'
<1> DEFINE k == Key(deck)
           s == [solvers[k] EXCEPT !.portal = deck]
           t == [solvers EXCEPT ![k] = s]
           o == MoveToEnd(order, k)
           st == [stats EXCEPT !.hits = @ + 1]
<1>1. /\ k \in DOMAIN solvers /\ solvers[k] \in Entry /\ deck \in Decks
      /\ Evict(t, o, Measured, st) /\ Answers(s)
    BY DEF Hit, TypeInv, TypeOK, Entry
<1>2. DOMAIN t = DOMAIN solvers /\ t[k] = s /\ s.portal = deck
    BY <1>1 DEF Entry
<1>3. Lists(o, DOMAIN t) /\ o # <<>> /\ o[Len(o)] = k
    <2>1. Lists(order, DOMAIN solvers)
        BY DEF TypeInv, TypeOK, Lists
    <2>2. QED
        BY <1>1, <1>2, <2>1, MoveLists
<1> HIDE DEF s, t, o, st
<1>4. Evicted(t, o, st)
    BY <1>1, <1>3, EvictKeeps
<1>5. /\ order' # <<>> /\ order'[Len(order')] = k
      /\ k \in DOMAIN solvers' /\ solvers'[k] = s
    BY <1>2, <1>3, <1>4, KeptLast
<1>6. QED
    BY <1>1, <1>2, <1>5 DEF RenderedIsResident, Answers

\* After a miss the deck's solver is the most recent of the cache.
LEMMA MissResident ==
    ASSUME TypeInv, Miss
    PROVE  RenderedIsResident'
<1> DEFINE k == Key(deck)
           s == New(deck)
           t == [x \in DOMAIN solvers \cup {k} |-> IF x = k THEN s ELSE solvers[x]]
           o == Append(order, k)
           z == [x \in DOMAIN Measured \cup {k} |-> IF x = k THEN Size(s) ELSE Measured[x]]
           st == Counted([stats EXCEPT !.misses = @ + 1], 1)
<1>1. /\ k \notin DOMAIN solvers /\ deck \in Decks
      /\ Evict(t, o, z, st) /\ Answers(s)
    BY DEF Miss, TypeInv, TypeOK
<1>2. DOMAIN t = DOMAIN solvers \cup {k} /\ t[k] = s /\ s.portal = deck
    BY DEF New
<1>3. Lists(o, DOMAIN t) /\ o # <<>> /\ o[Len(o)] = k
    <2>1. Lists(order, DOMAIN solvers)
        BY DEF TypeInv, TypeOK, Lists
    <2>2. QED
        BY <1>1, <1>2, <2>1, AppendLists
<1> HIDE DEF s, t, o, z, st
<1>4. Evicted(t, o, st)
    BY <1>1, <1>3, EvictKeeps
<1>5. /\ order' # <<>> /\ order'[Len(order')] = k
      /\ k \in DOMAIN solvers' /\ solvers'[k] = s
    BY <1>2, <1>3, <1>4, KeptLast
<1>6. QED
    BY <1>1, <1>2, <1>5 DEF RenderedIsResident, Answers

\* No eviction takes away the solver that answers the deck in hand, which is
\* the cache's most recent and has that deck for its portal deck.
THEOREM Resident == Spec => []RenderedIsResident
<1>1. Init => RenderedIsResident
    BY DEF Init, RenderedIsResident
<1>2. TypeInv /\ RenderedIsResident /\ [Next]_vars => RenderedIsResident'
    <2> SUFFICES ASSUME TypeInv, RenderedIsResident, [Next]_vars
                 PROVE  RenderedIsResident'
        OBVIOUS
    <2>1. ASSUME NEW d \in Decks, Arrive(d)
          PROVE  RenderedIsResident'
        BY <2>1 DEF Arrive, RenderedIsResident
    <2>2. CASE BuildsUncached
        BY <2>2 DEF BuildsUncached, RenderedIsResident
    <2>3. CASE Refuse
        BY <2>3 DEF Refuse, RenderedIsResident
    <2>4. CASE Hit
        BY <2>4, HitResident
    <2>5. CASE Miss
        BY <2>5, MissResident
    <2>6. CASE Solve
        <3> DEFINE s == [solver EXCEPT !.fills = @ \cup {Point(deck, run, step)}]
        <3>1. pc = "render" /\ At(Point(deck, run, step)) /\ UNCHANGED <<mode, order, deck>>
            BY <2>6 DEF Solve
        <3>2. solver \in Entry
            BY <3>1 DEF TypeInv, TypeOK, Entry
        <3>3. s.portal = solver.portal
            BY <3>2 DEF Entry
        <3> HIDE DEF s
        <3>4. /\ solver' = s
              /\ solvers' = [x \in DOMAIN solvers |->
                    IF mode.serving /\ x = Key(deck) THEN s ELSE solvers[x]]
            BY <3>1 DEF At, TypeInv, s
        <3>5. QED
            BY <3>1, <3>3, <3>4 DEF RenderedIsResident
    <2>7. CASE Raise
        BY <2>7 DEF Raise, RenderedIsResident, held
    <2>8. CASE Frame
        BY <2>8 DEF Frame, RenderedIsResident
    <2>9. CASE Destroy
        BY <2>9 DEF Destroy, RenderedIsResident
    <2>9a. CASE Escapes
        BY <2>9a DEF Escapes, RenderedIsResident
    <2>10. CASE UNCHANGED vars
        BY <2>10 DEF vars, held, work, RenderedIsResident
    <2>11. QED
        BY <2>1, <2>2, <2>3, <2>4, <2>5, <2>6, <2>7, <2>8, <2>9, <2>9a, <2>10 DEF Next, Engine, Over
<1>3. QED
    BY <1>1, <1>2, InitTyped, TypeStep, PTL DEF Spec

---------------------------------------------------------------------------

Past == [solved : Nat, keys : SUBSET Keys, asked : SUBSET (Keys \X Points), raised : Nat,
         paid : Nat, refused : Nat, unwritten : BOOLEAN, destroyed : BOOLEAN]

\* Every deck that is done was solved or refused; the deck in hand counts
\* from when it is one of the two.
CountInv ==
    /\ past \in Past
    /\ Counting => stats.hits + stats.misses = past.solved
    /\ pc \in {"idle", "lookup"} => past.solved + past.refused = decks
    /\ pc \in {"render", "frame"} => past.solved + past.refused = decks + 1
    /\ FileAtBoundary

\* A step that is not a deck's end leaves the file as it is.
LEMMA FileAlone ==
    ASSUME FileAtBoundary, UNCHANGED <<mode, decks, file>>, past'.unwritten = past.unwritten
    PROVE  FileAtBoundary'
BY DEF FileAtBoundary

\* What a solved deck adds to the history, a built one its first fill as well.
LEMMA SolvedCounts ==
    ASSUME past \in Past, deck \in Decks, NEW p \in {Solved(past), Built(past)}
    PROVE  /\ p \in Past
           /\ p.solved = past.solved + 1 /\ p.refused = past.refused
           /\ p.unwritten = past.unwritten
           /\ p.keys = past.keys \cup {Key(deck)} /\ p.raised = past.raised /\ p.paid = 0
           /\ p = Solved(past) => p.asked = past.asked
           /\ p = Built(past) => p.asked = past.asked \cup {<<Key(deck), Point(deck, 1, 1)>>}
<1>1. Key(deck) \in Keys /\ Point(deck, 1, 1) \in Points
    <2>1. 1 \in DOMAIN Model[deck].runs /\ 1 \in DOMAIN Model[deck].runs[1].freqs
        BY Positions
    <2>2. QED
        BY <2>1, Positions DEF Keys
<1> DEFINE a  == past.asked \cup {<<Key(deck), Point(deck, 1, 1)>>}
           ks == past.keys \cup {Key(deck)}
           Now(x) == [solved |-> past.solved + 1, keys |-> ks, asked |-> x,
                      raised |-> past.raised, paid |-> 0, refused |-> past.refused,
                      unwritten |-> past.unwritten, destroyed |-> past.destroyed]
<1>2. Solved(past) = Now(past.asked)
    <2>1. past = [solved |-> past.solved, keys |-> past.keys, asked |-> past.asked,
                  raised |-> past.raised, paid |-> past.paid, refused |-> past.refused,
                  unwritten |-> past.unwritten, destroyed |-> past.destroyed]
        BY DEF Past
    <2> DEFINE s == past.solved
               u == past.unwritten
               b == past.destroyed
               r == past.raised
               f == past.refused
               q == past.asked
    <2>2. Solved(past) = [past EXCEPT !.solved = s + 1, !.keys = ks, !.paid = 0]
        BY DEF Solved
    <2> HIDE DEF ks, s, u, b, r, f, q
    <2>3. QED
        BY <2>1, <2>2 DEF s, u, b, r, f, q
<1>3. ks \in SUBSET Keys /\ a \in SUBSET (Keys \X Points) /\ past.asked \in SUBSET (Keys \X Points)
    BY <1>1 DEF Past
<1>4. Built(past) = Now(a)
    <2>1. Built(past) = [Solved(past) EXCEPT !.asked = a]
        BY <1>2 DEF Built
    <2> HIDE DEF a, ks
    <2>2. QED
        BY <1>2, <2>1
<1>5. PICK x \in {past.asked, a} : p = Now(x)
    BY <1>2, <1>4
<1>6. /\ p = Solved(past) => p.asked = past.asked
      /\ p = Built(past) => p.asked = a
    BY <1>2, <1>4
<1> HIDE DEF a, ks
<1>7. x \in SUBSET (Keys \X Points)
    BY <1>3, <1>5
<1>8. QED
    BY <1>3, <1>5, <1>6, <1>7 DEF Past, a, ks

\* The end of a deck whose file was written, or not.
LEMMA FrameCounts ==
    ASSUME TypeInv, CountInv, Frame
    PROVE  CountInv'
<1>1. PICK fails \in BOOLEAN :
        /\ ~mode.path => ~fails
        /\ file' = IF mode.path /\ ~fails THEN Payload(decks + 1) ELSE file
        /\ past' = [past EXCEPT !.unwritten = fails]
    BY DEF Frame
<1>2. /\ pc = "frame" /\ pc' = "idle" /\ decks' = decks + 1 /\ UNCHANGED <<mode, stats>>
    BY DEF Frame
<1>3. /\ past' \in Past /\ past'.solved = past.solved /\ past'.refused = past.refused
      /\ past'.unwritten = fails
    BY <1>1 DEF CountInv, Past
<1>4. FileAtBoundary'
    <2>1. CASE mode.path /\ ~fails
        <3>1. /\ file'.decks = decks + 1 /\ file'.hits = stats.hits
              /\ file'.misses = stats.misses /\ file'.refused = past.refused
              /\ DOMAIN file' # DOMAIN NoFile
            BY <1>1, <2>1 DEF Payload, NoFile
        <3>2. stats.hits + stats.misses + past.refused = decks + 1
            BY <1>2, <2>1 DEF CountInv, Counting, TypeInv, Past
        <3>3. QED
            BY <1>2, <1>3, <3>1, <3>2 DEF FileAtBoundary
    <2>2. CASE ~(mode.path /\ ~fails)
        BY <1>1, <1>2, <1>3, <2>2 DEF CountInv, FileAtBoundary
    <2>3. QED
        BY <2>1, <2>2
<1>5. QED
    BY <1>2, <1>3, <1>4 DEF CountInv, Counting

\* Two counters of the history move at once.
LEMMA PastMoved ==
    ASSUME past \in Past, NEW n \in Nat, NEW a \in SUBSET (Keys \X Points)
    PROVE  /\ LET p == [past EXCEPT !.refused = @ + 1, !.raised = @ + n]
              IN /\ p \in Past /\ p.solved = past.solved /\ p.refused = past.refused + 1
                 /\ p.unwritten = past.unwritten
           /\ LET p == [past EXCEPT !.asked = a, !.paid = @ + n]
              IN /\ p \in Past /\ p.solved = past.solved /\ p.refused = past.refused
                 /\ p.unwritten = past.unwritten
<1> DEFINE p == [past EXCEPT !.refused = @ + 1]
           q == [past EXCEPT !.asked = a]
<1>1. /\ p \in Past /\ p.solved = past.solved /\ p.refused = past.refused + 1
      /\ p.unwritten = past.unwritten
    BY DEF Past
<1>2. /\ q \in Past /\ q.solved = past.solved /\ q.refused = past.refused
      /\ q.unwritten = past.unwritten
    BY DEF Past
<1>3. /\ [past EXCEPT !.refused = @ + 1, !.raised = @ + n] = [p EXCEPT !.raised = @ + n]
      /\ [past EXCEPT !.asked = a, !.paid = @ + n] = [q EXCEPT !.paid = @ + n]
    BY DEF Past
<1> HIDE DEF p, q
<1>4. LET r == [p EXCEPT !.raised = @ + n]
      IN /\ r \in Past /\ r.solved = p.solved /\ r.refused = p.refused
         /\ r.unwritten = p.unwritten
    BY <1>1 DEF Past
<1>5. LET r == [q EXCEPT !.paid = @ + n]
      IN /\ r \in Past /\ r.solved = q.solved /\ r.refused = q.refused
         /\ r.unwritten = q.unwritten
    BY <1>2 DEF Past
<1>6. QED
    BY <1>1, <1>2, <1>3, <1>4, <1>5

\* Every step keeps the count of decks.
LEMMA CountStep ==
    ASSUME TypeInv, CountInv, [Next]_vars
    PROVE  CountInv'
<1>1. ASSUME NEW d \in Decks, Arrive(d)
      PROVE  CountInv'
    <2>1. /\ pc = "idle" /\ UNCHANGED <<mode, stats, decks, file>>
          /\ \E n \in {0, 1} :
                /\ past' = [past EXCEPT !.refused = @ + n]
                /\ pc' = IF n = 0 THEN "lookup" ELSE "frame"
        BY <1>1 DEF Arrive
    <2>2. PICK n \in {0, 1} : /\ past' = [past EXCEPT !.refused = @ + n]
                              /\ pc' = IF n = 0 THEN "lookup" ELSE "frame"
        BY <2>1
    <2>3. /\ past' \in Past /\ past'.solved = past.solved /\ past'.refused = past.refused + n
          /\ past'.unwritten = past.unwritten /\ past.solved \in Nat /\ past.refused \in Nat
        BY <2>2 DEF CountInv, Past
    <2>4. QED
        BY <2>1, <2>2, <2>3, FileAlone DEF CountInv, Counting
<1>2. CASE BuildsUncached \/ Hit \/ Miss
    <2>1. /\ pc = "lookup" /\ deck \in Decks /\ pc' = "render" /\ past' \in {Solved(past), Built(past)}
          /\ UNCHANGED <<mode, decks, file>>
        BY <1>2 DEF BuildsUncached, Hit, Miss, Answers, TypeInv, TypeOK
    <2>2. Counting => stats'.hits + stats'.misses = stats.hits + stats.misses + 1
        <3>1. CASE BuildsUncached
            <4> DEFINE st == Counted(stats, 1)
            <4>1. Counting => \/ stats' = [st EXCEPT !.hits = @ + 1]
                              \/ stats' = [st EXCEPT !.misses = @ + 1]
                BY <3>1 DEF BuildsUncached, Counting
            <4>2. /\ st.hits = stats.hits /\ st.misses = stats.misses
                  /\ st \in [hits : Nat, misses : Nat, evictions : Nat, fills : Nat,
                             bytes : {stats.bytes}]
                BY CountedNat DEF TypeInv
            <4> HIDE DEF st
            <4>3. stats.hits \in Nat /\ stats.misses \in Nat
                BY DEF TypeInv
            <4>4. QED
                BY <4>1, <4>2, <4>3
        <3>2. QED
            BY <1>2, <3>1, HitTyped, MissTyped
    <2>3. /\ past' \in Past /\ past'.solved = past.solved + 1 /\ past'.refused = past.refused
          /\ past'.unwritten = past.unwritten /\ past.solved \in Nat /\ past.refused \in Nat
        BY <2>1, SolvedCounts DEF CountInv, Past
    <2>4. QED
        BY <2>1, <2>2, <2>3, FileAlone DEF CountInv, Counting
<1>3. CASE Refuse
    <2>1. /\ pc = "lookup" /\ pc' = "frame" /\ UNCHANGED <<mode, decks, file>>
          /\ \E n \in {0, 1} : /\ stats' = Counted(stats, n)
                               /\ past' = [past EXCEPT !.refused = @ + 1, !.raised = @ + n]
        BY <1>3 DEF Refuse
    <2>2. PICK n \in {0, 1} : /\ stats' = Counted(stats, n)
                              /\ past' = [past EXCEPT !.refused = @ + 1, !.raised = @ + n]
        BY <2>1
    <2>3. stats'.hits = stats.hits /\ stats'.misses = stats.misses
        BY <2>2, CountedNat DEF TypeInv
    <2>4. /\ past' \in Past /\ past'.solved = past.solved /\ past'.refused = past.refused + 1
          /\ past'.unwritten = past.unwritten /\ past.solved \in Nat /\ past.refused \in Nat
        <3>1. past \in Past /\ n \in Nat
            BY DEF CountInv
        <3>2. past.solved \in Nat /\ past.refused \in Nat
            BY <3>1 DEF Past
        <3>3. QED
            BY <2>2, <3>1, <3>2, PastMoved
    <2>5. QED
        BY <2>1, <2>3, <2>4, FileAlone DEF CountInv, Counting
<1>4. CASE Solve
    <2> DEFINE pt == Point(deck, run, step)
               new == IF pt \in solver.fills THEN 0 ELSE 1
    <2>1. /\ pc = "render" /\ UNCHANGED <<mode, decks, file>>
          /\ past' = [past EXCEPT !.asked = @ \cup {<<Key(deck), pt>>}, !.paid = @ + new]
        BY <1>4 DEF Solve
    <2>2. pc' \in {"render", "frame"}
        BY <1>4 DEF Solve, Advance
    <2>3. Key(deck) \in Keys /\ pt \in Points /\ new \in Nat
        <3>1. /\ deck \in Decks /\ run \in DOMAIN Model[deck].runs
              /\ step \in DOMAIN Model[deck].runs[run].freqs
            BY <2>1 DEF TypeInv, TypeOK
        <3>2. QED
            BY <3>1, Positions DEF Keys
    <2> HIDE DEF pt, new
    <2>4. /\ past' \in Past /\ past'.solved = past.solved /\ past'.refused = past.refused
          /\ past'.unwritten = past.unwritten
        <3>1. past \in Past
            BY DEF CountInv
        <3>2. past.asked \cup {<<Key(deck), pt>>} \in SUBSET (Keys \X Points)
            BY <2>3, <3>1 DEF Past
        <3>3. QED
            BY <2>1, <2>3, <3>1, <3>2, PastMoved
    <2>5. QED
        BY <1>4, <2>1, <2>2, <2>4, SolveTyped, FileAlone DEF CountInv, Counting
<1>5. CASE Raise
    <2>1. /\ pc = "render" /\ UNCHANGED <<mode, decks, file>>
          /\ \E n \in {0, 1} : stats' = Counted(stats, n) /\ past' = [past EXCEPT !.raised = @ + n]
        BY <1>5 DEF Raise
    <2>2. PICK n \in {0, 1} : stats' = Counted(stats, n) /\ past' = [past EXCEPT !.raised = @ + n]
        BY <2>1
    <2>3. pc' \in {"render", "frame"}
        BY <1>5 DEF Raise, Advance
    <2>4. stats'.hits = stats.hits /\ stats'.misses = stats.misses
        BY <2>2, CountedNat DEF TypeInv
    <2>5. /\ past' \in Past /\ past'.solved = past.solved /\ past'.refused = past.refused
          /\ past'.unwritten = past.unwritten
        BY <2>2 DEF CountInv, Past
    <2>6. QED
        BY <2>1, <2>3, <2>4, <2>5, FileAlone DEF CountInv, Counting
<1>6. CASE Frame
    BY <1>6, FrameCounts
<1>7. CASE Destroy
    <2>1. /\ past' \in Past /\ past'.solved = past.solved /\ past'.refused = past.refused
          /\ past'.unwritten = past.unwritten
        BY <1>7 DEF Destroy, CountInv, Past
    <2>2. QED
        BY <1>7, <2>1, FileAlone DEF Destroy, CountInv, Counting
<1>7a. CASE Escapes
    BY <1>7a DEF Escapes, CountInv, Counting, FileAtBoundary
<1>8. CASE UNCHANGED vars
    BY <1>8 DEF vars, CountInv, Counting, FileAtBoundary
<1>9. QED
    BY <1>1, <1>2, <1>3, <1>4, <1>5, <1>6, <1>7, <1>7a, <1>8 DEF Next, Engine, Over

\* The measurement file counts whole decks, whenever the engine is destroyed.
THEOREM AtBoundary == Spec => []FileAtBoundary
<1>1. Init => TypeInv /\ CountInv
    <2>1. Init => CountInv
        BY SolverAssumption DEF Init, CountInv, Past, Zeros, Counting, FileAtBoundary, NoFile
    <2>2. QED
        BY <2>1, InitTyped
<1>2. TypeInv /\ CountInv /\ [Next]_vars => (TypeInv /\ CountInv)'
    BY TypeStep, CountStep
<1>3. CountInv => FileAtBoundary
    BY DEF CountInv
<1>4. QED
    BY <1>1, <1>2, <1>3, PTL DEF Spec

---------------------------------------------------------------------------
(* What the statistics tell.  First the sum over the keys of a cache.      *)

\* g sums w over each of the sets in C.
Adds(C, w, g) ==
    g = [s \in C |-> IF s = {} THEN 0
                     ELSE LET x == CHOOSE x \in s : TRUE IN w[x] + g[s \ {x}]]

\* The subsets of S of at most n elements.
Few(S, n) == {s \in SUBSET S : Cardinality(s) <= n}

\* Nat is the only set of numbers that has 0 and, with each of its elements,
\* the next one.
LEMMA SetInduction ==
    ASSUME NEW T, T \subseteq Nat, 0 \in T, \A m \in T : m + 1 \in T
    PROVE  T = Nat
<1> DEFINE U == Nat \ T
           R == {ss \in Nat \X Nat : ss[1] < ss[2]}
<1>1. IsWellFoundedOn(R, Nat)
    BY NatLessThanWellFounded DEF OpToRel
<1>2. SUFFICES ASSUME U # {} PROVE FALSE
    OBVIOUS
<1>3. PICK x \in U : \A y \in U : ~(<<y, x>> \in R)
    BY <1>1, <1>2, WFMin
<1>4. x - 1 \in Nat /\ x - 1 < x /\ (x - 1) + 1 = x
    BY <1>3
<1>5. x - 1 \in T
    BY <1>3, <1>4
<1>6. QED
    BY <1>3, <1>4, <1>5

\* A set less one of its elements is smaller.
LEMMA OneOfFew ==
    ASSUME NEW S, IsFiniteSet(S), NEW n \in Nat, NEW s \in Few(S, n + 1), NEW x \in s
    PROVE  x \in S /\ s \ {x} \in Few(S, n)
<1>1. IsFiniteSet(s) /\ Cardinality(s) \in Nat
    BY FS_Subset, FS_CardinalityType DEF Few
<1>2. Cardinality(s \ {x}) = Cardinality(s) - 1
    BY <1>1, FS_RemoveElement
<1>3. QED
    BY <1>1, <1>2 DEF Few

\* With enough elements allowed the sets are all subsets.
LEMMA FewOfAll ==
    ASSUME NEW S, IsFiniteSet(S)
    PROVE  /\ \A s \in Few(S, 0) : s = {}
           /\ {} \in Few(S, 0)
           /\ \A n \in Nat : Few(S, n) \subseteq Few(S, n + 1)
           /\ \E n \in Nat : Few(S, n) = SUBSET S
<1>1. \A s \in SUBSET S : IsFiniteSet(s) /\ Cardinality(s) \in Nat /\ Cardinality(s) <= Cardinality(S)
    BY FS_Subset, FS_CardinalityType
<1>2. Cardinality(S) \in Nat
    BY FS_CardinalityType
<1>3. \A s \in SUBSET S : Cardinality(s) <= 0 <=> s = {}
    BY <1>1, FS_EmptySet
<1>4. (\A s \in Few(S, 0) : s = {}) /\ {} \in Few(S, 0)
    BY <1>3 DEF Few
<1>5. \A n \in Nat : Few(S, n) \subseteq Few(S, n + 1)
    BY <1>1 DEF Few
<1>6. Few(S, Cardinality(S)) = SUBSET S
    BY <1>1 DEF Few
<1>7. QED
    BY <1>2, <1>4, <1>5, <1>6

\* The recursive sum has a solution.
LEMMA AddsUp ==
    ASSUME NEW S, IsFiniteSet(S), NEW w
    PROVE  \E g : Adds(SUBSET S, w, g)
<1> DEFINE T == {n \in Nat : \E g : Adds(Few(S, n), w, g)}
           Sum(f, s) == IF s = {} THEN 0
                        ELSE LET x == CHOOSE x \in s : TRUE IN w[x] + f[s \ {x}]
<1>1. 0 \in T
    <2> DEFINE g == [s \in Few(S, 0) |-> 0]
    <2>1. \A s \in Few(S, 0) : Sum(g, s) = 0
        BY FewOfAll
    <2>2. g = [s \in Few(S, 0) |-> Sum(g, s)]
        <3> HIDE DEF Sum
        <3>1. QED
            BY <2>1
    <2> HIDE DEF g
    <2>3. Adds(Few(S, 0), w, g)
        BY <2>2 DEF Adds
    <2>4. QED
        BY <2>3
<1>2. ASSUME NEW n \in T PROVE n + 1 \in T
    <2>1. n \in Nat
        OBVIOUS
    <2>2. PICK g : Adds(Few(S, n), w, g)
        OBVIOUS
    <2> DEFINE h == [s \in Few(S, n + 1) |-> Sum(g, s)]
    <2>3. \A s \in Few(S, n) : h[s] = g[s]
        BY <2>1, <2>2, FewOfAll DEF Adds
    <2>4. ASSUME NEW s \in Few(S, n + 1) PROVE Sum(g, s) = Sum(h, s)
        <3>1. CASE s = {}
            BY <3>1
        <3>2. CASE s # {}
            <4> DEFINE x == CHOOSE x \in s : TRUE
            <4>1. x \in s
                BY <3>2
            <4>2. s \ {x} \in Few(S, n)
                BY <2>1, <4>1, OneOfFew
            <4>3. h[s \ {x}] = g[s \ {x}]
                BY <2>3, <4>2
            <4> HIDE DEF h
            <4>4. QED
                BY <3>2, <4>3
        <3>3. QED
            BY <3>1, <3>2
    <2>5. h = [s \in Few(S, n + 1) |-> Sum(h, s)]
        <3>1. h = [s \in Few(S, n + 1) |-> Sum(g, s)]
            OBVIOUS
        <3> HIDE DEF h, Sum
        <3>2. QED
            BY <2>4, <3>1
    <2> HIDE DEF h
    <2>6. Adds(Few(S, n + 1), w, h)
        BY <2>5 DEF Adds
    <2>7. QED
        BY <2>1, <2>6
<1>3. T = Nat
    <2>1. T \subseteq Nat
        OBVIOUS
    <2> HIDE DEF T
    <2>2. QED
        BY <1>1, <1>2, <2>1, SetInduction
<1>4. PICK n \in Nat : Few(S, n) = SUBSET S
    BY FewOfAll
<1>5. n \in T
    BY <1>3
<1>6. QED
    BY <1>4, <1>5

\* Total is that sum, over the keys in the order CHOOSE takes them.
Taken(s) == CHOOSE x \in s : TRUE

Summed(S, w, g) ==
    /\ Total(w, S) = g[S] /\ g[{}] = 0
    /\ \A s \in SUBSET S : s # {} =>
        /\ Taken(s) \in s
        /\ g[s] = w[Taken(s)] + g[s \ {Taken(s)}]

\* The sum has such a solution for every finite set of keys.
LEMMA TotalAdds ==
    ASSUME NEW S, IsFiniteSet(S), NEW w
    PROVE  \E g : Summed(S, w, g)
<1>1. Total(w, S) = (CHOOSE g : Adds(SUBSET S, w, g))[S]
    BY DEF Total, MapThenSumSet, MapThenFoldSet, Adds
<1>2. PICK g : g = CHOOSE f : Adds(SUBSET S, w, f)
    OBVIOUS
<1>3. Adds(SUBSET S, w, g)
    BY <1>2, AddsUp
<1>4. ASSUME NEW s \in SUBSET S, s # {}
      PROVE  g[s] = w[Taken(s)] + g[s \ {Taken(s)}] /\ Taken(s) \in s
    BY <1>3, <1>4 DEF Adds, Taken
<1>5. g[{}] = 0
    <2>1. {} \in SUBSET S
        OBVIOUS
    <2>2. QED
        BY <1>3, <2>1 DEF Adds
<1>6. Total(w, S) = g[S]
    BY <1>1, <1>2
<1>7. QED
    BY <1>4, <1>5, <1>6 DEF Summed

\* v weighs as w does, but for n more on o.
More(S, w, v, o, n) ==
    \A k \in S : w[k] \in Int /\ v[k] = w[k] + (IF k = o THEN n ELSE 0)

\* Weights that differ by n at one key have sums that do.
LEMMA TotalMore ==
    ASSUME NEW S, IsFiniteSet(S), NEW w, NEW v, NEW o, NEW n \in Int, More(S, w, v, o, n)
    PROVE  /\ Total(w, S) \in Int
           /\ Total(v, S) = Total(w, S) + (IF o \in S THEN n ELSE 0)
<1>1. PICK g : Summed(S, w, g)
    BY TotalAdds
<1>2. PICK h : Summed(S, v, h)
    BY TotalAdds
<1> DEFINE Fine(s) == g[s] \in Int /\ h[s] = g[s] + (IF o \in s THEN n ELSE 0)
           T == {m \in Nat : \A s \in Few(S, m) : Fine(s)}
<1>3. Fine({})
    BY <1>1, <1>2 DEF Summed
<1>4. 0 \in T
    <2>1. ASSUME NEW s \in Few(S, 0) PROVE Fine(s)
        <3>1. s = {}
            BY FewOfAll
        <3> HIDE DEF Fine
        <3>2. QED
            BY <1>3, <3>1
    <2> HIDE DEF Fine
    <2>2. QED
        BY <2>1
<1>5. ASSUME NEW m \in T PROVE m + 1 \in T
    <2>1. ASSUME NEW s \in Few(S, m + 1), s # {} PROVE Fine(s)
        <3> DEFINE x == Taken(s)
        <3>1. /\ g[s] = w[x] + g[s \ {x}] /\ x \in s
              /\ h[s] = v[x] + h[s \ {x}]
            BY <1>1, <1>2, <2>1 DEF Few, Summed
        <3>2. s \ {x} \in Few(S, m) /\ x \in S
            BY <3>1, OneOfFew
        <3>3. Fine(s \ {x}) /\ w[x] \in Int /\ v[x] = w[x] + (IF x = o THEN n ELSE 0)
            BY <3>2 DEF More
        <3> HIDE DEF x
        <3>4. CASE x = o
            BY <3>1, <3>3, <3>4
        <3>5. CASE x # o
            BY <3>1, <3>3, <3>5
        <3>6. QED
            BY <3>4, <3>5
    <2>2. ASSUME NEW s \in Few(S, m + 1) PROVE Fine(s)
        <3> HIDE DEF Fine
        <3>1. QED
            BY <1>3, <2>1
    <2>3. m + 1 \in Nat
        OBVIOUS
    <2> HIDE DEF Fine
    <2>4. QED
        BY <2>2, <2>3
<1>6. T = Nat
    <2>1. T \subseteq Nat
        OBVIOUS
    <2> HIDE DEF T
    <2>2. QED
        BY <1>4, <1>5, <2>1, SetInduction
<1>7. PICK m \in Nat : Few(S, m) = SUBSET S
    BY FewOfAll
<1>8. Fine(S)
    BY <1>6, <1>7
<1>9. QED
    BY <1>1, <1>2, <1>8 DEF Summed

\* The same weights, the same sum.
LEMMA TotalSame ==
    ASSUME NEW S, IsFiniteSet(S), NEW w, NEW v, \A k \in S : w[k] \in Int /\ v[k] = w[k]
    PROVE  Total(w, S) \in Int /\ Total(v, S) = Total(w, S)
<1>1. More(S, w, v, {}, 0)
    BY DEF More
<1>2. QED
    BY <1>1, TotalMore

(* What the cache holds and what the history has.                          *)

Newest(o) == o[Len(o)]
Sizes(s) == [k \in DOMAIN s |-> Size(s[k])]

\* The fills of a cache, by key.
Filled(s) == UNION {{<<k, pt>> : pt \in s[k].fills} : k \in DOMAIN s}

Finite ==
    /\ IsFiniteSet(past.keys) /\ IsFiniteSet(past.asked)
    /\ \A k \in DOMAIN solvers : IsFiniteSet(solvers[k].fills)

\* The keys of the cache have been solved for, and are all of them until an
\* eviction; where nothing is served nothing is kept, and the dry run has the keys.
Known ==
    /\ mode.serving =>
        /\ DOMAIN solvers \subseteq past.keys
        /\ stats.evictions = 0 => past.keys \subseteq DOMAIN solvers
    /\ ~mode.serving =>
        /\ DOMAIN solvers = {} /\ stats.evictions = 0
        /\ mode.path => dryKeys = past.keys

Asked == mode.serving /\ stats.evictions = 0 => past.asked = Filled(solvers)

\* Only the size of the most recent entry may be out of date.
Exact == mode.serving =>
    \A k \in DOMAIN solvers : k # Newest(order) => sizes[k] = Size(solvers[k])

Missed == Counting =>
    /\ stats.misses >= Cardinality(past.keys)
    /\ stats.evictions = 0 => stats.misses = Cardinality(past.keys)

Weighed == stats.bytes \in Int

TellInv == Finite /\ Known /\ Asked /\ Exact /\ Missed /\ Weighed /\ FillsOnce /\ Overshoot

\* A set, a number and one more.
LEMMA CardinalityMore ==
    ASSUME NEW S, IsFiniteSet(S), NEW x
    PROVE  /\ IsFiniteSet(S \cup {x}) /\ Cardinality(S) \in Nat
           /\ Cardinality(S \cup {x}) = Cardinality(S) + (IF x \in S THEN 0 ELSE 1)
BY FS_AddElement, FS_CardinalityType

\* Entries have sizes, and what a cache holds is a number.
LEMMA Sized ==
    ASSUME TypeInv, CountInv, TellInv
    PROVE  /\ \A k \in DOMAIN solvers : Size(solvers[k]) \in Nat
           /\ IsFiniteSet(DOMAIN solvers)
           /\ Total(Sizes(solvers), DOMAIN solvers) \in Int
<1>1. ASSUME NEW k \in DOMAIN solvers PROVE Size(solvers[k]) \in Nat
    <2>1. Cardinality(solvers[k].fills) \in Nat
        BY FS_CardinalityType DEF TellInv, Finite
    <2>2. QED
        BY <2>1 DEF Size
<1>2. IsFiniteSet(DOMAIN solvers)
    <2>1. DOMAIN solvers \in SUBSET past.keys \/ DOMAIN solvers = {}
        BY DEF TellInv, Known
    <2>2. QED
        BY <2>1, FS_Subset, FS_EmptySet DEF TellInv, Finite
<1>3. \A k \in DOMAIN solvers : Sizes(solvers)[k] \in Int /\ Sizes(solvers)[k] = Sizes(solvers)[k]
    BY <1>1 DEF Sizes
<1>4. Total(Sizes(solvers), DOMAIN solvers) \in Int
    BY <1>2, <1>3, TotalSame
<1>5. QED
    BY <1>1, <1>2, <1>4

\* Before a pass every size is measured.
LEMMA MeasuredIs ==
    ASSUME TypeInv, TellInv, mode.serving
    PROVE  DOMAIN Measured = DOMAIN solvers /\ \A k \in DOMAIN solvers : Measured[k] = Size(solvers[k])
<1>1. /\ DOMAIN sizes = DOMAIN solvers
      /\ \A k \in DOMAIN solvers : \E i \in DOMAIN order : order[i] = k
    BY DEF TypeInv, TypeOK
<1>2. CASE order = <<>>
    <2>1. DOMAIN order = {}
        BY <1>2
    <2>2. DOMAIN solvers = {}
        BY <1>1, <2>1
    <2>3. QED
        BY <1>1, <1>2, <2>2 DEF Measured
<1>3. CASE order # <<>>
    <2>1. Measured = [sizes EXCEPT ![Newest(order)] = Size(solvers[Newest(order)])]
        BY <1>3 DEF Measured, Newest
    <2>2. \A k \in DOMAIN solvers : k # Newest(order) => sizes[k] = Size(solvers[k])
        BY DEF TellInv, Exact
    <2>3. QED
        BY <1>1, <2>1, <2>2
<1>4. QED
    BY <1>2, <1>3

\* What an eviction pass tells: nothing is lost when it counts nothing, the
\* bytes are the sum of the sizes it keeps, and they fit or are of one entry.
Tells(s, z, st) ==
    /\ sizes' = [k \in DOMAIN solvers' |-> z[k]]
    /\ stats'.bytes = Total(z, DOMAIN solvers')
    /\ stats'.bytes <= Cap \/ Len(order') = 1
    /\ stats'.fills = st.fills /\ stats'.misses = st.misses
    /\ \E n \in Nat : /\ stats'.evictions = st.evictions + n
                      /\ n = 0 => DOMAIN solvers' = DOMAIN s

\* An eviction pass tells so.
LEMMA EvictTells ==
    ASSUME NEW s, NEW o, NEW z, NEW st, Lists(o, DOMAIN s), o # <<>>, Evict(s, o, z, st),
           st \in [hits : Nat, misses : Nat, evictions : Nat, fills : Nat, bytes : {st.bytes}]
    PROVE  Tells(s, z, st)
<1> DEFINE n    == Dropped(o, z)
           kept == SubSeq(o, n + 1, Len(o))
           D    == Range(kept)
<1>1. n \in 0 .. Len(o) - 1 /\ (Total(z, D) <= Cap \/ n = Len(o) - 1)
    BY DroppedSome DEF Fits
<1>2. /\ order' = kept
      /\ solvers' = [k \in D |-> s[k]]
      /\ sizes' = [k \in D |-> z[k]]
      /\ stats' = [st EXCEPT !.evictions = @ + n, !.bytes = Total(z, D)]
    BY DEF Evict, Restrict
<1>3. o \in Seq(DOMAIN s) /\ Len(o) \in Nat /\ DOMAIN o = 1 .. Len(o)
    BY DEF Lists
<1> HIDE DEF n
<1>4. Len(kept) = Len(o) - n
    BY <1>1, <1>3
<1>5. n = 0 => D = DOMAIN s
    <2> SUFFICES ASSUME n = 0 PROVE D = DOMAIN s
        OBVIOUS
    <2>1. kept = o
        BY <1>3, SubSeqFull
    <2>2. D = {o[i] : i \in DOMAIN o}
        BY <2>1 DEF Range
    <2>3. \A i \in DOMAIN o : o[i] \in DOMAIN s
        BY <1>3
    <2>4. \A k \in DOMAIN s : \E i \in DOMAIN o : o[i] = k
        BY DEF Lists
    <2> HIDE DEF D
    <2>5. QED
        BY <2>2, <2>3, <2>4
<1> HIDE DEF kept
<1>6. DOMAIN solvers' = D
    BY <1>2
<1> HIDE DEF D
<1>7. /\ stats'.evictions = st.evictions + n /\ stats'.bytes = Total(z, D)
      /\ stats'.fills = st.fills /\ stats'.misses = st.misses
    <2> DEFINE b == Total(z, D)
    <2>1. stats' = [st EXCEPT !.evictions = @ + n, !.bytes = b]
        BY <1>2
    <2> HIDE DEF b
    <2>2. stats' = [hits |-> st.hits, misses |-> st.misses, evictions |-> st.evictions + n,
                    fills |-> st.fills, bytes |-> b]
        BY <2>1
    <2>3. QED
        BY <2>2 DEF b
<1>8. n \in Nat
    BY <1>1, <1>3
<1>9. stats'.bytes <= Cap \/ Len(order') = 1
    BY <1>1, <1>2, <1>3, <1>4, <1>7
<1>10. QED
    BY <1>2, <1>5, <1>6, <1>7, <1>8, <1>9 DEF Tells

\* What counting n fills changes.
LEMMA CountedFills ==
    ASSUME NEW st, st \in [hits : Nat, misses : Nat, evictions : Nat, fills : Nat, bytes : {st.bytes}],
           NEW n \in Nat
    PROVE  /\ Counted(st, n).fills = st.fills + (IF Counting THEN n ELSE 0)
           /\ Counted(st, n).misses = st.misses
           /\ Counted(st, n).evictions = st.evictions /\ Counted(st, n).bytes = st.bytes
BY DEF Counted

\* The past as far as the statistics tell of it.
PastAlone(n) ==
    /\ past'.keys = past.keys /\ past'.asked = past.asked /\ past'.paid = past.paid
    /\ past'.raised = past.raised + n

\* A step that counts nothing.
LEMMA TellsAlone ==
    ASSUME TellInv, past \in Past, UNCHANGED <<mode, stats, dryKeys, held>>, PastAlone(0)
    PROVE  TellInv'
<1>1. past'.raised = past.raised
    BY DEF Past, PastAlone
<1>2. QED
    BY <1>1 DEF TellInv, Weighed, held, PastAlone, Finite, Known, Asked, Filled, Exact,
        Newest, Size, Missed, Counting, FillsOnce, Overshoot

\* A fill that raises is counted, and kept nowhere.
LEMMA RaisesTell ==
    ASSUME TypeInv, CountInv, TellInv, NEW n \in {0, 1}, stats' = Counted(stats, n), PastAlone(n),
           UNCHANGED <<mode, dryKeys, solvers, order>>,
           sizes' = sizes \/ (mode.serving /\ sizes' = Measured)
    PROVE  TellInv'
<1>1. /\ stats'.fills = stats.fills + (IF Counting THEN n ELSE 0)
      /\ stats'.misses = stats.misses /\ stats'.evictions = stats.evictions
      /\ stats'.bytes = stats.bytes
    BY CountedFills DEF TypeInv
<1>2. /\ past'.keys = past.keys /\ past'.asked = past.asked /\ past'.paid = past.paid
      /\ past'.raised = past.raised + n
    BY DEF PastAlone
<1>3. Finite' /\ Known' /\ Asked' /\ Missed' /\ Overshoot' /\ Weighed'
    BY <1>1, <1>2 DEF TellInv, Weighed, Finite, Known, Asked, Filled, Missed, Counting,
        Overshoot, Size
<1>4. Exact'
    <2>1. mode.serving => \A k \in DOMAIN solvers : k # Newest(order) => sizes'[k] = Size(solvers[k])
        BY MeasuredIs DEF TellInv, Exact
    <2>2. QED
        BY <2>1 DEF Exact, Newest, Size
<1>5. FillsOnce'
    <2>1. /\ stats.fills \in Nat /\ past.raised \in Nat /\ Cardinality(past.asked) \in Nat
        BY FS_CardinalityType DEF TypeInv, CountInv, Past, TellInv, Finite
    <2>2. QED
        BY <1>1, <1>2, <2>1 DEF TellInv, FillsOnce, Counting
<1>6. QED
    BY <1>3, <1>4, <1>5 DEF TellInv

---------------------------------------------------------------------------

\* Frequency pt of deck d's key is filled: n of it was not there.
LEMMA SolveTells ==
    ASSUME TypeInv, CountInv, TellInv, RenderedIsResident, Solve
    PROVE  TellInv'
<1> DEFINE pt == Point(deck, run, step)
           K == Key(deck)
           n == IF pt \in solver.fills THEN 0 ELSE 1
           s == [solver EXCEPT !.fills = @ \cup {pt}]
           a == past.asked \cup {<<K, pt>>}
<1>1. /\ pc = "render" /\ At(pt) /\ stats' = Counted(stats, n)
      /\ UNCHANGED <<mode, dryKeys, order, sizes>>
      /\ past' = [past EXCEPT !.asked = a, !.paid = @ + n]
    BY DEF Solve
<1>2. solver \in Entry
    BY <1>1 DEF TypeInv, TypeOK, Entry
<1>3. s.fills = solver.fills \cup {pt}
    BY <1>2 DEF Entry
<1>4. n \in Nat
    OBVIOUS
<1>5. pt \in solver.fills <=> n = 0
    OBVIOUS
<1> HIDE DEF n
<1>6. /\ stats'.fills = stats.fills + (IF Counting THEN n ELSE 0)
      /\ stats'.misses = stats.misses /\ stats'.evictions = stats.evictions
      /\ stats'.bytes = stats.bytes
    BY <1>1, <1>4, CountedFills DEF TypeInv
<1>7. /\ past'.keys = past.keys /\ past'.asked = a /\ past'.raised = past.raised
      /\ past'.paid = past.paid + n
    <2> HIDE DEF a
    <2>1. QED
        BY <1>1 DEF CountInv, Past
<1>8. solvers' = [x \in DOMAIN solvers |-> IF mode.serving /\ x = K THEN s ELSE solvers[x]]
    BY <1>1 DEF At, TypeInv
<1> HIDE DEF s
<1>9. IsFiniteSet(a)
    BY CardinalityMore DEF TellInv, Finite
<1>10. Known' /\ Missed' /\ Weighed'
    BY <1>1, <1>6, <1>7, <1>8 DEF TellInv, Weighed, Known, Missed, Counting
<1>11. CASE ~mode.serving
    <2>1. solvers' = solvers
        BY <1>8, <1>11 DEF TellInv, Known, TypeInv
    <2>2. Finite'
        BY <1>7, <1>9, <2>1 DEF TellInv, Finite
    <2>3. Asked' /\ Exact' /\ FillsOnce' /\ Overshoot'
        BY <1>1, <1>11 DEF Asked, Exact, FillsOnce, Overshoot
    <2>4. QED
        BY <1>10, <2>2, <2>3 DEF TellInv
<1>12. CASE mode.serving
    <2>1. K \in DOMAIN solvers /\ solvers[K] = solver /\ Newest(order) = K
        BY <1>1, <1>12 DEF RenderedIsResident, Newest
    <2>2. /\ DOMAIN solvers' = DOMAIN solvers /\ solvers'[K] = s
          /\ \A x \in DOMAIN solvers : x # K => solvers'[x] = solvers[x]
        BY <1>8, <1>12, <2>1
    <2>3. IsFiniteSet(solver.fills)
        BY <2>1 DEF TellInv, Finite
    <2>4. /\ IsFiniteSet(s.fills) /\ Cardinality(solver.fills) \in Nat
          /\ Cardinality(s.fills) = Cardinality(solver.fills) + n
        <3>1. /\ IsFiniteSet(s.fills) /\ Cardinality(solver.fills) \in Nat
              /\ Cardinality(s.fills)
                 = Cardinality(solver.fills) + (IF pt \in solver.fills THEN 0 ELSE 1)
            BY <1>3, <2>3, CardinalityMore
        <3>2. QED
            BY <3>1 DEF n
    <2>5. Finite'
        <3>1. \A x \in DOMAIN solvers' : IsFiniteSet(solvers'[x].fills)
            BY <2>2, <2>4 DEF TellInv, Finite
        <3>2. QED
            BY <1>7, <1>9, <3>1 DEF TellInv, Finite
    <2>6. Filled(solvers') = Filled(solvers) \cup {<<K, pt>>}
        <3>1. \A x \in DOMAIN solvers :
                solvers'[x].fills = IF x = K THEN solvers[x].fills \cup {pt} ELSE solvers[x].fills
            BY <1>3, <2>1, <2>2
        <3> HIDE DEF pt, K
        <3>2. ASSUME NEW e \in Filled(solvers') PROVE e \in Filled(solvers) \cup {<<K, pt>>}
            <4>1. PICK x \in DOMAIN solvers : \E f \in solvers'[x].fills : e = <<x, f>>
                BY <2>2 DEF Filled
            <4>2. PICK f \in solvers'[x].fills : e = <<x, f>>
                BY <4>1
            <4>3. f \in solvers[x].fills \/ (x = K /\ f = pt)
                BY <3>1, <4>2
            <4>4. QED
                BY <4>2, <4>3 DEF Filled
        <3>3. ASSUME NEW e \in Filled(solvers) PROVE e \in Filled(solvers')
            <4>1. PICK x \in DOMAIN solvers : \E f \in solvers[x].fills : e = <<x, f>>
                BY DEF Filled
            <4>2. PICK f \in solvers[x].fills : e = <<x, f>>
                BY <4>1
            <4>3. f \in solvers'[x].fills
                BY <3>1, <4>2
            <4>4. QED
                BY <2>2, <4>2, <4>3 DEF Filled
        <3>4. <<K, pt>> \in Filled(solvers')
            <4>1. K \in DOMAIN solvers' /\ pt \in solvers'[K].fills
                BY <2>1, <2>2, <3>1
            <4>2. QED
                BY <4>1 DEF Filled
        <3>5. QED
            BY <3>2, <3>3, <3>4
    <2>7. Asked'
        BY <1>1, <1>6, <1>7, <2>6 DEF TellInv, Asked
    <2>8. Exact'
        <3>1. \A x \in DOMAIN solvers : x # K => Size(solvers'[x]) = Size(solvers[x])
            BY <2>2
        <3>2. \A x \in DOMAIN solvers' : x # Newest(order') => sizes'[x] = Size(solvers'[x])
            BY <1>1, <1>12, <2>1, <2>2, <3>1 DEF TellInv, Exact
        <3>3. QED
            BY <3>2 DEF Exact, Newest, Size
    <2>9. FillsOnce'
        <3> SUFFICES ASSUME stats.evictions = 0
                     PROVE  stats'.fills = Cardinality(past'.asked) + past'.raised
            BY <1>6 DEF FillsOnce
        <3>1. <<K, pt>> \in past.asked <=> n = 0
            <4>1. past.asked = Filled(solvers)
                BY <1>12 DEF TellInv, Asked
            <4>2. <<K, pt>> \in Filled(solvers) <=> pt \in solvers[K].fills
                <5> HIDE DEF K, pt
                <5>1. QED
                    BY <2>1 DEF Filled
            <4>3. QED
                BY <1>5, <2>1, <4>1, <4>2
        <3>2. /\ Cardinality(past.asked) \in Nat
              /\ Cardinality(a) = Cardinality(past.asked) + (IF <<K, pt>> \in past.asked THEN 0 ELSE 1)
            BY CardinalityMore DEF TellInv, Finite
        <3>3. stats.fills = Cardinality(past.asked) + past.raised
            BY <1>12 DEF TellInv, FillsOnce
        <3>4. past.raised \in Nat /\ n \in {0, 1}
            BY DEF CountInv, Past, n
        <3>5. stats'.fills = stats.fills + n
            BY <1>6, <1>12 DEF Counting
        <3> HIDE DEF a, pt, K
        <3>6. QED
            BY <1>7, <3>1, <3>2, <3>3, <3>4, <3>5
    <2>10. Overshoot'
        <3> DEFINE D == DOMAIN solvers
                   w == Sizes(solvers)
                   v == Sizes(solvers')
        <3>1. (\A x \in D : Size(solvers[x]) \in Nat) /\ IsFiniteSet(D)
            BY Sized
        <3>2. \A x \in D : w[x] \in Int /\ v[x] = w[x] + (IF x = K THEN n ELSE 0)
            <4>1. \A x \in D : w[x] = Size(solvers[x]) /\ v[x] = Size(solvers'[x])
                BY <2>2 DEF Sizes
            <4>2. \A x \in D : x # K => Size(solvers'[x]) = Size(solvers[x])
                BY <2>2
            <4>3. Size(solvers'[K]) = Size(solvers[K]) + n
                BY <1>4, <2>1, <2>2, <2>4 DEF Size
            <4> HIDE DEF w, v, K
            <4>4. QED
                BY <3>1, <4>1, <4>2, <4>3
        <3>3. Total(w, D) \in Int /\ Total(v, D) = Total(w, D) + n
            <4>1. More(D, w, v, K, n) /\ n \in Int
                BY <1>4, <3>2 DEF More
            <4> HIDE DEF w, v, D, K
            <4>2. Total(w, D) \in Int /\ Total(v, D) = Total(w, D) + (IF K \in D THEN n ELSE 0)
                BY <3>1, <4>1, TotalMore
            <4>3. K \in D
                BY <2>1 DEF D, K
            <4>4. QED
                BY <4>2, <4>3
        <3>4. Total(w, D) <= stats.bytes + past.paid /\ (stats.bytes <= Cap \/ Len(order) = 1)
            BY <1>12 DEF TellInv, Overshoot, Sizes
        <3>5. past.paid \in Nat /\ stats.bytes \in Int
            BY DEF CountInv, Past, TellInv, Weighed
        <3>6. Total(v, D) <= stats'.bytes + past'.paid
            <4> HIDE DEF w, v, D
            <4>1. QED
                BY <1>4, <1>6, <1>7, <3>3, <3>4, <3>5
        <3>7. Total(Sizes(solvers'), DOMAIN solvers') <= stats'.bytes + past'.paid
            BY <2>2, <3>6
        <3>8. QED
            BY <1>1, <1>6, <3>4, <3>7 DEF Overshoot, Sizes, Size
    <2>11. QED
        BY <1>10, <2>5, <2>7, <2>8, <2>9, <2>10 DEF TellInv
<1>13. QED
    BY <1>11, <1>12

\* An eviction pass over a cache t whose sizes z are right.
LEMMA PassTells ==
    ASSUME NEW t, NEW z, NEW o, NEW st, Evicted(t, o, st), Tells(t, z, st),
           IsFiniteSet(DOMAIN t), IsFiniteSet(past'.keys), IsFiniteSet(past'.asked), past'.paid = 0,
           \A x \in DOMAIN t : IsFiniteSet(t[x].fills) /\ z[x] = Size(t[x])
    PROVE  Finite' /\ Exact' /\ Overshoot' /\ Weighed'
<1> DEFINE D == DOMAIN solvers'
           w == Sizes(solvers')
<1>1. D \subseteq DOMAIN t /\ \A x \in D : solvers'[x] = t[x]
    BY DEF Evicted
<1>2. IsFiniteSet(D)
    BY <1>1, FS_Subset
<1>3. \A x \in D : IsFiniteSet(solvers'[x].fills)
    BY <1>1
<1>4. \A x \in D : z[x] = Size(solvers'[x])
    BY <1>1
<1>5. \A x \in D : w[x] \in Int /\ z[x] = w[x]
    <2>1. \A x \in D : Size(solvers'[x]) \in Int
        BY <1>3, FS_CardinalityType DEF Size
    <2>2. \A x \in D : w[x] = Size(solvers'[x])
        BY DEF Sizes
    <2> HIDE DEF w, D
    <2>3. QED
        BY <1>4, <2>1, <2>2
<1>6. Total(w, D) \in Int /\ Total(z, D) = Total(w, D)
    <2> HIDE DEF w, D
    <2>1. QED
        BY <1>2, <1>5, TotalSame
<1>7. stats'.bytes = Total(z, D) /\ (stats'.bytes <= Cap \/ Len(order') = 1)
    BY DEF Tells
<1>8. Weighed'
    BY <1>6, <1>7 DEF Weighed
<1>9. Finite'
    BY <1>3 DEF Finite
<1>10. Exact'
    <2>1. \A x \in D : sizes'[x] = z[x]
        BY DEF Tells
    <2>2. \A x \in D : sizes'[x] = Size(solvers'[x])
        BY <1>4, <2>1
    <2>3. QED
        BY <2>2 DEF Exact, Newest, Size
<1>11. Total(w, D) <= stats'.bytes + past'.paid
    <2> HIDE DEF w, D
    <2>1. QED
        BY <1>6, <1>7
<1>12. Overshoot'
    BY <1>7, <1>11 DEF Overshoot, Sizes, Size
<1>13. QED
    BY <1>8, <1>9, <1>10, <1>12

\* The fills of caches that differ in no fills.
LEMMA FilledSame ==
    ASSUME NEW s, NEW t, DOMAIN s = DOMAIN t, \A x \in DOMAIN s : s[x].fills = t[x].fills
    PROVE  Filled(s) = Filled(t)
BY DEF Filled

\* A hit keeps what the statistics tell: no fill is new, none is lost.
LEMMA HitTells ==
    ASSUME TypeInv, CountInv, TellInv, Hit
    PROVE  TellInv'
<1> DEFINE k == Key(deck)
           s == [solvers[k] EXCEPT !.portal = deck]
           t == [solvers EXCEPT ![k] = s]
           o == MoveToEnd(order, k)
           st == [stats EXCEPT !.hits = @ + 1]
<1>1. /\ k \in DOMAIN solvers /\ solvers[k] \in Entry /\ deck \in Decks /\ mode.serving
      /\ Evict(t, o, Measured, st) /\ past' = Solved(past) /\ mode' = mode
    BY DEF Hit, TypeInv, TypeOK, Entry
<1>2. s.fills = solvers[k].fills
    BY <1>1 DEF Entry
<1> HIDE DEF s
<1>3. DOMAIN t = DOMAIN solvers /\ \A x \in DOMAIN t : t[x].fills = solvers[x].fills
    BY <1>1, <1>2
<1>4. Lists(o, DOMAIN t) /\ o # <<>>
    <2>1. Lists(order, DOMAIN solvers)
        BY DEF TypeInv, TypeOK, Lists
    <2>2. QED
        BY <1>1, <1>3, <2>1, MoveLists
<1>5. /\ st \in [hits : Nat, misses : Nat, evictions : Nat, fills : Nat, bytes : {st.bytes}]
      /\ st.fills = stats.fills /\ st.misses = stats.misses /\ st.evictions = stats.evictions
    BY DEF TypeInv
<1> HIDE DEF t, o, st
<1>6. Evicted(t, o, st) /\ Tells(t, Measured, st)
    BY <1>1, <1>4, <1>5, EvictKeeps, EvictTells
<1>7. /\ past'.keys = past.keys \cup {k} /\ past'.raised = past.raised /\ past'.paid = 0
      /\ past'.asked = past.asked
    BY <1>1, SolvedCounts DEF CountInv
<1>8. past'.keys = past.keys
    BY <1>1, <1>7 DEF TellInv, Known
<1>9. Finite' /\ Exact' /\ Overshoot' /\ Weighed'
    <2>1. \A x \in DOMAIN t : IsFiniteSet(t[x].fills) /\ Measured[x] = Size(t[x])
        <3>1. \A x \in DOMAIN t : Size(t[x]) = Size(solvers[x])
            BY <1>3 DEF Size
        <3>2. \A x \in DOMAIN solvers : Measured[x] = Size(solvers[x])
            BY <1>1, MeasuredIs
        <3>3. QED
            BY <1>3, <3>1, <3>2 DEF TellInv, Finite
    <2>2. IsFiniteSet(DOMAIN t) /\ IsFiniteSet(past'.keys) /\ IsFiniteSet(past'.asked)
        BY <1>3, <1>7, <1>8, Sized DEF TellInv, Finite
    <2>3. QED
        BY <1>6, <1>7, <2>1, <2>2, PassTells
<1>10. /\ DOMAIN solvers' \subseteq DOMAIN solvers
       /\ stats'.evictions = 0 => stats.evictions = 0 /\ DOMAIN solvers' = DOMAIN solvers
       /\ stats'.fills = stats.fills /\ stats'.misses = stats.misses
    <2>1. PICK n \in Nat : /\ stats'.evictions = st.evictions + n
                           /\ n = 0 => DOMAIN solvers' = DOMAIN t
        BY <1>6 DEF Tells
    <2>2. stats.evictions \in Nat
        BY DEF TypeInv
    <2>3. QED
        BY <1>3, <1>5, <1>6, <2>1, <2>2 DEF Tells, Evicted
<1>11. Known' /\ Missed'
    BY <1>1, <1>8, <1>10 DEF TellInv, Known, Missed, Counting
<1>12. Asked' /\ FillsOnce'
    <2>1. stats'.evictions = 0 => Filled(solvers') = Filled(solvers)
        <3>1. \A x \in DOMAIN solvers' : solvers'[x].fills = solvers[x].fills
            BY <1>3, <1>6 DEF Evicted
        <3>2. QED
            BY <1>10, <3>1, FilledSame
    <2>2. QED
        BY <1>1, <1>7, <1>10, <2>1 DEF TellInv, Asked, FillsOnce
<1>13. QED
    BY <1>9, <1>11, <1>12 DEF TellInv

\* A miss keeps what the statistics tell: its key and its first fill are new.
LEMMA MissTells ==
    ASSUME TypeInv, CountInv, TellInv, Miss
    PROVE  TellInv'
<1> DEFINE k == Key(deck)
           pt == Point(deck, 1, 1)
           s == New(deck)
           t == [x \in DOMAIN solvers \cup {k} |-> IF x = k THEN s ELSE solvers[x]]
           o == Append(order, k)
           z == [x \in DOMAIN Measured \cup {k} |-> IF x = k THEN Size(s) ELSE Measured[x]]
           m == [stats EXCEPT !.misses = @ + 1]
           st == Counted(m, 1)
           a == past.asked \cup {<<k, pt>>}
<1>1. /\ k \notin DOMAIN solvers /\ deck \in Decks /\ mode.serving
      /\ Evict(t, o, z, st) /\ past' = Built(past) /\ mode' = mode
    BY DEF Miss, TypeInv, TypeOK
<1>2. s.fills = {pt}
    BY DEF New
<1> HIDE DEF s
<1>3. /\ DOMAIN t = DOMAIN solvers \cup {k} /\ t[k] = s
      /\ \A x \in DOMAIN solvers : t[x] = solvers[x]
    BY <1>1
<1>4. Lists(o, DOMAIN t) /\ o # <<>>
    <2>1. Lists(order, DOMAIN solvers)
        BY DEF TypeInv, TypeOK, Lists
    <2>2. QED
        BY <1>1, <1>3, <2>1, AppendLists
<1>5. /\ st \in [hits : Nat, misses : Nat, evictions : Nat, fills : Nat, bytes : {st.bytes}]
      /\ st.fills = stats.fills + 1 /\ st.misses = stats.misses + 1
      /\ st.evictions = stats.evictions
    <2>1. /\ m \in [hits : Nat, misses : Nat, evictions : Nat, fills : Nat, bytes : {m.bytes}]
          /\ m.misses = stats.misses + 1 /\ m.bytes = stats.bytes
          /\ m.fills = stats.fills /\ m.evictions = stats.evictions
        BY DEF TypeInv
    <2> HIDE DEF m
    <2>2. /\ st \in [hits : Nat, misses : Nat, evictions : Nat, fills : Nat, bytes : {m.bytes}]
          /\ st.fills = m.fills + 1 /\ st.misses = m.misses /\ st.evictions = m.evictions
        <3>1. 1 \in Nat /\ Counting
            BY <1>1 DEF Counting
        <3>2. /\ st \in [hits : Nat, misses : Nat, evictions : Nat, fills : Nat, bytes : {m.bytes}]
              /\ st.fills = m.fills + (IF Counting THEN 1 ELSE 0)
              /\ st.misses = m.misses /\ st.evictions = m.evictions
            BY <2>1, <3>1, CountedNat, CountedFills
        <3> HIDE DEF st
        <3>3. QED
            BY <3>1, <3>2
    <2> HIDE DEF st
    <2>3. QED
        BY <2>1, <2>2
<1>6. \A x \in DOMAIN t : z[x] = Size(t[x])
    <2>1. DOMAIN Measured = DOMAIN solvers /\ \A x \in DOMAIN solvers : Measured[x] = Size(solvers[x])
        BY <1>1, MeasuredIs
    <2>2. z[k] = Size(t[k])
        BY <1>3
    <2>3. \A x \in DOMAIN solvers : z[x] = Measured[x] /\ Size(t[x]) = Size(solvers[x])
        BY <1>1, <1>3, <2>1
    <2> HIDE DEF t, z
    <2>4. QED
        BY <1>3, <2>1, <2>2, <2>3
<1> HIDE DEF t, o, z, st
<1>7. Evicted(t, o, st) /\ Tells(t, z, st)
    BY <1>1, <1>4, <1>5, EvictKeeps, EvictTells
<1>8. /\ past'.keys = past.keys \cup {k} /\ past'.raised = past.raised /\ past'.paid = 0
      /\ past'.asked = a
    BY <1>1, SolvedCounts DEF CountInv
<1>9. /\ IsFiniteSet(past.keys \cup {k}) /\ Cardinality(past.keys) \in Nat
      /\ Cardinality(past.keys \cup {k}) = Cardinality(past.keys) + (IF k \in past.keys THEN 0 ELSE 1)
      /\ IsFiniteSet(a) /\ Cardinality(past.asked) \in Nat
      /\ Cardinality(a) = Cardinality(past.asked) + (IF <<k, pt>> \in past.asked THEN 0 ELSE 1)
    <2>1. IsFiniteSet(past.keys) /\ IsFiniteSet(past.asked)
        BY DEF TellInv, Finite
    <2>2. QED
        BY <2>1, CardinalityMore
<1>10. Finite' /\ Exact' /\ Overshoot' /\ Weighed'
    <2>1. \A x \in DOMAIN t : IsFiniteSet(t[x].fills)
        <3>1. IsFiniteSet(t[k].fills)
            <4>1. IsFiniteSet({} \cup {pt}) /\ {} \cup {pt} = {pt}
                BY FS_EmptySet, CardinalityMore
            <4>2. QED
                BY <1>2, <1>3, <4>1
        <3>2. QED
            BY <1>3, <3>1 DEF TellInv, Finite
    <2>2. IsFiniteSet(DOMAIN t)
        <3>1. IsFiniteSet(DOMAIN solvers)
            BY Sized
        <3>2. QED
            BY <1>3, <3>1, CardinalityMore
    <2>3. IsFiniteSet(past'.keys) /\ IsFiniteSet(past'.asked)
        BY <1>8, <1>9
    <2>4. QED
        BY <1>6, <1>7, <1>8, <2>1, <2>2, <2>3, PassTells
<1>11. /\ DOMAIN solvers' \subseteq DOMAIN solvers \cup {k}
       /\ stats'.evictions = 0 => stats.evictions = 0 /\ DOMAIN solvers' = DOMAIN solvers \cup {k}
       /\ stats'.fills = stats.fills + 1 /\ stats'.misses = stats.misses + 1
    <2>1. PICK n \in Nat : /\ stats'.evictions = st.evictions + n
                           /\ n = 0 => DOMAIN solvers' = DOMAIN t
        BY <1>7 DEF Tells
    <2>2. stats.evictions \in Nat
        BY DEF TypeInv
    <2>3. QED
        BY <1>3, <1>5, <1>7, <2>1, <2>2 DEF Tells, Evicted
<1>12. Known'
    BY <1>1, <1>8, <1>11 DEF TellInv, Known
<1>13. Missed'
    <2>1. stats.misses \in Nat /\ stats.misses >= Cardinality(past.keys)
        BY <1>1 DEF TypeInv, TellInv, Missed, Counting
    <2>2. stats.evictions = 0 => stats.misses = Cardinality(past.keys) /\ k \notin past.keys
        BY <1>1 DEF TellInv, Missed, Known, Counting
    <2> HIDE DEF k
    <2>3. /\ stats'.misses >= Cardinality(past'.keys)
          /\ stats'.evictions = 0 => stats'.misses = Cardinality(past'.keys)
        BY <1>8, <1>9, <1>11, <2>1, <2>2
    <2>4. QED
        BY <2>3 DEF Missed
<1>14. Asked' /\ FillsOnce'
    <2> SUFFICES ASSUME stats'.evictions = 0
                 PROVE  /\ past'.asked = Filled(solvers')
                        /\ stats'.fills = Cardinality(past'.asked) + past'.raised
        BY DEF Asked, FillsOnce
    <2>1. /\ past.asked = Filled(solvers) /\ stats.fills = Cardinality(past.asked) + past.raised
          /\ DOMAIN solvers' = DOMAIN solvers \cup {k}
        BY <1>1, <1>11 DEF TellInv, Asked, FillsOnce
    <2>2. /\ solvers'[k].fills = {pt}
          /\ \A x \in DOMAIN solvers : solvers'[x].fills = solvers[x].fills
        BY <1>2, <1>3, <1>7, <2>1 DEF Evicted
    <2> HIDE DEF k, pt
    <2>3. Filled(solvers') = Filled(solvers) \cup {<<k, pt>>}
        <3>1. ASSUME NEW e \in Filled(solvers') PROVE e \in Filled(solvers) \cup {<<k, pt>>}
            <4>1. PICK x \in DOMAIN solvers \cup {k} : \E f \in solvers'[x].fills : e = <<x, f>>
                BY <2>1 DEF Filled
            <4>2. PICK f \in solvers'[x].fills : e = <<x, f>>
                BY <4>1
            <4>3. CASE x = k
                BY <2>2, <4>2, <4>3
            <4>4. CASE x \in DOMAIN solvers
                BY <2>2, <4>2, <4>4 DEF Filled
            <4>5. QED
                BY <4>3, <4>4
        <3>2. ASSUME NEW e \in Filled(solvers) PROVE e \in Filled(solvers')
            <4>1. PICK x \in DOMAIN solvers : \E f \in solvers[x].fills : e = <<x, f>>
                BY DEF Filled
            <4>2. PICK f \in solvers[x].fills : e = <<x, f>>
                BY <4>1
            <4>3. f \in solvers'[x].fills /\ x \in DOMAIN solvers'
                BY <2>1, <2>2, <4>2
            <4>4. QED
                BY <4>2, <4>3 DEF Filled
        <3>3. <<k, pt>> \in Filled(solvers')
            <4>1. k \in DOMAIN solvers' /\ pt \in solvers'[k].fills
                BY <2>1, <2>2
            <4>2. QED
                BY <4>1 DEF Filled
        <3>4. QED
            BY <3>1, <3>2, <3>3
    <2>4. <<k, pt>> \notin past.asked
        <3> SUFFICES ASSUME <<k, pt>> \in Filled(solvers) PROVE FALSE
            BY <2>1
        <3>1. PICK x \in DOMAIN solvers : \E f \in solvers[x].fills : <<k, pt>> = <<x, f>>
            BY DEF Filled
        <3>2. k = x
            BY <3>1
        <3>3. QED
            BY <1>1, <3>2 DEF k
    <2>5. past.raised \in Nat
        BY DEF CountInv, Past
    <2> HIDE DEF a
    <2>6. stats'.fills = Cardinality(past'.asked) + past'.raised
        BY <1>8, <1>9, <1>11, <2>1, <2>4, <2>5
    <2>7. QED
        BY <1>8, <2>1, <2>3, <2>6 DEF a
<1>15. QED
    BY <1>10, <1>12, <1>13, <1>14 DEF TellInv

\* A deck answered without the cache: the dry run counts its key, once.
LEMMA BuildsTell ==
    ASSUME TypeInv, CountInv, TellInv, BuildsUncached
    PROVE  TellInv'
<1> DEFINE k == Key(deck)
           a == past.asked \cup {<<k, Point(deck, 1, 1)>>}
           st == Counted(stats, 1)
<1>1. /\ ~mode.serving /\ deck \in Decks /\ past' = Built(past)
      /\ UNCHANGED <<mode, solvers, order, sizes>>
    BY DEF BuildsUncached, TypeInv, TypeOK, held
<1>2. /\ past'.keys = past.keys \cup {k} /\ past'.asked = a
    BY <1>1, SolvedCounts DEF CountInv
<1>3. /\ IsFiniteSet(past.keys \cup {k}) /\ Cardinality(past.keys) \in Nat
      /\ Cardinality(past.keys \cup {k}) = Cardinality(past.keys) + (IF k \in past.keys THEN 0 ELSE 1)
      /\ IsFiniteSet(a)
    <2>1. IsFiniteSet(past.keys) /\ IsFiniteSet(past.asked)
        BY DEF TellInv, Finite
    <2>2. QED
        BY <2>1, CardinalityMore
<1>4. Finite'
    BY <1>1, <1>2, <1>3 DEF TellInv, Finite
<1>5. /\ st \in [hits : Nat, misses : Nat, evictions : Nat, fills : Nat, bytes : {stats.bytes}]
      /\ st.misses = stats.misses /\ st.evictions = stats.evictions /\ st.bytes = stats.bytes
    BY CountedNat, CountedFills DEF TypeInv
<1>6. /\ mode.path /\ k \in dryKeys => stats' = [st EXCEPT !.hits = @ + 1]
      /\ mode.path /\ k \notin dryKeys => stats' = [st EXCEPT !.misses = @ + 1]
      /\ mode.path => dryKeys' = dryKeys \cup {k}
      /\ ~mode.path => stats' = stats /\ dryKeys' = dryKeys
    BY DEF BuildsUncached
<1> HIDE DEF st
<1>7. /\ stats'.evictions = stats.evictions /\ stats'.bytes = stats.bytes
      /\ mode.path => stats'.misses = stats.misses + (IF k \in dryKeys THEN 0 ELSE 1)
    <2>1. stats.misses \in Nat
        BY DEF TypeInv
    <2>2. CASE mode.path /\ k \in dryKeys
        BY <1>5, <1>6, <2>1, <2>2
    <2>3. CASE mode.path /\ k \notin dryKeys
        BY <1>5, <1>6, <2>1, <2>3
    <2>4. CASE ~mode.path
        BY <1>6, <2>4
    <2>5. QED
        BY <2>2, <2>3, <2>4
<1>8. Known' /\ Asked' /\ Exact' /\ FillsOnce' /\ Overshoot' /\ Weighed'
    BY <1>1, <1>2, <1>6, <1>7 DEF TellInv, Weighed, Known, Asked, Exact, FillsOnce, Overshoot
<1>9. Missed'
    <2> SUFFICES ASSUME mode.path
                 PROVE  /\ stats'.misses >= Cardinality(past'.keys)
                        /\ stats'.evictions = 0 => stats'.misses = Cardinality(past'.keys)
        BY <1>1 DEF Missed, Counting
    <2>1. stats.misses = Cardinality(past.keys) /\ dryKeys = past.keys
        BY <1>1 DEF TellInv, Missed, Known, Counting
    <2> HIDE DEF k
    <2>2. QED
        BY <1>2, <1>3, <1>7, <2>1
<1>10. QED
    BY <1>4, <1>8, <1>9 DEF TellInv

\* Every step keeps what the statistics tell.
LEMMA TellStep ==
    ASSUME TypeInv, CountInv, TellInv, RenderedIsResident, [Next]_vars
    PROVE  TellInv'
<1>1. past \in Past /\ past.raised \in Nat
    BY DEF CountInv, Past
<1>2. ASSUME NEW d \in Decks, Arrive(d)
      PROVE  TellInv'
    <2>1. PICK n \in {0, 1} : past' = [past EXCEPT !.refused = @ + n]
        BY <1>2 DEF Arrive
    <2>2. PastAlone(0)
        BY <1>1, <2>1 DEF Past, PastAlone
    <2>3. QED
        BY <1>1, <1>2, <2>2, TellsAlone DEF Arrive
<1>3. CASE BuildsUncached
    BY <1>3, BuildsTell
<1>4. CASE Refuse
    <2>1. PICK n \in {0, 1} : /\ stats' = Counted(stats, n)
                              /\ past' = [past EXCEPT !.refused = @ + 1, !.raised = @ + n]
        BY <1>4 DEF Refuse
    <2>2. PastAlone(n)
        BY <1>1, <2>1 DEF Past, PastAlone
    <2>3. /\ UNCHANGED <<mode, dryKeys, solvers, order>>
          /\ sizes' = sizes \/ (mode.serving /\ sizes' = Measured)
        BY <1>4 DEF Refuse
    <2>4. QED
        BY <2>1, <2>2, <2>3, RaisesTell
<1>5. CASE Hit
    BY <1>5, HitTells
<1>6. CASE Miss
    BY <1>6, MissTells
<1>7. CASE Solve
    BY <1>7, SolveTells
<1>8. CASE Raise
    <2>1. PICK n \in {0, 1} : /\ stats' = Counted(stats, n)
                              /\ past' = [past EXCEPT !.raised = @ + n]
        BY <1>8 DEF Raise
    <2>2. PastAlone(n)
        BY <1>1, <2>1 DEF Past, PastAlone
    <2>3. UNCHANGED <<mode, dryKeys, solvers, order, sizes>>
        BY <1>8 DEF Raise, held
    <2>4. QED
        BY <2>1, <2>2, <2>3, RaisesTell
<1>9. CASE Frame
    <2>1. PICK fails : past' = [past EXCEPT !.unwritten = fails]
        BY <1>9 DEF Frame
    <2>2. PastAlone(0)
        BY <1>1, <2>1 DEF Past, PastAlone
    <2>3. QED
        BY <1>1, <1>9, <2>2, TellsAlone DEF Frame
<1>10. CASE Destroy
    <2>1. PastAlone(0)
        BY <1>1, <1>10 DEF Destroy, Past, PastAlone
    <2>2. QED
        BY <1>1, <1>10, <2>1, TellsAlone DEF Destroy
<1>10a. CASE Escapes
    <2>1. PastAlone(0)
        BY <1>1, <1>10a DEF Escapes, PastAlone
    <2>2. QED
        BY <1>1, <1>10a, <2>1, TellsAlone DEF Escapes
<1>11. CASE UNCHANGED vars
    <2>1. PastAlone(0)
        BY <1>1, <1>11 DEF vars, PastAlone
    <2>2. QED
        BY <1>1, <1>11, <2>1, TellsAlone DEF vars
<1>12. QED
    BY <1>2, <1>3, <1>4, <1>5, <1>6, <1>7, <1>8, <1>9, <1>10, <1>10a, <1>11 DEF Next, Engine, Over

\* At the start there is nothing to tell of.
LEMMA InitTells == Init => TellInv
<1> SUFFICES ASSUME Init PROVE TellInv
    OBVIOUS
<1>1. /\ stats.misses = 0 /\ stats.evictions = 0 /\ stats.fills = 0 /\ stats.bytes = 0
      /\ past.keys = {} /\ past.asked = {} /\ past.raised = 0 /\ past.paid = 0
      /\ dryKeys = {} /\ solvers = <<>>
    BY DEF Init, Zeros
<1>2. DOMAIN solvers = {}
    BY <1>1
<1>3. IsFiniteSet({}) /\ Cardinality({}) = 0
    BY FS_EmptySet
<1>4. Total(Sizes(solvers), {}) = 0
    <2>1. PICK g : Summed({}, Sizes(solvers), g)
        BY <1>3, TotalAdds
    <2>2. QED
        BY <2>1 DEF Summed
<1>5. Overshoot
    <2>1. Total(Sizes(solvers), DOMAIN solvers) = 0
        BY <1>2, <1>4
    <2>2. Cap \in Nat
        BY SolverAssumption
    <2>3. QED
        BY <1>1, <2>1, <2>2 DEF Overshoot, Sizes, Size
<1>6. Filled(solvers) = {}
    BY <1>2 DEF Filled
<1>7. QED
    BY <1>1, <1>2, <1>3, <1>5, <1>6 DEF TellInv, Weighed, Finite, Known, Asked, Exact,
        Missed, FillsOnce

\* The statistics tell what they are for: hits and misses are the decks solved
\* and, until something is evicted, the misses their operators; each fill asked
\* for is counted once, the raised ones again; and what the cache holds is what
\* it says it holds, but for the fills of the last deck served.
THEOREM Told == Spec => []StatsTell
<1>1. Init => TypeInv /\ CountInv /\ TellInv
    <2>1. Init => CountInv
        BY SolverAssumption DEF Init, CountInv, Past, Zeros, Counting, FileAtBoundary, NoFile
    <2>2. QED
        BY <2>1, InitTyped, InitTells
<1>2. TypeInv /\ CountInv /\ TellInv /\ RenderedIsResident /\ [Next]_vars
        => (TypeInv /\ CountInv /\ TellInv)'
    BY TypeStep, CountStep, TellStep
<1>3. TypeInv /\ CountInv /\ TellInv => StatsTell
    BY DEF StatsTell, HitsTellRepeats, CountInv, TellInv, Missed
<1>4. QED
    BY <1>1, <1>2, <1>3, Resident, PTL DEF Spec
=============================================================================
