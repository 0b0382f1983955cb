-------------------------- MODULE SessionPumpProofs --------------------------
(***************************************************************************)
(* Proofs about SessionPump, for any scripts, any number of sessions and   *)
(* buffers, chunks and answers of any size: every buffer keeps its room,   *)
(* and what a host reads is what the stock engine prints for its script.   *)
(***************************************************************************)
EXTENDS SessionPump, SequenceTheorems, WellFoundedInduction, TLAPS

Kinds == {"card", "NX", "EN"}

\* The parts of the answers to a script of n lines, see Parts.
PartsOf(n) == {Greeting} \cup (Seq(1..n) \X (1..AnswerSize))

-----------------------------------------------------------------------------
(* The inductive invariant, in named parts.                                *)

AnyParts == {Greeting} \cup (Seq(Int) \X (1..AnswerSize))
Client == [pc : {"idle", "select", "printing", "ended", "killed"}, pending : Seq(Int),
           stdinOpen : BOOLEAN, data : Seq(AnyParts)]
Thread == [pc : {"reading", "waiting", "solving", "writing", "closed"}, need : Int,
           frag : Seq(Int), rx : Seq(Int), done : BOOLEAN, body : Seq(Int),
           out : Seq(AnyParts), last : BOOLEAN]

\* The state, for the sessions that are not opened too.
Shape ==
    /\ script \in Scripts /\ lock \in Sessions \cup {None}
    /\ sent \in [Sessions -> Int] /\ hung \in [Sessions -> BOOLEAN]
    /\ got \in [Sessions -> Seq(AnyParts)] /\ stdout \in [Sessions -> Seq(AnyParts)]
    /\ stdin \in [Sessions -> Seq(Int)]
    /\ up \in [Sessions -> Seq(Int)] /\ down \in [Sessions -> Seq(AnyParts)]
    /\ cl \in [Sessions -> Client] /\ sv \in [Sessions -> Thread]

Unopened(i) == cl[i].pc = "idle" /\ sv[i].pc = "closed" /\ stdout[i] = <<>>

Wire(i) == up[i] \o cl[i].pending

\* A run of FrameReader over the tokens of a wire: before and after each, the
\* lines it has had and those the frame still needs.
Parses(w, lines, rest) ==
    \A j \in 1..Len(w) :
        \/ /\ rest[j - 1] > 0 /\ w[j] = lines[j - 1] + 1
           /\ lines[j] = lines[j - 1] + 1 /\ rest[j] = rest[j - 1] - 1
        \/ /\ rest[j - 1] = 0 /\ rest[j] <= Chunk /\ w[j] = Header(rest[j])
           /\ lines[j] = lines[j - 1]

\* The wire of a session that is running, from the reader to the host: whole
\* frames with the lines in order, up to those in the host's pipe; the empty
\* frame once stdin is closed, and nothing after it.
Linked(i, w, lines, rest) ==
    /\ rest[Len(w)] = 0
    /\ sent[i] = lines[Len(w)] + Len(stdin[i])
    /\ \A j \in 1..Len(stdin[i]) : stdin[i][j] = lines[Len(w)] + j
    /\ \A j \in 1..Len(w) : rest[j - 1] = 0 /\ rest[j] = 0 => j = Len(w) /\ ~cl[i].stdinOpen
    /\ ~cl[i].stdinOpen =>
         /\ stdin[i] = <<>> /\ sent[i] = Len(script[i])
         /\ sv[i].done \/ (w # <<>> /\ rest[Len(w) - 1] = 0)
    /\ sv[i].done => ~cl[i].stdinOpen /\ w = <<>>
    /\ hung[i] => sent[i] = Len(script[i])

\* The lines in the hands of the server's thread, which has taken k.
InHand(i, k, had) ==
    /\ had = k + Len(sv[i].rx) + Len(sv[i].frag)
    /\ \A j \in 1..Len(sv[i].rx) : sv[i].rx[j] = k + j
    /\ \A j \in 1..Len(sv[i].frag) : sv[i].frag[j] = k + Len(sv[i].rx) + j
    /\ sv[i].need = 0 => sv[i].frag = <<>>
    /\ sv[i].rx # <<>> => sv[i].need = 0

Reads(i, k) ==
    \E lines, rest \in [0..Len(Wire(i)) -> Nat] :
        /\ Parses(Wire(i), lines, rest) /\ rest[0] = sv[i].need
        /\ Running(i) => Linked(i, Wire(i), lines, rest) /\ InHand(i, k, lines[0])

\* All that the server has written to the session.
Emitted(i) == Printed(i) \o down[i]

\* The thread of a running session, which has taken k lines, against the stock
\* engine.
Engine(i, k) ==
    LET stock == Stock(script[i]) IN
    /\ sv[i].pc = "reading" =>
         Emitted(i) = stock[k].out /\ sv[i].body = stock[k].body /\ stock[k].open
    /\ sv[i].pc \in {"waiting", "solving"} =>
         \/ /\ k >= 1 /\ script[i][k] # "card" /\ sv[i].last = (script[i][k] = "EN")
            /\ Emitted(i) = stock[k - 1].out /\ sv[i].body = stock[k - 1].body /\ stock[k - 1].open
         \/ /\ k = Len(script[i]) /\ sv[i].last
            /\ Emitted(i) = stock[k].out /\ sv[i].body = stock[k].body /\ sv[i].body # <<>>
    /\ sv[i].pc = "writing" =>
         \/ /\ Emitted(i) \o sv[i].out = stock[k].out /\ sv[i].last = ~stock[k].open
            /\ sv[i].body = <<>> /\ stock[k].body = <<>>
         \/ sv[i].last /\ Emitted(i) \o sv[i].out = Expected(i)
    /\ sv[i].pc = "closed" => Emitted(i) = Expected(i)

\* No line of the script ends the run before the end of the input.
NoEN(i) == \A k \in 1..Len(script[i]) : script[i][k] # "EN"

\* Without such a line the thread ends only at the end of the input.
EndsLast(i) == NoEN(i) /\ Running(i) /\ (sv[i].last \/ Closed(i)) => sv[i].done

\* What a client leaves behind.
Leaves(i) ==
    ~Running(i) => /\ \E rest \in Seq(Parts(i)) : Expected(i) = Printed(i) \o rest
                   /\ NoEN(i) /\ cl[i].pc = "ended" => Printed(i) = Expected(i)

Session(i) ==
    /\ TypedSession(i) /\ EndsLast(i) /\ Leaves(i)
    /\ cl[i].pc = "select" => cl[i].data = <<>>
    /\ \E k \in 0..Len(script[i]) : Reads(i, k) /\ (Running(i) => Engine(i, k))

PumpInv ==
    /\ Shape
    /\ \A i \in Sessions \ Opened : Unopened(i)
    /\ \A i \in Opened : Session(i)

-----------------------------------------------------------------------------
(* Sequences.                                                              *)

\* A read or a send takes the first n of a buffer and leaves the others.
LEMMA Cut ==
    ASSUME NEW S, NEW q \in Seq(S), NEW n \in 0..Len(q)
    PROVE  /\ Take(q, n) \in Seq(S) /\ Len(Take(q, n)) = n
           /\ \A j \in 1..n : Take(q, n)[j] = q[j]
           /\ Drop(q, n) \in Seq(S) /\ Len(Drop(q, n)) = Len(q) - n
           /\ \A j \in 1..(Len(q) - n) : Drop(q, n)[j] = q[j + n]
           /\ Take(q, n) \o Drop(q, n) = q
<1>1. Len(q) \in Nat /\ n \in Nat /\ n <= Len(q) /\ \A j \in 1..Len(q) : q[j] \in S
    OBVIOUS
<1>2. PICK m \in Nat : m = Len(q)
    BY <1>1
<1>3. n <= m /\ \A j \in 1..m : q[j] \in S
    BY <1>1, <1>2
<1>4. \A j \in 1..n : q[j] \in S
    BY <1>1, <1>3
<1>5. \A j \in (n + 1)..m : q[j] \in S
    BY <1>1, <1>3
<1>6. /\ SubSeq(q, 1, n) \in Seq(S) /\ Len(SubSeq(q, 1, n)) = IF 1 <= n THEN n - 1 + 1 ELSE 0
      /\ \A j \in 1..(n - 1 + 1) : SubSeq(q, 1, n)[j] = q[1 + j - 1]
    BY <1>1, <1>4, SubSeqProperties
<1>7. /\ SubSeq(q, n + 1, m) \in Seq(S)
      /\ Len(SubSeq(q, n + 1, m)) = IF n + 1 <= m THEN m - (n + 1) + 1 ELSE 0
      /\ \A j \in 1..(m - (n + 1) + 1) : SubSeq(q, n + 1, m)[j] = q[n + 1 + j - 1]
    <2>1. n + 1 \in Int /\ m \in Int
        BY <1>1, <1>2
    <2>2. QED
        BY <2>1, <1>5, SubSeqProperties
<1>8. SubSeq(q, 1, n) \o SubSeq(q, n + 1, m) = SubSeq(q, 1, m) /\ SubSeq(q, 1, m) = q
    <2>1. 1 \in 1..(m + 1) /\ n \in (1 - 1)..m /\ m \in n..m
        BY <1>1, <1>3, <1>2
    <2>2. QED
        BY <2>1, <1>2, ConcatAdjacentSubSeq, SubSeqFull
<1>9. Len(SubSeq(q, 1, n)) = n /\ \A j \in 1..n : SubSeq(q, 1, n)[j] = q[j]
    BY <1>1, <1>6
<1>10. Len(SubSeq(q, n + 1, m)) = m - n /\ \A j \in 1..(m - n) : SubSeq(q, n + 1, m)[j] = q[j + n]
    BY <1>1, <1>3, <1>7
<1>11. QED
    BY <1>2, <1>6, <1>7, <1>8, <1>9, <1>10 DEF Take, Drop

\* Concatenation, which the provers handle better by its laws alone.
Cat(p, q) == p \o q

\* Each capacity is a positive number.
LEMMA Limits ==
    /\ AnswerSize \in Nat \ {0} /\ Chunk \in Nat \ {0} /\ HighWater \in Nat \ {0}
    /\ PipeCap \in Nat \ {0} /\ SockCap \in Nat \ {0}
<1>1. {AnswerSize, Chunk, HighWater, PipeCap, SockCap} \subseteq Nat \ {0}
    BY PumpAssumption, Zenon
<1>2. QED
    BY <1>1

\* Concatenation is associative and has the empty sequence for its unit.
LEMMA Joins ==
    ASSUME NEW S
    PROVE  /\ \A a, b, c \in Seq(S) : Cat(Cat(a, b), c) = Cat(a, Cat(b, c))
           /\ \A a, b \in Seq(S) : Cat(a, b) \in Seq(S)
           /\ \A a \in Seq(S) : Cat(a, <<>>) = a /\ Cat(<<>>, a) = a
           /\ <<>> \in Seq(S)
<1>1. ASSUME NEW a \in Seq(S), NEW b \in Seq(S) PROVE a \o b \in Seq(S)
    BY ConcatProperties
<1>2. ASSUME NEW a \in Seq(S), NEW b \in Seq(S), NEW c \in Seq(S)
      PROVE  (a \o b) \o c = a \o (b \o c)
    BY ConcatAssociative
<1>3. ASSUME NEW a \in Seq(S) PROVE a \o <<>> = a /\ <<>> \o a = a
    BY ConcatEmptySeq
<1>4. QED
    BY <1>1, <1>2, <1>3 DEF Cat

\* What goes from one buffer to the next stays where it is in the stream.
LEMMA Passes ==
    ASSUME NEW S, NEW p \in Seq(S), NEW q \in Seq(S), NEW n \in 0..Len(q)
    PROVE  Cat(Cat(p, Take(q, n)), Drop(q, n)) = Cat(p, q)
<1>0. Take(q, n) \in Seq(S) /\ Drop(q, n) \in Seq(S) /\ Take(q, n) \o Drop(q, n) = q
    BY Cut
<1>1. PICK a \in Seq(S), b \in Seq(S) : a = Take(q, n) /\ b = Drop(q, n) /\ Cat(a, b) = q
    BY <1>0 DEF Cat
<1>2. \A x, y, z \in Seq(S) : Cat(Cat(x, y), z) = Cat(x, Cat(y, z))
    BY Joins
<1>3. QED
    BY <1>1, <1>2

LEMMA Wider ==
    ASSUME NEW S, NEW T, S \subseteq T, NEW q \in Seq(S)
    PROVE  q \in Seq(T)
OBVIOUS

\* The ends of a buffer.
LEMMA Empty ==
    ASSUME NEW S, NEW q \in Seq(S)
    PROVE  /\ q \o <<>> = q /\ <<>> \o q = q /\ Take(q, 0) = <<>> /\ Drop(q, 0) = q
           /\ Take(q, Len(q)) = q /\ Drop(q, Len(q)) = <<>> /\ Len(q) \in Nat
           /\ (Len(q) = 0) = (q = <<>>)
<1>1. Len(q) \in Nat /\ q \o <<>> = q /\ <<>> \o q = q /\ (Len(q) = 0) = (q = <<>>)
    BY ConcatEmptySeq, EmptySeq
<1>2. Take(q, Len(q)) = q
    BY SubSeqFull DEF Take
<1>3. Drop(q, 0) = q
    BY SubSeqFull DEF Drop
<1>4. Take(q, 0) = <<>>
    <2>1. 0 \in Int /\ 1 \in Int /\ 0 < 1
        OBVIOUS
    <2>2. QED
        BY <2>1, SubSeqEmpty DEF Take
<1>5. Drop(q, Len(q)) = <<>>
    <2>1. PICK m \in Nat : m = Len(q)
        BY <1>1
    <2>2. m + 1 \in Int /\ m \in Int /\ m < m + 1
        OBVIOUS
    <2>3. QED
        BY <2>1, <2>2, SubSeqEmpty DEF Drop
<1>6. QED
    BY <1>1, <1>2, <1>3, <1>4, <1>5

\* The first of a buffer, and the others.
LEMMA First ==
    ASSUME NEW S, NEW q \in Seq(S), q # <<>>
    PROVE  Head(q) = q[1] /\ q[1] \in S /\ Tail(q) = Drop(q, 1) /\ Len(q) >= 1 /\ 1 \in 0..Len(q)
<1>1. Len(q) \in Nat /\ Len(q) >= 1
    BY EmptySeq
<1>2. Head(q) = q[1] /\ q[1] \in S
    BY <1>1
<1>3. Tail(q) = SubSeq(q, 2, Len(q)) /\ 1 + 1 = 2
    BY TailIsSubSeq
<1>4. QED
    BY <1>1, <1>2, <1>3 DEF Drop

-----------------------------------------------------------------------------
(* Induction, over sets of numbers.                                        *)

\* Nat is the only set of numbers that has 0 and, with each of its elements,
\* the next one.
LEMMA SetInduction ==
    ASSUME NEW T, T \subseteq Nat, 0 \in T, \A m \in T : m + 1 \in T
    PROVE  T = Nat
<1> DEFINE U == Nat \ T
           R == {ss \in Nat \X Nat : ss[1] < ss[2]}
<1>1. IsWellFoundedOn(R, Nat)
    BY NatLessThanWellFounded DEF OpToRel
<1>2. SUFFICES ASSUME U # {} PROVE FALSE
    OBVIOUS
<1>3. PICK x \in U : \A y \in U : ~(<<y, x>> \in R)
    BY <1>1, <1>2, WFMin
<1>4. x - 1 \in Nat /\ x - 1 < x /\ (x - 1) + 1 = x
    BY <1>3
<1>5. x - 1 \in T
    BY <1>3, <1>4
<1>6. QED
    BY <1>3, <1>4, <1>5

-----------------------------------------------------------------------------
(* The stock engine.                                                       *)

\* g is the run of the engine over the first m lines.
Runs(given, g, m) ==
    g = [k \in 0..m |-> IF k = 0 THEN Fresh ELSE Line(given, g[k - 1], k)]

\* The recursive definition of Stock has a solution.
LEMMA StockRuns ==
    ASSUME NEW given, Len(given) \in Nat
    PROVE  Runs(given, Stock(given), Len(given))
<1> DEFINE T == {m \in Nat : \E g : Runs(given, g, m)}
<1>1. 0 \in T
    <2> DEFINE g == [k \in 0..0 |-> Fresh]
    <2>1. Runs(given, g, 0)
        BY DEF Runs
    <2>2. QED
        BY <2>1
<1>2. ASSUME NEW m \in T PROVE m + 1 \in T
    <2>1. PICK g : Runs(given, g, m)
        OBVIOUS
    <2> DEFINE h == [k \in 0..(m + 1) |-> IF k = 0 THEN Fresh ELSE Line(given, g[k - 1], k)]
    <2>2. \A k \in 0..m : h[k] = g[k]
        BY <2>1 DEF Runs
    <2>3. \A k \in 0..(m + 1) : k # 0 => k - 1 \in 0..m
        OBVIOUS
    <2>4. \A k \in 0..(m + 1) : k # 0 => h[k - 1] = g[k - 1]
        BY <2>2, <2>3
    <2>5. h = [k \in 0..(m + 1) |-> IF k = 0 THEN Fresh ELSE Line(given, h[k - 1], k)]
        BY <2>4
    <2> HIDE DEF h
    <2>6. Runs(given, h, m + 1)
        BY <2>5 DEF Runs
    <2>7. QED
        BY <2>6
<1>3. T = Nat
    <2>1. T \subseteq Nat
        OBVIOUS
    <2> HIDE DEF T
    <2>2. QED
        BY <1>1, <1>2, <2>1, SetInduction
<1>4. \E g : Runs(given, g, Len(given))
    BY <1>3
<1>5. Stock(given) = CHOOSE g : Runs(given, g, Len(given))
    BY DEF Stock, Runs
<1>6. QED
    BY <1>4, <1>5

\* Stock reads a script line by line.
LEMMA StockSteps ==
    ASSUME NEW given, Len(given) \in Nat
    PROVE  /\ Stock(given)[0] = Fresh
           /\ \A k \in 1..Len(given) : Stock(given)[k] = Line(given, Stock(given)[k - 1], k)
<1> DEFINE g == Stock(given)
<1>1. g = [k \in 0..Len(given) |-> IF k = 0 THEN Fresh ELSE Line(given, g[k - 1], k)]
    BY StockRuns DEF Runs
<1> HIDE DEF g
<1>2. 0 \in 0..Len(given) /\ \A k \in 1..Len(given) : k \in 0..Len(given) /\ k # 0
    OBVIOUS
<1>3. g[0] = Fresh
    BY <1>1, <1>2, Zenon
<1>4. \A k \in 1..Len(given) : g[k] = Line(given, g[k - 1], k)
    BY <1>1, <1>2
<1>5. QED
    BY <1>3, <1>4 DEF g

\* What the engine has printed and read after any number of lines.
Stocks(n) == [out : Seq(PartsOf(n)), body : Seq(1..n), open : BOOLEAN]

\* An answer is made of the parts that TypeOK allows.
LEMMA AnswerTyped ==
    ASSUME NEW n \in Nat, NEW body \in Seq(1..n)
    PROVE  Answer(body) \in Seq(PartsOf(n)) /\ <<Greeting>> \in Seq(PartsOf(n))
<1>1. AnswerSize \in Nat
    BY PumpAssumption
<1>2. \A part \in 1..AnswerSize : <<body, part>> \in PartsOf(n)
    BY DEF PartsOf
<1>3. Answer(body) \in [1..AnswerSize -> PartsOf(n)]
    BY <1>2 DEF Answer
<1>4. Answer(body) \in Seq(PartsOf(n))
    BY <1>1, <1>3
<1>5. Greeting \in PartsOf(n)
    BY DEF PartsOf
<1>6. QED
    BY <1>4, <1>5

\* A closed engine has no open deck, and stays as it is.
LEMMA LineTyped ==
    ASSUME NEW given \in Seq(Kinds), NEW k \in 1..Len(given), NEW before \in Stocks(Len(given)),
           ~before.open => before.body = <<>>
    PROVE  /\ Line(given, before, k) \in Stocks(Len(given))
           /\ ~Line(given, before, k).open => Line(given, before, k).body = <<>>
           /\ ~before.open => Line(given, before, k) = before
           /\ before.open /\ given[k] = "card" =>
                /\ Line(given, before, k).out = before.out /\ Line(given, before, k).open
                /\ Line(given, before, k).body = Append(before.body, k)
           /\ before.open /\ given[k] # "card" =>
                /\ Line(given, before, k).out = before.out \o Answer(before.body)
                /\ Line(given, before, k).body = <<>>
                /\ Line(given, before, k).open = (given[k] # "EN")
           /\ \E t \in Seq(PartsOf(Len(given))) : Line(given, before, k).out = before.out \o t
<1> DEFINE L == Len(given)
<1>1. L \in Nat /\ before.out \in Seq(PartsOf(L)) /\ before.body \in Seq(1..L) /\ before.open \in BOOLEAN
    BY DEF Stocks
<1>2. CASE ~before.open
    <2>1. Line(given, before, k) = before
        BY <1>2 DEF Line
    <2>2. before.out = before.out \o <<>> /\ <<>> \in Seq(PartsOf(L))
        BY <1>1, ConcatEmptySeq
    <2>3. QED
        BY <1>2, <2>1, <2>2
<1>3. CASE before.open /\ given[k] = "card"
    <2> DEFINE new == [before EXCEPT !.body = Append(@, k)]
    <2>1. Line(given, before, k) = new
        BY <1>3 DEF Line
    <2>2. Append(before.body, k) \in Seq(1..L)
        BY <1>1
    <2>3. /\ new.out = before.out /\ new.open = before.open /\ new.body = Append(before.body, k)
          /\ new \in Stocks(L)
        BY <1>1, <2>2 DEF Stocks
    <2>4. before.out = before.out \o <<>> /\ <<>> \in Seq(PartsOf(L))
        BY <1>1, ConcatEmptySeq
    <2> HIDE DEF new
    <2>5. QED
        BY <1>3, <2>1, <2>3, <2>4
<1>4. CASE before.open /\ given[k] # "card"
    <2> DEFINE new == [out |-> before.out \o Answer(before.body), body |-> <<>>,
                       open |-> given[k] # "EN"]
    <2>1. Line(given, before, k) = new
        BY <1>4 DEF Line
    <2>2. Answer(before.body) \in Seq(PartsOf(L))
        BY <1>1, AnswerTyped
    <2>3. before.out \o Answer(before.body) \in Seq(PartsOf(L))
        BY <1>1, <2>2, ConcatProperties
    <2>4. /\ new.out = before.out \o Answer(before.body) /\ new.body = <<>>
          /\ new.open = (given[k] # "EN")
        OBVIOUS
    <2>5. new \in Stocks(L)
        BY <2>3 DEF Stocks
    <2> HIDE DEF new
    <2>6. QED
        BY <1>4, <2>1, <2>2, <2>4, <2>5
<1>5. QED
    BY <1>1, <1>2, <1>3, <1>4

LEMMA StockTyped ==
    ASSUME NEW given \in Seq(Kinds), NEW k \in 0..Len(given)
    PROVE  /\ Stock(given)[k] \in Stocks(Len(given))
           /\ ~Stock(given)[k].open => Stock(given)[k].body = <<>>
<1> DEFINE L == Len(given)
           Fine(m) == /\ Stock(given)[m] \in Stocks(L)
                      /\ ~Stock(given)[m].open => Stock(given)[m].body = <<>>
           T == {m \in Nat : m <= L => Fine(m)}
<1>1. L \in Nat
    OBVIOUS
<1>2. 0 \in T
    <2>1. Stock(given)[0] = Fresh
        BY <1>1, StockSteps
    <2>2. Fresh.open /\ Fresh.body = <<>> /\ Fresh \in Stocks(L)
        <3>1. <<>> \in Seq(1..L)
            OBVIOUS
        <3>2. <<Greeting>> \in Seq(PartsOf(L))
            BY <1>1, <3>1, AnswerTyped
        <3>3. QED
            BY <3>1, <3>2 DEF Fresh, Stocks
    <2>3. QED
        BY <2>1, <2>2
<1>3. ASSUME NEW m \in T PROVE m + 1 \in T
    <2>1. SUFFICES ASSUME m + 1 <= L PROVE Fine(m + 1)
        OBVIOUS
    <2>2. m + 1 \in 1..L /\ (m + 1) - 1 = m /\ m <= L
        BY <1>1, <2>1
    <2>3. Stock(given)[m + 1] = Line(given, Stock(given)[m], m + 1)
        BY <1>1, <2>2, StockSteps
    <2>4. Fine(m)
        BY <2>2
    <2>5. PICK before \in Stocks(Len(given)) :
              before = Stock(given)[m] /\ (~before.open => before.body = <<>>)
        BY <2>4
    <2>6. /\ Line(given, before, m + 1) \in Stocks(Len(given))
          /\ ~Line(given, before, m + 1).open => Line(given, before, m + 1).body = <<>>
        BY <2>2, <2>5, LineTyped
    <2>7. QED
        BY <2>3, <2>5, <2>6
<1>4. T = Nat
    <2>1. T \subseteq Nat
        OBVIOUS
    <2> HIDE DEF T
    <2>2. QED
        BY <1>2, <1>3, <2>1, SetInduction
<1>5. k \in T /\ k <= L
    BY <1>4
<1>6. QED
    BY <1>5

\* What the engine has printed stays; once closed it stays as it is.
LEMMA StockGrows ==
    ASSUME NEW given \in Seq(Kinds), NEW k \in 0..Len(given), NEW m \in k..Len(given)
    PROVE  /\ \E t \in Seq(PartsOf(Len(given))) : Stock(given)[m].out = Stock(given)[k].out \o t
           /\ ~Stock(given)[k].open => Stock(given)[m] = Stock(given)[k]
<1> DEFINE L == Len(given)
           Grown(d) == /\ \E t \in Seq(PartsOf(L)) : Stock(given)[k + d].out = Stock(given)[k].out \o t
                       /\ ~Stock(given)[k].open => Stock(given)[k + d] = Stock(given)[k]
           T == {d \in Nat : k + d <= L => Grown(d)}
<1>1. L \in Nat /\ k \in Nat /\ k <= L
    OBVIOUS
<1>2. PICK first \in Stocks(L) : first = Stock(given)[k]
    BY StockTyped
<1>3. 0 \in T
    <2>1. first.out = first.out \o <<>> /\ <<>> \in Seq(PartsOf(L))
        BY ConcatEmptySeq DEF Stocks
    <2>2. k + 0 = k
        BY <1>1
    <2>3. QED
        BY <1>2, <2>1, <2>2
<1>4. ASSUME NEW d \in T PROVE d + 1 \in T
    <2>0. d \in Nat /\ d + 1 \in Nat
        OBVIOUS
    <2>1. SUFFICES ASSUME k + (d + 1) <= L PROVE Grown(d + 1)
        BY <2>0, Zenon
    <2>2. /\ k + (d + 1) \in 1..L /\ (k + (d + 1)) - 1 = k + d /\ k + d <= L
          /\ k + d \in 0..L
        BY <1>1, <2>0, <2>1
    <2>3. Grown(d)
        BY <2>2
    <2>4. PICK before \in Stocks(Len(given)) :
              before = Stock(given)[k + d] /\ (~before.open => before.body = <<>>)
        BY <2>2, StockTyped
    <2>5. Stock(given)[k + (d + 1)] = Line(given, before, k + (d + 1))
        BY <1>1, <2>2, <2>4, StockSteps
    <2>6. /\ \E u \in Seq(PartsOf(Len(given))) : Line(given, before, k + (d + 1)).out = before.out \o u
          /\ ~before.open => Line(given, before, k + (d + 1)) = before
        BY <2>2, <2>4, LineTyped
    <2>7. PICK old \in Seq(PartsOf(L)) : old = first.out
        BY DEF Stocks
    <2>8. PICK t \in Seq(PartsOf(L)) : before.out = old \o t
        BY <1>2, <2>3, <2>4, <2>7
    <2>9. PICK u \in Seq(PartsOf(L)) : Stock(given)[k + (d + 1)].out = before.out \o u
        BY <2>5, <2>6
    <2>10. (old \o t) \o u = old \o (t \o u)
        <3>1. PICK S : S = PartsOf(L)
            OBVIOUS
        <3>2. old \in Seq(S) /\ t \in Seq(S) /\ u \in Seq(S)
            BY <3>1
        <3>3. \A a, b, c \in Seq(S) : Cat(Cat(a, b), c) = Cat(a, Cat(b, c))
            BY Joins, Zenon
        <3>4. Cat(Cat(old, t), u) = Cat(old, Cat(t, u))
            BY <3>2, <3>3, Zenon
        <3>5. QED
            BY <3>4, Zenon DEF Cat
    <2>11. t \o u \in Seq(PartsOf(L))
        BY ConcatProperties
    <2>12. \E v \in Seq(PartsOf(L)) : Stock(given)[k + (d + 1)].out = Stock(given)[k].out \o v
        BY <1>2, <2>7, <2>8, <2>9, <2>10, <2>11
    <2>13. ~Stock(given)[k].open => Stock(given)[k + (d + 1)] = Stock(given)[k]
        BY <2>3, <2>4, <2>5, <2>6
    <2>14. QED
        BY <2>12, <2>13
<1>5. T = Nat
    <2>1. T \subseteq Nat
        OBVIOUS
    <2> HIDE DEF T
    <2>2. QED
        BY <1>3, <1>4, <2>1, SetInduction
<1>6. PICK d \in Nat : k + d = m
    <2>1. m - k \in Nat /\ k + (m - k) = m
        BY <1>1
    <2>2. QED
        BY <2>1
<1>7. d \in T /\ k + d <= L
    <2>1. d \in Nat /\ m <= L
        BY <1>1, <1>6
    <2>2. QED
        BY <1>5, <1>6, <2>1
<1>8. Grown(d)
    BY <1>7
<1>9. QED
    BY <1>6, <1>8

-----------------------------------------------------------------------------
(* The printout of a session's script.                                     *)

\* An opened session has a script.
LEMMA Scripted ==
    ASSUME script \in Scripts, NEW i \in Opened
    PROVE  /\ i \in Sessions /\ script[i] \in Seq(Kinds) /\ Len(script[i]) \in Nat
           /\ Parts(i) = PartsOf(Len(script[i]))
BY PumpAssumption DEF Opened, Kinds, Parts, PartsOf

\* What the engine has printed after k lines begins the whole printout, and is
\* the whole once it closed or has read all with no deck left open.
LEMMA Expects ==
    ASSUME script \in Scripts, NEW i \in Opened, NEW k \in 0..Len(script[i])
    PROVE  LET now == Stock(script[i])[k] IN
           /\ now.out \in Seq(Parts(i)) /\ now.body \in Seq(1..Len(script[i])) /\ now.open \in BOOLEAN
           /\ ~now.open => now.body = <<>>
           /\ \E u \in Seq(Parts(i)) : Expected(i) = now.out \o u
           /\ ~now.open => Expected(i) = now.out
           /\ k = Len(script[i]) /\ now.body = <<>> => Expected(i) = now.out
           /\ k = Len(script[i]) /\ now.body # <<>> => Expected(i) = now.out \o Answer(now.body)
<1> DEFINE L == Len(script[i])
           now == Stock(script[i])[k]
           end == Stock(script[i])[L]
<1>1. /\ L \in Nat /\ script[i] \in Seq(Kinds) /\ Parts(i) = PartsOf(L)
      /\ L \in 0..L /\ L \in k..L
    BY Scripted
<1>2. now \in Stocks(L) /\ (~now.open => now.body = <<>>)
    BY <1>1, StockTyped
<1>3. end \in Stocks(L)
    BY <1>1, StockTyped
<1>4. PICK t \in Seq(PartsOf(L)) : end.out = now.out \o t
    BY <1>1, StockGrows
<1>5. ~now.open => end = now
    BY <1>1, StockGrows
<1>6. Expected(i) = IF end.body = <<>> THEN end.out ELSE end.out \o Answer(end.body)
    BY DEF Expected
<1> HIDE DEF now, end
<1>7. /\ now.out \in Seq(PartsOf(L)) /\ now.body \in Seq(1..L) /\ now.open \in BOOLEAN
      /\ end.body \in Seq(1..L)
    BY <1>2, <1>3 DEF Stocks
<1>8. \E u \in Seq(PartsOf(L)) : Expected(i) = now.out \o u
    <2>1. CASE end.body = <<>>
        BY <1>4, <1>6, <2>1
    <2>2. CASE end.body # <<>>
        <3>1. PICK answer \in Seq(PartsOf(L)) : answer = Answer(end.body)
            BY <1>1, <1>7, AnswerTyped
        <3>2. PICK old \in Seq(PartsOf(L)) : old = now.out
            BY <1>7
        <3>3. (old \o t) \o answer = old \o (t \o answer)
            <4>1. PICK S : S = PartsOf(L)
                OBVIOUS
            <4>2. old \in Seq(S) /\ t \in Seq(S) /\ answer \in Seq(S)
                BY <4>1
            <4>3. \A a, b, c \in Seq(S) : Cat(Cat(a, b), c) = Cat(a, Cat(b, c))
                BY Joins, Zenon
            <4>4. Cat(Cat(old, t), answer) = Cat(old, Cat(t, answer))
                BY <4>2, <4>3, Zenon
            <4>5. QED
                BY <4>4, Zenon DEF Cat
        <3>4. t \o answer \in Seq(PartsOf(L))
            BY ConcatProperties
        <3>5. QED
            BY <1>4, <1>6, <2>2, <3>1, <3>2, <3>3, <3>4
    <2>3. QED
        BY <2>1, <2>2
<1>9. ~now.open => Expected(i) = now.out
    BY <1>2, <1>5, <1>6
<1>10. k = L => end = now
    BY DEF now, end
<1>11. QED
    BY <1>1, <1>2, <1>6, <1>7, <1>8, <1>9, <1>10 DEF now

\* A line that is no card answers the deck before it.
LEMMA Terminates ==
    ASSUME script \in Scripts, NEW i \in Opened, NEW k \in 1..Len(script[i]),
           Stock(script[i])[k - 1].open
    PROVE  LET before == Stock(script[i])[k - 1]
               now == Stock(script[i])[k]
           IN  /\ script[i][k] = "card" =>
                    now.out = before.out /\ now.open /\ now.body = Append(before.body, k)
               /\ script[i][k] # "card" =>
                    /\ now.out = before.out \o Answer(before.body) /\ now.body = <<>>
                    /\ now.open = (script[i][k] # "EN")
<1> DEFINE L == Len(script[i])
<1>1. L \in Nat /\ script[i] \in Seq(Kinds)
    BY Scripted
<1>2. k - 1 \in 0..L
    BY <1>1
<1>3. PICK before \in Stocks(Len(script[i])) :
          before = Stock(script[i])[k - 1] /\ (~before.open => before.body = <<>>)
    BY <1>1, <1>2, StockTyped
<1>4. Stock(script[i])[k] = Line(script[i], before, k)
    BY <1>1, <1>3, StockSteps
<1>5. /\ script[i][k] = "card" =>
           /\ Line(script[i], before, k).out = before.out /\ Line(script[i], before, k).open
           /\ Line(script[i], before, k).body = Append(before.body, k)
      /\ script[i][k] # "card" =>
           /\ Line(script[i], before, k).out = before.out \o Answer(before.body)
           /\ Line(script[i], before, k).body = <<>>
           /\ Line(script[i], before, k).open = (script[i][k] # "EN")
    BY <1>1, <1>3, LineTyped
<1>6. QED
    BY <1>3, <1>4, <1>5

-----------------------------------------------------------------------------
(* The wire.                                                               *)

\* The parse of a wire, from after its first n tokens, is one of v.
Remains(v, lines, rest, n) ==
    \E l, r \in [0..Len(v) -> Nat] :
        Parses(v, l, r) /\ \A j \in 0..Len(v) : l[j] = lines[j + n] /\ r[j] = rest[j + n]

\* What is left of a wire is parsed as it was.
LEMMA WireDrops ==
    ASSUME NEW x \in Seq(Int), NEW v \in Seq(Int), NEW w \in Seq(Int), w = Cat(x, v),
           NEW lines \in [0..Len(w) -> Nat], NEW rest \in [0..Len(w) -> Nat], Parses(w, lines, rest)
    PROVE  Remains(v, lines, rest, Len(x)) /\ Len(w) = Len(x) + Len(v)
<1>1. PICK n \in Nat, m \in Nat : n = Len(x) /\ m = Len(v)
    OBVIOUS
<1>2. Len(w) = n + m /\ \A j \in 1..m : v[j] = w[j + n]
    <2>1. /\ Len(x \o v) = Len(x) + Len(v)
          /\ \A j \in 1..(Len(x) + Len(v)) : (x \o v)[j] = IF j <= Len(x) THEN x[j] ELSE v[j - Len(x)]
        BY ConcatProperties
    <2>2. Len(w) = n + m /\ \A j \in 1..(n + m) : w[j] = IF j <= n THEN x[j] ELSE v[j - n]
        BY <1>1, <2>1 DEF Cat
    <2>3. \A j \in 1..m : j + n \in 1..(n + m) /\ ~(j + n <= n) /\ (j + n) - n = j
        OBVIOUS
    <2>4. QED
        BY <2>2, <2>3
<1> DEFINE l == [j \in 0..m |-> lines[j + n]]
           r == [j \in 0..m |-> rest[j + n]]
<1>3. PICK L \in Nat : L = Len(w) /\ L = n + m
    BY <1>2
<1>4. \A j \in 0..m : j + n \in 0..L /\ l[j] = lines[j + n] /\ r[j] = rest[j + n]
    BY <1>3
<1>5. l \in [0..m -> Nat] /\ r \in [0..m -> Nat]
    BY <1>3, <1>4
<1> HIDE DEF l, r
<1>6. Parses(v, l, r)
    <2>1. SUFFICES ASSUME NEW j \in 1..m
                   PROVE  \/ /\ r[j - 1] > 0 /\ v[j] = l[j - 1] + 1
                             /\ l[j] = l[j - 1] + 1 /\ r[j] = r[j - 1] - 1
                          \/ /\ r[j - 1] = 0 /\ r[j] <= Chunk /\ v[j] = Header(r[j])
                             /\ l[j] = l[j - 1]
        BY <1>1 DEF Parses
    <2>2. /\ j + n \in 1..L /\ j - 1 \in 0..m /\ j \in 0..m /\ (j - 1) + n = (j + n) - 1
          /\ v[j] = w[j + n]
        BY <1>2, <1>3
    <2>3. /\ l[j] = lines[j + n] /\ r[j] = rest[j + n]
          /\ l[j - 1] = lines[(j + n) - 1] /\ r[j - 1] = rest[(j + n) - 1]
        BY <1>4, <2>2
    <2>4. QED
        BY <1>3, <2>2, <2>3 DEF Parses
<1> DEFINE Told(p, z) == \E a, b \in [0..z -> Nat] :
        Parses(v, a, b) /\ \A j \in 0..z : a[j] = lines[j + p] /\ b[j] = rest[j + p]
<1>7. Told(n, m)
    <2>1. \A j \in 0..m : l[j] = lines[j + n] /\ r[j] = rest[j + n]
        BY <1>4
    <2>2. QED
        BY <1>5, <1>6, <2>1, Zenon
<1> HIDE DEF Told
<1>8. Told(Len(x), Len(v))
    BY <1>1, <1>7
<1>9. QED
    BY <1>1, <1>2, <1>8 DEF Told, Remains

\* The reader takes lines for as long as its frame needs them.
LEMMA FrameBody ==
    ASSUME NEW w \in Seq(Int), NEW lines \in [0..Len(w) -> Nat], NEW rest \in [0..Len(w) -> Nat],
           Parses(w, lines, rest), NEW n \in 0..Len(w), n <= rest[0]
    PROVE  /\ lines[n] = lines[0] + n /\ rest[n] = rest[0] - n
           /\ \A j \in 1..n : w[j] = lines[0] + j
<1> DEFINE Had(m) == /\ lines[m] = lines[0] + m /\ rest[m] = rest[0] - m
                     /\ \A j \in 1..m : w[j] = lines[0] + j
           T == {m \in Nat : m <= n => Had(m)}
<1>1. PICK L \in Nat : L = Len(w)
    OBVIOUS
<1>2. /\ lines[0] \in Nat /\ rest[0] \in Nat /\ n \in 0..L
      /\ lines \in [0..L -> Nat] /\ rest \in [0..L -> Nat]
    BY <1>1
<1>3. 0 \in T
    BY <1>2
<1>4. ASSUME NEW m \in T PROVE m + 1 \in T
    <2>1. m \in Nat /\ m + 1 \in Nat
        OBVIOUS
    <2>2. SUFFICES ASSUME m + 1 <= n PROVE Had(m + 1)
        BY <2>1, Zenon
    <2>3. m <= n /\ m + 1 \in 1..L /\ (m + 1) - 1 = m
        BY <1>2, <2>1, <2>2
    <2>4. Had(m)
        BY <2>3
    <2>5. rest[m] > 0
        BY <1>2, <2>1, <2>2, <2>4
    <2>6. \/ /\ rest[(m + 1) - 1] > 0 /\ w[m + 1] = lines[(m + 1) - 1] + 1
             /\ lines[m + 1] = lines[(m + 1) - 1] + 1 /\ rest[m + 1] = rest[(m + 1) - 1] - 1
          \/ rest[(m + 1) - 1] = 0
        BY <1>1, <2>3 DEF Parses
    <2>7. w[m + 1] = lines[m] + 1 /\ lines[m + 1] = lines[m] + 1 /\ rest[m + 1] = rest[m] - 1
        BY <2>3, <2>5, <2>6
    <2>8. lines[m + 1] = lines[0] + (m + 1) /\ rest[m + 1] = rest[0] - (m + 1)
        <3>1. PICK a \in Nat, b \in Nat : a = lines[0] /\ b = rest[0]
            BY <1>2
        <3>2. lines[m] = a + m /\ rest[m] = b - m
            BY <2>4, <3>1
        <3>3. (a + m) + 1 = a + (m + 1) /\ (b - m) - 1 = b - (m + 1)
            BY <2>1
        <3>4. QED
            BY <2>7, <3>1, <3>2, <3>3
    <2>9. ASSUME NEW j \in 1..(m + 1) PROVE w[j] = lines[0] + j
        <3>1. j = m + 1 \/ j \in 1..m
            BY <2>1
        <3>2. w[m + 1] = lines[0] + (m + 1)
            BY <2>7, <2>8
        <3>3. QED
            BY <2>4, <3>1, <3>2
    <2>10. QED
        BY <2>8, <2>9
<1>5. T = Nat
    <2>1. T \subseteq Nat
        OBVIOUS
    <2> HIDE DEF T
    <2>2. QED
        BY <1>3, <1>4, <2>1, SetInduction
<1>6. n \in Nat /\ n <= n
    BY <1>2
<1>7. QED
    BY <1>5, <1>6

\* v is w followed by the token c and the lines x.
Follows(v, w, c, x) ==
    /\ Len(v) = Len(w) + 1 + Len(x)
    /\ \A j \in 1..Len(w) : v[j] = w[j]
    /\ v[Len(w) + 1] = c
    /\ \A j \in 1..Len(x) : v[Len(w) + 1 + j] = x[j]

\* The parse of w, and then of a frame of n lines in v.
Goes(v, w, lines, rest, n) ==
    \E l, r \in [0..Len(v) -> Nat] :
        /\ Parses(v, l, r)
        /\ \A j \in 0..Len(w) : l[j] = lines[j] /\ r[j] = rest[j]
        /\ \A j \in 0..n : l[Len(w) + 1 + j] = lines[Len(w)] + j /\ r[Len(w) + 1 + j] = n - j

\* A frame of n lines at the end of a wire between frames; with n = 0, the
\* empty frame.
LEMMA WireGrows ==
    ASSUME NEW w \in Seq(Int), NEW lines \in [0..Len(w) -> Nat], NEW rest \in [0..Len(w) -> Nat],
           Parses(w, lines, rest), rest[Len(w)] = 0,
           NEW piece \in Seq(Int), Len(piece) <= Chunk,
           \A j \in 1..Len(piece) : piece[j] = lines[Len(w)] + j,
           NEW v \in Seq(Int), Follows(v, w, Header(Len(piece)), piece)
    PROVE  Goes(v, w, lines, rest, Len(piece))
<1>1. PICK L \in Nat, n \in Nat : L = Len(w) /\ n = Len(piece)
    OBVIOUS
<1>2. /\ lines \in [0..L -> Nat] /\ rest \in [0..L -> Nat] /\ rest[L] = 0 /\ n <= Chunk
      /\ \A j \in 1..n : piece[j] = lines[L] + j
      /\ \A j \in 1..L : v[j] = w[j]
      /\ v[L + 1] = Header(n) /\ \A j \in 1..n : v[L + 1 + j] = piece[j]
      /\ Len(v) = L + 1 + n
    BY <1>1 DEF Follows
<1>3. PICK M \in Nat : M = L + 1 + n
    OBVIOUS
<1> DEFINE l == [j \in 0..M |-> IF j <= L THEN lines[j] ELSE lines[L] + (j - L - 1)]
           r == [j \in 0..M |-> IF j <= L THEN rest[j] ELSE n - (j - L - 1)]
<1>4. lines[L] \in Nat
    BY <1>2
<1>5. /\ l \in [0..M -> Nat] /\ r \in [0..M -> Nat]
    <2>1. ASSUME NEW j \in 0..M, ~(j <= L) PROVE j - L - 1 \in Nat /\ n - (j - L - 1) \in Nat
        BY <1>3, <2>1
    <2>2. ASSUME NEW j \in 0..M, j <= L PROVE lines[j] \in Nat /\ rest[j] \in Nat
        BY <1>2, <2>2
    <2>3. ASSUME NEW j \in 0..M
          PROVE  (IF j <= L THEN lines[j] ELSE lines[L] + (j - L - 1)) \in Nat
        <3>1. CASE j <= L
            BY <2>2, <3>1
        <3>2. CASE ~(j <= L)
            <4>1. PICK d \in Nat : d = j - L - 1
                BY <2>1, <3>2
            <4>2. lines[L] + d \in Nat
                BY <1>4
            <4>3. QED
                BY <3>2, <4>1, <4>2
        <3>3. QED
            BY <3>1, <3>2
    <2>4. \A j \in 0..M : (IF j <= L THEN rest[j] ELSE n - (j - L - 1)) \in Nat
        BY <2>1, <2>2
    <2>5. QED
        BY <2>3, <2>4
<1>6. \A j \in 0..L : l[j] = lines[j] /\ r[j] = rest[j]
    BY <1>3
<1>7. \A j \in 0..n : L + 1 + j \in 0..M /\ l[L + 1 + j] = lines[L] + j /\ r[L + 1 + j] = n - j
    <2>1. \A j \in 0..n : L + 1 + j \in 0..M /\ ~(L + 1 + j <= L) /\ (L + 1 + j) - L - 1 = j
        BY <1>3
    <2>2. QED
        BY <2>1
<1> HIDE DEF l, r
<1>8. Parses(v, l, r)
    <2>1. SUFFICES ASSUME NEW j \in 1..M
                   PROVE  \/ /\ r[j - 1] > 0 /\ v[j] = l[j - 1] + 1
                             /\ l[j] = l[j - 1] + 1 /\ r[j] = r[j - 1] - 1
                          \/ /\ r[j - 1] = 0 /\ r[j] <= Chunk /\ v[j] = Header(r[j])
                             /\ l[j] = l[j - 1]
        BY <1>2, <1>3 DEF Parses
    <2>2. CASE j <= L
        <3>1. j \in 1..L /\ j \in 0..L /\ j - 1 \in 0..L
            BY <2>2
        <3>2. l[j] = lines[j] /\ r[j] = rest[j] /\ l[j - 1] = lines[j - 1] /\ r[j - 1] = rest[j - 1]
            BY <1>6, <3>1
        <3>3. v[j] = w[j]
            BY <1>2, <3>1
        <3>4. \/ /\ rest[j - 1] > 0 /\ w[j] = lines[j - 1] + 1
                 /\ lines[j] = lines[j - 1] + 1 /\ rest[j] = rest[j - 1] - 1
              \/ /\ rest[j - 1] = 0 /\ rest[j] <= Chunk /\ w[j] = Header(rest[j])
                 /\ lines[j] = lines[j - 1]
            BY <1>1, <3>1 DEF Parses
        <3>5. QED
            BY <3>2, <3>3, <3>4
    <2>3. CASE j = L + 1
        <3>1. 0 \in 0..n /\ L \in 0..L /\ j - 1 = L /\ j = L + 1 + 0 /\ n - 0 = n /\ lines[L] + 0 = lines[L]
            BY <1>4, <2>3
        <3>2. l[j] = lines[L] /\ r[j] = n
            BY <1>7, <3>1
        <3>3. l[j - 1] = lines[L] /\ r[j - 1] = 0
            BY <1>2, <1>6, <3>1
        <3>4. QED
            BY <1>2, <2>3, <3>2, <3>3
    <2>4. CASE j > L + 1
        <3>1. PICK h \in 1..n : j = L + 1 + h
            <4>1. j - L - 1 \in 1..n /\ j = L + 1 + (j - L - 1)
                BY <1>3, <2>4
            <4>2. QED
                BY <4>1
        <3>2. h \in 0..n /\ h - 1 \in 0..n /\ j - 1 = L + 1 + (h - 1)
            BY <3>1
        <3>3. l[j] = lines[L] + h /\ r[j] = n - h /\ l[j - 1] = lines[L] + (h - 1) /\ r[j - 1] = n - (h - 1)
            BY <1>7, <3>1, <3>2
        <3>4. v[j] = lines[L] + h
            BY <1>2, <3>1
        <3>5. n - (h - 1) > 0 /\ n - h = (n - (h - 1)) - 1 /\ lines[L] + h = (lines[L] + (h - 1)) + 1
            BY <1>4, <3>1
        <3>6. QED
            BY <3>3, <3>4, <3>5
    <2>5. QED
        BY <2>2, <2>3, <2>4
<1>9. \A j \in 0..n : l[L + 1 + j] = lines[L] + j /\ r[L + 1 + j] = n - j
    BY <1>7
<1>10. \E x, y \in [0..M -> Nat] :
           /\ Parses(v, x, y)
           /\ \A j \in 0..L : x[j] = lines[j] /\ y[j] = rest[j]
           /\ \A j \in 0..n : x[L + 1 + j] = lines[L] + j /\ y[L + 1 + j] = n - j
    BY <1>5, <1>6, <1>8, <1>9, Zenon
<1>11. Len(v) = M
    BY <1>2, <1>3
<1> DEFINE Told(y, p, z) == \E a, b \in [0..z -> Nat] :
        /\ Parses(v, a, b)
        /\ \A j \in 0..y : a[j] = lines[j] /\ b[j] = rest[j]
        /\ \A j \in 0..p : a[y + 1 + j] = lines[y] + j /\ b[y + 1 + j] = p - j
<1>12. Told(L, n, M)
    BY <1>10
<1> HIDE DEF Told
<1>13. Told(Len(w), Len(piece), Len(v))
    BY <1>1, <1>11, <1>12
<1>14. QED
    BY <1>13 DEF Told, Goes

\* The part of a wire that is left when the other end is gone.
LEMMA WireEnds ==
    ASSUME NEW w \in Seq(Int), NEW lines \in [0..Len(w) -> Nat], NEW rest \in [0..Len(w) -> Nat],
           Parses(w, lines, rest),
           NEW v \in Seq(Int), Len(v) <= Len(w), \A j \in 1..Len(v) : v[j] = w[j]
    PROVE  \E l, r \in [0..Len(v) -> Nat] : Parses(v, l, r) /\ r[0] = rest[0]
<1>1. PICK L \in Nat, M \in Nat : L = Len(w) /\ M = Len(v)
    OBVIOUS
<1>2. M <= L /\ lines \in [0..L -> Nat] /\ rest \in [0..L -> Nat] /\ \A j \in 1..M : v[j] = w[j]
    BY <1>1
<1> DEFINE l == [j \in 0..M |-> lines[j]]
           r == [j \in 0..M |-> rest[j]]
<1>3. \A j \in 0..M : j \in 0..L /\ l[j] = lines[j] /\ r[j] = rest[j]
    BY <1>2
<1>4. l \in [0..M -> Nat] /\ r \in [0..M -> Nat]
    BY <1>2, <1>3
<1> HIDE DEF l, r
<1>5. Parses(v, l, r)
    <2>1. SUFFICES ASSUME NEW j \in 1..M
                   PROVE  \/ /\ r[j - 1] > 0 /\ v[j] = l[j - 1] + 1
                             /\ l[j] = l[j - 1] + 1 /\ r[j] = r[j - 1] - 1
                          \/ /\ r[j - 1] = 0 /\ r[j] <= Chunk /\ v[j] = Header(r[j])
                             /\ l[j] = l[j - 1]
        BY <1>1 DEF Parses
    <2>2. j \in 1..L /\ j \in 0..M /\ j - 1 \in 0..M
        BY <1>2
    <2>3. l[j] = lines[j] /\ r[j] = rest[j] /\ l[j - 1] = lines[j - 1] /\ r[j - 1] = rest[j - 1]
        BY <1>3, <2>2
    <2>4. QED
        BY <1>1, <1>2, <2>2, <2>3 DEF Parses
<1>6. r[0] = rest[0]
    BY <1>3
<1> DEFINE Told(z) == \E x, y \in [0..z -> Nat] : Parses(v, x, y) /\ y[0] = rest[0]
<1>7. Told(M)
    BY <1>4, <1>5, <1>6
<1> HIDE DEF Told
<1>8. Told(Len(v))
    BY <1>1, <1>7
<1>9. QED
    BY <1>8 DEF Told

-----------------------------------------------------------------------------
(* One session's step leaves the others as they are.                       *)

Same(j) ==
    /\ script' = script /\ sent'[j] = sent[j] /\ hung'[j] = hung[j] /\ got'[j] = got[j]
    /\ stdin'[j] = stdin[j] /\ stdout'[j] = stdout[j] /\ cl'[j] = cl[j]
    /\ up'[j] = up[j] /\ down'[j] = down[j] /\ sv'[j] = sv[j]

\* A session that nothing touches keeps its part of the invariant.
LEMMA SameKeeps ==
    ASSUME NEW j, Same(j), Session(j)
    PROVE  Session(j)'
<1>1. /\ Tokens(j)' = Tokens(j) /\ Parts(j)' = Parts(j) /\ Expected(j)' = Expected(j)
      /\ Printed(j)' = Printed(j) /\ Wire(j)' = Wire(j) /\ NoEN(j)' = NoEN(j)
      /\ Running(j)' = Running(j) /\ Closed(j)' = Closed(j)
    BY DEF Same, Tokens, Parts, Expected, Printed, Wire, NoEN, Running, Closed
<1>2. Emitted(j)' = Emitted(j)
    BY <1>1 DEF Same, Emitted
<1>3. TypedSession(j)'
    BY <1>1 DEF Same, Session, TypedSession
<1>4. EndsLast(j)' /\ Leaves(j)'
    BY <1>1 DEF Same, Session, EndsLast, Leaves
<1>5. \A k, had : InHand(j, k, had)' = InHand(j, k, had)
    BY DEF Same, InHand
<1>6. \A w, lines, rest : Linked(j, w, lines, rest)' = Linked(j, w, lines, rest)
    BY DEF Same, Linked
<1>7. ASSUME NEW k, Reads(j, k) PROVE Reads(j, k)'
    <2>1. PICK w : w = Wire(j) /\ w = Wire(j)'
        BY <1>1
    <2>2. PICK lines, rest \in [0..Len(w) -> Nat] :
              /\ Parses(w, lines, rest) /\ rest[0] = sv[j].need
              /\ Running(j) => Linked(j, w, lines, rest) /\ InHand(j, k, lines[0])
        BY <1>7, <2>1 DEF Reads
    <2>3. /\ Parses(w, lines, rest) /\ rest[0] = sv'[j].need
          /\ Running(j)' => Linked(j, w, lines, rest)' /\ InHand(j, k, lines[0])'
        BY <1>1, <1>5, <1>6, <2>2 DEF Same
    <2>4. QED
        BY <2>1, <2>3 DEF Reads
<1>8. \A k : Engine(j, k) => Engine(j, k)'
    BY <1>1, <1>2 DEF Same, Engine
<1>9. QED
    BY <1>1, <1>3, <1>4, <1>7, <1>8 DEF Same, Session

LEMMA OthersKeep ==
    ASSUME PumpInv, NEW i \in Opened, script' = script, Shape', Session(i)',
           \A j \in Sessions \ {i} : Same(j)
    PROVE  PumpInv'
<1>1. Opened' = Opened /\ i \in Sessions
    BY Scripted DEF PumpInv, Shape, Opened
<1>2. ASSUME NEW j \in Sessions \ Opened PROVE Unopened(j)'
    <2>1. Same(j) /\ Unopened(j)
        BY <1>1 DEF PumpInv
    <2>2. QED
        BY <2>1 DEF Same, Unopened
<1>3. ASSUME NEW j \in Opened PROVE Session(j)'
    <2>1. CASE j = i
        BY <2>1
    <2>2. CASE j # i
        <3>1. j \in Sessions \ {i} /\ Session(j)
            BY <2>2, Scripted DEF PumpInv, Shape
        <3>2. QED
            BY <3>1, SameKeeps
    <2>3. QED
        BY <2>1, <2>2
<1>4. QED
    BY <1>1, <1>2, <1>3 DEF PumpInv

\* What the reader and the engine have does not depend on where the stream is
\* buffered.
LEMMA StreamKept ==
    ASSUME NEW j, NEW k, Reads(j, k), script' = script, Wire(j)' = Wire(j),
           sent'[j] = sent[j], stdin'[j] = stdin[j], hung'[j] = hung[j],
           cl'[j].stdinOpen = cl[j].stdinOpen, sv'[j].need = sv[j].need, sv'[j].rx = sv[j].rx,
           sv'[j].frag = sv[j].frag, sv'[j].done = sv[j].done, Running(j)' => Running(j)
    PROVE  Reads(j, k)'
<1>1. \A had : InHand(j, k, had)' = InHand(j, k, had)
    BY DEF InHand
<1>2. \A w, lines, rest : Linked(j, w, lines, rest)' = Linked(j, w, lines, rest)
    BY DEF Linked
<1>3. PICK w : w = Wire(j) /\ w = Wire(j)'
    OBVIOUS
<1>4. PICK lines, rest \in [0..Len(w) -> Nat] :
          /\ Parses(w, lines, rest) /\ rest[0] = sv[j].need
          /\ Running(j) => Linked(j, w, lines, rest) /\ InHand(j, k, lines[0])
    BY <1>3 DEF Reads
<1>5. /\ Parses(w, lines, rest) /\ rest[0] = sv'[j].need
      /\ Running(j)' => Linked(j, w, lines, rest)' /\ InHand(j, k, lines[0])'
    BY <1>1, <1>2, <1>4
<1>6. QED
    BY <1>3, <1>5 DEF Reads

\* The thread stands as it did while it has the same and has written the same.
LEMMA ThreadKept ==
    ASSUME NEW j, NEW k, Engine(j, k), script' = script, Emitted(j)' = Emitted(j),
           sv'[j].pc = sv[j].pc, sv'[j].body = sv[j].body, sv'[j].out = sv[j].out,
           sv'[j].last = sv[j].last
    PROVE  Engine(j, k)'
<1>1. Expected(j)' = Expected(j)
    BY DEF Expected
<1>2. QED
    BY <1>1 DEF Engine

\* What the server has written begins the printout of the script, and so does
\* what has reached the client.
LEMMA Begins ==
    ASSUME script \in Scripts, NEW i \in Opened, TypedSession(i),
           NEW k \in 0..Len(script[i]), Engine(i, k)
    PROVE  /\ \E u \in Seq(Parts(i)) : Expected(i) = Emitted(i) \o u
           /\ \E u \in Seq(Parts(i)) : Expected(i) = Printed(i) \o u
<1> DEFINE S == Seq(Parts(i))
           stock == Stock(script[i])
<1>0. /\ \A a, b, c \in S : Cat(Cat(a, b), c) = Cat(a, Cat(b, c))
      /\ \A a, b \in S : Cat(a, b) \in S
      /\ \A a \in S : a = Cat(a, <<>>) /\ <<>> \in S
    BY Joins
<1>1. Len(script[i]) \in Nat
    BY Scripted
<1>2. PICK g \in S, o \in S, d \in S, n \in S, t \in S :
          g = got[i] /\ o = stdout[i] /\ d = cl[i].data /\ n = down[i] /\ t = sv[i].out
    BY DEF TypedSession
<1>3. PICK p \in S : p = Printed(i)
    <2>1. Cat(Cat(g, o), d) \in S
        BY <1>0
    <2>2. QED
        BY <1>2, <2>1 DEF Printed, Cat
<1>4. PICK e \in S : e = Emitted(i)
    <2>1. Cat(p, n) \in S
        BY <1>0
    <2>2. QED
        BY <1>2, <1>3, <2>1 DEF Emitted, Cat
<1>5. \A h \in 0..Len(script[i]) : \E u \in S : Expected(i) = Cat(stock[h].out, u)
    BY Expects DEF Cat
<1>6. \E u \in S : Expected(i) = Cat(e, u)
    <2>1. CASE e = stock[k].out
        BY <1>5, <2>1
    <2>2. CASE k >= 1 /\ e = stock[k - 1].out
        <3>1. k - 1 \in 0..Len(script[i])
            BY <1>1, <2>2
        <3>2. QED
            BY <1>5, <2>2, <3>1
    <2>3. CASE Cat(e, t) = stock[k].out
        <3>1. PICK u \in S : Expected(i) = Cat(Cat(e, t), u)
            BY <1>5, <2>3
        <3>2. Cat(Cat(e, t), u) = Cat(e, Cat(t, u)) /\ Cat(t, u) \in S
            BY <1>0
        <3>3. QED
            BY <3>1, <3>2
    <2>4. CASE Cat(e, t) = Expected(i)
        BY <2>4
    <2>5. CASE e = Expected(i)
        <3>1. e = Cat(e, <<>>) /\ <<>> \in S
            BY <1>0
        <3>2. QED
            BY <2>5, <3>1
    <2>6. sv[i].pc \in {"reading", "waiting", "solving", "writing", "closed"}
        BY DEF TypedSession
    <2>7. \/ e = stock[k].out \/ (k >= 1 /\ e = stock[k - 1].out)
          \/ Cat(e, t) = stock[k].out \/ Cat(e, t) = Expected(i) \/ e = Expected(i)
        BY <1>2, <1>4, <2>6 DEF Engine, Cat
    <2>8. QED
        BY <2>1, <2>2, <2>3, <2>4, <2>5, <2>7
<1>7. PICK u \in S : Expected(i) = Cat(e, u)
    BY <1>6
<1>8. e = Cat(p, n)
    BY <1>2, <1>3, <1>4 DEF Emitted, Cat
<1>9. Cat(Cat(p, n), u) = Cat(p, Cat(n, u)) /\ Cat(n, u) \in S
    BY <1>0
<1>10. (\E v \in S : Expected(i) = Cat(e, v)) /\ (\E v \in S : Expected(i) = Cat(p, v))
    BY <1>7, <1>8, <1>9
<1>11. QED
    BY <1>3, <1>4, <1>10 DEF Cat

-----------------------------------------------------------------------------
(* Each action keeps the invariant.  The host.                             *)

\* Only an opened session acts.
LEMMA Acts ==
    ASSUME PumpInv, NEW i \in Sessions, Running(i) \/ ~Closed(i) \/ stdout[i] # <<>>
    PROVE  i \in Opened /\ Session(i) /\ script \in Scripts
BY DEF PumpInv, Unopened, Running, Closed, Shape

\* What depends on the script alone.
LEMMA SameScript ==
    ASSUME script' = script, NEW i
    PROVE  /\ Tokens(i)' = Tokens(i) /\ Parts(i)' = Parts(i) /\ Expected(i)' = Expected(i)
           /\ NoEN(i)' = NoEN(i) /\ Opened' = Opened
BY DEF Tokens, Parts, Expected, NoEN, Opened

\* The host's next line joins the pipe, after all the others.
LEMMA HostWritesKeeps ==
    ASSUME PumpInv, NEW i \in Sessions, HostWrites(i)
    PROVE  PumpInv'
<1> DEFINE L == Len(script[i])
<1>1. i \in Opened /\ Session(i) /\ script \in Scripts /\ Running(i)
    BY Acts DEF HostWrites
<1>2. TypedSession(i) /\ L \in Nat
    BY <1>1, Scripted DEF Session
<1>3. /\ script' = script /\ cl' = cl /\ sv' = sv /\ up' = up /\ down' = down /\ stdout' = stdout
      /\ got' = got /\ hung' = hung /\ lock' = lock
      /\ sent[i] < L /\ Len(stdin[i]) < PipeCap
    BY DEF HostWrites
<1>4. /\ sent'[i] = sent[i] + 1 /\ stdin'[i] = Append(stdin[i], sent[i] + 1)
      /\ \A j \in Sessions \ {i} : sent'[j] = sent[j] /\ stdin'[j] = stdin[j]
      /\ sent' \in [Sessions -> Int] /\ stdin' \in [Sessions -> Seq(Int)]
    <2>1. /\ sent' = [sent EXCEPT ![i] = sent[i] + 1]
          /\ stdin' = [stdin EXCEPT ![i] = Append(stdin[i], sent[i] + 1)]
        BY DEF HostWrites
    <2>2. sent \in [Sessions -> Int] /\ stdin \in [Sessions -> Seq(Int)]
        BY DEF PumpInv, Shape
    <2>3. sent[i] + 1 \in Int /\ sent' \in [Sessions -> Int]
        BY <2>1, <2>2
    <2>4. stdin[i] \in Seq(Int)
        BY <2>2, Zenon
    <2>5. \A q \in Seq(Int), e \in Int : Append(q, e) \in Seq(Int)
        BY AppendProperties, Zenon
    <2>6. PICK q \in Seq(Int) : q = Append(stdin[i], sent[i] + 1)
        BY <2>3, <2>4, <2>5, Zenon
    <2>7. stdin' = [stdin EXCEPT ![i] = q]
        BY <2>1, <2>6
    <2>8. QED
        BY <2>1, <2>2, <2>3, <2>6, <2>7
<1>5. Shape'
    BY <1>3, <1>4 DEF PumpInv, Shape
<1>6. \A j \in Sessions \ {i} : Same(j)
    BY <1>3, <1>4 DEF Same
<1>7. /\ Tokens(i)' = Tokens(i) /\ Parts(i)' = Parts(i) /\ Expected(i)' = Expected(i)
      /\ NoEN(i)' = NoEN(i) /\ Running(i)' = Running(i) /\ Closed(i)' = Closed(i)
      /\ Printed(i)' = Printed(i)
    BY <1>3, SameScript DEF Running, Closed, Printed
<1>8. Wire(i)' = Wire(i) /\ Emitted(i)' = Emitted(i)
    BY <1>3, <1>7 DEF Wire, Emitted
<1>9. PICK p \in Seq(1..L) : p = stdin[i]
    BY <1>2 DEF TypedSession
<1>10. sent[i] \in Nat /\ sent[i] + 1 \in 1..L /\ sent[i] + 1 \in 0..L
    <2>1. sent[i] \in 0..L
        BY <1>2, Zenon DEF TypedSession
    <2>2. QED
        BY <1>2, <1>3, <2>1
<1>11. /\ Append(p, sent[i] + 1) \in Seq(1..L) /\ Len(Append(p, sent[i] + 1)) = Len(p) + 1
       /\ \A j \in 1..Len(p) : Append(p, sent[i] + 1)[j] = p[j]
       /\ Append(p, sent[i] + 1)[Len(p) + 1] = sent[i] + 1
    BY <1>10
<1>12. Len(p) + 1 <= PipeCap
    <2>1. Len(p) \in Nat /\ PipeCap \in Nat
        BY PumpAssumption
    <2>2. QED
        BY <1>3, <1>9, <2>1
<1>13. TypedSession(i)'
    BY <1>2, <1>3, <1>4, <1>7, <1>9, <1>10, <1>11, <1>12 DEF TypedSession
<1>14. EndsLast(i)' /\ Leaves(i)' /\ (cl'[i].pc = "select" => cl'[i].data = <<>>)
    BY <1>1, <1>3, <1>7 DEF Session, EndsLast, Leaves
<1>15. PICK k \in 0..L : Reads(i, k) /\ (Running(i) => Engine(i, k))
    BY <1>1 DEF Session
<1>16. Engine(i, k)'
    BY <1>1, <1>3, <1>8, <1>15, ThreadKept
<1>17. Reads(i, k)'
    <2>1. PICK w : w = Wire(i) /\ w = Wire(i)'
        BY <1>8
    <2>2. PICK lines, rest \in [0..Len(w) -> Nat] :
              /\ Parses(w, lines, rest) /\ rest[0] = sv[i].need
              /\ Linked(i, w, lines, rest) /\ InHand(i, k, lines[0])
        BY <1>1, <1>15, <2>1 DEF Reads
    <2>3. InHand(i, k, lines[0])'
        BY <1>3, <2>2 DEF InHand
    <2>4. Linked(i, w, lines, rest)'
        <3>1. /\ cl[i].stdinOpen /\ ~sv[i].done /\ ~hung[i]
              /\ sent[i] = lines[Len(w)] + Len(p) /\ rest[Len(w)] = 0
              /\ \A j \in 1..Len(p) : p[j] = lines[Len(w)] + j
              /\ \A j \in 1..Len(w) : rest[j - 1] = 0 /\ rest[j] = 0 => FALSE
            <4>1. sent[i] # L
                BY <1>1, <1>10
            <4>2. /\ ~cl[i].stdinOpen => sent[i] = L
                  /\ sv[i].done => ~cl[i].stdinOpen
                  /\ hung[i] => sent[i] = L
                  /\ \A j \in 1..Len(w) : rest[j - 1] = 0 /\ rest[j] = 0 => ~cl[i].stdinOpen
                BY <2>2 DEF Linked
            <4>3. /\ sent[i] = lines[Len(w)] + Len(stdin[i]) /\ rest[Len(w)] = 0
                  /\ \A j \in 1..Len(stdin[i]) : stdin[i][j] = lines[Len(w)] + j
                BY <2>2 DEF Linked
            <4>4. stdin[i] = p
                BY <1>9
            <4>5. QED
                BY <4>1, <4>2, <4>3, <4>4
        <3>2. PICK m \in Nat, had \in Nat : m = Len(p) /\ had = lines[Len(w)]
            <4>1. Len(p) \in Nat /\ Len(w) \in 0..Len(w)
                OBVIOUS
            <4>2. lines[Len(w)] \in Nat
                BY <4>1
            <4>3. QED
                BY <4>1, <4>2, Zenon
        <3>3. PICK q : q = Append(p, sent[i] + 1)
            OBVIOUS
        <3>4. /\ q[m + 1] = had + (m + 1) /\ \A j \in 1..m : q[j] = had + j
              /\ sent[i] + 1 = had + (m + 1) /\ Len(q) = m + 1
            BY <1>11, <3>1, <3>2, <3>3
        <3>5. \A j \in 1..(m + 1) : q[j] = had + j
            <4>1. \A j \in 1..(m + 1) : j = m + 1 \/ j \in 1..m
                OBVIOUS
            <4>2. QED
                BY <3>4, <4>1
        <3>6. sent'[i] = had + Len(stdin'[i]) /\ \A j \in 1..Len(stdin'[i]) : stdin'[i][j] = had + j
            BY <1>4, <1>9, <3>3, <3>4, <3>5
        <3>7. QED
            BY <1>3, <3>1, <3>2, <3>6 DEF Linked
    <2>5. QED
        BY <1>3, <2>1, <2>2, <2>3, <2>4 DEF Reads
<1>18. Session(i)'
    BY <1>3, <1>13, <1>14, <1>15, <1>16, <1>17 DEF Session
<1>19. QED
    BY <1>1, <1>3, <1>5, <1>6, <1>18, OthersKeep

\* The host closes stdin, its whole script written.
LEMMA HostHangsUpKeeps ==
    ASSUME PumpInv, NEW i \in Sessions, HostHangsUp(i)
    PROVE  PumpInv'
<1> DEFINE L == Len(script[i])
<1>1. i \in Opened /\ Session(i) /\ script \in Scripts /\ Running(i) /\ sent[i] = L
    BY Acts DEF HostHangsUp
<1>2. /\ script' = script /\ cl' = cl /\ sv' = sv /\ up' = up /\ down' = down /\ stdout' = stdout
      /\ got' = got /\ stdin' = stdin /\ sent' = sent /\ lock' = lock
    BY DEF HostHangsUp
<1>3. /\ hung'[i] = TRUE /\ hung' \in [Sessions -> BOOLEAN]
      /\ \A j \in Sessions \ {i} : hung'[j] = hung[j]
    BY DEF HostHangsUp, PumpInv, Shape
<1>4. Shape'
    BY <1>2, <1>3 DEF PumpInv, Shape
<1>5. \A j \in Sessions \ {i} : Same(j)
    BY <1>2, <1>3 DEF Same
<1>6. /\ Tokens(i)' = Tokens(i) /\ Parts(i)' = Parts(i) /\ Expected(i)' = Expected(i)
      /\ NoEN(i)' = NoEN(i) /\ Running(i)' = Running(i) /\ Closed(i)' = Closed(i)
      /\ Printed(i)' = Printed(i)
    BY <1>2, SameScript DEF Running, Closed, Printed
<1>7. Wire(i)' = Wire(i) /\ Emitted(i)' = Emitted(i)
    BY <1>2, <1>6 DEF Wire, Emitted
<1>8. TypedSession(i)'
    BY <1>1, <1>2, <1>3, <1>6 DEF Session, TypedSession
<1>9. EndsLast(i)' /\ Leaves(i)' /\ (cl'[i].pc = "select" => cl'[i].data = <<>>)
    BY <1>1, <1>2, <1>6 DEF Session, EndsLast, Leaves
<1>10. PICK k \in 0..L : Reads(i, k) /\ (Running(i) => Engine(i, k))
    BY <1>1 DEF Session
<1>11. Engine(i, k)'
    BY <1>1, <1>2, <1>7, <1>10, ThreadKept
<1>12. Reads(i, k)'
    <2>1. PICK w : w = Wire(i) /\ w = Wire(i)'
        BY <1>7
    <2>2. PICK lines, rest \in [0..Len(w) -> Nat] :
              /\ Parses(w, lines, rest) /\ rest[0] = sv[i].need
              /\ Linked(i, w, lines, rest) /\ InHand(i, k, lines[0])
        BY <1>1, <1>10, <2>1 DEF Reads
    <2>3. InHand(i, k, lines[0])'
        BY <1>2, <2>2 DEF InHand
    <2>4. Linked(i, w, lines, rest)'
        BY <1>1, <1>2, <2>2 DEF Linked
    <2>5. QED
        BY <1>2, <2>1, <2>2, <2>3, <2>4 DEF Reads
<1>13. Session(i)'
    BY <1>2, <1>8, <1>9, <1>10, <1>11, <1>12 DEF Session
<1>14. QED
    BY <1>1, <1>2, <1>4, <1>5, <1>13, OthersKeep

\* What the host reads stays where it is in the printout.
LEMMA HostReadsKeeps ==
    ASSUME PumpInv, NEW i \in Sessions, HostReads(i)
    PROVE  PumpInv'
<1> DEFINE L == Len(script[i])
           S == Seq(Parts(i))
<1>1. i \in Opened /\ Session(i) /\ script \in Scripts
    BY Acts DEF HostReads
<1>2. /\ script' = script /\ cl' = cl /\ sv' = sv /\ up' = up /\ down' = down /\ hung' = hung
      /\ stdin' = stdin /\ sent' = sent /\ lock' = lock
    BY DEF HostReads
<1>3. /\ got'[i] = Cat(got[i], stdout[i]) /\ stdout'[i] = <<>>
      /\ \A j \in Sessions \ {i} : got'[j] = got[j] /\ stdout'[j] = stdout[j]
    BY DEF HostReads, PumpInv, Shape, Cat
<1>4. Shape'
    <2>1. Cat(got[i], stdout[i]) \in Seq(AnyParts) /\ <<>> \in Seq(AnyParts)
        BY Joins DEF PumpInv, Shape
    <2>2. got' \in [Sessions -> Seq(AnyParts)] /\ stdout' \in [Sessions -> Seq(AnyParts)]
        BY <2>1 DEF HostReads, PumpInv, Shape, Cat
    <2>3. QED
        BY <1>2, <2>2 DEF PumpInv, Shape
<1>5. \A j \in Sessions \ {i} : Same(j)
    BY <1>2, <1>3 DEF Same
<1>6. PICK g \in S, o \in S, d \in S :
          g = got[i] /\ o = stdout[i] /\ d = cl[i].data
    BY <1>1 DEF Session, TypedSession
<1>7. /\ Cat(g, o) \in S /\ <<>> \in S /\ Cat(Cat(g, o), <<>>) = Cat(g, o)
    BY Joins
<1>8. /\ Tokens(i)' = Tokens(i) /\ Parts(i)' = Parts(i) /\ Expected(i)' = Expected(i)
      /\ NoEN(i)' = NoEN(i) /\ Running(i)' = Running(i) /\ Closed(i)' = Closed(i)
    BY <1>2, SameScript DEF Running, Closed
<1>9. Printed(i)' = Printed(i)
    BY <1>2, <1>3, <1>6, <1>7 DEF Printed, Cat
<1>10. Wire(i)' = Wire(i) /\ Emitted(i)' = Emitted(i)
    BY <1>2, <1>9 DEF Wire, Emitted
<1>11. Len(<<>>) <= PipeCap
    BY PumpAssumption
<1>12. TypedSession(i)'
    BY <1>1, <1>2, <1>3, <1>6, <1>7, <1>8, <1>11 DEF Session, TypedSession
<1>13. EndsLast(i)' /\ Leaves(i)' /\ (cl'[i].pc = "select" => cl'[i].data = <<>>)
    BY <1>1, <1>2, <1>8, <1>9 DEF Session, EndsLast, Leaves
<1>14. PICK k \in 0..L : Reads(i, k) /\ (Running(i) => Engine(i, k))
    BY <1>1 DEF Session
<1>15. Reads(i, k)' /\ (Running(i)' => Engine(i, k)')
    <2>1. Reads(i, k)'
        BY <1>2, <1>8, <1>10, <1>14, StreamKept
    <2>2. QED
        BY <1>2, <1>8, <1>10, <1>14, <2>1, ThreadKept
<1>16. Session(i)'
    BY <1>2, <1>12, <1>13, <1>14, <1>15 DEF Session
<1>17. QED
    BY <1>1, <1>2, <1>4, <1>5, <1>16, OthersKeep

-----------------------------------------------------------------------------
(* The client.                                                             *)

\* A wire u \o p to whose end a header and the lines x are added.
LEMMA Framed ==
    ASSUME NEW S, NEW u \in Seq(S), NEW p \in Seq(S), NEW x \in Seq(S), NEW c \in S
    PROVE  /\ Cat(u, Cat(Cat(p, <<c>>), x)) \in Seq(S) /\ Cat(u, p) \in Seq(S)
           /\ Follows(Cat(u, Cat(Cat(p, <<c>>), x)), Cat(u, p), c, x)
           /\ Cat(Cat(p, <<c>>), x) \in Seq(S) /\ Len(Cat(Cat(p, <<c>>), x)) = Len(p) + 1 + Len(x)
<1> DEFINE v == Cat(u, Cat(Cat(p, <<c>>), x))
           w == Cat(u, p)
<1>0. <<c>> \in Seq(S)
    OBVIOUS
<1>1. PICK h \in Seq(S) : h = <<c>>
    BY <1>0
<1>2. /\ \A a, b, d \in Seq(S) : Cat(Cat(a, b), d) = Cat(a, Cat(b, d))
      /\ \A a, b \in Seq(S) : Cat(a, b) \in Seq(S)
    BY Joins
<1>3. PICK t \in Seq(S), y \in Seq(S), z \in Seq(S) : t = Cat(h, x) /\ y = w /\ z = Cat(p, h)
    BY <1>2
<1>4. v = Cat(y, t) /\ Cat(z, x) = Cat(p, t) /\ Cat(y, t) \in Seq(S)
    <2>1. v = Cat(u, Cat(z, x)) /\ y = Cat(u, p)
        BY <1>1, <1>3
    <2>2. Cat(Cat(p, h), x) = Cat(p, Cat(h, x)) /\ Cat(Cat(u, p), t) = Cat(u, Cat(p, t))
        BY <1>2
    <2>3. Cat(z, x) = Cat(p, t)
        BY <1>3, <2>2
    <2>4. QED
        BY <1>2, <2>1, <2>2, <2>3
<1>5. Len(h) = 1 /\ h[1] = c
    BY <1>1
<1>6. PICK n \in Nat, m \in Nat, q \in Nat : n = Len(x) /\ m = Len(y) /\ q = Len(p)
    OBVIOUS
<1>7. Len(t) = 1 + n /\ t[1] = c /\ \A j \in 1..n : t[1 + j] = x[j]
    <2>1. /\ Len(h \o x) = Len(h) + Len(x)
          /\ \A i \in 1..(Len(h) + Len(x)) : (h \o x)[i] = IF i <= Len(h) THEN h[i] ELSE x[i - Len(h)]
        BY ConcatProperties
    <2>2. Len(t) = 1 + n /\ \A i \in 1..(1 + n) : t[i] = IF i <= 1 THEN h[i] ELSE x[i - 1]
        BY <1>3, <1>5, <1>6, <2>1 DEF Cat
    <2>3. \A j \in 1..n : 1 + j \in 1..(1 + n) /\ ~(1 + j <= 1) /\ (1 + j) - 1 = j
        OBVIOUS
    <2>4. 1 \in 1..(1 + n)
        OBVIOUS
    <2>5. t[1] = c
        BY <1>5, <2>2, <2>4
    <2>6. ASSUME NEW j \in 1..n PROVE t[1 + j] = x[j]
        <3>1. 1 + j \in 1..(1 + n) /\ ~(1 + j <= 1) /\ (1 + j) - 1 = j
            BY <2>3
        <3>2. t[1 + j] = x[(1 + j) - 1]
            BY <2>2, <3>1, Zenon
        <3>3. QED
            BY <3>1, <3>2, Zenon
    <2>7. QED
        BY <2>2, <2>5, <2>6
<1>8. /\ Len(v) = m + (1 + n)
      /\ \A i \in 1..(m + (1 + n)) : v[i] = IF i <= m THEN y[i] ELSE t[i - m]
    <2>1. /\ Len(y \o t) = Len(y) + Len(t)
          /\ \A i \in 1..(Len(y) + Len(t)) : (y \o t)[i] = IF i <= Len(y) THEN y[i] ELSE t[i - Len(y)]
        BY ConcatProperties
    <2>2. QED
        BY <1>4, <1>6, <1>7, <2>1 DEF Cat
<1>9. \A j \in 1..m : v[j] = y[j]
    <2>1. \A j \in 1..m : j \in 1..(m + (1 + n)) /\ j <= m
        OBVIOUS
    <2>2. QED
        BY <1>8, <2>1
<1>10. v[m + 1] = c
    <2>1. m + 1 \in 1..(m + (1 + n)) /\ ~(m + 1 <= m) /\ (m + 1) - m = 1
        OBVIOUS
    <2>2. QED
        BY <1>7, <1>8, <2>1
<1>11. \A j \in 1..n : v[m + 1 + j] = x[j]
    <2>1. \A j \in 1..n : m + 1 + j \in 1..(m + (1 + n)) /\ ~(m + 1 + j <= m) /\ (m + 1 + j) - m = 1 + j
        OBVIOUS
    <2>2. QED
        BY <1>7, <1>8, <2>1
<1>12. Cat(z, x) \in Seq(S) /\ Len(Cat(p, t)) = q + (1 + n)
    <2>1. Len(p \o t) = Len(p) + Len(t)
        BY ConcatProperties
    <2>2. QED
        BY <1>2, <1>6, <1>7, <2>1 DEF Cat
<1>13. m + (1 + n) = m + 1 + n /\ q + (1 + n) = q + 1 + n
    OBVIOUS
<1>14. QED
    BY <1>1, <1>3, <1>4, <1>6, <1>8, <1>9, <1>10, <1>11, <1>12, <1>13 DEF Follows

\* A piece of the host's pipe, or its end, goes to the wire as one frame.
LEMMA PieceKeeps ==
    ASSUME PumpInv, NEW i \in Opened, Session(i), script \in Scripts,
           cl[i].pc = "select", cl[i].stdinOpen, Len(cl[i].pending) < HighWater,
           NEW n \in 0..Chunk, n <= Len(stdin[i]), n = 0 => stdin[i] = <<>> /\ hung[i],
           cl'[i].pending = Cat(Cat(cl[i].pending, <<Header(n)>>), Take(stdin[i], n)),
           cl'[i].pc = cl[i].pc, cl'[i].data = cl[i].data, n = 0 => cl'[i].stdinOpen = FALSE,
           n > 0 => cl'[i].stdinOpen = TRUE, stdin'[i] = Drop(stdin[i], n), script' = script, sent' = sent, hung' = hung,
           got' = got, stdout' = stdout, up' = up, down' = down, sv' = sv
    PROVE  Session(i)'
<1> DEFINE L == Len(script[i])
<1>1. TypedSession(i) /\ L \in Nat /\ n \in Nat /\ n <= Chunk /\ Chunk \in Nat /\ HighWater \in Nat
    BY Scripted, PumpAssumption DEF Session
<1>2. PICK s \in Seq(1..L) : s = stdin[i]
    BY <1>1 DEF TypedSession
<1>3. PICK m \in Nat : m = Len(s) /\ n <= m
    BY <1>2
<1>4. PICK x \in Seq(1..L), y \in Seq(1..L) :
          /\ x = Take(s, n) /\ y = Drop(s, n) /\ Len(x) = n /\ Len(y) = m - n
          /\ \A j \in 1..n : x[j] = s[j]
          /\ \A j \in 1..(m - n) : y[j] = s[j + n]
    <2>1. n \in 0..Len(s)
        BY <1>1, <1>3
    <2>2. /\ Take(s, n) \in Seq(1..L) /\ Len(Take(s, n)) = n
          /\ \A j \in 1..n : Take(s, n)[j] = s[j]
          /\ Drop(s, n) \in Seq(1..L) /\ Len(Drop(s, n)) = Len(s) - n
          /\ \A j \in 1..(Len(s) - n) : Drop(s, n)[j] = s[j + n]
        BY <2>1, Cut
    <2>3. QED
        BY <1>3, <2>2
<1>5. /\ Tokens(i)' = Tokens(i) /\ Parts(i)' = Parts(i) /\ Expected(i)' = Expected(i)
      /\ NoEN(i)' = NoEN(i) /\ Running(i) /\ Running(i)' /\ Closed(i)' = Closed(i)
      /\ Printed(i)' = Printed(i)
    BY SameScript DEF Running, Closed, Printed
<1>6. Emitted(i)' = Emitted(i)
    BY <1>5 DEF Emitted
<1>7. PICK u \in Seq(Tokens(i)), p \in Seq(Tokens(i)) : u = up[i] /\ p = cl[i].pending
    BY <1>1 DEF TypedSession
<1>8. x \in Seq(Tokens(i)) /\ Header(n) \in Tokens(i) /\ Tokens(i) \subseteq Int
    <2>1. 1..L \subseteq Tokens(i) /\ Header(n) \in Tokens(i)
        BY DEF Tokens
    <2>2. Tokens(i) \subseteq Int
        BY <1>1 DEF Tokens, Header
    <2>3. x \in Seq(Tokens(i))
        BY <2>1, Wider
    <2>4. QED
        BY <2>1, <2>2, <2>3
<1>9. PICK w : w = Cat(u, p)
    OBVIOUS
<1>10. PICK v : v = Cat(u, Cat(Cat(p, <<Header(n)>>), x))
    OBVIOUS
<1>11. /\ v \in Seq(Tokens(i)) /\ w \in Seq(Tokens(i)) /\ Follows(v, w, Header(n), x)
       /\ Cat(Cat(p, <<Header(n)>>), x) \in Seq(Tokens(i))
       /\ Len(Cat(Cat(p, <<Header(n)>>), x)) = Len(p) + 1 + Len(x)
    BY <1>8, <1>9, <1>10, Framed
<1>12. Wire(i) = w /\ Wire(i)' = v /\ w \in Seq(Int) /\ v \in Seq(Int) /\ x \in Seq(Int)
    <2>1. Wire(i) = w
        BY <1>7, <1>9 DEF Wire, Cat
    <2>2. Wire(i)' = v
        <3>1. up'[i] = u /\ cl'[i].pending = Cat(Cat(p, <<Header(n)>>), x)
            BY <1>2, <1>4, <1>7
        <3>2. QED
            BY <1>10, <3>1 DEF Wire, Cat
    <2>3. w \in Seq(Int) /\ v \in Seq(Int) /\ x \in Seq(Int)
        BY <1>8, <1>11, Wider
    <2>4. QED
        BY <2>1, <2>2, <2>3
<1>13. Len(p) + 1 + n <= HighWater + Chunk /\ m - n <= PipeCap
    <2>1. PICK q \in Nat : q = Len(p)
        OBVIOUS
    <2>2. q < HighWater /\ m <= PipeCap /\ PipeCap \in Nat
        BY <1>1, <1>2, <1>3, <1>7, <2>1, PumpAssumption DEF TypedSession
    <2>3. QED
        BY <1>1, <2>1, <2>2
<1>14. TypedSession(i)'
    <2>1. cl'[i].pending \in Seq(Tokens(i)) /\ Len(cl'[i].pending) <= HighWater + Chunk
        BY <1>2, <1>4, <1>7, <1>11, <1>13
    <2>2. stdin'[i] \in Seq(1..L) /\ Len(stdin'[i]) <= PipeCap
        BY <1>2, <1>4, <1>13
    <2>3. cl'[i].stdinOpen \in BOOLEAN
        <3>1. n = 0 \/ n > 0
            BY <1>1
        <3>2. QED
            BY <3>1
    <2>4. QED
        BY <1>1, <1>5, <2>1, <2>2, <2>3 DEF TypedSession
<1>15. EndsLast(i)' /\ Leaves(i)' /\ (cl'[i].pc = "select" => cl'[i].data = <<>>)
    BY <1>5 DEF Session, EndsLast, Leaves
<1>16. PICK k \in 0..L : Reads(i, k) /\ (Running(i) => Engine(i, k))
    BY DEF Session
<1>17. Engine(i, k)'
    BY <1>5, <1>6, <1>16, ThreadKept
<1>18. PICK lines, rest \in [0..Len(w) -> Nat] :
           /\ Parses(w, lines, rest) /\ rest[0] = sv[i].need
           /\ Linked(i, w, lines, rest) /\ InHand(i, k, lines[0])
    BY <1>5, <1>12, <1>16 DEF Reads
<1>19. PICK W \in Nat, had \in Nat : W = Len(w) /\ had = lines[W]
    <2>1. Len(w) \in Nat /\ Len(w) \in 0..Len(w)
        BY <1>12
    <2>2. lines[Len(w)] \in Nat
        BY <2>1
    <2>3. QED
        BY <2>1, <2>2
<1>20. /\ rest[W] = 0 /\ sent[i] = had + m /\ ~sv[i].done
       /\ \A j \in 1..m : s[j] = had + j
       /\ \A j \in 1..W : ~(rest[j - 1] = 0 /\ rest[j] = 0)
       /\ hung[i] => sent[i] = L
    BY <1>2, <1>3, <1>18, <1>19 DEF Linked
<1>21. PICK l, r \in [0..Len(v) -> Nat] :
           /\ Parses(v, l, r)
           /\ \A j \in 0..W : l[j] = lines[j] /\ r[j] = rest[j]
           /\ \A j \in 0..n : l[W + 1 + j] = had + j /\ r[W + 1 + j] = n - j
    <2>0. rest[Len(w)] = 0 /\ Len(x) <= Chunk /\ Follows(v, w, Header(Len(x)), x)
        BY <1>1, <1>4, <1>11, <1>19, <1>20
    <2>1. \A j \in 1..Len(x) : x[j] = lines[Len(w)] + j
        <3>1. \A j \in 1..n : j \in 1..m /\ x[j] = s[j]
            BY <1>1, <1>3, <1>4
        <3>2. \A j \in 1..n : x[j] = had + j
            BY <1>20, <3>1
        <3>3. QED
            BY <1>4, <1>19, <3>2
    <2>2. Goes(v, w, lines, rest, Len(x))
        BY <1>12, <1>18, <2>0, <2>1, WireGrows
    <2>3. Goes(v, w, lines, rest, n)
        BY <1>4, <2>2
    <2>4. PICK l, r \in [0..Len(v) -> Nat] :
              /\ Parses(v, l, r)
              /\ \A j \in 0..Len(w) : l[j] = lines[j] /\ r[j] = rest[j]
              /\ \A j \in 0..n : l[Len(w) + 1 + j] = lines[Len(w)] + j /\ r[Len(w) + 1 + j] = n - j
        BY <2>3 DEF Goes
    <2>5. \A j \in 0..W : l[j] = lines[j] /\ r[j] = rest[j]
        BY <1>19, <2>4
    <2>6. \A j \in 0..n : l[W + 1 + j] = had + j /\ r[W + 1 + j] = n - j
        BY <1>4, <1>19, <2>4
    <2>7. QED
        BY <2>4, <2>5, <2>6
<1>22. PICK V \in Nat : V = Len(v) /\ V = W + 1 + n
    BY <1>4, <1>11, <1>12, <1>19 DEF Follows
<1>23. l[0] = lines[0] /\ r[0] = rest[0]
    <2>1. 0 \in 0..W
        OBVIOUS
    <2>2. QED
        BY <1>21, <2>1
<1>24. r[V] = 0 /\ l[V] = had + n
    <2>1. n \in 0..n /\ n - n = 0
        BY <1>1
    <2>2. QED
        BY <1>21, <1>22, <2>1
<1>25. sent[i] = l[V] + (m - n) /\ \A j \in 1..(m - n) : y[j] = l[V] + j
    <2>1. sent[i] = l[V] + (m - n)
        BY <1>3, <1>20, <1>24
    <2>2. \A j \in 1..(m - n) : j + n \in 1..m /\ had + (j + n) = (had + n) + j
        BY <1>3
    <2>3. QED
        <3>1. \A j \in 1..(m - n) : y[j] = had + (j + n)
            BY <1>4, <1>20, <2>2
        <3>2. \A j \in 1..(m - n) : y[j] = (had + n) + j
            BY <2>2, <3>1
        <3>3. QED
            BY <1>24, <2>1, <3>2
<1>26. ASSUME NEW j \in 1..V, r[j - 1] = 0, r[j] = 0 PROVE j = V /\ n = 0
    <2>1. CASE j <= W
        <3>1. j \in 1..W /\ j \in 0..W /\ j - 1 \in 0..W
            BY <2>1
        <3>2. r[j] = rest[j] /\ r[j - 1] = rest[j - 1]
            BY <1>21, <3>1
        <3>3. QED
            BY <1>20, <1>26, <3>1, <3>2
    <2>2. CASE j = W + 1
        <3>1. 0 \in 0..n /\ j = W + 1 + 0 /\ n - 0 = n
            BY <2>2
        <3>2. r[j] = n
            BY <1>21, <3>1
        <3>3. QED
            BY <1>22, <1>26, <2>2, <3>2
    <2>3. CASE j > W + 1
        <3>1. PICK h \in 1..n : j = W + 1 + h
            <4>1. j - W - 1 \in 1..n /\ j = W + 1 + (j - W - 1)
                BY <1>22, <2>3
            <4>2. QED
                BY <4>1
        <3>2. h - 1 \in 0..n /\ j - 1 = W + 1 + (h - 1)
            BY <3>1
        <3>3. r[j - 1] = n - (h - 1)
            BY <1>21, <3>2
        <3>4. QED
            BY <1>26, <3>1, <3>3
    <2>4. QED
        BY <2>1, <2>2, <2>3
<1>27. n = 0 => /\ stdin'[i] = <<>> /\ sent[i] = L
                /\ v # <<>> /\ r[V - 1] = 0
    <2>1. SUFFICES ASSUME n = 0 PROVE stdin'[i] = <<>> /\ sent[i] = L /\ v # <<>> /\ r[V - 1] = 0
        OBVIOUS
    <2>2. s = <<>> /\ hung[i] /\ Drop(s, 0) = s
        BY <1>2, <2>1, Empty
    <2>3. V - 1 = W /\ W \in 0..W
        BY <1>22, <2>1
    <2>4. r[V - 1] = 0
        BY <1>20, <1>21, <2>3
    <2>5. v # <<>>
        <3>1. (Len(v) = 0) = (v = <<>>)
            BY <1>12, Empty
        <3>2. Len(v) # 0
            BY <1>22, <2>1
        <3>3. QED
            BY <3>1, <3>2
    <2>6. QED
        BY <1>2, <1>20, <2>1, <2>2, <2>4, <2>5
<1>28. Linked(i, v, l, r)'
    <2>0. (n = 0 => ~cl'[i].stdinOpen) /\ (n # 0 => cl'[i].stdinOpen)
        BY <1>1
    <2>1. sent'[i] = l[Len(v)] + Len(stdin'[i]) /\ r[Len(v)] = 0
        BY <1>2, <1>4, <1>22, <1>24, <1>25
    <2>2. \A j \in 1..Len(stdin'[i]) : stdin'[i][j] = l[Len(v)] + j
        BY <1>2, <1>4, <1>22, <1>25
    <2>3. \A j \in 1..Len(v) : r[j - 1] = 0 /\ r[j] = 0 => j = Len(v) /\ ~cl'[i].stdinOpen
        BY <1>22, <1>26, <2>0
    <2>4. ~cl'[i].stdinOpen =>
              /\ stdin'[i] = <<>> /\ sent'[i] = Len(script'[i])
              /\ v # <<>> /\ r[Len(v) - 1] = 0
        BY <1>22, <1>27, <2>0
    <2>5. ~sv'[i].done /\ (hung'[i] => sent'[i] = Len(script'[i]))
        BY <1>20
    <2>6. QED
        BY <2>1, <2>2, <2>3, <2>4, <2>5 DEF Linked
<1>29. InHand(i, k, l[0])'
    BY <1>18, <1>23 DEF InHand
<1>30. Reads(i, k)'
    BY <1>12, <1>18, <1>21, <1>23, <1>28, <1>29 DEF Reads
<1>31. QED
    BY <1>5, <1>14, <1>15, <1>16, <1>17, <1>30 DEF Session

\* A piece of stdin is one frame; its end is the empty frame.
LEMMA ReadStdinKeeps ==
    ASSUME PumpInv, NEW i \in Sessions, ReadStdin(i)
    PROVE  PumpInv'
<1>1. i \in Opened /\ Session(i) /\ script \in Scripts
    BY Acts DEF ReadStdin, Running
<1>2. /\ script' = script /\ sent' = sent /\ hung' = hung /\ got' = got
      /\ stdout' = stdout /\ up' = up /\ down' = down /\ sv' = sv /\ lock' = lock
      /\ cl[i].pc = "select" /\ cl[i].stdinOpen /\ Len(cl[i].pending) < HighWater
    BY DEF ReadStdin, hostVars
<1>3. PICK p \in Seq(Int), s \in Seq(Int), d \in Seq(AnyParts) :
          p = cl[i].pending /\ s = stdin[i] /\ d = cl[i].data
    BY DEF PumpInv, Shape, Client
<1>4. Chunk \in Nat /\ Chunk >= 1 /\ Len(s) \in Nat
    BY PumpAssumption
<1>5. ASSUME NEW n \in Nat, n <= Chunk, n <= Len(s), NEW open \in BOOLEAN, n = 0 => open = FALSE, n > 0 => open = TRUE,
             n = 0 => s = <<>> /\ hung[i],
             cl' = [cl EXCEPT ![i] = [cl[i] EXCEPT !.pending = Cat(Cat(p, <<Header(n)>>), Take(s, n)),
                                                   !.stdinOpen = open]],
             stdin' = [stdin EXCEPT ![i] = Drop(s, n)]
      PROVE  PumpInv'
    <2>1. /\ Take(s, n) \in Seq(Int) /\ Drop(s, n) \in Seq(Int)
        BY <1>4, <1>5, Cut
    <2>2. Cat(Cat(p, <<Header(n)>>), Take(s, n)) \in Seq(Int)
        <3>1. Header(n) \in Int
            BY DEF Header
        <3>2. <<Header(n)>> \in Seq(Int)
            BY <3>1
        <3>3. \A a, b \in Seq(Int) : Cat(a, b) \in Seq(Int)
            BY Joins
        <3>4. QED
            BY <2>1, <3>2, <3>3
    <2> DEFINE new == [cl[i] EXCEPT !.pending = Cat(Cat(p, <<Header(n)>>), Take(s, n)), !.stdinOpen = open]
    <2>3. /\ new.pending = Cat(Cat(p, <<Header(n)>>), Take(s, n)) /\ new.pc = cl[i].pc
          /\ new.data = cl[i].data /\ new.stdinOpen = open /\ new \in Client
        BY <2>2 DEF PumpInv, Shape, Client
    <2> HIDE DEF new
    <2>4. /\ cl'[i] = new /\ cl' \in [Sessions -> Client]
          /\ \A j \in Sessions \ {i} : cl'[j] = cl[j]
        BY <1>5, <2>3 DEF PumpInv, Shape, new
    <2>5. /\ stdin'[i] = Drop(s, n) /\ stdin' \in [Sessions -> Seq(Int)]
          /\ \A j \in Sessions \ {i} : stdin'[j] = stdin[j]
        BY <1>5, <2>1 DEF PumpInv, Shape
    <2>6. Shape'
        BY <1>2, <2>4, <2>5 DEF PumpInv, Shape
    <2>7. \A j \in Sessions \ {i} : Same(j)
        BY <1>2, <2>4, <2>5 DEF Same
    <2>8. /\ n = 0 => cl'[i].stdinOpen = FALSE
          /\ n > 0 => cl'[i].stdinOpen = TRUE
        BY <1>5, <2>3, <2>4
    <2>9. Session(i)'
        <3>1. n \in 0..Chunk /\ n <= Len(stdin[i]) /\ (n = 0 => stdin[i] = <<>> /\ hung[i])
            BY <1>3, <1>4, <1>5
        <3>2. /\ cl'[i].pending = Cat(Cat(cl[i].pending, <<Header(n)>>), Take(stdin[i], n))
              /\ cl'[i].pc = cl[i].pc /\ cl'[i].data = cl[i].data /\ stdin'[i] = Drop(stdin[i], n)
            BY <1>3, <2>3, <2>4, <2>5
        <3>3. QED
            BY <1>1, <1>2, <2>8, <3>1, <3>2, PieceKeeps
    <2>10. QED
        BY <1>1, <1>2, <2>6, <2>7, <2>9, OthersKeep
<1>6. CASE stdin[i] # <<>> /\ cl' = [cl EXCEPT ![i].pending = @ \o <<Header(Least(Chunk, Len(stdin[i])))>>
                                                      \o Take(stdin[i], Least(Chunk, Len(stdin[i])))]
           /\ stdin' = [stdin EXCEPT ![i] = Drop(@, Least(Chunk, Len(stdin[i])))]
    <2>1. PICK n : n = Least(Chunk, Len(s))
        OBVIOUS
    <2>2. n \in Nat /\ n <= Chunk /\ n <= Len(s) /\ n > 0
        <3>1. Len(s) # 0
            BY <1>3, <1>6, Empty
        <3>2. QED
            BY <1>4, <2>1, <3>1 DEF Least
    <2>3. cl[i] = [cl[i] EXCEPT !.stdinOpen = TRUE]
        BY <1>2 DEF PumpInv, Shape, Client
    <2>4. cl' = [cl EXCEPT ![i] = [cl[i] EXCEPT !.pending = Cat(Cat(p, <<Header(n)>>), Take(s, n)),
                                                !.stdinOpen = TRUE]]
        <3> DEFINE f == Header(n)
                   g == Take(s, n)
                   h == (cl[i].pending \o <<f>>) \o g
        <3>1. cl' = [cl EXCEPT ![i] = [cl[i] EXCEPT !.pending = h]]
            <4> HIDE DEF f, g
            <4>1. cl' = [cl EXCEPT ![i].pending = (@ \o <<f>>) \o g]
                BY <1>3, <1>6, <2>1, Zenon DEF f, g
            <4>2. QED
                BY <4>1 DEF h
        <3>2. cl \in [Sessions -> Client]
            BY DEF PumpInv, Shape
        <3>3. h = Cat(Cat(p, <<f>>), g)
            BY <1>3, Zenon DEF Cat
        <3> HIDE DEF f, g, h
        <3>4. [cl[i] EXCEPT !.pending = h] = [cl[i] EXCEPT !.pending = h, !.stdinOpen = TRUE]
            BY <1>2, <2>3, <3>2 DEF Client
        <3>5. QED
            BY <3>1, <3>3, <3>4, Zenon DEF f, g
    <2>5. stdin' = [stdin EXCEPT ![i] = Drop(s, n)]
        BY <1>3, <1>6, <2>1
    <2>6. n # 0
        BY <2>2
    <2>7. QED
        BY <1>5, <2>2, <2>4, <2>5, <2>6
<1>7. CASE stdin[i] = <<>> /\ hung[i] /\ stdin' = stdin
           /\ cl' = [cl EXCEPT ![i].pending = Append(@, StreamEnd), ![i].stdinOpen = FALSE]
    <2>1. Take(s, 0) = <<>> /\ Drop(s, 0) = s /\ 0 <= Len(s)
        BY Empty
    <2>2. Append(p, StreamEnd) = Cat(Cat(p, <<Header(0)>>), Take(s, 0))
        <3>1. Header(0) \in Int
            BY DEF Header
        <3>2. <<Header(0)>> \in Seq(Int)
            BY <3>1
        <3>3. \A a, b \in Seq(Int) : Cat(a, b) \in Seq(Int)
            BY Joins
        <3>4. \A a \in Seq(Int) : Cat(a, <<>>) = a
            BY Joins
        <3>5. Append(p, Header(0)) = Cat(p, <<Header(0)>>)
            BY <3>1, AppendIsConcat DEF Cat
        <3>6. Append(p, StreamEnd) = Append(p, Header(0))
            BY DEF StreamEnd
        <3>7. Cat(p, <<Header(0)>>) \in Seq(Int)
            BY <3>2, <3>3
        <3>8. Cat(Cat(p, <<Header(0)>>), <<>>) = Cat(p, <<Header(0)>>)
            BY <3>4, <3>7, Zenon
        <3>9. QED
            BY <2>1, <3>5, <3>6, <3>8, Zenon
    <2>3. cl' = [cl EXCEPT ![i] = [cl[i] EXCEPT !.pending = Cat(Cat(p, <<Header(0)>>), Take(s, 0)),
                                                !.stdinOpen = FALSE]]
        BY <1>3, <1>7, <2>2 DEF PumpInv, Shape, Client
    <2>4. stdin' = [stdin EXCEPT ![i] = Drop(s, 0)]
        BY <1>3, <1>7, <2>1 DEF PumpInv, Shape
    <2>5. 0 \in Nat /\ 0 <= Chunk /\ ~(0 > 0) /\ FALSE \in BOOLEAN /\ s = <<>> /\ hung[i]
        BY <1>3, <1>4, <1>7
    <2>6. QED
        BY <1>5, <2>1, <2>3, <2>4, <2>5
<1>8. QED
    BY <1>6, <1>7 DEF ReadStdin

\* pump returns.
LEMMA PumpReturns ==
    ASSUME PumpInv, NEW i \in Opened, Session(i), script \in Scripts, Running(i),
           NoEN(i) => Printed(i) = Expected(i),
           cl' = [cl EXCEPT ![i].pc = "ended"], script' = script, sent' = sent, hung' = hung,
           got' = got, stdin' = stdin, stdout' = stdout, up' = up, down' = down, sv' = sv, lock' = lock
    PROVE  PumpInv'
<1> DEFINE L == Len(script[i])
           new == [cl[i] EXCEPT !.pc = "ended"]
<1>1. TypedSession(i) /\ i \in Sessions
    BY Scripted DEF Session
<1>2. /\ new.pc = "ended" /\ new.pending = cl[i].pending /\ new.stdinOpen = cl[i].stdinOpen
      /\ new.data = cl[i].data /\ new \in Client
    BY <1>1 DEF PumpInv, Shape, Client
<1> HIDE DEF new
<1>3. /\ cl'[i] = new /\ cl' \in [Sessions -> Client]
      /\ \A j \in Sessions \ {i} : cl'[j] = cl[j]
    BY <1>1, <1>2 DEF PumpInv, Shape, new
<1>4. Shape' /\ \A j \in Sessions \ {i} : Same(j)
    BY <1>3 DEF PumpInv, Shape, Same
<1>5. /\ Tokens(i)' = Tokens(i) /\ Parts(i)' = Parts(i) /\ Expected(i)' = Expected(i)
      /\ NoEN(i)' = NoEN(i) /\ ~Running(i)' /\ Printed(i)' = Printed(i) /\ Wire(i)' = Wire(i)
    BY <1>2, <1>3, SameScript DEF Running, Printed, Wire
<1>6. PICK k \in 0..L : Reads(i, k) /\ Engine(i, k)
    BY DEF Session
<1>7. \E u \in Seq(Parts(i)) : Expected(i) = Printed(i) \o u
    BY <1>1, <1>6, Begins
<1>8. TypedSession(i)'
    BY <1>1, <1>2, <1>3, <1>5 DEF TypedSession
<1>9. EndsLast(i)' /\ Leaves(i)' /\ (cl'[i].pc = "select" => cl'[i].data = <<>>)
    BY <1>2, <1>3, <1>5, <1>7 DEF EndsLast, Leaves
<1>10. Reads(i, k)'
    BY <1>2, <1>3, <1>5, <1>6, StreamKept
<1>11. Session(i)'
    BY <1>5, <1>6, <1>8, <1>9, <1>10 DEF Session
<1>12. QED
    BY <1>4, <1>11, OthersKeep

\* A server that has closed the connection of a running client has read the
\* empty frame, unless EN ended the run: nothing waits for the socket.
LEMMA ClosedIsDone ==
    ASSUME NEW i \in Opened, Session(i), script \in Scripts, Running(i), Closed(i)
    PROVE  /\ NoEN(i) => Wire(i) = <<>>
           /\ Emitted(i) = Expected(i)
<1>1. PICK k \in 0..Len(script[i]) : Reads(i, k) /\ Engine(i, k)
    BY DEF Session
<1>2. NoEN(i) => Wire(i) = <<>>
    BY <1>1 DEF Session, EndsLast, Reads, Linked
<1>3. Emitted(i) = Expected(i)
    BY <1>1 DEF Engine, Closed
<1>4. QED
    BY <1>2, <1>3

\* What send takes stays where it is on the wire.
LEMMA SendPendingKeeps ==
    ASSUME PumpInv, NEW i \in Sessions, SendPending(i)
    PROVE  PumpInv'
<1> DEFINE L == Len(script[i])
           T == Tokens(i)
<1>1. i \in Opened /\ Session(i) /\ script \in Scripts /\ Running(i)
    BY Acts DEF SendPending, Running
<1>2. /\ script' = script /\ sent' = sent /\ hung' = hung /\ got' = got /\ stdin' = stdin
      /\ stdout' = stdout /\ down' = down /\ sv' = sv /\ lock' = lock
      /\ cl[i].pc = "select" /\ cl[i].pending # <<>>
    BY DEF SendPending, hostVars
<1>3. TypedSession(i)
    BY <1>1 DEF Session
<1>4. PICK u \in Seq(T), p \in Seq(T) : u = up[i] /\ p = cl[i].pending
    BY <1>3 DEF TypedSession
<1>5. CASE /\ Len(up[i]) < SockCap
           /\ up' = [up EXCEPT ![i] = @ \o Take(cl[i].pending, Least(SockCap - Len(up[i]), Len(cl[i].pending)))]
           /\ cl' = [cl EXCEPT ![i].pending = Drop(@, Least(SockCap - Len(up[i]), Len(@)))]
    <2>1. PICK a \in Nat, b \in Nat : a = Len(u) /\ b = Len(p)
        BY <1>4
    <2>2. PICK n : n = Least(SockCap - a, b)
        OBVIOUS
    <2>3. n \in Nat /\ n <= b /\ a + n <= SockCap
        <3>1. a < SockCap
            BY <1>4, <1>5, <2>1
        <3>2. SockCap \in Nat
            BY Limits
        <3>3. QED
            BY <2>1, <2>2, <3>1, <3>2 DEF Least
    <2>4. /\ Take(p, n) \in Seq(T) /\ Len(Take(p, n)) = n
          /\ Drop(p, n) \in Seq(T) /\ Len(Drop(p, n)) = b - n
          /\ Cat(Cat(u, Take(p, n)), Drop(p, n)) = Cat(u, p)
        <3>1. n \in 0..Len(p)
            BY <2>1, <2>3
        <3>2. /\ Take(p, n) \in Seq(T) /\ Len(Take(p, n)) = n
              /\ Drop(p, n) \in Seq(T) /\ Len(Drop(p, n)) = Len(p) - n
            BY <3>1, Cut
        <3>3. Cat(Cat(u, Take(p, n)), Drop(p, n)) = Cat(u, p)
            BY <3>1, Passes
        <3>4. QED
            BY <2>1, <3>2, <3>3
    <2>5. Cat(u, Take(p, n)) \in Seq(T) /\ Len(Cat(u, Take(p, n))) = a + n
        BY <2>1, <2>4, ConcatProperties DEF Cat
    <2> DEFINE new == [cl[i] EXCEPT !.pending = Drop(p, n)]
    <2>6. T \subseteq Int
        BY <1>1, Scripted, PumpAssumption DEF Tokens, Header
    <2>7. Cat(u, Take(p, n)) \in Seq(Int) /\ Drop(p, n) \in Seq(Int)
        BY <2>4, <2>5, <2>6, Wider
    <2>8. /\ new.pending = Drop(p, n) /\ new.pc = cl[i].pc
          /\ new.data = cl[i].data /\ new.stdinOpen = cl[i].stdinOpen /\ new \in Client
        BY <2>7 DEF PumpInv, Shape, Client
    <2> HIDE DEF new
    <2>9. /\ cl'[i] = new /\ cl' \in [Sessions -> Client]
          /\ \A j \in Sessions \ {i} : cl'[j] = cl[j]
        BY <1>4, <1>5, <2>1, <2>2, <2>8 DEF PumpInv, Shape, new
    <2>10. /\ up'[i] = Cat(u, Take(p, n)) /\ up' \in [Sessions -> Seq(Int)]
           /\ \A j \in Sessions \ {i} : up'[j] = up[j]
        BY <1>4, <1>5, <2>1, <2>2, <2>7 DEF PumpInv, Shape, Cat
    <2>11. Shape' /\ \A j \in Sessions \ {i} : Same(j)
        BY <1>2, <2>9, <2>10 DEF PumpInv, Shape, Same
    <2>12. /\ Tokens(i)' = T /\ Parts(i)' = Parts(i) /\ Expected(i)' = Expected(i)
           /\ NoEN(i)' = NoEN(i) /\ Running(i)' = Running(i) /\ Closed(i)' = Closed(i)
           /\ Printed(i)' = Printed(i)
        BY <1>2, <2>8, <2>9, SameScript DEF Running, Closed, Printed
    <2>13. Wire(i)' = Wire(i) /\ Emitted(i)' = Emitted(i)
        BY <1>2, <1>4, <2>4, <2>8, <2>9, <2>10, <2>12 DEF Wire, Emitted, Cat
    <2>14. b - n <= HighWater + Chunk
        <3>1. Len(cl[i].pending) <= HighWater + Chunk
            BY <1>3, Zenon DEF TypedSession
        <3>2. b <= HighWater + Chunk
            BY <1>4, <2>1, <3>1, Zenon
        <3>3. HighWater + Chunk \in Nat
            BY Limits
        <3>4. QED
            BY <2>3, <3>2, <3>3
    <2>15. TypedSession(i)'
        <3>1. /\ up'[i] \in Seq(T) /\ Len(up'[i]) <= SockCap
              /\ cl'[i].pending \in Seq(T) /\ Len(cl'[i].pending) <= HighWater + Chunk
            BY <2>3, <2>4, <2>5, <2>8, <2>9, <2>10, <2>14
        <3>2. QED
            BY <1>2, <1>3, <2>8, <2>9, <2>12, <3>1 DEF TypedSession
    <2>16. EndsLast(i)' /\ Leaves(i)' /\ (cl'[i].pc = "select" => cl'[i].data = <<>>)
        BY <1>1, <1>2, <2>8, <2>9, <2>12 DEF Session, EndsLast, Leaves
    <2>17. PICK k \in 0..L : Reads(i, k) /\ Engine(i, k)
        BY <1>1 DEF Session
    <2>18. Reads(i, k)' /\ Engine(i, k)'
        <3>1. Reads(i, k)'
            BY <1>2, <2>8, <2>9, <2>12, <2>13, <2>17, StreamKept
        <3>2. QED
            BY <1>2, <2>13, <2>17, <3>1, ThreadKept
    <2>19. Session(i)'
        BY <1>2, <2>15, <2>16, <2>17, <2>18 DEF Session
    <2>20. QED
        BY <1>1, <1>2, <2>11, <2>19, OthersKeep
<1>6. CASE Closed(i) /\ up' = up /\ cl' = [cl EXCEPT ![i].pc = "ended"]
    <2>1. Cat(u, p) # <<>>
        BY <1>2, <1>4, ConcatProperties, Empty DEF Cat
    <2>2. ~NoEN(i)
        BY <1>1, <1>4, <1>6, <2>1, ClosedIsDone DEF Wire, Cat
    <2>3. QED
        BY <1>1, <1>2, <1>6, <2>2, PumpReturns
<1>7. QED
    BY <1>5, <1>6 DEF SendPending

\* What recv takes stays where it is in the printout.
LEMMA RecvAnswerKeeps ==
    ASSUME PumpInv, NEW i \in Sessions, RecvAnswer(i)
    PROVE  PumpInv'
<1> DEFINE L == Len(script[i])
           S == Parts(i)
<1>1. i \in Opened /\ Session(i) /\ script \in Scripts /\ Running(i)
    BY Acts DEF RecvAnswer, Running
<1>2. /\ script' = script /\ sent' = sent /\ hung' = hung /\ got' = got /\ stdin' = stdin
      /\ stdout' = stdout /\ up' = up /\ sv' = sv /\ lock' = lock
      /\ cl[i].pc = "select" /\ cl[i].data = <<>>
    BY <1>1 DEF RecvAnswer, hostVars, Session
<1>3. TypedSession(i)
    BY <1>1 DEF Session
<1>4. PICK g \in Seq(S), o \in Seq(S), d \in Seq(S) : g = got[i] /\ o = stdout[i] /\ d = down[i]
    BY <1>3 DEF TypedSession
<1>5. /\ \A a, b \in Seq(S) : Cat(a, b) \in Seq(S)
      /\ \A a, b, c \in Seq(S) : Cat(Cat(a, b), c) = Cat(a, Cat(b, c))
      /\ \A a \in Seq(S) : Cat(a, <<>>) = a
      /\ <<>> \in Seq(S)
    BY Joins
<1>6. PICK e \in Seq(S) : e = Cat(g, o)
    BY <1>5
<1>7. Printed(i) = e /\ Emitted(i) = Cat(e, d)
    <2>1. Cat(e, <<>>) = e
        BY <1>5
    <2>2. QED
        BY <1>2, <1>4, <1>6, <2>1 DEF Printed, Emitted, Cat
<1>8. CASE /\ down' = [down EXCEPT ![i] = Drop(@, Least(Chunk, Len(@)))]
           /\ cl' = [cl EXCEPT ![i].pc = "printing", ![i].data = Take(down[i], Least(Chunk, Len(down[i])))]
    <2>1. PICK n : n = Least(Chunk, Len(d))
        OBVIOUS
    <2>2. n \in 0..Len(d)
        BY <2>1, PumpAssumption DEF Least
    <2>3. /\ Take(d, n) \in Seq(S) /\ Drop(d, n) \in Seq(S) /\ Len(Drop(d, n)) = Len(d) - n
          /\ Cat(Cat(e, Take(d, n)), Drop(d, n)) = Cat(e, d)
        BY <2>2, Cut, Passes
    <2>4. Len(Drop(d, n)) <= SockCap
        <3>1. PICK m \in Nat : m = Len(d)
            OBVIOUS
        <3>2. m <= SockCap /\ SockCap \in Nat
            BY <1>3, <1>4, <3>1, PumpAssumption DEF TypedSession
        <3>3. QED
            BY <2>2, <2>3, <3>1, <3>2
    <2>5. S \subseteq AnyParts
        <3>1. Seq(1..L) \subseteq Seq(Int)
            <4>1. L \in Nat
                BY <1>1, Scripted
            <4>2. 1..L \subseteq Int
                BY <4>1
            <4>3. QED
                BY <4>2, Wider
        <3>2. QED
            BY <3>1 DEF Parts, AnyParts
    <2>6. Take(d, n) \in Seq(AnyParts) /\ Drop(d, n) \in Seq(AnyParts)
        BY <2>3, <2>5, Wider
    <2> DEFINE new == [cl[i] EXCEPT !.pc = "printing", !.data = Take(d, n)]
    <2>7. /\ new.pending = cl[i].pending /\ new.pc = "printing"
          /\ new.data = Take(d, n) /\ new.stdinOpen = cl[i].stdinOpen /\ new \in Client
        BY <2>6 DEF PumpInv, Shape, Client
    <2> HIDE DEF new
    <2>8. /\ cl'[i] = new /\ cl' \in [Sessions -> Client]
          /\ \A j \in Sessions \ {i} : cl'[j] = cl[j]
        BY <1>4, <1>8, <2>1, <2>7 DEF PumpInv, Shape, new
    <2>9. /\ down'[i] = Drop(d, n) /\ down' \in [Sessions -> Seq(AnyParts)]
          /\ \A j \in Sessions \ {i} : down'[j] = down[j]
        BY <1>4, <1>8, <2>1, <2>6 DEF PumpInv, Shape
    <2>10. Shape' /\ \A j \in Sessions \ {i} : Same(j)
        BY <1>2, <2>8, <2>9 DEF PumpInv, Shape, Same
    <2>11. /\ Tokens(i)' = Tokens(i) /\ Parts(i)' = S /\ Expected(i)' = Expected(i)
           /\ NoEN(i)' = NoEN(i) /\ Running(i)' /\ Closed(i)' = Closed(i) /\ Wire(i)' = Wire(i)
        BY <1>2, <2>7, <2>8, SameScript DEF Running, Closed, Wire
    <2>12. Printed(i)' = Cat(e, Take(d, n))
        BY <1>2, <1>4, <1>6, <2>7, <2>8 DEF Printed, Cat
    <2>13. Emitted(i)' = Emitted(i)
        BY <1>7, <2>3, <2>9, <2>12 DEF Emitted, Cat
    <2>14. TypedSession(i)'
        BY <1>2, <1>3, <2>3, <2>4, <2>7, <2>8, <2>9, <2>11 DEF TypedSession
    <2>15. EndsLast(i)' /\ Leaves(i)' /\ (cl'[i].pc = "select" => cl'[i].data = <<>>)
        BY <1>1, <1>2, <2>7, <2>8, <2>11 DEF Session, EndsLast, Leaves
    <2>16. PICK k \in 0..L : Reads(i, k) /\ Engine(i, k)
        BY <1>1 DEF Session
    <2>17. Reads(i, k)' /\ Engine(i, k)'
        <3>1. Reads(i, k)'
            BY <1>1, <1>2, <2>7, <2>8, <2>11, <2>16, StreamKept
        <3>2. QED
            BY <1>2, <2>13, <2>16, <3>1, ThreadKept
    <2>18. Session(i)'
        BY <1>2, <2>14, <2>15, <2>16, <2>17 DEF Session
    <2>19. QED
        BY <1>1, <1>2, <2>10, <2>18, OthersKeep
<1>9. CASE down[i] = <<>> /\ Closed(i) /\ down' = down /\ cl' = [cl EXCEPT ![i].pc = "ended"]
    <2>1. Cat(e, <<>>) = e
        BY <1>5
    <2>2. Printed(i) = Expected(i)
        BY <1>1, <1>4, <1>7, <1>9, <2>1, ClosedIsDone
    <2>3. QED
        BY <1>1, <1>2, <1>9, <2>2, PumpReturns
<1>10. QED
    BY <1>8, <1>9 DEF RecvAnswer

\* What _write_all writes stays where it is in the printout.
LEMMA PrintAnswerKeeps ==
    ASSUME PumpInv, NEW i \in Sessions, PrintAnswer(i)
    PROVE  PumpInv'
<1> DEFINE L == Len(script[i])
           S == Parts(i)
<1>1. i \in Opened /\ Session(i) /\ script \in Scripts /\ Running(i)
    BY Acts DEF PrintAnswer, Running
<1>2. /\ script' = script /\ sent' = sent /\ hung' = hung /\ got' = got /\ stdin' = stdin
      /\ down' = down /\ up' = up /\ sv' = sv /\ lock' = lock
      /\ cl[i].pc = "printing" /\ Len(stdout[i]) < PipeCap
    BY DEF PrintAnswer, hostVars
<1>3. TypedSession(i)
    BY <1>1 DEF Session
<1>4. PICK g \in Seq(S), o \in Seq(S), d \in Seq(S) : g = got[i] /\ o = stdout[i] /\ d = cl[i].data
    BY <1>3 DEF TypedSession
<1>5. PICK a \in Nat, b \in Nat : a = Len(o) /\ b = Len(d)
    BY <1>4
<1>6. PICK n : n = Least(PipeCap - a, b)
    OBVIOUS
<1>7. n \in 0..Len(d) /\ n \in Nat /\ a + n <= PipeCap
    <2>1. a < PipeCap
        BY <1>2, <1>4, <1>5
    <2>2. PipeCap \in Nat
        BY Limits
    <2>3. n \in 0..b /\ a + n <= PipeCap
        BY <1>6, <2>1, <2>2 DEF Least
    <2>4. QED
        BY <1>5, <2>3
<1>8. PICK x \in Seq(S), y \in Seq(S) :
          /\ x = Take(d, n) /\ y = Drop(d, n) /\ Len(x) = n /\ Cat(Cat(o, x), y) = Cat(o, d)
          /\ n = b => y = <<>>
    <2>1. /\ Take(d, n) \in Seq(S) /\ Drop(d, n) \in Seq(S) /\ Len(Take(d, n)) = n
          /\ Cat(Cat(o, Take(d, n)), Drop(d, n)) = Cat(o, d)
        BY <1>7, Cut, Passes
    <2>2. n = b => Drop(d, n) = <<>>
        BY <1>5, Empty
    <2>3. QED
        BY <2>1, <2>2
<1>9. /\ Cat(o, x) \in Seq(S) /\ Len(Cat(o, x)) = a + n
    BY <1>5, <1>8, ConcatProperties DEF Cat
<1>10. S \subseteq AnyParts
    <2>1. Seq(1..L) \subseteq Seq(Int)
        <3>1. L \in Nat
            BY <1>1, Scripted
        <3>2. 1..L \subseteq Int
            BY <3>1
        <3>3. QED
            BY <3>2, Wider
    <2>2. QED
        BY <2>1 DEF Parts, AnyParts
<1>11. Cat(o, x) \in Seq(AnyParts) /\ y \in Seq(AnyParts)
    BY <1>9, <1>10, Wider
<1> DEFINE pc == IF n = b THEN "select" ELSE "printing"
           new == [cl[i] EXCEPT !.data = y, !.pc = pc]
<1>12. pc \in {"select", "printing"} /\ (pc = "select" => y = <<>>)
    BY <1>8
<1> HIDE DEF pc
<1>13. /\ new.pending = cl[i].pending /\ new.pc = pc
       /\ new.data = y /\ new.stdinOpen = cl[i].stdinOpen /\ new \in Client
    BY <1>11, <1>12 DEF PumpInv, Shape, Client
<1> HIDE DEF new
<1>14. /\ cl'[i] = new /\ cl' \in [Sessions -> Client]
       /\ \A j \in Sessions \ {i} : cl'[j] = cl[j]
    <2>1. cl' = [cl EXCEPT ![i].data = y, ![i].pc = pc]
        BY <1>2, <1>4, <1>5, <1>6, <1>8 DEF PrintAnswer, PumpInv, Shape, Client, pc
    <2>2. QED
        BY <1>13, <2>1 DEF PumpInv, Shape, new
<1>15. /\ stdout'[i] = Cat(o, x) /\ stdout' \in [Sessions -> Seq(AnyParts)]
       /\ \A j \in Sessions \ {i} : stdout'[j] = stdout[j]
    BY <1>4, <1>5, <1>6, <1>8, <1>11 DEF PrintAnswer, PumpInv, Shape, Cat
<1>16. Shape' /\ \A j \in Sessions \ {i} : Same(j)
    BY <1>2, <1>14, <1>15 DEF PumpInv, Shape, Same
<1>17. /\ Tokens(i)' = Tokens(i) /\ Parts(i)' = S /\ Expected(i)' = Expected(i)
       /\ NoEN(i)' = NoEN(i) /\ Running(i)' /\ Closed(i)' = Closed(i) /\ Wire(i)' = Wire(i)
    BY <1>2, <1>12, <1>13, <1>14, SameScript DEF Running, Closed, Wire
<1>18. Printed(i)' = Printed(i)
    <2>1. /\ \A p, q \in Seq(S) : Cat(p, q) \in Seq(S)
          /\ \A p, q, r \in Seq(S) : Cat(Cat(p, q), r) = Cat(p, Cat(q, r))
        BY Joins
    <2>2. Cat(Cat(g, Cat(o, x)), y) = Cat(g, Cat(Cat(o, x), y))
        BY <1>9, <2>1
    <2>3. Cat(Cat(g, o), d) = Cat(g, Cat(o, d))
        BY <2>1
    <2>4. Cat(Cat(g, Cat(o, x)), y) = Cat(Cat(g, o), d)
        BY <1>8, <2>2, <2>3
    <2>5. QED
        BY <1>2, <1>4, <1>13, <1>14, <1>15, <2>4 DEF Printed, Cat
<1>19. Emitted(i)' = Emitted(i)
    BY <1>2, <1>18 DEF Emitted
<1>20. TypedSession(i)'
    BY <1>2, <1>3, <1>7, <1>9, <1>12, <1>13, <1>14, <1>15, <1>17 DEF TypedSession
<1>21. EndsLast(i)' /\ Leaves(i)' /\ (cl'[i].pc = "select" => cl'[i].data = <<>>)
    BY <1>1, <1>2, <1>12, <1>13, <1>14, <1>17 DEF Session, EndsLast, Leaves
<1>22. PICK k \in 0..L : Reads(i, k) /\ Engine(i, k)
    BY <1>1 DEF Session
<1>23. Reads(i, k)' /\ Engine(i, k)'
    <2>1. Reads(i, k)'
        BY <1>1, <1>2, <1>13, <1>14, <1>17, <1>22, StreamKept
    <2>2. QED
        BY <1>2, <1>19, <1>22, <2>1, ThreadKept
<1>24. Session(i)'
    BY <1>2, <1>20, <1>21, <1>22, <1>23 DEF Session
<1>25. QED
    BY <1>1, <1>2, <1>16, <1>24, OthersKeep

\* A client that is killed leaves a beginning of the printout.
LEMMA ClientDiesKeeps ==
    ASSUME PumpInv, NEW i \in Sessions, ClientDies(i)
    PROVE  PumpInv'
<1> DEFINE L == Len(script[i])
           S == Parts(i)
           new == [cl[i] EXCEPT !.pc = "killed", !.pending = <<>>, !.data = <<>>]
<1>1. i \in Opened /\ Session(i) /\ script \in Scripts /\ Running(i)
    BY Acts DEF ClientDies
<1>2. /\ script' = script /\ sent' = sent /\ hung' = hung /\ got' = got /\ stdin' = stdin
      /\ stdout' = stdout /\ down' = down /\ up' = up /\ sv' = sv /\ lock' = lock
      /\ cl' = [cl EXCEPT ![i].pc = "killed", ![i].pending = <<>>, ![i].data = <<>>]
    BY DEF ClientDies, hostVars
<1>3. TypedSession(i) /\ L \in Nat
    BY <1>1, Scripted DEF Session
<1>4. PICK g \in Seq(S), o \in Seq(S), d \in Seq(S) : g = got[i] /\ o = stdout[i] /\ d = cl[i].data
    BY <1>3 DEF TypedSession
<1>5. /\ new.pc = "killed" /\ new.pending = <<>> /\ new.data = <<>>
      /\ new.stdinOpen = cl[i].stdinOpen /\ new \in Client
    <2>1. <<>> \in Seq(Int) /\ <<>> \in Seq(AnyParts)
        OBVIOUS
    <2>2. cl[i] \in Client
        BY DEF PumpInv, Shape
    <2>3. QED
        BY <2>1, <2>2 DEF Client
<1> HIDE DEF new
<1>6. /\ cl'[i] = new /\ cl' \in [Sessions -> Client]
      /\ \A j \in Sessions \ {i} : cl'[j] = cl[j]
    BY <1>2, <1>5 DEF PumpInv, Shape, new
<1>7. Shape' /\ \A j \in Sessions \ {i} : Same(j)
    BY <1>2, <1>6 DEF PumpInv, Shape, Same
<1>8. /\ Tokens(i)' = Tokens(i) /\ Parts(i)' = S /\ Expected(i)' = Expected(i)
      /\ NoEN(i)' = NoEN(i) /\ ~Running(i)'
    BY <1>2, <1>5, <1>6, SameScript DEF Running
<1>9. PICK k \in 0..L : Reads(i, k) /\ Engine(i, k)
    BY <1>1 DEF Session
<1>10. \E u \in Seq(S) : Expected(i) = Cat(Printed(i)', u)
    <2>1. PICK e \in Seq(S) : Expected(i) = Printed(i) \o e
        BY <1>1, <1>3, <1>9, Begins
    <2>2. /\ \A p, q \in Seq(S) : Cat(p, q) \in Seq(S)
          /\ \A p, q, r \in Seq(S) : Cat(Cat(p, q), r) = Cat(p, Cat(q, r))
          /\ \A p \in Seq(S) : Cat(p, <<>>) = p
        BY Joins
    <2>3. PICK w \in Seq(S) : w = Cat(g, o)
        BY <2>2
    <2>4. Printed(i) = Cat(w, d) /\ Printed(i)' = Cat(w, <<>>)
        BY <1>2, <1>4, <1>5, <1>6, <2>3 DEF Printed, Cat
    <2>5. Cat(Cat(w, d), e) = Cat(w, Cat(d, e)) /\ Cat(d, e) \in Seq(S) /\ Cat(w, <<>>) = w
        BY <2>2
    <2>6. QED
        BY <2>1, <2>4, <2>5 DEF Cat
<1>11. TypedSession(i)'
    <2>1. Len(<<>>) <= HighWater + Chunk
        BY PumpAssumption
    <2>2. QED
        BY <1>2, <1>3, <1>5, <1>6, <1>8, <2>1 DEF TypedSession
<1>12. EndsLast(i)' /\ Leaves(i)' /\ (cl'[i].pc = "select" => cl'[i].data = <<>>)
    BY <1>5, <1>6, <1>8, <1>10 DEF EndsLast, Leaves, Cat
<1>13. Reads(i, k)'
    <2>1. PICK u \in Seq(Int), p \in Seq(Int) : u = up[i] /\ p = cl[i].pending
        BY <1>1, Scripted DEF PumpInv, Shape, Client
    <2>2. PICK w \in Seq(Int) : w = Cat(u, p) /\ w = Wire(i)
        BY <2>1, ConcatProperties DEF Cat, Wire
    <2>3. Wire(i)' = u
        BY <1>2, <1>5, <1>6, <2>1, ConcatEmptySeq DEF Wire
    <2>4. PICK lines, rest \in [0..Len(w) -> Nat] : Parses(w, lines, rest) /\ rest[0] = sv[i].need
        BY <1>9, <2>2 DEF Reads
    <2>5. Len(u) <= Len(w) /\ \A j \in 1..Len(u) : u[j] = w[j]
        <3>1. /\ Len(u \o p) = Len(u) + Len(p)
              /\ \A j \in 1..(Len(u) + Len(p)) : (u \o p)[j] = IF j <= Len(u) THEN u[j] ELSE p[j - Len(u)]
            BY ConcatProperties
        <3>2. PICK a \in Nat, b \in Nat : a = Len(u) /\ b = Len(p)
            OBVIOUS
        <3>3. Len(w) = a + b /\ \A j \in 1..(a + b) : w[j] = IF j <= a THEN u[j] ELSE p[j - a]
            BY <2>2, <3>1, <3>2 DEF Cat
        <3>4. \A j \in 1..a : j \in 1..(a + b) /\ j <= a
            OBVIOUS
        <3>5. QED
            BY <3>2, <3>3, <3>4
    <2>6. \E l, r \in [0..Len(u) -> Nat] : Parses(u, l, r) /\ r[0] = rest[0]
        BY <2>4, <2>5, WireEnds
    <2>7. QED
        BY <1>2, <1>8, <2>3, <2>4, <2>6 DEF Reads
<1>14. Session(i)'
    BY <1>2, <1>8, <1>9, <1>11, <1>12, <1>13 DEF Session
<1>15. QED
    BY <1>1, <1>2, <1>7, <1>14, OthersKeep

-----------------------------------------------------------------------------
(* The server's thread.                                                    *)

\* The thread's part of TypedSession.
Fits(i, t) ==
    /\ t.pc \in {"reading", "waiting", "solving", "writing", "closed"}
    /\ t.need \in 0..Chunk /\ t.done \in BOOLEAN /\ t.last \in BOOLEAN
    /\ t.out \in Seq(Parts(i)) /\ t.frag \in Seq(1..Len(script[i]))
    /\ t.rx \in Seq(1..Len(script[i])) /\ t.body \in Seq(1..Len(script[i]))

LEMMA ThreadFits ==
    ASSUME NEW i, TypedSession(i)
    PROVE  Fits(i, sv[i])
BY DEF TypedSession, Fits

\* What of the invariant a step of the thread can disturb.
LEMMA ThreadSteps ==
    ASSUME PumpInv, NEW i \in Opened, NEW new \in Thread, Fits(i, new), Serves(i, new),
           script' = script, sent' = sent, hung' = hung, got' = got, stdin' = stdin,
           stdout' = stdout, cl' = cl, lock' \in Sessions \cup {None},
           \A j \in Sessions \ {i} : up'[j] = up[j] /\ down'[j] = down[j],
           up' \in [Sessions -> Seq(Int)], down' \in [Sessions -> Seq(AnyParts)],
           up'[i] \in Seq(Tokens(i)), Len(up'[i]) <= SockCap,
           down'[i] \in Seq(Parts(i)), Len(down'[i]) <= SockCap,
           EndsLast(i)', NEW k \in 0..Len(script[i]), Reads(i, k)', Running(i) => Engine(i, k)'
    PROVE  PumpInv'
<1>1. i \in Sessions /\ Session(i) /\ TypedSession(i)
    BY Scripted DEF PumpInv, Shape, Session
<1>2. /\ sv'[i] = new /\ sv' \in [Sessions -> Thread]
      /\ \A j \in Sessions \ {i} : sv'[j] = sv[j]
    BY <1>1 DEF Serves, PumpInv, Shape
<1>3. Shape' /\ \A j \in Sessions \ {i} : Same(j)
    BY <1>2 DEF PumpInv, Shape, Same
<1>4. /\ Tokens(i)' = Tokens(i) /\ Parts(i)' = Parts(i) /\ Expected(i)' = Expected(i)
      /\ NoEN(i)' = NoEN(i) /\ Running(i)' = Running(i) /\ Printed(i)' = Printed(i)
    BY SameScript DEF Running, Printed
<1>5. TypedSession(i)'
    BY <1>1, <1>2, <1>4 DEF TypedSession, Fits
<1>6. Leaves(i)' /\ (cl'[i].pc = "select" => cl'[i].data = <<>>)
    BY <1>1, <1>4 DEF Session, Leaves
<1>7. Session(i)'
    BY <1>4, <1>5, <1>6 DEF Session
<1>8. QED
    BY <1>3, <1>7, OthersKeep

\* The lock changes nothing of the session.
LEMMA TakesLockKeeps ==
    ASSUME PumpInv, NEW i \in Sessions, TakesLock(i)
    PROVE  PumpInv'
<1> DEFINE new == [sv[i] EXCEPT !.pc = "solving"]
<1>1. i \in Opened /\ Session(i) /\ script \in Scripts
    BY Acts DEF TakesLock, Closed
<1>2. /\ script' = script /\ sent' = sent /\ hung' = hung /\ got' = got /\ stdin' = stdin
      /\ stdout' = stdout /\ cl' = cl /\ up' = up /\ down' = down /\ lock' = i
      /\ Serves(i, new) /\ sv[i].pc = "waiting"
    BY DEF TakesLock, hostVars
<1>3. /\ new.pc = "solving" /\ new.need = sv[i].need /\ new.done = sv[i].done /\ new.last = sv[i].last
      /\ new.out = sv[i].out /\ new.frag = sv[i].frag /\ new.rx = sv[i].rx /\ new.body = sv[i].body
      /\ new \in Thread
    <2>1. sv[i] \in Thread
        BY DEF PumpInv, Shape
    <2>2. QED
        BY <2>1 DEF Thread
<1> HIDE DEF new
<1>4. TypedSession(i) /\ Fits(i, new)
    BY <1>1, <1>3, ThreadFits DEF Session, Fits
<1>5. sv'[i] = new
    BY <1>2 DEF Serves, PumpInv, Shape
<1>6. /\ NoEN(i)' = NoEN(i) /\ Running(i)' = Running(i) /\ ~Closed(i)' /\ ~Closed(i)
      /\ Wire(i)' = Wire(i) /\ Emitted(i)' = Emitted(i) /\ Expected(i)' = Expected(i)
    BY <1>2, <1>3, <1>5, SameScript DEF Running, Closed, Wire, Emitted, Printed
<1>7. EndsLast(i)'
    BY <1>1, <1>3, <1>5, <1>6 DEF Session, EndsLast
<1>8. PICK k \in 0..Len(script[i]) : Reads(i, k) /\ (Running(i) => Engine(i, k))
    BY <1>1 DEF Session
<1>9. Reads(i, k)'
    BY <1>2, <1>3, <1>5, <1>6, <1>8, StreamKept
<1>10. Running(i) => Engine(i, k)'
    BY <1>2, <1>3, <1>5, <1>6, <1>8 DEF Engine
<1>11. QED
    BY <1>1, <1>2, <1>3, <1>4, <1>7, <1>8, <1>9, <1>10, ThreadSteps DEF TypedSession, PumpInv, Shape

\* The answer of a deck is the stock engine's.
LEMMA SolvesKeeps ==
    ASSUME PumpInv, NEW i \in Sessions, Solves(i)
    PROVE  PumpInv'
<1> DEFINE L == Len(script[i])
           new == [sv[i] EXCEPT !.pc = "writing", !.out = Answer(sv[i].body), !.body = <<>>]
<1>1. i \in Opened /\ Session(i) /\ script \in Scripts /\ L \in Nat
    BY Acts, Scripted DEF Solves, Closed
<1>2. /\ script' = script /\ sent' = sent /\ hung' = hung /\ got' = got /\ stdin' = stdin
      /\ stdout' = stdout /\ cl' = cl /\ up' = up /\ down' = down /\ lock' = None
      /\ Serves(i, new) /\ sv[i].pc = "solving"
    BY DEF Solves, hostVars
<1>3. TypedSession(i) /\ Fits(i, sv[i])
    BY <1>1, ThreadFits DEF Session
<1>4. PICK answer \in Seq(Parts(i)) : answer = Answer(sv[i].body)
    BY <1>1, <1>3, AnswerTyped, Scripted DEF Fits
<1>5. answer \in Seq(AnyParts)
    <2>1. Seq(1..L) \subseteq Seq(Int)
        <3>1. 1..L \subseteq Int
            BY <1>1
        <3>2. QED
            BY <3>1, Wider
    <2>2. Parts(i) \subseteq AnyParts
        BY <2>1 DEF Parts, AnyParts
    <2>3. QED
        BY <2>2, Wider
<1>6. /\ new.pc = "writing" /\ new.need = sv[i].need /\ new.done = sv[i].done /\ new.last = sv[i].last
      /\ new.out = answer /\ new.frag = sv[i].frag /\ new.rx = sv[i].rx /\ new.body = <<>>
      /\ new \in Thread
    <2>1. <<>> \in Seq(Int) /\ sv[i] \in Thread
        BY DEF PumpInv, Shape
    <2>2. QED
        BY <1>4, <1>5, <2>1 DEF Thread
<1> HIDE DEF new
<1>7. Fits(i, new)
    BY <1>3, <1>6 DEF Fits
<1>8. sv'[i] = new
    BY <1>2 DEF Serves, PumpInv, Shape
<1>9. /\ NoEN(i)' = NoEN(i) /\ Running(i)' = Running(i) /\ ~Closed(i)' /\ ~Closed(i)
      /\ Wire(i)' = Wire(i) /\ Emitted(i)' = Emitted(i) /\ Expected(i)' = Expected(i)
    BY <1>2, <1>6, <1>8, SameScript DEF Running, Closed, Wire, Emitted, Printed
<1>10. EndsLast(i)'
    BY <1>1, <1>6, <1>8, <1>9 DEF Session, EndsLast
<1>11. PICK k \in 0..L : Reads(i, k) /\ (Running(i) => Engine(i, k))
    BY <1>1 DEF Session
<1>12. Reads(i, k)'
    BY <1>2, <1>6, <1>8, <1>9, <1>11, StreamKept
<1>13. ASSUME Running(i) PROVE Engine(i, k)'
    <2> DEFINE stock == Stock(script[i])
    <2>1. CASE /\ k >= 1 /\ script[i][k] # "card" /\ sv[i].last = (script[i][k] = "EN")
               /\ Emitted(i) = stock[k - 1].out /\ sv[i].body = stock[k - 1].body /\ stock[k - 1].open
        <3>1. k \in 1..L
            BY <1>1, <2>1
        <3>2. /\ stock[k].out = stock[k - 1].out \o Answer(stock[k - 1].body) /\ stock[k].body = <<>>
              /\ stock[k].open = (script[i][k] # "EN")
            BY <1>1, <2>1, <3>1, Terminates
        <3>3. Emitted(i) \o answer = stock[k].out
            BY <1>4, <2>1, <3>2
        <3>4. sv[i].last = ~stock[k].open
            BY <2>1, <3>2
        <3>5. QED
            BY <1>2, <1>6, <1>8, <1>9, <3>2, <3>3, <3>4 DEF Engine
    <2>2. CASE /\ k = L /\ sv[i].last
               /\ Emitted(i) = stock[k].out /\ sv[i].body = stock[k].body /\ sv[i].body # <<>>
        <3>1. Expected(i) = stock[k].out \o Answer(stock[k].body)
            BY <1>1, <2>2, Expects
        <3>2. Emitted(i) \o answer = Expected(i)
            BY <1>4, <2>2, <3>1
        <3>3. QED
            BY <1>2, <1>6, <1>8, <1>9, <2>2, <3>2 DEF Engine
    <2>3. QED
        BY <1>2, <1>11, <1>13, <2>1, <2>2 DEF Engine
<1>14. QED
    BY <1>1, <1>2, <1>3, <1>6, <1>7, <1>10, <1>11, <1>12, <1>13, ThreadSteps
       DEF TypedSession, PumpInv, Shape

\* At the end of the input the thread has taken every line.
LEMMA AllTaken ==
    ASSUME NEW i \in Opened, Session(i), script \in Scripts, NEW k \in 0..Len(script[i]), Reads(i, k),
           Running(i), sv[i].done, sv[i].rx = <<>>
    PROVE  k = Len(script[i])
<1>1. PICK w : w = Wire(i)
    OBVIOUS
<1>2. PICK lines, rest \in [0..Len(w) -> Nat] :
          rest[0] = sv[i].need /\ Linked(i, w, lines, rest) /\ InHand(i, k, lines[0])
    BY <1>1 DEF Reads
<1>3. w = <<>> /\ stdin[i] = <<>> /\ sent[i] = Len(script[i]) /\ rest[Len(w)] = 0
      /\ sent[i] = lines[Len(w)] + Len(stdin[i])
    BY <1>2 DEF Linked
<1>4. Len(w) = 0 /\ Len(stdin[i]) = 0
    BY <1>3
<1>5. sv[i].need = 0 /\ sent[i] = lines[0] + 0
    BY <1>2, <1>3, <1>4
<1>6. lines[0] = k + Len(sv[i].rx) + Len(sv[i].frag) /\ sv[i].frag = <<>>
    BY <1>2, <1>5 DEF InHand
<1>7. lines[0] = k + 0 + 0
    BY <1>6
<1>8. k \in Int
    BY Scripted
<1>9. QED
    BY <1>3, <1>5, <1>7, <1>8

\* At the end of the input the thread stands at the end of the script.
LEMMA EndsInputKeeps ==
    ASSUME PumpInv, NEW i \in Sessions, EndsInput(i)
    PROVE  PumpInv'
<1> DEFINE L == Len(script[i])
           pc == IF sv[i].body = <<>> THEN "closed" ELSE "waiting"
           new == [sv[i] EXCEPT !.last = TRUE, !.pc = pc]
<1>1. i \in Opened /\ Session(i) /\ script \in Scripts /\ L \in Nat
    BY Acts, Scripted DEF EndsInput, Closed
<1>2. /\ script' = script /\ sent' = sent /\ hung' = hung /\ got' = got /\ stdin' = stdin
      /\ stdout' = stdout /\ cl' = cl /\ up' = up /\ down' = down /\ lock' = lock
      /\ Serves(i, new) /\ sv[i].pc = "reading" /\ sv[i].rx = <<>> /\ sv[i].done
    BY DEF EndsInput, hostVars
<1>3. pc \in {"closed", "waiting"}
    OBVIOUS
<1>4. /\ new.pc = pc /\ new.need = sv[i].need /\ new.done = sv[i].done /\ new.last = TRUE
      /\ new.out = sv[i].out /\ new.frag = sv[i].frag /\ new.rx = sv[i].rx /\ new.body = sv[i].body
      /\ new \in Thread
    <2> HIDE DEF pc
    <2>1. sv[i] \in Thread
        BY DEF PumpInv, Shape
    <2>2. QED
        BY <1>3, <2>1 DEF Thread
<1> HIDE DEF new
<1>5. TypedSession(i) /\ Fits(i, new)
    <2>1. Fits(i, sv[i]) /\ TypedSession(i)
        BY <1>1, ThreadFits DEF Session
    <2>2. QED
        BY <1>3, <1>4, <2>1 DEF Fits
<1>6. sv'[i] = new
    BY <1>2 DEF Serves, PumpInv, Shape
<1>7. /\ NoEN(i)' = NoEN(i) /\ Running(i)' = Running(i)
      /\ Wire(i)' = Wire(i) /\ Emitted(i)' = Emitted(i) /\ Expected(i)' = Expected(i)
    BY <1>2, SameScript DEF Running, Wire, Emitted, Printed
<1>8. EndsLast(i)'
    BY <1>2, <1>4, <1>6, <1>7 DEF EndsLast
<1>9. PICK k \in 0..L : Reads(i, k) /\ (Running(i) => Engine(i, k))
    BY <1>1 DEF Session
<1>10. Reads(i, k)'
    BY <1>2, <1>4, <1>6, <1>7, <1>9, StreamKept
<1>11. ASSUME Running(i) PROVE Engine(i, k)'
    <2> DEFINE stock == Stock(script[i])
    <2>1. k = L
        BY <1>1, <1>2, <1>9, <1>11, AllTaken
    <2>2. Emitted(i) = stock[k].out /\ sv[i].body = stock[k].body
        BY <1>2, <1>9, <1>11 DEF Engine
    <2>3. stock[k].body = <<>> => Expected(i) = stock[k].out
        BY <1>1, <2>1, Expects
    <2>4. CASE sv[i].body = <<>>
        <3>1. pc = "closed" /\ Emitted(i) = Expected(i)
            BY <2>2, <2>3, <2>4
        <3>2. QED
            BY <1>2, <1>4, <1>6, <1>7, <3>1 DEF Engine
    <2>5. CASE sv[i].body # <<>>
        <3>1. pc = "waiting"
            BY <2>5
        <3>2. QED
            BY <1>2, <1>4, <1>6, <1>7, <2>1, <2>2, <2>5, <3>1 DEF Engine
    <2>6. QED
        BY <2>4, <2>5
<1>12. QED
    BY <1>1, <1>2, <1>4, <1>5, <1>8, <1>9, <1>10, <1>11, ThreadSteps
       DEF TypedSession, PumpInv, Shape

\* The thread and the stock engine read the same line.
LEMMA TakesLineKeeps ==
    ASSUME PumpInv, NEW i \in Sessions, TakesLine(i)
    PROVE  PumpInv'
<1> DEFINE L == Len(script[i])
           line == Head(sv[i].rx)
           card == [sv[i] EXCEPT !.rx = Tail(@), !.body = Append(@, line)]
           stop == [sv[i] EXCEPT !.rx = Tail(@), !.pc = "waiting", !.last = script[i][line] = "EN"]
           new == IF script[i][line] = "card" THEN card ELSE stop
<1>1. i \in Opened /\ Session(i) /\ script \in Scripts /\ L \in Nat
    BY Acts, Scripted DEF TakesLine, Closed
<1>2. /\ script' = script /\ sent' = sent /\ hung' = hung /\ got' = got /\ stdin' = stdin
      /\ stdout' = stdout /\ cl' = cl /\ up' = up /\ down' = down /\ lock' = lock
      /\ Serves(i, new) /\ sv[i].pc = "reading" /\ sv[i].rx # <<>>
    BY DEF TakesLine, hostVars
<1>3. TypedSession(i) /\ Fits(i, sv[i])
    BY <1>1, ThreadFits DEF Session
<1>4. PICK q \in Seq(1..L) : q = sv[i].rx /\ q # <<>>
    BY <1>2, <1>3 DEF Fits
<1>5. PICK m \in Nat, t \in Seq(1..L) :
          /\ m = Len(q) /\ m >= 1 /\ t = Tail(q) /\ Len(t) = m - 1
          /\ \A j \in 1..(m - 1) : t[j] = q[j + 1]
          /\ line = q[1] /\ line \in 1..L
    <2>1. Head(q) = q[1] /\ q[1] \in 1..L /\ Tail(q) = Drop(q, 1) /\ Len(q) >= 1 /\ 1 \in 0..Len(q)
        BY <1>4, First
    <2>2. /\ Drop(q, 1) \in Seq(1..L) /\ Len(Drop(q, 1)) = Len(q) - 1
          /\ \A j \in 1..(Len(q) - 1) : Drop(q, 1)[j] = q[j + 1]
        BY <2>1, Cut
    <2>3. PICK m \in Nat : m = Len(q)
        OBVIOUS
    <2>4. line = Head(q)
        BY <1>4
    <2>5. PICK t \in Seq(1..L) : t = Drop(q, 1)
        BY <2>2
    <2>6. m >= 1 /\ t = Tail(q) /\ Len(t) = m - 1 /\ \A j \in 1..(m - 1) : t[j] = q[j + 1]
        BY <2>1, <2>2, <2>3, <2>5
    <2>7. line = q[1] /\ line \in 1..L
        BY <2>1, <2>4
    <2> HIDE DEF line
    <2>8. QED
        BY <2>3, <2>6, <2>7
<1>6. /\ t \in Seq(Int) /\ Append(sv[i].body, line) \in Seq(1..L) /\ Append(sv[i].body, line) \in Seq(Int)
    <2>1. 1..L \subseteq Int
        BY <1>1
    <2>2. Append(sv[i].body, line) \in Seq(1..L)
        BY <1>3, <1>5 DEF Fits
    <2>3. QED
        BY <2>1, <2>2, Wider
<1>7. sv[i] \in Thread
    BY DEF PumpInv, Shape
<1>8. /\ card.pc = sv[i].pc /\ card.need = sv[i].need /\ card.done = sv[i].done
      /\ card.last = sv[i].last /\ card.out = sv[i].out /\ card.frag = sv[i].frag /\ card.rx = t
      /\ card.body = Append(sv[i].body, line) /\ card \in Thread
    BY <1>4, <1>5, <1>6, <1>7 DEF Thread
<1>9. /\ stop.pc = "waiting" /\ stop.need = sv[i].need /\ stop.done = sv[i].done
      /\ stop.last = (script[i][line] = "EN") /\ stop.out = sv[i].out /\ stop.frag = sv[i].frag
      /\ stop.rx = t /\ stop.body = sv[i].body /\ stop \in Thread
    BY <1>4, <1>5, <1>6, <1>7 DEF Thread
<1>10. /\ new.need = sv[i].need /\ new.done = sv[i].done /\ new.out = sv[i].out
       /\ new.frag = sv[i].frag /\ new.rx = t /\ new \in Thread /\ new.pc # "closed"
       /\ script[i][line] = "card" =>
            new.pc = "reading" /\ new.last = sv[i].last /\ new.body = Append(sv[i].body, line)
       /\ script[i][line] # "card" =>
            new.pc = "waiting" /\ new.last = (script[i][line] = "EN") /\ new.body = sv[i].body
    BY <1>2, <1>8, <1>9
<1> HIDE DEF new, card, stop, line
<1>11. Fits(i, new)
    BY <1>2, <1>3, <1>6, <1>10 DEF Fits
<1>12. sv'[i] = new
    BY <1>2 DEF Serves, PumpInv, Shape
<1>13. /\ NoEN(i)' = NoEN(i) /\ Running(i)' = Running(i) /\ ~Closed(i)'
       /\ Wire(i)' = Wire(i) /\ Emitted(i)' = Emitted(i) /\ Expected(i)' = Expected(i)
    BY <1>2, <1>10, <1>12, SameScript DEF Running, Closed, Wire, Emitted, Printed
<1>14. EndsLast(i)'
    <2>1. NoEN(i) => script[i][line] # "EN"
        BY <1>5 DEF NoEN
    <2>2. QED
        BY <1>1, <1>10, <1>12, <1>13, <2>1 DEF Session, EndsLast
<1>15. PICK k \in 0..L : Reads(i, k) /\ (Running(i) => Engine(i, k))
    BY <1>1 DEF Session
<1>16. PICK w : w = Wire(i)
    OBVIOUS
<1>17. PICK lines, rest \in [0..Len(w) -> Nat] :
           /\ Parses(w, lines, rest) /\ rest[0] = sv[i].need
           /\ Running(i) => Linked(i, w, lines, rest) /\ InHand(i, k, lines[0])
    BY <1>15, <1>16 DEF Reads
<1>18. CASE ~Running(i)
    <2>1. Reads(i, k)'
        BY <1>10, <1>12, <1>13, <1>16, <1>17, <1>18 DEF Reads
    <2>2. QED
        BY <1>1, <1>2, <1>3, <1>10, <1>11, <1>14, <1>15, <1>18, <2>1, ThreadSteps
           DEF TypedSession, PumpInv, Shape
<1>19. CASE Running(i)
    <2> DEFINE stock == Stock(script[i])
    <2>1. /\ lines[0] = k + m + Len(sv[i].frag) /\ sv[i].frag = <<>> /\ sv[i].need = 0
          /\ \A j \in 1..m : q[j] = k + j
        BY <1>4, <1>5, <1>17, <1>19 DEF InHand
    <2>2. k \in Nat /\ line = k + 1 /\ k + 1 \in 0..L /\ k + 1 \in 1..L /\ (k + 1) - 1 = k
        <3>1. 1 \in 1..m
            BY <1>5
        <3>2. line = k + 1 /\ line \in 1..L
            BY <1>5, <2>1, <3>1
        <3>3. QED
            BY <1>1, <3>2
    <2>3. InHand(i, k + 1, lines[0])'
        <3>1. lines[0] = (k + 1) + (m - 1) + Len(sv[i].frag)
            <4>1. Len(sv[i].frag) = 0
                BY <2>1
            <4>2. QED
                BY <2>1, <2>2, <4>1
        <3>2. \A j \in 1..(m - 1) : t[j] = (k + 1) + j
            BY <1>5, <2>1, <2>2
        <3>3. \A j \in 1..Len(<<>>) : FALSE
            OBVIOUS
        <3>4. QED
            BY <1>5, <1>10, <1>12, <2>1, <3>1, <3>2, <3>3 DEF InHand
    <2>4. Linked(i, w, lines, rest)'
        BY <1>2, <1>10, <1>12, <1>17, <1>19 DEF Linked
    <2>5. Reads(i, k + 1)'
        BY <1>10, <1>12, <1>13, <1>16, <1>17, <2>3, <2>4 DEF Reads
    <2>6. /\ Emitted(i) = stock[k].out /\ sv[i].body = stock[k].body /\ stock[k].open
        BY <1>2, <1>15, <1>19 DEF Engine
    <2>7. Engine(i, k + 1)'
        <3>1. CASE script[i][line] = "card"
            <4>1. /\ stock[k + 1].out = stock[k].out /\ stock[k + 1].open
                  /\ stock[k + 1].body = Append(stock[k].body, k + 1)
                <5>1. PICK h \in 1..L : h = k + 1 /\ h - 1 = k
                    BY <2>2
                <5>2. stock[h - 1].open /\ script[i][h] = "card"
                    BY <2>2, <2>6, <3>1, <5>1
                <5>3. /\ stock[h].out = stock[h - 1].out /\ stock[h].open
                      /\ stock[h].body = Append(stock[h - 1].body, h)
                    BY <1>1, <5>2, Terminates
                <5>4. QED
                    BY <5>1, <5>3
            <4>2. QED
                BY <1>2, <1>10, <1>12, <1>13, <2>2, <2>6, <3>1, <4>1 DEF Engine
        <3>2. CASE script[i][line] # "card"
            <4>1. stock[(k + 1) - 1] = stock[k] /\ script[i][k + 1] # "card" /\ k + 1 >= 1
                BY <2>2, <3>2
            <4>2. /\ sv'[i].pc = "waiting" /\ sv'[i].last = (script[i][k + 1] = "EN")
                  /\ Emitted(i)' = stock[(k + 1) - 1].out /\ sv'[i].body = stock[(k + 1) - 1].body
                  /\ stock[(k + 1) - 1].open
                BY <1>10, <1>12, <1>13, <2>2, <2>6, <3>2, <4>1
            <4>3. QED
                BY <1>2, <4>1, <4>2 DEF Engine
        <3>3. QED
            BY <3>1, <3>2
    <2>8. QED
        BY <1>1, <1>2, <1>3, <1>10, <1>11, <1>14, <2>2, <2>5, <2>7, ThreadSteps
           DEF TypedSession, PumpInv, Shape
<1>20. QED
    BY <1>18, <1>19

\* What the thread has written stays where it is in the printout.
LEMMA WritesKeeps ==
    ASSUME PumpInv, NEW i \in Sessions, Writes(i)
    PROVE  PumpInv'
<1> DEFINE L == Len(script[i])
           S == Parts(i)
<1>1. i \in Opened /\ Session(i) /\ script \in Scripts /\ L \in Nat
    BY Acts, Scripted DEF Writes, Closed
<1>2. /\ script' = script /\ sent' = sent /\ hung' = hung /\ got' = got /\ stdin' = stdin
      /\ stdout' = stdout /\ cl' = cl /\ up' = up /\ lock' = lock /\ sv[i].pc = "writing"
    BY DEF Writes, hostVars
<1>3. TypedSession(i) /\ Fits(i, sv[i]) /\ sv[i] \in Thread
    BY <1>1, ThreadFits DEF Session, PumpInv, Shape
<1>4. PICK k \in 0..L : Reads(i, k) /\ (Running(i) => Engine(i, k))
    BY <1>1 DEF Session
<1>5. PICK d \in Seq(S), t \in Seq(S), g \in Seq(S), o \in Seq(S), b \in Seq(S) :
          d = down[i] /\ t = sv[i].out /\ g = got[i] /\ o = stdout[i] /\ b = cl[i].data
    BY <1>3 DEF TypedSession
<1>6. /\ \A p, q \in Seq(S) : Cat(p, q) \in Seq(S)
      /\ \A p, q, r \in Seq(S) : Cat(Cat(p, q), r) = Cat(p, Cat(q, r))
      /\ \A p \in Seq(S) : Cat(p, <<>>) = p
    BY Joins
<1>7. PICK e \in Seq(S) : e = Printed(i)
    <2>1. Cat(Cat(g, o), b) \in Seq(S)
        BY <1>6
    <2>2. QED
        BY <1>5, <2>1 DEF Printed, Cat
<1>8. CASE ~Running(i) /\ Serves(i, [sv[i] EXCEPT !.pc = "closed"]) /\ down' = down
    <2> DEFINE new == [sv[i] EXCEPT !.pc = "closed"]
    <2>1. /\ new.pc = "closed" /\ new.need = sv[i].need /\ new.done = sv[i].done
          /\ new.last = sv[i].last /\ new.out = sv[i].out /\ new.frag = sv[i].frag
          /\ new.rx = sv[i].rx /\ new.body = sv[i].body /\ new \in Thread
        BY <1>3 DEF Thread
    <2>2. Serves(i, new)
        BY <1>8
    <2> HIDE DEF new
    <2>3. Fits(i, new)
        BY <1>3, <2>1 DEF Fits
    <2>4. sv'[i] = new
        BY <2>2 DEF Serves, PumpInv, Shape
    <2>5. ~Running(i)' /\ Wire(i)' = Wire(i)
        BY <1>2, <1>8 DEF Running, Wire
    <2>6. EndsLast(i)'
        BY <2>5 DEF EndsLast
    <2>7. Reads(i, k)'
        BY <1>2, <1>4, <2>1, <2>4, <2>5, StreamKept
    <2>8. QED
        BY <1>1, <1>2, <1>3, <1>4, <1>8, <2>1, <2>2, <2>3, <2>6, <2>7, ThreadSteps
           DEF TypedSession, PumpInv, Shape
<1>9. CASE /\ Running(i) /\ Len(down[i]) < SockCap
           /\ LET n == Least(SockCap - Len(down[i]), Len(sv[i].out)) IN
               /\ down' = [down EXCEPT ![i] = @ \o Take(sv[i].out, n)]
               /\ Serves(i, [sv[i] EXCEPT
                    !.out = Drop(@, n),
                    !.pc = IF n < Len(sv[i].out) THEN @
                           ELSE IF sv[i].last THEN "closed" ELSE "reading"])
    <2>1. PICK dn \in Nat, m \in Nat : dn = Len(d) /\ m = Len(t)
        BY <1>5
    <2>2. PICK n : n = Least(SockCap - dn, m)
        OBVIOUS
    <2>3. n \in Nat /\ n <= m /\ dn + n <= SockCap
        <3>1. SockCap \in Nat
            BY PumpAssumption
        <3>2. dn < SockCap
            BY <1>5, <1>9, <2>1
        <3>3. QED
            BY <2>2, <3>1, <3>2 DEF Least
    <2>4. PICK x \in Seq(S), y \in Seq(S) :
              /\ x = Take(t, n) /\ y = Drop(t, n) /\ Len(x) = n /\ Cat(Cat(d, x), y) = Cat(d, t)
              /\ ~(n < m) => y = <<>>
        <3>1. n \in 0..Len(t)
            BY <2>1, <2>3
        <3>2. /\ Take(t, n) \in Seq(S) /\ Drop(t, n) \in Seq(S) /\ Len(Take(t, n)) = n
              /\ Cat(Cat(d, Take(t, n)), Drop(t, n)) = Cat(d, t)
            BY <3>1, Cut, Passes
        <3>3. ~(n < m) => n = m
            BY <2>3
        <3>4. n = m => Drop(t, n) = <<>>
            BY <2>1, Empty
        <3>5. QED
            BY <3>2, <3>3, <3>4
    <2>5. PICK z \in Seq(S) : z = Cat(d, x) /\ Len(z) = dn + n
        <3>1. Cat(d, x) \in Seq(S)
            BY <1>6
        <3>2. Len(d \o x) = Len(d) + Len(x)
            BY ConcatProperties
        <3>3. QED
            BY <2>1, <2>4, <3>1, <3>2 DEF Cat
    <2>6. z \in Seq(AnyParts) /\ y \in Seq(AnyParts)
        <3>1. 1..L \subseteq Int
            BY <1>1
        <3>2. Seq(1..L) \subseteq Seq(Int)
            BY <3>1, Wider
        <3>3. S \subseteq AnyParts
            BY <3>2 DEF Parts, AnyParts
        <3>4. QED
            BY <3>3, Wider
    <2> DEFINE pc == IF n < m THEN "writing" ELSE IF sv[i].last THEN "closed" ELSE "reading"
               new == [sv[i] EXCEPT !.out = y, !.pc = pc]
    <2>7. /\ pc \in {"writing", "closed", "reading"}
          /\ pc = "writing" => n < m
          /\ pc = "closed" => sv[i].last /\ y = <<>>
          /\ pc = "reading" => ~sv[i].last /\ y = <<>>
        BY <2>4
    <2>8. Serves(i, new) /\ down' = [down EXCEPT ![i] = z]
        BY <1>2, <1>5, <1>9, <2>1, <2>2, <2>4, <2>5 DEF Cat
    <2> HIDE DEF pc
    <2>9. /\ new.pc = pc /\ new.need = sv[i].need /\ new.done = sv[i].done
          /\ new.last = sv[i].last /\ new.out = y /\ new.frag = sv[i].frag
          /\ new.rx = sv[i].rx /\ new.body = sv[i].body /\ new \in Thread
        BY <1>3, <2>6, <2>7 DEF Thread
    <2> HIDE DEF new
    <2>10. Fits(i, new)
        BY <1>3, <2>7, <2>9 DEF Fits
    <2>11. sv'[i] = new
        BY <2>8 DEF Serves, PumpInv, Shape
    <2>12. /\ down'[i] = z /\ down' \in [Sessions -> Seq(AnyParts)]
           /\ \A j \in Sessions \ {i} : down'[j] = down[j]
        BY <2>6, <2>8 DEF PumpInv, Shape
    <2>13. /\ NoEN(i)' = NoEN(i) /\ Running(i)' = Running(i) /\ ~Closed(i)
           /\ Closed(i)' => sv[i].last
           /\ Wire(i)' = Wire(i) /\ Expected(i)' = Expected(i) /\ Printed(i)' = e
        BY <1>2, <1>7, <2>7, <2>9, <2>11, SameScript DEF Running, Closed, Wire, Printed
    <2>14. EndsLast(i)'
        BY <1>1, <2>9, <2>11, <2>13 DEF Session, EndsLast
    <2>15. Reads(i, k)'
        BY <1>2, <1>4, <2>9, <2>11, <2>13, StreamKept
    <2>16. /\ Emitted(i)' = Cat(e, z) /\ Emitted(i) = Cat(e, d) /\ Cat(e, z) \in Seq(S)
           /\ Cat(Cat(e, z), y) = Cat(Cat(e, d), t)
        <3>1. Cat(Cat(e, z), y) = Cat(e, Cat(z, y)) /\ Cat(Cat(e, d), t) = Cat(e, Cat(d, t))
            BY <1>6
        <3>2. Cat(z, y) = Cat(d, t)
            BY <2>4, <2>5
        <3>3. Emitted(i)' = Cat(e, z) /\ Emitted(i) = Cat(e, d)
            BY <1>5, <1>7, <2>12, <2>13 DEF Emitted, Cat
        <3>4. QED
            BY <1>6, <3>1, <3>2, <3>3
    <2>17. y = <<>> => Emitted(i)' = Cat(Emitted(i), t)
        BY <1>6, <2>16
    <2>18. Cat(Emitted(i)', y) = Cat(Emitted(i), t)
        BY <2>16
    <2> DEFINE stock == Stock(script[i])
    <2>19. \/ /\ Cat(Emitted(i), t) = stock[k].out /\ sv[i].last = ~stock[k].open
              /\ sv[i].body = <<>> /\ stock[k].body = <<>>
           \/ sv[i].last /\ Cat(Emitted(i), t) = Expected(i)
        BY <1>2, <1>4, <1>5, <1>9 DEF Engine, Cat
    <2>20. (~stock[k].open => Expected(i) = stock[k].out) /\ stock[k].open \in BOOLEAN
        BY <1>1, Expects
    <2>21. Engine(i, k)'
        <3>1. CASE pc = "writing"
            <4>1. \/ /\ Emitted(i)' \o sv'[i].out = stock[k].out /\ sv'[i].last = ~stock[k].open
                     /\ sv'[i].body = <<>> /\ stock[k].body = <<>>
                  \/ sv'[i].last /\ Emitted(i)' \o sv'[i].out = Expected(i)
                BY <2>9, <2>11, <2>18, <2>19 DEF Cat
            <4>2. QED
                BY <1>2, <2>9, <2>11, <2>13, <3>1, <4>1 DEF Engine
        <3>2. CASE pc = "reading"
            <4>1. Emitted(i)' = stock[k].out /\ sv'[i].body = stock[k].body /\ stock[k].open
                BY <2>7, <2>9, <2>11, <2>17, <2>19, <2>20, <3>2
            <4>2. QED
                BY <1>2, <2>9, <2>11, <2>13, <3>2, <4>1 DEF Engine
        <3>3. CASE pc = "closed"
            <4>1. Emitted(i)' = Expected(i)
                BY <2>7, <2>17, <2>19, <2>20, <3>3
            <4>2. QED
                BY <1>2, <2>9, <2>11, <2>13, <3>3, <4>1 DEF Engine
        <3>4. QED
            BY <2>7, <3>1, <3>2, <3>3
    <2>22. QED
        BY <1>1, <1>2, <1>3, <1>4, <2>3, <2>5, <2>8, <2>9, <2>10, <2>12, <2>14, <2>15, <2>21, ThreadSteps
           DEF TypedSession, PumpInv, Shape
<1>10. QED
    BY <1>8, <1>9 DEF Writes

\* The reader has taken the first n tokens of the socket.
Taken(i, n) ==
    /\ up' \in [Sessions -> Seq(Int)] /\ \A j \in Sessions \ {i} : up'[j] = up[j]
    /\ up'[i] \in Seq(Tokens(i)) /\ Len(up'[i]) <= SockCap
    /\ Wire(i) \in Seq(Int) /\ Wire(i)' \in Seq(Int)
    /\ \E x \in Seq(Int) : /\ x = Take(up[i], n) /\ Len(x) = n
                           /\ Wire(i) = Cat(x, Wire(i)')
                           /\ \A j \in 1..n : x[j] = Wire(i)[j] /\ x[j] \in Tokens(i)

\* What the reader takes is the beginning of the wire.
LEMMA Takes ==
    ASSUME PumpInv, NEW i \in Opened, NEW n \in 0..Len(up[i]),
           up' = [up EXCEPT ![i] = Drop(up[i], n)], cl' = cl
    PROVE  Taken(i, n)
<1>1. i \in Sessions /\ TypedSession(i) /\ Len(script[i]) \in Nat
    BY Scripted DEF PumpInv, Shape, Session
<1>2. Tokens(i) \subseteq Int
    BY <1>1, PumpAssumption DEF Tokens, Header
<1>3. PICK u \in Seq(Tokens(i)), p \in Seq(Tokens(i)) : u = up[i] /\ p = cl[i].pending
    BY <1>1 DEF TypedSession
<1>4. n \in 0..Len(u)
    BY <1>3
<1>5. PICK x \in Seq(Tokens(i)), y \in Seq(Tokens(i)) :
          /\ x = Take(u, n) /\ y = Drop(u, n) /\ Len(x) = n /\ Len(y) = Len(u) - n /\ u = Cat(x, y)
          /\ \A j \in 1..n : x[j] = u[j]
    BY <1>4, Cut DEF Cat
<1>6. /\ \A a, b, c \in Seq(Tokens(i)) : Cat(Cat(a, b), c) = Cat(a, Cat(b, c))
      /\ \A a, b \in Seq(Tokens(i)) : Cat(a, b) \in Seq(Tokens(i))
    BY Joins
<1>7. PICK w \in Seq(Tokens(i)), v \in Seq(Tokens(i)) : w = Cat(u, p) /\ v = Cat(y, p) /\ w = Cat(x, v)
    BY <1>5, <1>6
<1>8. up'[i] = y /\ up' = [up EXCEPT ![i] = y]
    BY <1>1, <1>3, <1>5 DEF PumpInv, Shape
<1>9. Wire(i) = w /\ Wire(i)' = v
    BY <1>3, <1>7, <1>8 DEF Wire, Cat
<1>10. x \in Seq(Int) /\ w \in Seq(Int) /\ v \in Seq(Int) /\ y \in Seq(Int)
    BY <1>2, Wider
<1>11. \A j \in 1..n : x[j] = w[j] /\ x[j] \in Tokens(i)
    <2>1. /\ Len(x \o v) = Len(x) + Len(v)
          /\ \A j \in 1..(Len(x) + Len(v)) : (x \o v)[j] = IF j <= Len(x) THEN x[j] ELSE v[j - Len(x)]
        BY ConcatProperties
    <2>2. PICK m \in Nat : m = Len(v)
        OBVIOUS
    <2>3. n \in Nat /\ \A j \in 1..n : j \in 1..(n + m) /\ j <= n
        OBVIOUS
    <2>4. \A j \in 1..n : (x \o v)[j] = x[j]
        BY <1>5, <2>1, <2>2, <2>3
    <2>5. \A j \in 1..Len(x) : x[j] \in Tokens(i)
        OBVIOUS
    <2>6. QED
        BY <1>5, <1>7, <2>4, <2>5 DEF Cat
<1>12. Len(y) <= SockCap
    <2>1. Len(up[i]) <= SockCap
        BY <1>1, Zenon DEF TypedSession
    <2>2. Len(u) <= SockCap
        BY <1>3, <2>1, Zenon
    <2>3. SockCap \in Nat
        BY Limits
    <2>4. PICK a \in Nat : a = Len(u)
        OBVIOUS
    <2>5. a - n <= SockCap
        BY <2>2, <2>3, <2>4
    <2>6. QED
        BY <1>5, <2>4, <2>5
<1>13. up' \in [Sessions -> Seq(Int)] /\ \A j \in Sessions \ {i} : up'[j] = up[j]
    BY <1>8, <1>10 DEF PumpInv, Shape
<1>14. x = Take(up[i], n)
    BY <1>3, <1>5
<1>15. QED
    BY <1>5, <1>7, <1>8, <1>9, <1>10, <1>11, <1>12, <1>13, <1>14 DEF Taken

\* l and r are the parse from after the first n tokens.
After(n, v, l, r, lines, rest) == \A j \in 0..Len(v) : l[j] = lines[j + n] /\ r[j] = rest[j + n]

\* The rest of a running session's wire is linked to the host as the wire was.
LEMMA LinkLeft ==
    ASSUME NEW i, NEW w \in Seq(Int), NEW v \in Seq(Int), NEW n \in Nat, n >= 1,
           NEW lines \in [0..Len(w) -> Nat], NEW rest \in [0..Len(w) -> Nat], Linked(i, w, lines, rest),
           Len(w) = n + Len(v), NEW l, NEW r, After(n, v, l, r, lines, rest),
           script' = script, sent'[i] = sent[i], hung'[i] = hung[i], stdin'[i] = stdin[i], cl' = cl,
           ~sv[i].done, sv'[i].done => ~cl[i].stdinOpen /\ v = <<>>,
           ~cl[i].stdinOpen /\ v = <<>> => sv'[i].done
    PROVE  Linked(i, v, l, r)'
<1>1. PICK V \in Nat, W \in Nat : V = Len(v) /\ W = Len(w) /\ W = n + V
    OBVIOUS
<1>2. /\ rest[W] = 0 /\ sent[i] = lines[W] + Len(stdin[i])
      /\ \A j \in 1..Len(stdin[i]) : stdin[i][j] = lines[W] + j
      /\ \A j \in 1..W : rest[j - 1] = 0 /\ rest[j] = 0 => j = W /\ ~cl[i].stdinOpen
      /\ ~cl[i].stdinOpen => stdin[i] = <<>> /\ sent[i] = Len(script[i]) /\ rest[W - 1] = 0
      /\ hung[i] => sent[i] = Len(script[i])
    BY <1>1 DEF Linked
<1>3. \A j \in 0..V : l[j] = lines[j + n] /\ r[j] = rest[j + n]
    BY <1>1 DEF After
<1>4. l[V] = lines[W] /\ r[V] = rest[W]
    <2>1. V \in 0..V /\ V + n = W
        BY <1>1
    <2>2. QED
        BY <1>3, <2>1
<1>5. ASSUME NEW j \in 1..V, r[j - 1] = 0, r[j] = 0
      PROVE  j = V /\ ~cl[i].stdinOpen
    <2>1. /\ j \in 0..V /\ j - 1 \in 0..V /\ j + n \in 1..W /\ (j - 1) + n = (j + n) - 1
        BY <1>1
    <2>2. rest[(j + n) - 1] = 0 /\ rest[j + n] = 0
        BY <1>3, <1>5, <2>1
    <2>3. j + n = W /\ ~cl[i].stdinOpen
        BY <1>2, <2>1, <2>2
    <2>4. QED
        BY <1>1, <2>3
<1>6. ASSUME v # <<>>, ~cl[i].stdinOpen PROVE r[V - 1] = 0
    <2>1. V # 0
        BY <1>1, <1>6, EmptySeq
    <2>2. V - 1 \in 0..V /\ (V - 1) + n = W - 1
        BY <1>1, <2>1
    <2>3. QED
        BY <1>2, <1>3, <1>6, <2>2
<1>7. QED
    BY <1>1, <1>2, <1>4, <1>5, <1>6 DEF Linked

\* A read that goes on does not end the session.
LEMMA ReadsNext ==
    ASSUME NEW i, Session(i), script' = script, cl' = cl, sv[i].pc = "reading", ~sv[i].done,
           sv'[i].pc = "reading", sv'[i].last = sv[i].last
    PROVE  EndsLast(i)'
<1>1. NoEN(i)' = NoEN(i) /\ Running(i)' = Running(i)
    BY SameScript DEF Running
<1>2. ~Closed(i)'
    BY DEF Closed
<1>3. QED
    BY <1>1, <1>2 DEF Session, EndsLast

\* A header tells its number of lines.
LEMMA Headers ==
    \A z \in Nat : /\ -Header(z) = z /\ (Header(z) = StreamEnd => z = 0)
                  /\ (z <= Chunk => z \in 0..Chunk)
BY PumpAssumption DEF Header, StreamEnd

LEMMA Nothing ==
    ASSUME NEW S, NEW q \in Seq(S), 1 = 1 + Len(q)
    PROVE  q = <<>>
<1>1. PICK m \in Nat : m = Len(q)
    OBVIOUS
<1>2. m = 0
    BY <1>1
<1>3. QED
    BY <1>1, <1>2, EmptySeq

\* FrameReader takes the header of a frame.
LEMMA ReadsHeaderKeeps ==
    ASSUME PumpInv, NEW i \in Sessions, sv[i].pc = "reading", sv[i].rx = <<>>, ~sv[i].done,
           up[i] # <<>>, sv[i].need = 0, up' = [up EXCEPT ![i] = Tail(@)],
           Serves(i, [sv[i] EXCEPT !.need = -Head(up[i]), !.done = Head(up[i]) = StreamEnd]),
           UNCHANGED <<hostVars, stdin, stdout, cl, down, lock>>
    PROVE  PumpInv'
<1> DEFINE L == Len(script[i])
           new == [sv[i] EXCEPT !.need = -Head(up[i]), !.done = Head(up[i]) = StreamEnd]
<1>1. i \in Opened /\ Session(i) /\ script \in Scripts /\ L \in Nat
    BY Acts, Scripted DEF Closed
<1>2. /\ script' = script /\ sent' = sent /\ hung' = hung /\ got' = got /\ stdin' = stdin
      /\ stdout' = stdout /\ cl' = cl /\ down' = down /\ lock' = lock /\ Serves(i, new)
    BY DEF hostVars
<1>3. TypedSession(i) /\ Fits(i, sv[i]) /\ sv[i] \in Thread
    BY <1>1, ThreadFits DEF Session, PumpInv, Shape
<1>4. PICK k \in 0..L : Reads(i, k) /\ (Running(i) => Engine(i, k))
    BY <1>1 DEF Session
<1>5. Head(up[i]) = up[i][1] /\ Tail(up[i]) = Drop(up[i], 1) /\ 1 \in 0..Len(up[i])
    BY <1>3, First DEF TypedSession
<1>6. Taken(i, 1)
    <2>1. up' = [up EXCEPT ![i] = Drop(up[i], 1)]
        BY <1>5
    <2>2. QED
        BY <1>1, <1>2, <1>5, <2>1, Takes
<1>7. PICK w \in Seq(Int), v \in Seq(Int), x \in Seq(Int) :
          /\ w = Wire(i) /\ v = Wire(i)' /\ x = Take(up[i], 1) /\ Len(x) = 1 /\ w = Cat(x, v)
          /\ x[1] = w[1] /\ x[1] = up[i][1]
    <2>1. 1 \in 1..1
        OBVIOUS
    <2>2. PICK u \in Seq(Tokens(i)) : u = up[i] /\ 1 \in 0..Len(u)
        BY <1>3, <1>5 DEF TypedSession
    <2>3. Take(u, 1)[1] = u[1]
        BY <2>1, <2>2, Cut
    <2>4. QED
        BY <1>6, <2>1, <2>2, <2>3 DEF Taken
<1>8. PICK lines, rest \in [0..Len(w) -> Nat] :
          /\ Parses(w, lines, rest) /\ rest[0] = 0
          /\ Running(i) => Linked(i, w, lines, rest) /\ InHand(i, k, lines[0])
    BY <1>4, <1>7 DEF Reads
<1>9. Remains(v, lines, rest, 1) /\ Len(w) = 1 + Len(v)
    <2>1. Remains(v, lines, rest, Len(x)) /\ Len(w) = Len(x) + Len(v)
        BY <1>7, <1>8, WireDrops
    <2>2. QED
        BY <1>7, <2>1
<1>10. PICK l \in [0..Len(v) -> Nat], r \in [0..Len(v) -> Nat] :
           Parses(v, l, r) /\ \A j \in 0..Len(v) : l[j] = lines[j + 1] /\ r[j] = rest[j + 1]
    BY <1>9 DEF Remains
<1>11. 0 \in 0..Len(v) /\ 0 + 1 = 1 /\ 1 \in 1..Len(w) /\ 1 - 1 = 0
    BY <1>9
<1>12. PICK z \in Nat : z = rest[1] /\ r[0] = z /\ l[0] = lines[1]
    BY <1>10, <1>11
<1>13. z <= Chunk /\ w[1] = Header(z) /\ lines[1] = lines[0]
    <2>1. \/ rest[1 - 1] > 0
          \/ rest[1 - 1] = 0 /\ rest[1] <= Chunk /\ w[1] = Header(rest[1]) /\ lines[1] = lines[1 - 1]
        BY <1>8, <1>11 DEF Parses
    <2>2. QED
        BY <1>8, <1>11, <1>12, <2>1
<1>14. /\ -Head(up[i]) = z /\ (Head(up[i]) = StreamEnd => z = 0) /\ (z = 0 => Head(up[i]) = StreamEnd)
       /\ z \in 0..Chunk
    <2>1. Head(up[i]) = Header(z) /\ z <= Chunk
        BY <1>5, <1>7, <1>13, Zenon
    <2>2. -Header(z) = z /\ (Header(z) = StreamEnd => z = 0) /\ (z <= Chunk => z \in 0..Chunk)
        BY Headers, Zenon
    <2>3. z = 0 => Header(z) = StreamEnd
        BY Zenon DEF StreamEnd
    <2>4. QED
        BY <2>1, <2>2, <2>3, Zenon
<1>15. /\ new.pc = "reading" /\ new.need = z /\ new.done \in BOOLEAN /\ new.last = sv[i].last
       /\ new.out = sv[i].out /\ new.frag = sv[i].frag /\ new.rx = <<>> /\ new.body = sv[i].body
       /\ new \in Thread /\ (new.done => z = 0) /\ (z = 0 => new.done)
    <2>1. PICK end \in BOOLEAN : end = (Head(up[i]) = StreamEnd)
        OBVIOUS
    <2>2. new = [sv[i] EXCEPT !.need = z, !.done = end]
        BY <1>14, <2>1
    <2>3. z \in Int
        OBVIOUS
    <2> HIDE DEF new
    <2>4. QED
        BY <1>3, <1>14, <2>1, <2>2, <2>3 DEF Thread
<1> HIDE DEF new
<1>16. Fits(i, new)
    BY <1>3, <1>14, <1>15 DEF Fits
<1>17. sv'[i] = new
    BY <1>2 DEF Serves, PumpInv, Shape
<1>18. EndsLast(i)'
    BY <1>1, <1>2, <1>15, <1>17, ReadsNext
<1>19. Running(i)' = Running(i) /\ Emitted(i)' = Emitted(i)
    BY <1>2 DEF Running, Emitted, Printed
<1>20. ASSUME Running(i) PROVE Linked(i, v, l, r)' /\ InHand(i, k, l[0])'
    <2>1. Linked(i, w, lines, rest) /\ InHand(i, k, lines[0])
        BY <1>8, <1>20
    <2>2. InHand(i, k, l[0])'
        <3>1. sv[i].frag = <<>>
            BY <2>1 DEF InHand
        <3>2. QED
            BY <1>12, <1>13, <1>15, <1>17, <2>1, <3>1 DEF InHand
    <2>3. z = 0 => ~cl[i].stdinOpen /\ Len(w) = 1
        BY <1>8, <1>11, <1>12, <2>1 DEF Linked
    <2>4. Len(w) = 1 => v = <<>>
        <3>1. 1 = 1 + Len(v) => v = <<>>
            BY Nothing
        <3>2. QED
            BY <1>9, <3>1, Zenon
    <2>5. ~cl[i].stdinOpen /\ v = <<>> => z = 0
        <3>1. v = <<>> => Len(w) = 1
            BY <1>9
        <3>2. rest[Len(w)] = 0
            BY <2>1 DEF Linked
        <3>3. QED
            BY <1>12, <3>1, <3>2
    <2>6. sv'[i].done => ~cl[i].stdinOpen /\ v = <<>>
        BY <1>15, <1>17, <2>3, <2>4
    <2>7. ~cl[i].stdinOpen /\ v = <<>> => sv'[i].done
        BY <1>15, <1>17, <2>5
    <2>8. 1 \in Nat /\ 1 >= 1
        OBVIOUS
    <2>9. Linked(i, v, l, r)'
        <3>1. After(1, v, l, r, lines, rest)
            BY <1>10 DEF After
        <3>2. QED
            BY <1>2, <1>8, <1>9, <2>1, <2>6, <2>7, <2>8, <3>1, LinkLeft
    <2>10. QED
        BY <2>2, <2>9
<1>21. Reads(i, k)'
    BY <1>7, <1>10, <1>12, <1>15, <1>17, <1>19, <1>20 DEF Reads
<1>22. Running(i) => Engine(i, k)'
    BY <1>2, <1>4, <1>15, <1>17, <1>19, ThreadKept
<1>23. QED
    BY <1>1, <1>2, <1>3, <1>4, <1>6, <1>15, <1>16, <1>18, <1>21, <1>22, ThreadSteps
       DEF Taken, TypedSession, PumpInv, Shape

\* The lines after the first a.
Numbered(q, a) == \A j \in 1..Len(q) : q[j] = a + j
Continues(x, f, a) == \A j \in 1..Len(x) : x[j] = (a + Len(f)) + j

\* The lines of the frame that have arrived join those there are.
LEMMA LinesJoin ==
    ASSUME NEW a \in Nat, NEW L \in Nat, NEW f \in Seq(1..L), NEW x \in Seq(1..L),
           Numbered(f, a), Continues(x, f, a)
    PROVE  /\ Cat(f, x) \in Seq(1..L) /\ Len(Cat(f, x)) = Len(f) + Len(x)
           /\ Numbered(Cat(f, x), a)
<1>1. PICK m \in Nat, n \in Nat : m = Len(f) /\ n = Len(x)
    OBVIOUS
<1>0. (\A j \in 1..m : f[j] = a + j) /\ \A j \in 1..n : x[j] = (a + m) + j
    BY <1>1 DEF Numbered, Continues
<1>2. /\ f \o x \in Seq(1..L) /\ Len(f \o x) = Len(f) + Len(x)
      /\ \A j \in 1..(Len(f) + Len(x)) : (f \o x)[j] = IF j <= Len(f) THEN f[j] ELSE x[j - Len(f)]
    BY ConcatProperties
<1>3. Len(f \o x) = m + n /\ \A j \in 1..(m + n) : (f \o x)[j] = IF j <= m THEN f[j] ELSE x[j - m]
    BY <1>1, <1>2
<1>4. ASSUME NEW j \in 1..(m + n) PROVE (f \o x)[j] = a + j
    <2>1. CASE j <= m
        BY <1>0, <1>3, <2>1
    <2>2. CASE ~(j <= m)
        <3>1. j - m \in 1..n /\ (a + m) + (j - m) = a + j
            BY <1>1, <2>2
        <3>2. x[j - m] = (a + m) + (j - m)
            BY <1>0, <3>1
        <3>3. QED
            BY <1>3, <2>2, <3>1, <3>2
    <2>3. QED
        BY <2>1, <2>2
<1>5. QED
    BY <1>1, <1>2, <1>3, <1>4 DEF Cat, Numbered

LEMMA Narrow ==
    ASSUME NEW S, NEW T, NEW q \in Seq(S), NEW n \in Nat, Len(q) = n, \A j \in 1..n : q[j] \in T
    PROVE  q \in Seq(T)
<1>1. q \in [1..n -> S]
    BY LenProperties
<1>2. q \in [1..n -> T]
    BY <1>1
<1>3. QED
    BY <1>2, SeqDef

\* FrameReader takes what has arrived of a frame's lines: n of them, which
\* makes z of the frame.
TakesBody(i, n, z) ==
    /\ sv[i].pc = "reading" /\ sv[i].rx = <<>> /\ ~sv[i].done
    /\ up[i] # <<>> /\ sv[i].need > 0 /\ n = Least(sv[i].need, Len(up[i]))
    /\ z = Cat(sv[i].frag, Take(up[i], n)) /\ up' = [up EXCEPT ![i] = Drop(@, n)]
    /\ Serves(i, IF n = sv[i].need
                 THEN [sv[i] EXCEPT !.need = 0, !.frag = <<>>, !.rx = z]
                 ELSE [sv[i] EXCEPT !.need = @ - n, !.frag = z])
    /\ UNCHANGED <<hostVars, stdin, stdout, cl, down, lock>>

LEMMA ReadsBodyKeeps ==
    ASSUME PumpInv, NEW i \in Sessions, NEW n, NEW z, TakesBody(i, n, z)
    PROVE  PumpInv'
<1> DEFINE L == Len(script[i])
           full == [sv[i] EXCEPT !.need = 0, !.frag = <<>>, !.rx = z]
           part == [sv[i] EXCEPT !.need = @ - n, !.frag = z]
           new == IF n = sv[i].need THEN full ELSE part
<1>1. i \in Opened /\ Session(i) /\ script \in Scripts /\ L \in Nat
    BY Acts, Scripted DEF TakesBody, Closed
<1>2. /\ script' = script /\ sent' = sent /\ hung' = hung /\ got' = got /\ stdin' = stdin
      /\ stdout' = stdout /\ cl' = cl /\ down' = down /\ lock' = lock /\ Serves(i, new)
      /\ sv[i].pc = "reading" /\ sv[i].rx = <<>> /\ ~sv[i].done
    BY DEF TakesBody, hostVars
<1>3. TypedSession(i) /\ Fits(i, sv[i]) /\ sv[i] \in Thread
    BY <1>1, ThreadFits DEF Session, PumpInv, Shape
<1>4. PICK k \in 0..L : Reads(i, k) /\ (Running(i) => Engine(i, k))
    BY <1>1 DEF Session
<1>5. PICK m \in Nat, c \in Nat : m = sv[i].need /\ c = Len(up[i]) /\ m <= Chunk /\ m > 0 /\ c > 0
    <2>1. PICK u \in Seq(Tokens(i)) : u = up[i]
        BY <1>3 DEF TypedSession
    <2>2. PICK c \in Nat : c = Len(u)
        OBVIOUS
    <2>3. u # <<>> /\ sv[i].need > 0
        BY <2>1 DEF TakesBody
    <2>4. c # 0
        BY <2>2, <2>3, EmptySeq
    <2>5. QED
        BY <1>3, <2>1, <2>2, <2>3, <2>4, PumpAssumption DEF Fits
<1>6. n \in Nat /\ n >= 1 /\ n <= m /\ n \in 0..c /\ n \in 1..m
    <2>1. n = Least(m, c)
        BY <1>5 DEF TakesBody
    <2>2. QED
        BY <1>5, <2>1 DEF Least
<1>7. Taken(i, n)
    <2>1. up' = [up EXCEPT ![i] = Drop(up[i], n)]
        BY DEF TakesBody
    <2>2. QED
        BY <1>1, <1>2, <1>5, <1>6, <2>1, Takes
<1>8. PICK w \in Seq(Int), v \in Seq(Int), x \in Seq(Int) :
          /\ w = Wire(i) /\ v = Wire(i)' /\ x = Take(up[i], n) /\ Len(x) = n /\ w = Cat(x, v)
          /\ \A j \in 1..n : x[j] = w[j] /\ x[j] \in Tokens(i)
    BY <1>7 DEF Taken
<1>9. PICK lines, rest \in [0..Len(w) -> Nat] :
          /\ Parses(w, lines, rest) /\ rest[0] = m
          /\ Running(i) => Linked(i, w, lines, rest) /\ InHand(i, k, lines[0])
    BY <1>4, <1>5, <1>8 DEF Reads
<1>10. Remains(v, lines, rest, n) /\ Len(w) = n + Len(v)
    <2>1. Remains(v, lines, rest, Len(x)) /\ Len(w) = Len(x) + Len(v)
        BY <1>8, <1>9, WireDrops
    <2>2. QED
        BY <1>8, <2>1
<1>11. PICK l \in [0..Len(v) -> Nat], r \in [0..Len(v) -> Nat] :
           Parses(v, l, r) /\ After(n, v, l, r, lines, rest)
    BY <1>10 DEF Remains, After
<1>12. PICK V \in Nat, W \in Nat : V = Len(v) /\ W = Len(w) /\ W = n + V
    BY <1>10
<1>13. n \in 0..Len(w) /\ n - 1 \in 0..Len(w)
    BY <1>6, <1>12
<1>14. PICK b \in Nat : b = lines[0] /\ lines \in [0..W -> Nat]
    <2>1. 0 \in 0..W
        OBVIOUS
    <2>2. QED
        BY <1>12, <2>1
<1>15. lines[n] = b + n /\ rest[n] = m - n /\ \A j \in 1..n : w[j] = b + j
    BY <1>6, <1>9, <1>13, <1>14, FrameBody
<1>16. rest[n - 1] = m - (n - 1)
    <2>1. n - 1 <= m
        BY <1>6
    <2>2. QED
        BY <1>9, <1>13, <2>1, FrameBody
<1>17. l[0] = b + n /\ r[0] = m - n
    <2>1. 0 \in 0..Len(v) /\ 0 + n = n
        BY <1>6, <1>12
    <2>2. QED
        BY <1>11, <1>15, <2>1 DEF After
<1>18. x \in Seq(1..L)
    <2>1. ASSUME NEW j \in 1..n PROVE x[j] \in 1..L
        <3>1. x[j] = b + j /\ x[j] \in Tokens(i)
            BY <1>8, <1>15
        <3>2. b + j > 0
            BY <1>6
        <3>3. \A h \in Nat : ~(Header(h) > 0)
            BY DEF Header
        <3>4. \A h \in 0..Chunk : h \in Nat
            BY PumpAssumption
        <3>5. QED
            BY <3>1, <3>2, <3>3, <3>4 DEF Tokens
    <2>2. QED
        BY <1>6, <1>8, <2>1, Narrow
<1>19. PICK f \in Seq(1..L) : f = sv[i].frag
    BY <1>3 DEF Fits
<1>20. z = Cat(f, x) /\ z \in Seq(1..L)
    BY <1>8, <1>18, <1>19, Joins DEF TakesBody
<1>21. z \in Seq(Int) /\ <<>> \in Seq(Int) /\ <<>> \in Seq(1..L)
    <2>1. 1..L \subseteq Int
        BY <1>1
    <2>2. QED
        BY <1>20, <2>1, Wider
<1>22. m - n \in 0..Chunk /\ m - n \in Int
    <2>1. Chunk \in Nat
        BY PumpAssumption
    <2>2. m - n \in Nat
        BY <1>6
    <2>3. QED
        BY <1>5, <1>6, <2>1, <2>2
<1>23. /\ full.pc = sv[i].pc /\ full.need = 0 /\ full.done = sv[i].done /\ full.last = sv[i].last
       /\ full.out = sv[i].out /\ full.frag = <<>> /\ full.rx = z /\ full.body = sv[i].body
       /\ full \in Thread
    <2>1. 0 \in Int
        OBVIOUS
    <2>2. QED
        BY <1>3, <1>21, <2>1 DEF Thread
<1>24. /\ part.pc = sv[i].pc /\ part.need = m - n /\ part.done = sv[i].done /\ part.last = sv[i].last
       /\ part.out = sv[i].out /\ part.frag = z /\ part.rx = sv[i].rx /\ part.body = sv[i].body
       /\ part \in Thread
    BY <1>3, <1>5, <1>21, <1>22 DEF Thread
<1>25. /\ new.pc = "reading" /\ new.need = m - n /\ ~new.done /\ new.done \in BOOLEAN
       /\ new.last = sv[i].last /\ new.out = sv[i].out /\ new.body = sv[i].body /\ new \in Thread
       /\ n = m => new.frag = <<>> /\ new.rx = z
       /\ n # m => new.frag = z /\ new.rx = <<>>
    <2>1. CASE n = m
        <3>1. new = full /\ m - n = 0
            BY <1>5, <2>1
        <3> HIDE DEF new, full, part
        <3>2. QED
            BY <1>2, <1>3, <1>23, <2>1, <3>1, Zenon DEF Fits
    <2>2. CASE n # m
        <3>1. new = part
            BY <1>5, <2>2
        <3> HIDE DEF new, full, part
        <3>2. QED
            BY <1>2, <1>3, <1>24, <2>2, <3>1, Zenon DEF Fits
    <2>3. QED
        BY <2>1, <2>2
<1> HIDE DEF new, full, part
<1>26. Fits(i, new)
    BY <1>3, <1>20, <1>21, <1>22, <1>25 DEF Fits
<1>27. sv'[i] = new
    BY <1>2 DEF Serves, PumpInv, Shape
<1>28. EndsLast(i)'
    BY <1>1, <1>2, <1>25, <1>27, ReadsNext
<1>29. Running(i)' = Running(i) /\ Emitted(i)' = Emitted(i)
    BY <1>2 DEF Running, Emitted, Printed
<1>30. ASSUME Running(i) PROVE Linked(i, v, l, r)' /\ InHand(i, k, l[0])'
    <2>1. Linked(i, w, lines, rest) /\ InHand(i, k, b)
        BY <1>9, <1>14, <1>30
    <2>2. PICK g \in Nat : g = Len(f)
        OBVIOUS
    <2>3. b = k + g /\ \A j \in 1..Len(f) : f[j] = k + j
        <3>1. b = k + Len(<<>>) + g /\ \A j \in 1..g : f[j] = k + Len(<<>>) + j
            BY <1>2, <1>19, <2>1, <2>2 DEF InHand
        <3>2. Len(<<>>) = 0 /\ k \in Nat
            BY <1>1
        <3>3. QED
            BY <2>2, <3>1, <3>2
    <2>4. Len(z) = g + n /\ \A j \in 1..Len(z) : z[j] = k + j
        <3>1. k \in Nat /\ \A j \in 1..n : x[j] = b + j
            BY <1>1, <1>8, <1>15
        <3>2. b = k + Len(f) /\ Len(x) = n
            BY <1>8, <2>2, <2>3
        <3>3. Numbered(f, k) /\ Continues(x, f, k)
            BY <2>3, <3>1, <3>2 DEF Numbered, Continues
        <3>4. Len(Cat(f, x)) = Len(f) + Len(x) /\ Numbered(Cat(f, x), k)
            <4>1. PICK M \in Nat : M = L /\ f \in Seq(1..M) /\ x \in Seq(1..M)
                BY <1>1, <1>18
            <4>2. QED
                BY <3>1, <3>3, <4>1, LinesJoin
        <3>5. QED
            BY <1>20, <2>2, <3>2, <3>4 DEF Numbered
    <2>5. InHand(i, k, l[0])'
        <3>1. l[0] = k + (g + n) /\ Len(<<>>) = 0 /\ k \in Nat
            BY <1>1, <1>6, <1>17, <2>3
        <3>2. \A j \in 1..Len(<<>>) : FALSE
            OBVIOUS
        <3>3. CASE n = m
            <4>1. l[0] = k + Len(z) + Len(<<>>) /\ m - n = 0
                BY <1>6, <2>2, <2>4, <3>1, <3>3
            <4>2. QED
                BY <1>25, <1>27, <2>4, <3>2, <3>3, <4>1 DEF InHand
        <3>4. CASE n # m
            <4>1. l[0] = k + Len(<<>>) + Len(z) /\ m - n # 0 /\ \A j \in 1..Len(z) : z[j] = k + Len(<<>>) + j
                BY <1>6, <2>2, <2>4, <3>1, <3>4
            <4>2. QED
                BY <1>25, <1>27, <3>2, <3>4, <4>1 DEF InHand
        <3>5. QED
            BY <3>3, <3>4
    <2>6. ~(~cl[i].stdinOpen /\ v = <<>>)
        <3>1. SUFFICES ASSUME ~cl[i].stdinOpen, v = <<>> PROVE FALSE
            OBVIOUS
        <3>2. W = n
            BY <1>6, <1>12, <3>1
        <3>3. rest[n - 1] = 0
            BY <1>2, <1>12, <2>1, <3>1, <3>2 DEF Linked
        <3>4. QED
            BY <1>6, <1>16, <3>3
    <2>7. ~sv'[i].done
        BY <1>25, <1>27
    <2>8. Linked(i, v, l, r)'
        BY <1>2, <1>6, <1>9, <1>10, <1>11, <2>1, <2>6, <2>7, LinkLeft
    <2>9. QED
        BY <2>5, <2>8
<1>31. Reads(i, k)'
    BY <1>8, <1>11, <1>17, <1>25, <1>27, <1>29, <1>30 DEF Reads
<1>32. Running(i) => Engine(i, k)'
    BY <1>2, <1>4, <1>25, <1>27, <1>29, ThreadKept
<1>33. QED
    BY <1>1, <1>2, <1>3, <1>4, <1>7, <1>25, <1>26, <1>28, <1>31, <1>32, ThreadSteps
       DEF Taken, TypedSession, PumpInv, Shape

\* FrameReader meets the end of the peer's stream.
MeetsEnd(i) ==
    /\ sv[i].pc = "reading" /\ sv[i].rx = <<>> /\ ~sv[i].done
    /\ up[i] = <<>> /\ ~Running(i)
    /\ Serves(i, [sv[i] EXCEPT !.done = TRUE, !.frag = <<>>])
    /\ UNCHANGED up
    /\ UNCHANGED <<hostVars, stdin, stdout, cl, down, lock>>

LEMMA MeetsEndKeeps ==
    ASSUME PumpInv, NEW i \in Sessions, MeetsEnd(i)
    PROVE  PumpInv'
<1> DEFINE L == Len(script[i])
           new == [sv[i] EXCEPT !.done = TRUE, !.frag = <<>>]
<1>1. i \in Opened /\ Session(i) /\ script \in Scripts /\ L \in Nat
    BY Acts, Scripted DEF MeetsEnd, Closed
<1>2. /\ script' = script /\ sent' = sent /\ hung' = hung /\ got' = got /\ stdin' = stdin
      /\ stdout' = stdout /\ cl' = cl /\ up' = up /\ down' = down /\ lock' = lock
      /\ Serves(i, new) /\ ~Running(i)
    BY DEF MeetsEnd, hostVars
<1>3. TypedSession(i) /\ Fits(i, sv[i]) /\ sv[i] \in Thread
    BY <1>1, ThreadFits DEF Session, PumpInv, Shape
<1>4. <<>> \in Seq(Int) /\ <<>> \in Seq(1..L)
    OBVIOUS
<1>5. /\ new.pc = sv[i].pc /\ new.need = sv[i].need /\ new.done = TRUE /\ new.last = sv[i].last
      /\ new.out = sv[i].out /\ new.frag = <<>> /\ new.rx = sv[i].rx /\ new.body = sv[i].body
      /\ new \in Thread
    BY <1>3, <1>4 DEF Thread
<1> HIDE DEF new
<1>6. Fits(i, new)
    BY <1>3, <1>4, <1>5 DEF Fits
<1>7. sv'[i] = new
    BY <1>2 DEF Serves, PumpInv, Shape
<1>8. ~Running(i)' /\ Wire(i)' = Wire(i)
    BY <1>2 DEF Running, Wire
<1>9. EndsLast(i)'
    BY <1>8 DEF EndsLast
<1>10. PICK k \in 0..L : Reads(i, k)
    BY <1>1 DEF Session
<1>11. Reads(i, k)'
    BY <1>5, <1>7, <1>8, <1>10 DEF Reads
<1>12. QED
    BY <1>1, <1>2, <1>3, <1>5, <1>6, <1>9, <1>10, <1>11, ThreadSteps
       DEF TypedSession, PumpInv, Shape

\* FrameReader._next, whatever it meets.
LEMMA ReadsFrameKeeps ==
    ASSUME PumpInv, NEW i \in Sessions, ReadsFrame(i)
    PROVE  PumpInv'
<1>1. CASE /\ up[i] # <<>> /\ sv[i].need = 0
           /\ Serves(i, [sv[i] EXCEPT !.need = -Head(up[i]), !.done = Head(up[i]) = StreamEnd])
           /\ up' = [up EXCEPT ![i] = Tail(@)]
    BY <1>1, ReadsHeaderKeeps DEF ReadsFrame
<1>2. CASE /\ up[i] # <<>> /\ sv[i].need > 0
           /\ LET n == Least(sv[i].need, Len(up[i]))
                  frag == sv[i].frag \o Take(up[i], n)
              IN /\ Serves(i, IF n = sv[i].need
                              THEN [sv[i] EXCEPT !.need = 0, !.frag = <<>>, !.rx = frag]
                              ELSE [sv[i] EXCEPT !.need = @ - n, !.frag = frag])
                 /\ up' = [up EXCEPT ![i] = Drop(@, n)]
    <2> DEFINE n == Least(sv[i].need, Len(up[i]))
               z == Cat(sv[i].frag, Take(up[i], n))
    <2>1. TakesBody(i, n, z)
        BY <1>2 DEF ReadsFrame, TakesBody, Cat
    <2>2. QED
        BY <2>1, ReadsBodyKeeps
<1>3. CASE /\ up[i] = <<>> /\ ~Running(i)
           /\ Serves(i, [sv[i] EXCEPT !.done = TRUE, !.frag = <<>>])
           /\ UNCHANGED up
    <2>1. MeetsEnd(i)
        BY <1>3 DEF ReadsFrame, MeetsEnd
    <2>2. QED
        BY <2>1, MeetsEndKeeps
<1>4. QED
    BY <1>1, <1>2, <1>3 DEF ReadsFrame

-----------------------------------------------------------------------------
(* The invariant.                                                          *)

\* Every step keeps the invariant.
LEMMA PumpStep ==
    PumpInv /\ [Next]_vars => PumpInv'
<1>1. SUFFICES ASSUME PumpInv, [Next]_vars PROVE PumpInv'
    OBVIOUS
<1>2. CASE UNCHANGED vars
    <2>1. \A j : Same(j)
        BY <1>2 DEF vars, hostVars, Same
    <2>2. Shape' /\ Opened' = Opened
        BY <1>1, <1>2 DEF vars, hostVars, PumpInv, Shape, Opened
    <2>3. \A j \in Sessions \ Opened : Unopened(j)'
        BY <1>1, <1>2 DEF vars, hostVars, PumpInv, Unopened
    <2>4. \A j \in Opened : Session(j)'
        BY <1>1, <2>1, SameKeeps DEF PumpInv
    <2>5. QED
        BY <2>2, <2>3, <2>4 DEF PumpInv
<1>3. ASSUME NEW i \in Sessions,
             \/ Host(i) \/ HostReads(i) \/ ReadStdin(i) \/ SendPending(i)
             \/ RecvAnswer(i) \/ PrintAnswer(i) \/ ClientDies(i) \/ Server(i)
      PROVE  PumpInv'
    <2>1. CASE HostWrites(i)
        BY <1>1, <2>1, HostWritesKeeps
    <2>2. CASE HostHangsUp(i)
        BY <1>1, <2>2, HostHangsUpKeeps
    <2>3. CASE HostReads(i)
        BY <1>1, <2>3, HostReadsKeeps
    <2>4. CASE ReadStdin(i)
        BY <1>1, <2>4, ReadStdinKeeps
    <2>5. CASE SendPending(i)
        BY <1>1, <2>5, SendPendingKeeps
    <2>6. CASE RecvAnswer(i)
        BY <1>1, <2>6, RecvAnswerKeeps
    <2>7. CASE PrintAnswer(i)
        BY <1>1, <2>7, PrintAnswerKeeps
    <2>8. CASE ClientDies(i)
        BY <1>1, <2>8, ClientDiesKeeps
    <2>9. CASE ReadsFrame(i)
        BY <1>1, <2>9, ReadsFrameKeeps
    <2>10. CASE TakesLine(i)
        BY <1>1, <2>10, TakesLineKeeps
    <2>11. CASE EndsInput(i)
        BY <1>1, <2>11, EndsInputKeeps
    <2>12. CASE TakesLock(i)
        BY <1>1, <2>12, TakesLockKeeps
    <2>13. CASE Solves(i)
        BY <1>1, <2>13, SolvesKeeps
    <2>14. CASE Writes(i)
        BY <1>1, <2>14, WritesKeeps
    <2>15. QED
        BY <1>3, <2>1, <2>2, <2>3, <2>4, <2>5, <2>6, <2>7, <2>8, <2>9, <2>10, <2>11, <2>12,
           <2>13, <2>14 DEF Host, Server
<1>4. QED
    BY <1>1, <1>2, <1>3 DEF Next, Finished

\* A part of a sequence from its start is a prefix of it.
LEMMA Prefix ==
    ASSUME NEW S, NEW p \in Seq(S), NEW u \in Seq(S), NEW w, w = p \o u
    PROVE  IsPrefix(p, w)
<1>1. PICK n \in Nat, m \in Nat : n = Len(p) /\ m = Len(u)
    OBVIOUS
<1>2. w \in Seq(S) /\ Len(w) = n + m /\ n <= n + m
    BY <1>1, ConcatProperties
<1>3. \A j \in 1..n : w[j] = p[j]
    <2>1. \A j \in 1..(Len(p) + Len(u)) : (p \o u)[j] = IF j <= Len(p) THEN p[j] ELSE u[j - Len(p)]
        BY ConcatProperties
    <2>2. \A j \in 1..n : j \in 1..(n + m) /\ j <= n
        OBVIOUS
    <2>3. QED
        BY <1>1, <2>1, <2>2
<1>4. n \in 0..Len(w)
    BY <1>2
<1>5. /\ Take(w, n) \in Seq(S) /\ Len(Take(w, n)) = n
      /\ \A j \in 1..n : Take(w, n)[j] = w[j]
    <2>1. w \in Seq(S)
        BY <1>2
    <2>2. QED
        BY <2>1, <1>4, Cut
<1>6. Take(w, n) = p
    BY <1>1, <1>3, <1>5, SeqEqual
<1>7. Take(p, n) = p
    BY <1>1, Empty
<1>8. QED
    BY <1>1, <1>2, <1>6, <1>7 DEF IsPrefix, Take

\* The sessions start in it.
LEMMA PumpInit ==
    Init => PumpInv
<1>1. SUFFICES ASSUME Init PROVE PumpInv
    OBVIOUS
<1>2. /\ script \in Scripts /\ lock = None /\ Opened \subseteq Sessions
      /\ \A i \in Opened : Len(script[i]) \in Nat /\ Parts(i) = PartsOf(Len(script[i]))
    BY <1>1, Scripted DEF Init
<1>3. <<Greeting>> \in Seq(AnyParts) /\ \A S : <<>> \in Seq(S)
    <2>1. Greeting \in AnyParts
        BY DEF AnyParts
    <2>2. QED
        BY <2>1
<1>4. ASSUME NEW i \in Sessions
      PROVE  /\ sent[i] = 0 /\ hung[i] = FALSE /\ got[i] = <<>> /\ stdin[i] = <<>> /\ stdout[i] = <<>>
             /\ up[i] = <<>> /\ down[i] = <<>>
             /\ cl[i].pc = (IF i \in Opened THEN "select" ELSE "idle") /\ cl[i].pending = <<>>
             /\ cl[i].stdinOpen = TRUE /\ cl[i].data = <<>>
             /\ sv[i].pc = (IF i \in Opened THEN "writing" ELSE "closed") /\ sv[i].need = 0
             /\ sv[i].frag = <<>> /\ sv[i].rx = <<>> /\ sv[i].done = FALSE /\ sv[i].body = <<>>
             /\ sv[i].out = <<Greeting>> /\ sv[i].last = FALSE
    BY <1>1 DEF Init
<1>5. Shape
    <2>1. cl \in [Sessions -> Client]
        BY <1>1, <1>3 DEF Init, Client
    <2>2. sv \in [Sessions -> Thread]
        BY <1>1, <1>3 DEF Init, Thread
    <2>3. QED
        BY <1>1, <1>2, <1>3, <2>1, <2>2 DEF Init, Shape
<1>6. \A i \in Sessions \ Opened : Unopened(i)
    BY <1>4 DEF Unopened
<1>7. ASSUME NEW i \in Opened PROVE Session(i)
    <2> DEFINE L == Len(script[i])
    <2>1. L \in Nat /\ i \in Sessions /\ <<Greeting>> \in Seq(Parts(i))
        <3>1. <<>> \in Seq(1..L)
            OBVIOUS
        <3>2. QED
            BY <1>2, <3>1, AnswerTyped
    <2>2. /\ cl[i].pc = "select" /\ sv[i].pc = "writing" /\ Running(i) /\ ~Closed(i)
        BY <1>4, <2>1 DEF Running, Closed
    <2>3. TypedSession(i)
        <3>1. /\ 0 \in 0..L /\ 0 \in 0..Chunk /\ 0 <= PipeCap /\ 0 <= SockCap /\ 0 <= HighWater + Chunk
              /\ Len(<<>>) = 0
            BY <2>1, PumpAssumption
        <3>2. /\ \A S : <<>> \in Seq(S)
              /\ \A S : {<<>>} \subseteq Seq(S)
            BY <1>3
        <3>3. {sv[i].frag, sv[i].rx, sv[i].body} = {<<>>}
            BY <1>4, <2>1
        <3>4. QED
            BY <1>4, <2>1, <2>2, <3>1, <3>2, <3>3, Zenon DEF TypedSession
    <2>4. EndsLast(i) /\ Leaves(i)
        BY <1>4, <2>1, <2>2 DEF EndsLast, Leaves
    <2>5. <<>> \o <<>> = <<>> /\ <<>> \o <<Greeting>> = <<Greeting>>
        BY <2>1, <1>3, ConcatEmptySeq
    <2>6. Wire(i) = <<>> /\ Emitted(i) = <<>>
        <3>1. /\ up[i] = <<>> /\ cl[i].pending = <<>> /\ down[i] = <<>> /\ stdout[i] = <<>> /\ got[i] = <<>>
              /\ sv[i].out = <<Greeting>> /\ cl[i].data = <<>>
            BY <1>4, <2>1
        <3>2. QED
            BY <2>5, <3>1, Zenon DEF Wire, Emitted, Printed
    <2>7. Reads(i, 0)
        <3> DEFINE zero == [j \in 0..0 |-> 0]
        <3>1. zero \in [0..0 -> Nat] /\ zero[0] = 0
            OBVIOUS
        <3>2. Len(<<>>) = 0 /\ \A j \in 1..0 : FALSE
            OBVIOUS
        <3> HIDE DEF zero
        <3>3. Parses(<<>>, zero, zero)
            BY <3>2 DEF Parses
        <3>4. Linked(i, <<>>, zero, zero)
            <4>1. zero[Len(<<>>)] = 0 /\ sent[i] = zero[Len(<<>>)] + Len(stdin[i])
                <5>1. sent[i] = 0 /\ stdin[i] = <<>>
                    BY <1>4, <2>1, Zenon
                <5>2. Len(stdin[i]) = 0 /\ zero[Len(<<>>)] = 0 /\ 0 = 0 + 0
                    BY <3>1, <3>2, <5>1
                <5>3. QED
                    BY <5>1, <5>2, Zenon
            <4>2. \A j \in 1..Len(<<>>) : FALSE
                BY <3>2
            <4>3. (\A j \in 1..Len(stdin[i]) : FALSE) /\ ~hung[i] /\ ~sv[i].done /\ cl[i].stdinOpen
                BY <1>4, <2>1, <4>2
            <4>4. QED
                BY <4>1, <4>2, <4>3 DEF Linked
        <3>5. InHand(i, 0, 0)
            <4>1. 0 = 0 + Len(sv[i].rx) + Len(sv[i].frag)
                <5>1. sv[i].rx = <<>> /\ sv[i].frag = <<>>
                    BY <1>4, <2>1, Zenon
                <5>2. Len(sv[i].rx) = 0 /\ Len(sv[i].frag) = 0 /\ 0 = 0 + 0 + 0
                    BY <3>2, <5>1
                <5>3. QED
                    BY <5>2, Zenon
            <4>2. (\A j \in 1..Len(sv[i].rx) : FALSE) /\ \A j \in 1..Len(sv[i].frag) : FALSE
                BY <1>4, <2>1, <3>2
            <4>3. sv[i].rx = <<>> /\ sv[i].frag = <<>>
                BY <1>4, <2>1
            <4>4. QED
                BY <4>1, <4>2, <4>3 DEF InHand
        <3>6. zero \in [0..Len(<<>>) -> Nat]
            BY <3>1, <3>2
        <3>7. QED
            BY <1>4, <2>1, <2>6, <3>1, <3>3, <3>4, <3>5, <3>6 DEF Reads
    <2>8. Engine(i, 0)
        <3>1. Stock(script[i])[0] = Fresh
            BY <2>1, StockSteps
        <3>2. Fresh.out = <<Greeting>> /\ Fresh.body = <<>> /\ Fresh.open
            BY DEF Fresh
        <3>3. QED
            BY <1>4, <2>1, <2>2, <2>5, <2>6, <3>1, <3>2 DEF Engine
    <2>9. 0 \in 0..L
        BY <2>1
    <2>10. QED
        BY <1>4, <2>1, <2>3, <2>4, <2>7, <2>8, <2>9 DEF Session
<1>8. QED
    BY <1>5, <1>6, <1>7 DEF PumpInv

\* A host has read a beginning of the printout of its script.
LEMMA PrintsBeginning ==
    ASSUME PumpInv, NEW i \in Opened
    PROVE  IsPrefix(Printed(i), Expected(i))
<1> DEFINE S == Parts(i)
<1>1. Session(i) /\ TypedSession(i) /\ script \in Scripts
    BY DEF PumpInv, Shape, Session
<1>2. PICK k \in 0..Len(script[i]) : Running(i) => Engine(i, k)
    BY <1>1 DEF Session
<1>3. \E u \in Seq(S) : Expected(i) = Printed(i) \o u
    <2>1. CASE Running(i)
        BY <1>1, <1>2, <2>1, Begins
    <2>2. CASE ~Running(i)
        BY <1>1, <2>2 DEF Session, Leaves
    <2>3. QED
        BY <2>1, <2>2
<1>4. Printed(i) \in Seq(S)
    <2>1. PICK g \in Seq(S), o \in Seq(S), d \in Seq(S) : g = got[i] /\ o = stdout[i] /\ d = cl[i].data
        BY <1>1 DEF TypedSession
    <2>2. Cat(Cat(g, o), d) \in Seq(S)
        BY Joins
    <2>3. QED
        BY <2>1, <2>2 DEF Printed, Cat
<1>5. QED
    BY <1>3, <1>4, Prefix

-----------------------------------------------------------------------------
(* The theorems.                                                           *)

\* Whatever order hosts, clients and threads run in and whichever clients are
\* killed: between a host's pipe and run_session every line is in one place,
\* framed and in order, and the thread stands where the stock engine stands.
THEOREM PumpInvariant == Spec => []PumpInv
<1>1. Init => PumpInv
    BY PumpInit
<1>2. PumpInv /\ [Next]_vars => PumpInv'
    BY PumpStep
<1>3. QED
    BY <1>1, <1>2, PTL DEF Spec

\* pump never holds more than its high-water mark and one read for the socket,
\* and no pipe or socket buffer holds more than its room.
THEOREM BuffersKeepTheirRoom == Spec => []TypeOK
<1>1. PumpInv => TypeOK
    BY DEF PumpInv, Shape, Session, TypeOK
<1>2. QED
    BY <1>1, PumpInvariant, PTL

\* What a host reads through pump, FrameReader and run_session is the printout
\* of its own script, in order, as far as it goes, however frames and buffers
\* cut it and whatever the other sessions do.
THEOREM HostsReadTheirPrintout == Spec => []InOrder
<1>1. PumpInv => InOrder
    BY PrintsBeginning DEF InOrder
<1>2. QED
    BY <1>1, PumpInvariant, PTL

\* A client that returned from pump by itself, in a session whose script has no
\* EN, has handed its host the whole printout, whatever the other sessions'
\* scripts have.
THEOREM ClientsDrain ==
    Spec => [](\A i \in Opened : NoEN(i) /\ cl[i].pc = "ended" => Printed(i) = Expected(i))
<1>1. PumpInv => \A i \in Opened : NoEN(i) /\ cl[i].pc = "ended" => Printed(i) = Expected(i)
    BY DEF PumpInv, Session, Leaves, Running
<1>2. QED
    BY <1>1, PumpInvariant, PTL

\* Where no script has an EN, pump drains the remaining output before it goes.
\* With an EN the server may close while the client still sends, and pump
\* returns from the failed send with answers unread.
THEOREM OutputIsDrained ==
    ASSUME \A given \in Scripts : \A i \in DOMAIN given : \A k \in 1..Len(given[i]) : given[i][k] # "EN"
    PROVE  Spec => []Drained
<1>1. PumpInv => Drained
    <2>1. SUFFICES ASSUME PumpInv, NEW i \in Opened, cl[i].pc = "ended"
                   PROVE  Printed(i) = Expected(i)
        BY DEF Drained
    <2>2. NoEN(i)
        BY <2>1 DEF NoEN, Opened, PumpInv, Shape
    <2>3. QED
        BY <2>1, <2>2 DEF PumpInv, Session, Leaves, Running
<1>2. QED
    BY <1>1, PumpInvariant, PTL
=============================================================================
