----------------------------- MODULE Nec5Proofs -----------------------------
(***************************************************************************)
(* Proofs about the two ways to the NEC-5 engine.  EznecLadder, for any    *)
(* choice of its decks and however the answer is cut into receives: what   *)
(* stands in the two files when the client ends.  Nec5Stream, for any      *)
(* texts and however the host cuts its writes: the printouts of the        *)
(* stream against those of a file.                                         *)
(***************************************************************************)
EXTENDS EznecLadder, Nec5Stream, Integers, SequenceTheorems, NaturalsInduction, WellFoundedInduction, TLAPS

Parts == {"open", "geometry", "end", "close", "header", "body"}

\* The k-th part of an answer with a .GMO frame, and of one without.
GmoPart(k) == IF k = 1 THEN "open" ELSE IF k = 2 THEN "geometry" ELSE IF k = 3 THEN "end"
              ELSE IF k = 4 THEN "close" ELSE IF k = 5 THEN "header" ELSE "body"
PlainPart(k) == IF k = 1 THEN "header" ELSE "body"

\* A file that holds the text, or the first parts of it.
Cut(file, whole) == \E n \in 0..Len(whole) : file = SubSeq(whole, 1, n)

Typed ==
    /\ deck \in Decks /\ mortal \in BOOLEAN /\ foreign \in BOOLEAN /\ pc \in PCs
    /\ srv \in {"solving", "sending", "closed"}
    /\ child \in {"none", "gmo", "printout", "report", "ended"}
    /\ status \in {"ok", "bad"} /\ said \in BOOLEAN

\* No part of the answer is lost on the way, and a server that is not killed
\* closes only when all of it is sent.
Wires ==
    /\ answer \in Seq(Parts) /\ wire \in Seq(Parts) /\ unsent \in Seq(Parts)
    /\ answer \o wire \o unsent = Answer
    /\ srv = "closed" /\ ~mortal => unsent = <<>>

Contents ==
    /\ gmo = Old \/ Cut(gmo, Geometry)
    /\ printout = Old \/ Cut(printout, Refusal) \/ Cut(printout, Printout)

\* An answer that is about to be written is there, its frame is closed, and it
\* is the whole answer unless the server died.
AnswerTaken ==
    pc \in {"gmo", "printout"} =>
        /\ answer # <<>>
        /\ Framed => Contains(answer, FrameEnd[1])
        /\ ~mortal => answer = Answer

\* The child runs while the client waits for it, and after no rung but the
\* third.
Turns ==
    /\ pc \in {"reading", "receiving", "gmo", "printout", "oneshot"} => child = "none"
    /\ pc \in {"lastditch", "exit", "traceback"} => child \in {"none", "ended"}
    /\ pc = "waiting" => child # "none"

\* A whole printout is written after the geometry, by the client and by the
\* child: while the geometry may still change, the printout is not whole.
Order ==
    /\ pc \in {"reading", "receiving", "gmo", "printout", "oneshot"} => printout # Printout
    /\ child = "gmo" => printout # Printout
    /\ (pc = "printout" \/ child = "printout") /\ WantsGmo => gmo = Geometry
    /\ WantsGmo /\ printout = Printout => gmo = Geometry

\* What a child that ended well, and a client that ended, leave in the printout.
Endings ==
    /\ pc = "waiting" /\ child = "ended" /\ status = "ok" /\ ~said =>
         printout \in {Refusal, Printout}
    /\ Answered
    /\ LeftWhole

LadderInv == Typed /\ Wires /\ Contents /\ AnswerTaken /\ Turns /\ Order /\ Endings

-----------------------------------------------------------------------------
LEMMA PartsAre ==
    /\ FrameStart \in Seq(Parts) /\ Len(FrameStart) = 1 /\ FrameStart[1] = "open"
    /\ Geometry \in Seq(Parts) /\ Len(Geometry) = 2
    /\ Geometry[1] = "geometry" /\ Geometry[2] = "end"
    /\ FrameEnd \in Seq(Parts) /\ Len(FrameEnd) = 1 /\ FrameEnd[1] = "close"
    /\ Printout \in Seq(Parts) /\ Len(Printout) = 2
    /\ Printout[1] = "header" /\ Printout[2] = "body"
BY DEF FrameStart, FrameEnd, Geometry, Printout, Parts

LEMMA AnswerIs ==
    /\ Answer \in Seq(Parts)
    /\ WantsGmo => Len(Answer) = 6 /\ \A k \in 1..6 : Answer[k] = GmoPart(k)
    /\ ~WantsGmo => Len(Answer) = 2 /\ \A k \in 1..2 : Answer[k] = PlainPart(k)
<1>1. FrameStart \o Geometry \in Seq(Parts)
  BY PartsAre, ConcatProperties
<1>2. (FrameStart \o Geometry) \o FrameEnd \in Seq(Parts)
  BY <1>1, PartsAre, ConcatProperties
<1>3. ((FrameStart \o Geometry) \o FrameEnd) \o Printout \in Seq(Parts)
  BY <1>2, PartsAre, ConcatProperties
<1>4. Answer \in Seq(Parts)
  BY <1>3, PartsAre DEF Answer
<1>5. ASSUME WantsGmo
      PROVE  Len(Answer) = 6 /\ \A k \in 1..6 : Answer[k] = GmoPart(k)
  <2>1. Len(Answer) = 6
    BY <1>5 DEF Answer, FrameStart, Geometry, FrameEnd, Printout
  <2>2. /\ Answer[1] = "open" /\ Answer[2] = "geometry" /\ Answer[3] = "end"
        /\ Answer[4] = "close" /\ Answer[5] = "header" /\ Answer[6] = "body"
    BY <1>5 DEF Answer, FrameStart, Geometry, FrameEnd, Printout
  <2>3. \A k \in 1..6 : k = 1 \/ k = 2 \/ k = 3 \/ k = 4 \/ k = 5 \/ k = 6
    OBVIOUS
  <2>4. \A k \in 1..6 : Answer[k] = GmoPart(k)
    BY <2>2, <2>3 DEF GmoPart
  <2> QED BY <2>1, <2>4
<1>6. ASSUME ~WantsGmo
      PROVE  Len(Answer) = 2 /\ \A k \in 1..2 : Answer[k] = PlainPart(k)
  <2>1. Answer = Printout
    BY <1>6 DEF Answer
  <2> QED BY <2>1, PartsAre DEF PlainPart
<1> QED BY <1>4, <1>5, <1>6

\* What has been received is the first so many parts of the answer.
LEMMA ReceivedIs ==
    ASSUME answer \in Seq(Parts), wire \in Seq(Parts), unsent \in Seq(Parts),
           answer \o wire \o unsent = Answer
    PROVE  /\ Len(Answer) = Len(answer) + Len(wire) + Len(unsent)
           /\ \A k \in 1..Len(answer) : answer[k] = Answer[k]
<1> DEFINE both == answer \o wire
<1>1. /\ both \in Seq(Parts) /\ Len(both) = Len(answer) + Len(wire)
      /\ \A k \in 1..Len(answer) : both[k] = answer[k]
  BY ConcatProperties
<1>2. both \o unsent = Answer
  OBVIOUS
<1> HIDE DEF both
<1>a. both \in Seq(Parts)
  BY <1>1
<1>b. /\ both \o unsent \in Seq(Parts)
      /\ Len(both \o unsent) = Len(both) + Len(unsent)
      /\ \A i \in 1 .. Len(both) + Len(unsent) : (both \o unsent)[i] =
                     IF i <= Len(both) THEN both[i] ELSE unsent[i - Len(both)]
  BY <1>a, ConcatProperties, Zenon
<1>3. /\ Len(both \o unsent) = Len(both) + Len(unsent)
      /\ \A k \in 1..Len(both) + Len(unsent) :
           (both \o unsent)[k] = IF k <= Len(both) THEN both[k] ELSE unsent[k - Len(both)]
  BY <1>b
<1>4. Len(answer) \in Nat /\ Len(wire) \in Nat /\ Len(unsent) \in Nat
  OBVIOUS
<1>5. \A k \in 1..Len(both) : Answer[k] = both[k]
  BY <1>1, <1>2, <1>3, <1>4
<1>6. \A k \in 1..Len(answer) : Answer[k] = answer[k]
  BY <1>1, <1>4, <1>5
<1> QED BY <1>1, <1>2, <1>3, <1>6

\* The parts received, one by one.
LEMMA ReceivedParts ==
    ASSUME answer \in Seq(Parts), wire \in Seq(Parts), unsent \in Seq(Parts),
           answer \o wire \o unsent = Answer
    PROVE  /\ Len(answer) \in Nat
           /\ WantsGmo =>
                /\ Len(answer) <= 6
                /\ \A k \in 1..Len(answer) : answer[k] = GmoPart(k)
           /\ ~WantsGmo =>
                /\ Len(answer) <= 2
                /\ \A k \in 1..Len(answer) : answer[k] = PlainPart(k)
<1>0. PICK n \in Nat : n = Len(answer)
  OBVIOUS
<1>1. Len(wire) \in Nat /\ Len(unsent) \in Nat
  OBVIOUS
<1>2. n <= Len(Answer)
  BY <1>0, <1>1, ReceivedIs
<1>3. \A k \in 1..n : answer[k] = Answer[k]
  BY <1>0, ReceivedIs
<1>4. CASE WantsGmo
  <2>1. Len(Answer) = 6
    BY <1>4, AnswerIs
  <2>2. \A k \in 1..n : answer[k] = GmoPart(k)
    <3>1. \A k \in 1..6 : Answer[k] = GmoPart(k)
      BY <1>4, AnswerIs
    <3>2. 1..n \subseteq 1..6
      BY <1>2, <2>1
    <3> QED BY <1>3, <3>1, <3>2
  <2> QED BY <1>0, <1>2, <1>4, <2>1, <2>2
<1>5. CASE ~WantsGmo
  <2>1. Len(Answer) = 2
    BY <1>5, AnswerIs
  <2>2. \A k \in 1..n : answer[k] = PlainPart(k)
    <3>1. \A k \in 1..2 : Answer[k] = PlainPart(k)
      BY <1>5, AnswerIs
    <3>2. 1..n \subseteq 1..2
      BY <1>2, <2>1
    <3> QED BY <1>3, <3>1, <3>2
  <2> QED BY <1>0, <1>2, <1>5, <2>1, <2>2
<1> QED BY <1>4, <1>5

\* A text cut after n parts.
LEMMA CutIs ==
    ASSUME NEW S, NEW whole \in Seq(S), NEW n \in 0..Len(whole)
    PROVE  /\ SubSeq(whole, 1, n) \in Seq(S)
           /\ Len(SubSeq(whole, 1, n)) = n
           /\ \A i \in 1..n : SubSeq(whole, 1, n)[i] = whole[i]
           /\ n < Len(whole) => SubSeq(whole, 1, n) # whole
           /\ n = Len(whole) => SubSeq(whole, 1, n) = whole
           /\ IsPrefix(SubSeq(whole, 1, n), whole)
<1> DEFINE cut == SubSeq(whole, 1, n)
<1>1. \A i \in 1..n : whole[i] \in S
  BY ElementOfSeq
<1> HIDE DEF cut
<1>2. cut \in Seq(S) /\ Len(cut) = n /\ \A i \in 1..n : cut[i] = whole[i]
  <2>1. n \in Nat /\ n \in Int /\ 1 \in Int
    OBVIOUS
  <2>2. /\ cut \in Seq(S) /\ Len(cut) = (IF 1 <= n THEN n - 1 + 1 ELSE 0)
        /\ \A i \in 1..n - 1 + 1 : cut[i] = whole[1 + i - 1]
    BY <1>1, <2>1, SubSeqProperties DEF cut
  <2>3. \A i \in 1..n : i \in 1..n - 1 + 1 /\ 1 + i - 1 = i
    BY <2>1
  <2>4. Len(cut) = n
    BY <2>1, <2>2
  <2> QED BY <2>2, <2>3, <2>4
<1>3. SubSeq(whole, 1, Len(whole)) = whole
  BY SubSeqFull
<1>4. SubSeq(cut, 1, Len(cut)) = cut
  BY <1>2, SubSeqFull
<1>5. IsPrefix(cut, whole)
  BY <1>2, <1>4 DEF IsPrefix, cut
<1>6. n < Len(whole) => cut # whole
  BY <1>2
<1>7. n = Len(whole) => cut = whole
  BY <1>3 DEF cut
<1> QED BY <1>2, <1>5, <1>6, <1>7, Zenon DEF cut

\* No part of an answer, nor a refusal, is a file of an earlier calculation.
LEMMA NotOld ==
    /\ \A s \in Seq(Parts) : s # Old /\ s # Refusal
    /\ Refusal # Old
BY DEF Parts, Old, Refusal

LEMMA CutPrintout ==
    ASSUME NEW n \in 0..2
    PROVE  /\ SubSeq(Printout, 1, n) \in Seq(Parts)
           /\ Len(SubSeq(Printout, 1, n)) = n
           /\ \A i \in 1..n : SubSeq(Printout, 1, n)[i] = Printout[i]
<1>1. Printout \in Seq(Parts) /\ Len(Printout) = 2
  BY PartsAre
<1>2. n \in 0..Len(Printout)
  BY <1>1
<1> QED BY <1>1, <1>2, CutIs

\* A framed answer, of which the closing mark has arrived, is a whole geometry
\* and the first parts of a printout.
LEMMA FramedIs ==
    ASSUME answer \in Seq(Parts), wire \in Seq(Parts), unsent \in Seq(Parts),
           answer \o wire \o unsent = Answer,
           Framed, Contains(answer, FrameEnd[1])
    PROVE  /\ WantsGmo /\ \E n \in 4..6 : n = Len(answer)
           /\ SubSeq(answer, 2, Close - 1) = Geometry
           /\ SubSeq(answer, Close + 1, Len(answer)) = SubSeq(Printout, 1, Len(answer) - 4)
           /\ answer = Answer => SubSeq(answer, Close + 1, Len(answer)) = Printout
<1>0. PICK n \in Nat : n = Len(answer)
  OBVIOUS
<1>2. PICK c \in 1..n : answer[c] = "close"
  BY <1>0, PartsAre DEF Contains
<1>r. /\ WantsGmo => n <= 6 /\ \A k \in 1..n : answer[k] = GmoPart(k)
      /\ ~WantsGmo => n <= 2 /\ \A k \in 1..n : answer[k] = PlainPart(k)
  BY <1>0, ReceivedParts
<1>3. WantsGmo /\ c = 4
  <2>1. CASE ~WantsGmo
    <3>1. answer[c] = PlainPart(c)
      BY <2>1, <1>r
    <3> QED BY <3>1, <1>2 DEF PlainPart
  <2>2. CASE WantsGmo
    <3>1. answer[c] = GmoPart(c)
      BY <2>2, <1>r
    <3> QED BY <3>1, <1>2, <2>2 DEF GmoPart
  <2> QED BY <2>1, <2>2
<1>4. n \in 4..6
  BY <1>2, <1>3, <1>r
<1>1. /\ \A k \in 1..n : answer[k] = "close" <=> k = 4
      /\ answer[2] = "geometry" /\ answer[3] = "end"
      /\ n > 4 => answer[5] = "header"
      /\ n > 5 => answer[6] = "body"
  <2>1. \A k \in 1..n : answer[k] = GmoPart(k)
    BY <1>3, <1>r
  <2>2. \A k \in 1..n : GmoPart(k) = "close" <=> k = 4
    BY <1>4 DEF GmoPart
  <2>3. GmoPart(2) = "geometry" /\ GmoPart(3) = "end" /\ GmoPart(5) = "header" /\ GmoPart(6) = "body"
    BY DEF GmoPart
  <2> QED BY <1>4, <2>1, <2>2, <2>3
<1>5. Close = 4
  <2>1. DOMAIN answer = 1..n
    BY <1>0
  <2>2. \A k \in DOMAIN answer : answer[k] = FrameEnd[1] <=> k = 4
    BY <2>1, <1>1, PartsAre
  <2> QED BY <2>2, <2>1, <1>4 DEF Close
<1>a. \A i \in 1..n : answer[i] \in Parts
  BY <1>0, ElementOfSeq
<1>6. SubSeq(answer, 2, 3) = Geometry
  <2>1. /\ SubSeq(answer, 2, 3) \in Seq(Parts) /\ Len(SubSeq(answer, 2, 3)) = 2
        /\ \A i \in 1..2 : SubSeq(answer, 2, 3)[i] = answer[i + 1]
    BY <1>4, <1>a, SubSeqProperties
  <2>2. \A i \in 1..2 : SubSeq(answer, 2, 3)[i] = Geometry[i]
    BY <2>1, <1>1, PartsAre
  <2> QED BY <2>1, <2>2, PartsAre, SeqEqual
<1>7. SubSeq(answer, 5, n) = SubSeq(Printout, 1, n - 4)
  <2> DEFINE s == SubSeq(answer, 5, n)
             t == SubSeq(Printout, 1, n - 4)
  <2>1. /\ s \in Seq(Parts) /\ Len(s) = n - 4
        /\ \A i \in 1..n - 4 : s[i] = answer[5 + i - 1]
    BY <1>a, <1>4, SubSeqProperties
  <2>2. /\ t \in Seq(Parts) /\ Len(t) = n - 4
        /\ \A i \in 1..n - 4 : t[i] = Printout[i]
    BY <1>4, CutPrintout
  <2>3. \A i \in 1..n - 4 : answer[5 + i - 1] = Printout[i]
    <3>1. \A i \in 1..n - 4 : i = 1 \/ i = 2
      BY <1>4
    <3> QED BY <3>1, <1>1, <1>4, PartsAre
  <2> HIDE DEF s, t
  <2>4. s = t
    BY <2>1, <2>2, <2>3, SeqEqual
  <2> QED BY <2>4 DEF s, t
<1>8. SubSeq(Printout, 1, 2) = Printout
  BY PartsAre, CutIs
<1>9. answer = Answer => n = 6
  BY <1>0, <1>3, AnswerIs
<1>b. Close - 1 = 3 /\ Close + 1 = 5 /\ 6 - 4 = 2
  BY <1>5
<1>d. SubSeq(answer, Close + 1, Len(answer)) = SubSeq(Printout, 1, Len(answer) - 4)
  BY <1>0, <1>b, <1>7
<1>e. answer = Answer => SubSeq(answer, Close + 1, Len(answer)) = Printout
  BY <1>0, <1>b, <1>d, <1>8, <1>9
<1> QED BY <1>0, <1>3, <1>4, <1>6, <1>b, <1>d, <1>e

\* An answer that has no frame is the first parts of a printout, and its deck
\* asked for no .GMO file.
LEMMA UnframedIs ==
    ASSUME answer \in Seq(Parts), wire \in Seq(Parts), unsent \in Seq(Parts),
           answer \o wire \o unsent = Answer,
           ~Framed, answer # <<>>
    PROVE  /\ ~WantsGmo
           /\ \E n \in 0..2 : answer = SubSeq(Printout, 1, n)
           /\ answer = Answer => answer = Printout
<1>0. PICK n \in Nat : n = Len(answer)
  OBVIOUS
<1>1. n >= 1
  BY <1>0, EmptySeq
<1>2. ~WantsGmo
  <2> SUFFICES ASSUME WantsGmo PROVE FALSE
    OBVIOUS
  <2>0. answer[1] = "open"
    BY <1>0, <1>1, ReceivedParts DEF GmoPart
  <2>1. /\ SubSeq(answer, 1, 1) \in Seq(Parts) /\ Len(SubSeq(answer, 1, 1)) = 1
        /\ SubSeq(answer, 1, 1)[1] = answer[1]
    BY <1>0, <1>1, CutIs
  <2>2. \A i \in 1..1 : SubSeq(answer, 1, 1)[i] = FrameStart[i]
    BY <2>0, <2>1, PartsAre
  <2>3. SubSeq(answer, 1, 1) = FrameStart
    BY <2>1, <2>2, PartsAre, SeqEqual
  <2>4. SubSeq(FrameStart, 1, 1) = FrameStart
    BY PartsAre, CutIs
  <2> QED BY <2>3, <2>4, <1>0, <1>1, PartsAre DEF Framed, IsPrefix
<1>3. n \in 1..2 /\ answer[1] = "header" /\ (n > 1 => answer[2] = "body")
  BY <1>0, <1>1, <1>2, ReceivedParts DEF PlainPart
<1>4. answer = SubSeq(Printout, 1, n)
  <2> DEFINE t == SubSeq(Printout, 1, n)
  <2>1. t \in Seq(Parts) /\ Len(t) = n /\ \A i \in 1..n : t[i] = Printout[i]
    BY <1>3, CutPrintout
  <2>2. \A i \in 1..n : answer[i] = Printout[i]
    <3>1. \A i \in 1..n : i = 1 \/ i = 2
      BY <1>3
    <3> QED BY <3>1, <1>3, PartsAre
  <2> HIDE DEF t
  <2>3. answer = t
    BY <1>0, <2>1, <2>2, SeqEqual
  <2> QED BY <2>3 DEF t
<1>5. SubSeq(Printout, 1, 2) = Printout
  BY PartsAre, CutIs
<1>6. answer = Answer => n = 2
  BY <1>0, <1>2, AnswerIs
<1>7. n \in 0..2
  BY <1>3
<1>8. answer = Answer => answer = Printout
  BY <1>4, <1>5, <1>6
<1> QED BY <1>2, <1>4, <1>7, <1>8, Zenon
-----------------------------------------------------------------------------
(* What a write may leave.                                                 *)

LEMMA CutOfCut ==
    ASSUME NEW S, NEW whole \in Seq(S), NEW m \in 0..Len(whole), NEW n \in 0..m
    PROVE  SubSeq(SubSeq(whole, 1, m), 1, n) = SubSeq(whole, 1, n)
<1> DEFINE c == SubSeq(whole, 1, m)
<1>1. c \in Seq(S) /\ Len(c) = m /\ \A i \in 1..m : c[i] = whole[i]
  BY CutIs
<1>2. n \in 0..Len(c)
  BY <1>1
<1> HIDE DEF c
<1>3. /\ SubSeq(c, 1, n) \in Seq(S) /\ Len(SubSeq(c, 1, n)) = n
      /\ \A i \in 1..n : SubSeq(c, 1, n)[i] = c[i]
  BY <1>1, <1>2, CutIs
<1>4. /\ SubSeq(whole, 1, n) \in Seq(S) /\ Len(SubSeq(whole, 1, n)) = n
      /\ \A i \in 1..n : SubSeq(whole, 1, n)[i] = whole[i]
  BY CutIs
<1>5. \A i \in 1..n : SubSeq(c, 1, n)[i] = SubSeq(whole, 1, n)[i]
  BY <1>1, <1>3, <1>4
<1>6. SubSeq(c, 1, n) = SubSeq(whole, 1, n)
  BY <1>3, <1>4, <1>5, SeqEqual
<1> QED BY <1>6 DEF c

\* A write that does not raise leaves the text; one that raises leaves what
\* stood there, or a part of the text.
LEMMA WritingIs ==
    ASSUME NEW old, NEW whole, NEW w \in Writing(old, whole)
    PROVE  /\ w.raised \in BOOLEAN
           /\ ~w.raised => w.content = whole
           /\ w.raised => \/ w.content = old
                          \/ \E n \in 0..Len(whole) - 1 : w.content = SubSeq(whole, 1, n)
<1>1. \/ w = [content |-> old, raised |-> TRUE]
      \/ w = [content |-> whole, raised |-> FALSE]
      \/ \E n \in 0..Len(whole) - 1 : w = [content |-> SubSeq(whole, 1, n), raised |-> TRUE]
  BY DEF Writing
<1>2. CASE w = [content |-> old, raised |-> TRUE]
  BY <1>2
<1>3. CASE w = [content |-> whole, raised |-> FALSE]
  BY <1>3
<1>4. ASSUME NEW n \in 0..Len(whole) - 1,
             w = [content |-> SubSeq(whole, 1, n), raised |-> TRUE]
      PROVE  w.raised = TRUE /\ w.content = SubSeq(whole, 1, n)
  BY <1>4
<1> QED BY <1>1, <1>2, <1>3, <1>4

\* Cut short or not, a text is not a longer one.
LEMMA WritingGeometry ==
    ASSUME NEW w \in Writing(gmo, Geometry), gmo = Old \/ Cut(gmo, Geometry)
    PROVE  /\ w.raised \in BOOLEAN
           /\ w.content = Old \/ Cut(w.content, Geometry)
           /\ ~w.raised => w.content = Geometry
<1>1. Geometry \in Seq(Parts) /\ Len(Geometry) = 2
  BY PartsAre
<1>2. Cut(Geometry, Geometry)
  <2>1. 2 \in 0..Len(Geometry) /\ SubSeq(Geometry, 1, 2) = Geometry
    BY <1>1, CutIs
  <2> QED BY <2>1 DEF Cut
<1>3. (\E n \in 0..Len(Geometry) - 1 : w.content = SubSeq(Geometry, 1, n)) => Cut(w.content, Geometry)
  BY <1>1 DEF Cut
<1> QED BY <1>2, <1>3, WritingIs

LEMMA WritingRefusal ==
    ASSUME NEW w \in Writing(printout, Refusal)
    PROVE  /\ w.raised \in BOOLEAN
           /\ ~w.raised => w.content = Refusal
           /\ w.content = printout \/ Cut(w.content, Refusal)
           /\ w.content = printout \/ w.content # Printout
<1>1. Refusal \in Seq({"refusal"}) /\ Len(Refusal) = 1
  BY DEF Refusal
<1>2. \A n \in 0..1 : SubSeq(Refusal, 1, n) # Printout
  <2> TAKE n \in 0..1
  <2>1. n \in 0..Len(Refusal)
    BY <1>1
  <2>2. Len(SubSeq(Refusal, 1, n)) = n
    BY <1>1, <2>1, CutIs
  <2>3. n # Len(Printout)
    BY PartsAre
  <2> QED BY <2>2, <2>3
<1>3. SubSeq(Refusal, 1, 1) = Refusal /\ 1 \in 0..Len(Refusal)
  BY <1>1, CutIs
<1>4. Cut(Refusal, Refusal) /\ Refusal # Printout
  BY <1>2, <1>3 DEF Cut
<1>5. ASSUME NEW n \in 0..Len(Refusal) - 1, w.content = SubSeq(Refusal, 1, n)
      PROVE  Cut(w.content, Refusal) /\ w.content # Printout
  BY <1>1, <1>2, <1>5 DEF Cut
<1> QED BY <1>4, <1>5, WritingIs

\* A printout of m parts, written or cut short.
LEMMA WritingPrintout ==
    ASSUME NEW m \in 0..2, NEW w \in Writing(printout, SubSeq(Printout, 1, m))
    PROVE  /\ w.raised \in BOOLEAN
           /\ ~w.raised => w.content = SubSeq(Printout, 1, m)
           /\ w.content = printout \/ Cut(w.content, Printout)
           /\ w.raised => w.content = printout \/ w.content # Printout
<1>1. Printout \in Seq(Parts) /\ Len(Printout) = 2
  BY PartsAre
<1>2. m \in 0..Len(Printout) /\ Len(SubSeq(Printout, 1, m)) = m
  BY <1>1, CutPrintout
<1>3. Cut(SubSeq(Printout, 1, m), Printout)
  BY <1>2 DEF Cut
<1>4. ASSUME NEW n \in 0..m - 1, w.content = SubSeq(SubSeq(Printout, 1, m), 1, n)
      PROVE  Cut(w.content, Printout) /\ w.content # Printout
  <2>1. n \in 0..m /\ n \in 0..2 /\ n # 2 /\ n \in 0..Len(Printout)
    BY <1>1
  <2>2. w.content = SubSeq(Printout, 1, n)
    BY <1>1, <1>2, <2>1, <1>4, CutOfCut
  <2>3. Len(SubSeq(Printout, 1, n)) = n
    BY <2>1, CutPrintout
  <2> QED BY <1>1, <2>1, <2>2, <2>3 DEF Cut
<1>5. /\ w.raised \in BOOLEAN
      /\ ~w.raised => w.content = SubSeq(Printout, 1, m)
      /\ w.raised => \/ w.content = printout
                     \/ \E n \in 0..m - 1 : w.content = SubSeq(SubSeq(Printout, 1, m), 1, n)
  BY <1>2, WritingIs
<1> QED BY <1>3, <1>4, <1>5

\* A part of a printout is no earlier calculation's.
LEMMA CutNotOld ==
    ASSUME NEW file, Cut(file, Printout)
    PROVE  file # Old
<1>1. PICK n \in 0..2 : file = SubSeq(Printout, 1, n)
  BY PartsAre DEF Cut
<1> QED BY <1>1, CutPrintout, NotOld
-----------------------------------------------------------------------------
(* The steps.                                                              *)

\* Answers are joined in any order of joining.
Joined(a, b) == a \o b

LEMMA JoinedInAnyOrder ==
    \A a, b, c \in Seq(Parts) : Joined(Joined(a, b), c) = Joined(a, Joined(b, c))
<1>1. ASSUME NEW a \in Seq(Parts), NEW b \in Seq(Parts), NEW c \in Seq(Parts)
      PROVE  (a \o b) \o c = a \o (b \o c)
  BY ConcatAssociative
<1> QED BY <1>1 DEF Joined

\* One part sent: what is received, on the wire and unsent are still the answer.
LEMMA SentIs ==
    ASSUME answer \in Seq(Parts), wire \in Seq(Parts), unsent \in Seq(Parts), unsent # <<>>
    PROVE  /\ Append(wire, Head(unsent)) \in Seq(Parts) /\ Tail(unsent) \in Seq(Parts)
           /\ (answer \o Append(wire, Head(unsent))) \o Tail(unsent) = (answer \o wire) \o unsent
<1>1. Head(unsent) \in Parts /\ Tail(unsent) \in Seq(Parts)
  BY HeadTailProperties
<1>2. Append(wire, Head(unsent)) = wire \o <<Head(unsent)>> /\ <<Head(unsent)>> \in Seq(Parts)
  BY <1>1, AppendIsConcat
<1>3. <<Head(unsent)>> \o Tail(unsent) = unsent
  <2>1. PICK n \in Nat : n = Len(unsent) /\ n # 0
    BY EmptySeq
  <2>2. Tail(unsent) = SubSeq(unsent, 2, n) /\ unsent[1] = Head(unsent)
    BY <2>1, TailIsSubSeq
  <2>3. SubSeq(unsent, 1, n) = <<unsent[1]>> \o SubSeq(unsent, 1 + 1, n)
    BY <2>1, SubSeqRecursiveFirst
  <2>4. SubSeq(unsent, 1, n) = unsent
    BY <2>1, SubSeqFull
  <2> QED BY <2>2, <2>3, <2>4
<1>0. PICK h, t : h = <<Head(unsent)>> /\ t = Tail(unsent)
  OBVIOUS
<1>a. h \in Seq(Parts) /\ t \in Seq(Parts)
  BY <1>0, <1>1, <1>2
<1>4. answer \o (wire \o <<Head(unsent)>>) = (answer \o wire) \o <<Head(unsent)>>
  <2>1. Joined(Joined(answer, wire), h) = Joined(answer, Joined(wire, h))
    BY <1>a, JoinedInAnyOrder
  <2>2. answer \o (wire \o h) = (answer \o wire) \o h
    BY <2>1, Zenon DEF Joined
  <2> QED BY <1>0, <2>2, Zenon
<1>5. answer \o wire \in Seq(Parts)
  BY ConcatProperties
<1>6. ((answer \o wire) \o <<Head(unsent)>>) \o Tail(unsent) = (answer \o wire) \o (<<Head(unsent)>> \o Tail(unsent))
  <2>1. PICK u \in Seq(Parts) : u = answer \o wire
    BY <1>5, Zenon
  <2>2. (u \o h) \o t = u \o (h \o t)
    <3>1. Joined(Joined(u, h), t) = Joined(u, Joined(h, t))
      BY <1>a, JoinedInAnyOrder, Zenon
    <3> QED BY <3>1, Zenon DEF Joined
  <2> QED BY <1>0, <2>1, <2>2, Zenon
<1>7. wire \o <<Head(unsent)>> \in Seq(Parts)
  BY <1>2, ConcatProperties
<1> QED BY <1>1, <1>2, <1>3, <1>4, <1>6, <1>7

\* What the client writes as the printout: the first parts of one, all of it
\* unless the server died.
LEMMA TextIs ==
    ASSUME Wires, AnswerTaken, pc = "printout"
    PROVE  \E m \in 0..2 :
             /\ (IF Framed THEN SubSeq(answer, Close + 1, Len(answer)) ELSE answer)
                  = SubSeq(Printout, 1, m)
             /\ ~mortal => SubSeq(Printout, 1, m) = Printout
<1>1. CASE Framed
  <2>1. PICK n \in 4..6 : n = Len(answer)
    BY <1>1, FramedIs DEF Wires, AnswerTaken
  <2>2. SubSeq(answer, Close + 1, Len(answer)) = SubSeq(Printout, 1, n - 4)
    BY <1>1, <2>1, FramedIs DEF Wires, AnswerTaken
  <2>3. answer = Answer => SubSeq(answer, Close + 1, Len(answer)) = Printout
    BY <1>1, FramedIs DEF Wires, AnswerTaken
  <2>4. n - 4 \in 0..2
    OBVIOUS
  <2> QED BY <1>1, <2>2, <2>3, <2>4 DEF AnswerTaken
<1>2. CASE ~Framed
  BY <1>2, UnframedIs DEF Wires, AnswerTaken
<1> QED BY <1>1, <1>2

\* The deck of a calculation does not change, and neither does its answer.
LEMMA GivenKept ==
    ASSUME UNCHANGED given
    PROVE  /\ Answer' = Answer /\ WantsGmo' = WantsGmo
           /\ mortal' = mortal /\ foreign' = foreign /\ deck' = deck
BY DEF given, Answer, WantsGmo

LEMMA FramedKept ==
    ASSUME UNCHANGED answer
    PROVE  Framed' = Framed /\ Contains(answer, FrameEnd[1])' = Contains(answer, FrameEnd[1])
BY DEF Framed
\* Every step of the client, of its child and of the server keeps the invariant.
LEMMA LadderStep ==
    ASSUME LadderInv, [Next]_vars
    PROVE  LadderInv'
<1>0. Typed /\ Wires /\ Contents /\ AnswerTaken /\ Turns /\ Order /\ Endings
  BY DEF LadderInv
<1>1. CASE Asks
  <2>1. Typed' /\ Wires' /\ Contents' /\ AnswerTaken' /\ Order' /\ Endings'
    BY <1>1, <1>0, GivenKept, FramedKept
       DEF Asks, Typed, PCs, Wires, Contents, AnswerTaken, Order, Endings, Answered, LeftWhole, ClientOver, Unspoken, given, served, files
  <2>2. Turns'
    BY <1>1, <1>0 DEF Asks, Turns, Typed, PCs
  <2> QED BY <2>1, <2>2 DEF LadderInv
<1>2. CASE Receives
  <2>1. Typed' /\ Contents' /\ AnswerTaken' /\ Turns' /\ Order' /\ Endings'
    BY <1>2, <1>0, GivenKept, FramedKept
       DEF Receives, Typed, PCs, Contents, AnswerTaken, Turns, Order, Endings, Answered, LeftWhole, ClientOver, Unspoken, given, served, files
  <2>2. Wires'
    BY <1>2, <1>0, GivenKept DEF Receives, Wires, served
  <2> QED BY <2>1, <2>2 DEF LadderInv
<1>3. CASE EndOfAnswer
  <2>1. Typed' /\ Wires' /\ Contents' /\ Order' /\ Endings'
    BY <1>3, <1>0, GivenKept, FramedKept
       DEF EndOfAnswer, Typed, PCs, Wires, Contents, Order, Endings, Answered, LeftWhole, ClientOver, Unspoken, given, served, files
  <2>2. AnswerTaken'
    <3>1. ~mortal => answer = Answer
      <4> SUFFICES ASSUME ~mortal PROVE answer = Answer
        OBVIOUS
      <4>1. wire = <<>> /\ unsent = <<>>
        BY <1>3, <1>0 DEF EndOfAnswer, Wires
      <4>2. (answer \o <<>>) \o <<>> = Answer
        BY <4>1, <1>0 DEF Wires
      <4>3. answer \o <<>> = answer
        BY <1>0, ConcatEmptySeq DEF Wires
      <4> QED BY <4>2, <4>3
    <3>2. pc' = "gmo" => /\ answer # <<>>
                         /\ Framed => Contains(answer, FrameEnd[1])
      BY <1>3 DEF EndOfAnswer, Framed
    <3>3. pc' # "printout" /\ answer' = answer /\ UNCHANGED given
      BY <1>3 DEF EndOfAnswer, served
    <3> QED BY <3>1, <3>2, <3>3, GivenKept, FramedKept DEF AnswerTaken
  <2>3. Turns'
    BY <1>3, <1>0 DEF EndOfAnswer, Turns, Typed, PCs
  <2> QED BY <2>1, <2>2, <2>3 DEF LadderInv
<1>4. CASE WritesGmo
  <2>a. /\ pc' \in {"printout", "oneshot"}
        /\ gmo' = Old \/ Cut(gmo', Geometry)
        /\ pc' = "printout" /\ WantsGmo => gmo' = Geometry
    <3>1. CASE ~Framed
      <4>1. ~WantsGmo /\ gmo' = gmo /\ pc' = "printout"
        BY <1>4, <1>0, <3>1, UnframedIs DEF WritesGmo, AnswerTaken, Wires
      <4> QED BY <4>1, <1>0 DEF Contents
    <3>2. CASE Framed
      <4>1. SubSeq(answer, 2, Close - 1) = Geometry
        BY <1>4, <1>0, <3>2, FramedIs DEF WritesGmo, AnswerTaken, Wires
      <4>2. PICK w \in Writing(gmo, Geometry) :
               gmo' = w.content /\ pc' = IF w.raised THEN "oneshot" ELSE "printout"
        BY <1>4, <3>2, <4>1 DEF WritesGmo
      <4> QED BY <4>2, <1>0, WritingGeometry DEF Contents
    <3> QED BY <3>1, <3>2
  <2>1. Typed' /\ Wires' /\ AnswerTaken' /\ Endings'
    BY <1>4, <1>0, GivenKept, FramedKept
       DEF WritesGmo, Typed, PCs, Wires, AnswerTaken, Endings, Answered, LeftWhole, ClientOver, Unspoken, given, served, files
  <2>2. Contents'
    BY <1>4, <1>0, <2>a DEF WritesGmo, Contents, files
  <2>3. Turns'
    BY <1>4, <1>0 DEF WritesGmo, Turns, Typed, PCs
  <2>4. Order'
    BY <1>4, <1>0, <2>a, GivenKept DEF WritesGmo, Order, Turns, files
  <2> QED BY <2>1, <2>2, <2>3, <2>4 DEF LadderInv
<1>5. CASE WritesPrintout
  <2>a. PICK m \in 0..2 :
           /\ (IF Framed THEN SubSeq(answer, Close + 1, Len(answer)) ELSE answer)
                = SubSeq(Printout, 1, m)
           /\ ~mortal => SubSeq(Printout, 1, m) = Printout
    BY <1>5, <1>0, TextIs DEF WritesPrintout
  <2>b. PICK w \in Writing(printout, SubSeq(Printout, 1, m)) :
           printout' = w.content /\ pc' = IF w.raised THEN "oneshot" ELSE "exit"
    BY <1>5, <2>a DEF WritesPrintout
  <2>c. /\ printout' = printout \/ Cut(printout', Printout)
        /\ pc' = "oneshot" => printout' = printout \/ printout' # Printout
        /\ pc' = "exit" => printout' = SubSeq(Printout, 1, m)
        /\ pc' \in {"oneshot", "exit"}
    BY <2>b, WritingPrintout
  <2>d. m \in 0..Len(Printout)
    BY PartsAre
  <2>e. pc' = "exit" => Cut(printout', Printout) /\ printout' # Old
    BY <2>c, <2>d, CutNotOld DEF Cut
  <2>1. Typed' /\ Wires' /\ AnswerTaken'
    BY <1>5, <1>0, GivenKept, FramedKept
       DEF WritesPrintout, Typed, PCs, Wires, AnswerTaken, given, served, files
  <2>2. Contents'
    BY <1>5, <1>0, <2>a, <2>c, <2>e DEF WritesPrintout, Contents, files
  <2>3. Turns'
    BY <1>5, <1>0 DEF WritesPrintout, Turns, Typed, PCs
  <2>4. Order'
    BY <1>5, <1>0, <2>a, <2>c, <2>e, GivenKept DEF WritesPrintout, Order, Turns, files
  <2>5. Endings'
    BY <1>5, <1>0, <2>a, <2>c, <2>e, GivenKept DEF WritesPrintout, Endings, Answered, LeftWhole, ClientOver, Unspoken, Turns, files
  <2> QED BY <2>1, <2>2, <2>3, <2>4, <2>5 DEF LadderInv
<1>6. CASE Starts
  <2>1. Typed' /\ Wires' /\ Contents' /\ AnswerTaken' /\ Endings'
    BY <1>6, <1>0, GivenKept, FramedKept
       DEF Starts, Typed, PCs, Wires, Contents, AnswerTaken, Endings, Answered, LeftWhole, ClientOver, Unspoken, given, served, files
  <2>2. Turns'
    BY <1>6, <1>0 DEF Starts, Turns, Typed, PCs
  <2>3. Order'
    BY <1>6, <1>0, GivenKept DEF Starts, Order, Turns, files
  <2> QED BY <2>1, <2>2, <2>3 DEF LadderInv
<1>7. CASE Expires
  <2>1. Typed' /\ Wires' /\ Contents' /\ AnswerTaken' /\ Order'
    BY <1>7, <1>0, GivenKept, FramedKept
       DEF Expires, Typed, PCs, Wires, Contents, AnswerTaken, Order, given, served, files
  <2>2. Turns'
    BY <1>7, <1>0 DEF Expires, Turns, Typed, PCs
  <2>3. Endings'
    BY <1>7, <1>0, GivenKept DEF Expires, Endings, Answered, LeftWhole, ClientOver, Unspoken, Turns, files
  <2> QED BY <2>1, <2>2, <2>3 DEF LadderInv
<1>8. CASE ChildEnded
  <2>1. Typed' /\ Wires' /\ Contents' /\ AnswerTaken' /\ Order'
    BY <1>8, <1>0, GivenKept, FramedKept
       DEF ChildEnded, Typed, PCs, Wires, Contents, AnswerTaken, Order, given, served, files
  <2>2. Turns'
    BY <1>8, <1>0 DEF ChildEnded, Turns, Typed, PCs
  <2>3. Endings'
    <3>1. Printout # Old /\ Refusal # Old
      BY PartsAre, NotOld
    <3> QED BY <1>8, <1>0, <3>1, GivenKept DEF ChildEnded, Endings, Answered, LeftWhole, ClientOver, Unspoken, Turns, files
  <2> QED BY <2>1, <2>2, <2>3 DEF LadderInv
<1>9. CASE LastDitch /\ Refuses
  <2>a. PICK w \in Writing(printout, Refusal) :
           printout' = w.content /\ said' = (said \/ w.raised)
    BY <1>9 DEF Refuses
  <2>b. /\ said' \/ printout' = Refusal
        /\ printout' = printout \/ Cut(printout', Refusal)
        /\ printout' = printout \/ printout' # Printout
    BY <2>a, WritingRefusal
  <2>c. Refusal # Old /\ said \in BOOLEAN /\ (said => said')
    BY <1>0, <2>a, NotOld, WritingRefusal DEF Typed
  <2>d. pc = "lastditch" /\ pc' = "exit" /\ UNCHANGED <<given, served, child, status, gmo>>
    BY <1>9 DEF LastDitch, Refuses
  <2>1. Typed' /\ Wires' /\ AnswerTaken'
    BY <1>0, <2>c, <2>a, <2>d, WritingRefusal, GivenKept, FramedKept
       DEF Typed, PCs, Wires, AnswerTaken, given, served
  <2>2. Contents'
    BY <1>0, <2>b, <2>d DEF Contents
  <2>3. Turns'
    BY <1>0, <2>d DEF Turns
  <2>4. Order'
    BY <1>0, <2>b, <2>d, GivenKept DEF Order, Turns
  <2>5. Endings'
    BY <1>0, <2>b, <2>c, <2>d, GivenKept DEF Endings, Answered, LeftWhole, ClientOver, Unspoken
  <2> QED BY <2>1, <2>2, <2>3, <2>4, <2>5 DEF LadderInv
<1>9a. CASE LastDitch /\ Unencodable
  <2>a. /\ pc = "lastditch" /\ pc' = "traceback" /\ foreign
        /\ UNCHANGED <<given, served, child, status, gmo>>
    BY <1>9a DEF LastDitch, Unencodable
  <2>b. printout' = <<>> \/ printout' = printout
    BY <1>9a DEF Unencodable
  <2>c. said' \in BOOLEAN
    BY <1>0, <1>9a DEF Unencodable, Typed
  <2>d. Cut(<<>>, Refusal) /\ <<>> # Printout
    <3>1. Refusal \in Seq({"refusal"}) /\ Len(Refusal) = 1 /\ Len(Printout) = 2
      BY DEF Refusal, Printout
    <3>2. 0 \in 0..Len(Refusal) /\ SubSeq(Refusal, 1, 0) = <<>>
      BY <3>1
    <3> QED BY <3>1, <3>2 DEF Cut
  <2>1. Typed' /\ Wires' /\ AnswerTaken'
    BY <1>0, <2>a, <2>c, GivenKept, FramedKept
       DEF Typed, PCs, Wires, AnswerTaken, given, served
  <2>2. Contents'
    BY <1>0, <2>a, <2>b, <2>d DEF Contents
  <2>3. Turns'
    BY <1>0, <2>a DEF Turns
  <2>4. Order'
    BY <1>0, <2>a, <2>b, <2>d, GivenKept DEF Order, Turns
  <2>5. Endings'
    BY <1>0, <2>a, GivenKept DEF Endings, Answered, LeftWhole, ClientOver, Unspoken
  <2> QED BY <2>1, <2>2, <2>3, <2>4, <2>5 DEF LadderInv
<1>10. CASE ReceiveFails
  <2>1. Typed' /\ Wires' /\ Contents' /\ AnswerTaken' /\ Order' /\ Endings'
    BY <1>10, <1>0, GivenKept, FramedKept
       DEF ReceiveFails, Typed, PCs, Wires, Contents, AnswerTaken, Order, Endings, Answered, LeftWhole, ClientOver, Unspoken, given, served, files
  <2>2. Turns'
    BY <1>10, <1>0 DEF ReceiveFails, Turns, Typed, PCs
  <2> QED BY <2>1, <2>2 DEF LadderInv
<1>11. CASE ChildWritesGmo
  <2>a. /\ gmo' = Old \/ Cut(gmo', Geometry)
        /\ child' \in {"report", "printout"}
        /\ child' = "printout" /\ WantsGmo => gmo' = Geometry
    <3>1. CASE WantsGmo
      <4>1. PICK w \in Writing(gmo, Geometry) :
               gmo' = w.content /\ child' = IF w.raised THEN "report" ELSE "printout"
        BY <1>11, <3>1 DEF ChildWritesGmo
      <4> QED BY <4>1, <1>0, WritingGeometry DEF Contents
    <3>2. CASE ~WantsGmo
      BY <1>11, <1>0, <3>2 DEF ChildWritesGmo, Contents
    <3> QED BY <3>1, <3>2
  <2>1. Typed' /\ Wires' /\ AnswerTaken' /\ Endings'
    BY <1>11, <1>0, GivenKept, FramedKept
       DEF ChildWritesGmo, Typed, PCs, Wires, AnswerTaken, Endings, Answered, LeftWhole, ClientOver, Unspoken, given, served, files
  <2>2. Contents'
    BY <1>11, <1>0, <2>a DEF ChildWritesGmo, Contents, files
  <2>3. Turns'
    BY <1>11, <1>0 DEF ChildWritesGmo, Turns, Typed, PCs
  <2>4. Order'
    BY <1>11, <1>0, <2>a, GivenKept DEF ChildWritesGmo, Order, Turns, files
  <2> QED BY <2>1, <2>2, <2>3, <2>4 DEF LadderInv
<1>12. CASE ChildWritesPrintout
  <2>a. SubSeq(Printout, 1, 2) = Printout
    BY PartsAre, CutIs
  <2>b. PICK w \in Writing(printout, SubSeq(Printout, 1, 2)) :
           printout' = w.content /\ child' = IF w.raised THEN "report" ELSE "ended"
    BY <1>12, <2>a DEF ChildWritesPrintout
  <2>c. /\ printout' = printout \/ Cut(printout', Printout)
        /\ child' = "ended" => printout' = Printout
        /\ child' \in {"report", "ended"}
    BY <2>a, <2>b, WritingPrintout
  <2>1. Typed' /\ Wires' /\ AnswerTaken'
    BY <1>12, <1>0, GivenKept, FramedKept
       DEF ChildWritesPrintout, Typed, PCs, Wires, AnswerTaken, given, served, files
  <2>2. Contents'
    BY <1>12, <1>0, <2>c DEF ChildWritesPrintout, Contents, files
  <2>3. Turns'
    BY <1>12, <1>0 DEF ChildWritesPrintout, Turns, Typed, PCs
  <2>4. Order'
    BY <1>12, <1>0, GivenKept DEF ChildWritesPrintout, Order, Turns, files
  <2>5. Endings'
    BY <1>12, <1>0, <2>c, GivenKept DEF ChildWritesPrintout, Endings, Answered, LeftWhole, ClientOver, Unspoken, Turns, files
  <2> QED BY <2>1, <2>2, <2>3, <2>4, <2>5 DEF LadderInv
<1>13. CASE ChildReports
  <2>a. PICK w \in Writing(printout, Refusal) :
           /\ printout' = w.content
           /\ \/ said' = (said \/ w.raised) /\ UNCHANGED status
              \/ w.raised /\ foreign /\ status' = "bad" /\ UNCHANGED said
    BY <1>13 DEF ChildReports
  <2>b. /\ said' \/ printout' = Refusal \/ status' = "bad"
        /\ printout' = printout \/ Cut(printout', Refusal)
        /\ printout' = printout \/ printout' # Printout
    BY <2>a, WritingRefusal
  <2>c. Refusal # Old /\ said' \in BOOLEAN /\ status' \in {"ok", "bad"}
    BY <1>0, <2>a, NotOld, WritingRefusal DEF Typed
  <2>d. child = "report" /\ child' = "ended" /\ UNCHANGED <<given, pc, served, gmo>>
    BY <1>13 DEF ChildReports
  <2>1. Typed' /\ Wires' /\ AnswerTaken'
    BY <1>0, <2>c, <2>d, GivenKept, FramedKept
       DEF Typed, PCs, Wires, AnswerTaken, given, served
  <2>2. Contents'
    BY <1>0, <2>b, <2>d DEF Contents
  <2>3. Turns'
    BY <1>0, <2>d DEF Turns, Typed, PCs
  <2>4. Order'
    BY <1>0, <2>b, <2>d, GivenKept DEF Order, Turns
  <2>5. Endings'
    <3>1. ~ClientOver
      BY <1>0, <2>d DEF ClientOver, Turns
    <3>2. ~ClientOver'
      BY <2>d, <3>1 DEF ClientOver
    <3>3. status' = "ok" /\ ~said' => printout' = Refusal
      BY <2>b
    <3> QED BY <3>2, <3>3 DEF Endings, Answered, LeftWhole
  <2> QED BY <2>1, <2>2, <2>3, <2>4, <2>5 DEF LadderInv
<1>14. CASE ChildDies
  <2>1. Typed' /\ Wires' /\ Contents' /\ AnswerTaken' /\ Order'
    BY <1>14, <1>0, GivenKept, FramedKept
       DEF ChildDies, Typed, PCs, Wires, Contents, AnswerTaken, Order, given, served, files
  <2>2. Turns'
    BY <1>14, <1>0 DEF ChildDies, Turns, Typed, PCs
  <2>3. Endings'
    BY <1>14, <1>0, GivenKept DEF ChildDies, Endings, Answered, LeftWhole, ClientOver, Unspoken, Turns, files
  <2> QED BY <2>1, <2>2, <2>3 DEF LadderInv
<1>15. CASE ChildDiesWriting
  <2>1. Typed' /\ Wires' /\ AnswerTaken'
    BY <1>15, <1>0, GivenKept, FramedKept
       DEF ChildDiesWriting, Typed, PCs, Wires, AnswerTaken, given, served, files
  <2>2. Contents'
    BY <1>15, <1>0 DEF ChildDiesWriting, Contents, Cut
  <2>3. Turns'
    BY <1>15, <1>0 DEF ChildDiesWriting, Turns, Typed, PCs
  <2>4. Order'
    BY <1>15, <1>0, GivenKept DEF ChildDiesWriting, Order, Turns, files
  <2>5. Endings'
    BY <1>15, <1>0, GivenKept DEF ChildDiesWriting, Endings, Answered, LeftWhole, ClientOver, Unspoken, Turns, files
  <2> QED BY <2>1, <2>2, <2>3, <2>4, <2>5 DEF LadderInv
<1>16. CASE Solves
  <2>1. Typed' /\ Contents' /\ AnswerTaken' /\ Turns' /\ Order' /\ Endings'
    BY <1>16, <1>0, GivenKept, FramedKept
       DEF Solves, Typed, PCs, Contents, AnswerTaken, Turns, Order, Endings, Answered, LeftWhole, ClientOver, Unspoken, given, served, files
  <2>2. Wires'
    BY <1>16, <1>0, GivenKept DEF Solves, Wires, served
  <2> QED BY <2>1, <2>2 DEF LadderInv
<1>17. CASE Sends
  <2>1. Typed' /\ Contents' /\ AnswerTaken' /\ Turns' /\ Order' /\ Endings'
    BY <1>17, <1>0, GivenKept, FramedKept
       DEF Sends, Typed, PCs, Contents, AnswerTaken, Turns, Order, Endings, Answered, LeftWhole, ClientOver, Unspoken, given, served, files
  <2>2. Wires'
    <3>1. CASE unsent = <<>>
      BY <1>17, <1>0, <3>1, GivenKept DEF Sends, Wires, given
    <3>2. CASE unsent # <<>>
      <4>0. answer \in Seq(Parts) /\ wire \in Seq(Parts) /\ unsent \in Seq(Parts)
        BY <1>0 DEF Wires
      <4>1. /\ wire' = Append(wire, Head(unsent)) /\ unsent' = Tail(unsent)
            /\ answer' = answer /\ srv' = srv /\ srv = "sending" /\ UNCHANGED given
        BY <1>17, <3>2 DEF Sends
      <4>2. /\ Append(wire, Head(unsent)) \in Seq(Parts) /\ Tail(unsent) \in Seq(Parts)
            /\ (answer \o Append(wire, Head(unsent))) \o Tail(unsent) = (answer \o wire) \o unsent
        BY <4>0, <3>2, SentIs
      <4>3. (answer' \o wire') \o unsent' = (answer \o wire) \o unsent
        BY <4>1, <4>2, Zenon
      <4>4. answer' \in Seq(Parts) /\ wire' \in Seq(Parts) /\ unsent' \in Seq(Parts)
        BY <4>0, <4>1, <4>2
      <4> QED BY <1>0, <4>1, <4>3, <4>4, GivenKept DEF Wires
    <3> QED BY <3>1, <3>2
  <2> QED BY <2>1, <2>2 DEF LadderInv
<1>18. CASE ServerDies
  <2>1. Typed' /\ Contents' /\ AnswerTaken' /\ Turns' /\ Order' /\ Endings'
    BY <1>18, <1>0, GivenKept, FramedKept
       DEF ServerDies, Typed, PCs, Contents, AnswerTaken, Turns, Order, Endings, Answered, LeftWhole, ClientOver, Unspoken, given, served, files
  <2>2. Wires'
    BY <1>18, <1>0, GivenKept DEF ServerDies, Wires, served
  <2> QED BY <2>1, <2>2 DEF LadderInv
<1>19. CASE UNCHANGED vars
  BY <1>0, <1>19, GivenKept, FramedKept
     DEF vars, given, LadderInv, Typed, Wires, Contents, AnswerTaken, Turns, Order, Endings, Answered, LeftWhole, ClientOver, Unspoken
<1> QED
  BY <1>1, <1>2, <1>3, <1>4, <1>5, <1>6, <1>7, <1>8, <1>9, <1>9a, <1>10, <1>11, <1>12, <1>13, <1>14, <1>15, <1>16, <1>17, <1>18, <1>19 DEF Next, Client, Child, LastDitch, Finished

LEMMA LadderInit ==
    ASSUME Init
    PROVE  LadderInv
<1>1. Answer \in Seq(Parts) /\ <<>> \in Seq(Parts)
  BY AnswerIs, EmptySeq
<1>2. (<<>> \o <<>>) \o Answer = Answer
  <2>1. <<>> \o <<>> = <<>> /\ <<>> \o Answer = Answer
    BY <1>1, ConcatEmptySeq
  <2> QED BY <2>1
<1>3. Printout # Old
  BY PartsAre, NotOld
<1> QED
  BY <1>1, <1>2, <1>3
     DEF Init, LadderInv, Typed, PCs, Wires, Contents, AnswerTaken, Turns, Order,
         Endings, Answered, LeftWhole, ClientOver, Unspoken

\* The whole of what the proof rests on: the answer is never lost on the way,
\* each file holds what the rung the client is on may have left, and the child
\* runs while the client waits (main, _served_bytes, _one_shot, _shell.run).
THEOREM LadderInvariant == Spec => []LadderInv
<1>1. Init => LadderInv
  BY LadderInit
<1>2. LadderInv /\ [Next]_vars => LadderInv'
  BY LadderStep
<1> QED BY <1>1, <1>2, PTL DEF Spec

\* The type of the state: whatever fails, a file of this calculation holds a
\* prefix of something whole, and the parts received, on the wire and unsent
\* are the answer the server computed.
THEOREM LadderTyped == Spec => []TypeOK
<1>1. LadderInv => TypeOK
  <2> SUFFICES ASSUME LadderInv PROVE TypeOK
    OBVIOUS
  <2>1. \A S : \A whole \in Seq(S) : \A file : Cut(file, whole) => IsPrefix(file, whole)
    BY CutIs DEF Cut
  <2>2. Old \in Seq({"old"}) /\ Refusal \in Seq({"refusal"})
    BY DEF Old, Refusal
  <2>3. IsPrefix(Old, Old)
    <3>1. Len(Old) \in 0..Len(Old) /\ SubSeq(Old, 1, Len(Old)) = Old
      BY <2>2, SubSeqFull
    <3> QED BY <3>1 DEF IsPrefix
  <2>4. \E whole \in {Old, Geometry} : IsPrefix(gmo, whole)
    BY <2>1, <2>3, PartsAre DEF LadderInv, Contents
  <2>5. \E whole \in {Old, Refusal, Printout} : IsPrefix(printout, whole)
    BY <2>1, <2>2, <2>3, PartsAre DEF LadderInv, Contents
  <2> QED BY <2>4, <2>5 DEF LadderInv, Typed, Wires, TypeOK
<1> QED BY <1>1, LadderInvariant, PTL

\* Rule 2 of the client, "always write the printout": whichever write, process
\* or connection failed, a client that ends without a word on stdout leaves a
\* printout of this calculation (_last_ditch, _report_internal_error).
THEOREM LadderAnswers == Spec => []Answered
<1>1. LadderInv => Answered
  BY DEF LadderInv, Endings
<1> QED BY <1>1, LadderInvariant, PTL

\* The .GMO file is written before the printout, by the client and by the
\* one-shot: at the end a whole printout never stands beside a geometry that is
\* missing, cut short or an earlier calculation's (_served_bytes, _shell.run).
THEOREM LadderWritesGmoFirst == Spec => []GmoFirst
<1>1. LadderInv => GmoFirst
  BY DEF LadderInv, Order, GmoFirst
<1> QED BY <1>1, LadderInvariant, PTL

\* While the server outlives its answer, no rung leaves a part of a printout for
\* a whole one, however the answer is cut into receives and whatever write fails.
THEOREM LadderLeavesWhole == Spec => []LeftWhole
<1>1. LadderInv => LeftWhole
  BY DEF LadderInv, Endings
<1> QED BY <1>1, LadderInvariant, PTL

-----------------------------------------------------------------------------
(* The stream, Nec5Stream, for any texts a host may write: what stands in the *)
(* engine's buffer against the lines of the whole text.                       *)

Opens   == LineStarts(1, Size)
Closing == FileClosers

\* The closing lines of the text that left the buffer.
Behind == {s \in Closing : s <= taken}

\* The printouts of the closing lines D, in the order of the lines.
Lists(o, D) ==
    /\ \A k \in DOMAIN o : o[k].at \in D /\ o[k] = FilePiece(o[k].at)
    /\ \A k \in DOMAIN o : \A j \in 1 .. k - 1 : o[j].at < o[k].at
    /\ \A s \in D : \E k \in DOMAIN o : o[k].at = s

StreamTyped ==
    /\ text \in Seq(Symbols) /\ Size \in Nat
    /\ taken \in 0 .. read /\ read \in 0 .. sent /\ sent \in 0 .. Size
    /\ swallow \in BOOLEAN /\ final \in BOOLEAN /\ closed \in BOOLEAN /\ patient \in BOOLEAN
    /\ turn \in {"read", "cut", "over"}
    /\ \E S : out \in Seq(S)

\* The buffer starts where a line of the text does, or, at the end of what was
\* read, inside a line break.
Boundary ==
    /\ swallow => taken > 0 /\ taken = read /\ text[taken] = "CR"
    /\ ~swallow => taken = 0 \/ taken = Size \/ EndsLine(taken, Size)

AtEnd == (closed => sent = Size) /\ (final => read = Size)

\* What left the buffer is whole structures: its last line is a closing line.
WholeStructures == \A x \in Opens : x <= taken => \E c \in Closing : x <= c /\ c <= taken

\* While the engine goes on, each structure behind has its printout, and none
\* of them ended the run.
Printouts ==
    turn # "over" => Lists(out, Behind) /\ \A c \in Behind : GoesOn(FilePiece(c))

\* The engine reads when it has no whole structure left.
NoneWaits == turn = "read" => \A s \in Closing : Complete(s, read) => s <= taken

OverPrints == turn = "over" => InTurn

StreamInv ==
    /\ StreamTyped /\ Boundary /\ AtEnd /\ WholeStructures /\ Printouts /\ NoneWaits
    /\ OverPrints

-----------------------------------------------------------------------------
(* Lines. *)

\* The first of a set of offsets.
LEMMA FirstOf ==
    ASSUME NEW S, S \subseteq Nat, S # {}
    PROVE  First(S) \in S /\ \A t \in S : First(S) <= t
<1> DEFINE R == {ss \in Nat \X Nat : ss[1] < ss[2]}
<1>1. IsWellFoundedOn(R, Nat)
  BY NatLessThanWellFounded DEF OpToRel
<1>2. PICK x \in S : \A y \in S : ~(<<y, x>> \in R)
  <2> HIDE DEF R
  <2> QED BY <1>1, WFMin
<1>3. ASSUME NEW y \in S PROVE x <= y
  <2>1. x \in Nat /\ y \in Nat /\ ~(<<y, x>> \in R)
    BY <1>2
  <2>2. ~(y < x)
    BY <2>1
  <2> QED BY <2>1, <2>2
<1>4. \E s \in S : \A t \in S : s <= t
  BY <1>3
<1> QED BY <1>4 DEF First

\* A line ends at an offset before the last one read where it ends in the text.
LEMMA EndsEither ==
    ASSUME StreamTyped, NEW i \in Nat, i < read
    PROVE  EndsLine(i, read) <=> EndsLine(i, Size)
<1>1. i < Size
  BY DEF StreamTyped
<1> QED BY <1>1 DEF EndsLine

LEMMA StartsAre ==
    ASSUME StreamTyped
    PROVE  /\ Opens \subseteq 1 .. Size /\ Closing \subseteq Opens
           /\ \A x \in Nat : x \in Opens <=> x \in 1 .. Size /\ (x = 1 \/ EndsLine(x - 1, Size))
           /\ Closing = {s \in Opens : text[s] \in {"NX", "EN"}}
BY DEF Opens, Closing, LineStarts, FileClosers, Closers, Size

\* The lines the buffer is cut into are the lines of the text.
LEMMA SameLines ==
    ASSUME StreamTyped, Boundary
    PROVE  /\ LineStarts(taken + 1, read) = {s \in Opens : taken < s /\ s <= read}
           /\ \A s \in Opens : taken < s /\ s <= read => s \in LineStarts(taken + 1, read)
<1>1. taken \in Nat /\ read \in Nat /\ taken <= read /\ read <= Size /\ Size \in Nat
  BY DEF StreamTyped
<1>2. ASSUME NEW s \in taken + 1 .. read
      PROVE  s \in LineStarts(taken + 1, read) <=> s \in Opens
  <2>1. s \in Nat /\ s \in 1 .. Size /\ s - 1 \in Nat /\ s - 1 < read
    BY <1>1
  <2>2. EndsLine(s - 1, read) <=> EndsLine(s - 1, Size)
    BY <2>1, EndsEither
  <2>3. s \in LineStarts(taken + 1, read) <=> s = taken + 1 \/ EndsLine(s - 1, read)
    BY DEF LineStarts
  <2>4. s \in Opens <=> s = 1 \/ EndsLine(s - 1, Size)
    BY <2>1, StartsAre
  <2>5. CASE s = taken + 1
    <3>1. ~swallow /\ taken # Size
      BY <1>1, <2>1, <2>5 DEF Boundary, StreamTyped
    <3>2. taken = 0 \/ EndsLine(taken, Size)
      BY <3>1 DEF Boundary
    <3>3. s - 1 = taken /\ (taken = 0 => s = 1)
      BY <1>1, <2>5
    <3> QED BY <2>3, <2>4, <2>5, <3>2, <3>3
  <2>6. CASE s # taken + 1
    <3>1. s # 1
      BY <1>1, <2>6
    <3> QED BY <2>2, <2>3, <2>4, <2>6, <3>1
  <2> QED BY <2>5, <2>6
<1>3. LineStarts(taken + 1, read) \subseteq taken + 1 .. read
  BY DEF LineStarts
<1>4. Opens \subseteq 1 .. Size
  BY StartsAre
<1>5. \A s \in taken + 1 .. read : s \in Nat /\ taken < s /\ s <= read
  BY <1>1
<1>6. \A s \in Opens : taken < s /\ s <= read => s \in taken + 1 .. read
  BY <1>1, <1>4
<1> QED BY <1>2, <1>3, <1>5, <1>6

\* The structures the buffer holds are the text's, those not complete only at
\* the end of the text.
LEMMA SameClosers ==
    ASSUME StreamTyped, Boundary
    PROVE  \A s : s \in Closers(taken + 1, read, final) <=>
                    /\ s \in Closing /\ taken < s /\ s <= read
                    /\ final \/ Complete(s, read)
<1>1. Closing = {s \in Opens : text[s] \in {"NX", "EN"}}
  BY StartsAre
<1> QED BY <1>1, SameLines DEF Closers

\* A line that another line follows in the buffer is complete.
LEMMA FollowedIsComplete ==
    ASSUME StreamTyped, NEW c \in Opens, NEW x \in Opens, c < x, x <= read
    PROVE  Complete(c, read)
<1>1. c \in Nat /\ x \in Nat /\ c >= 1 /\ x # 1 /\ read \in Nat
  BY StartsAre DEF StreamTyped
<1>2. x - 1 \in Nat /\ x - 1 < read /\ x - 1 \in c .. read
  BY <1>1
<1>3. EndsLine(x - 1, Size)
  BY <1>1, StartsAre
<1>4. EndsLine(x - 1, read)
  BY <1>2, <1>3, EndsEither
<1> QED BY <1>2, <1>4 DEF Complete

-----------------------------------------------------------------------------
(* A structure cut off.                                                     *)

Held == Closers(taken + 1, read, final)
At   == First(Held)
End  == LineEnd(At, read)

\* What is cut is the structure of the first closing line behind which no
\* buffer was cut yet.
LEMMA CutIsNext ==
    ASSUME StreamTyped, Boundary, Held # {}
    PROVE  /\ At \in Closing /\ At \in Opens /\ taken < At /\ At <= read
           /\ final \/ Complete(At, read)
           /\ \A c \in Closing : c < At => c <= taken
<1>1. Held \subseteq Nat
  <2>1. \A s \in Held : s \in Closing
    BY SameClosers DEF Held
  <2> QED BY <2>1, StartsAre DEF StreamTyped
<1>2. At \in Held /\ \A t \in Held : At <= t
  BY <1>1, FirstOf DEF At
<1>3. At \in Closing /\ taken < At /\ At <= read /\ (final \/ Complete(At, read))
  BY <1>2, SameClosers DEF Held
<1>4. At \in Opens
  BY <1>3, StartsAre
<1>5. ASSUME NEW c \in Closing, c < At PROVE c <= taken
  <2>1. c \in Opens /\ c \in Nat /\ At \in Nat /\ taken \in Nat /\ read \in Nat
    BY <1>4, StartsAre DEF StreamTyped
  <2>2. Complete(c, read)
    BY <1>3, <1>4, <1>5, <2>1, FollowedIsComplete
  <2>3. taken < c => c \in Held
    BY <1>3, <1>5, <2>1, <2>2, SameClosers DEF Held
  <2>4. taken < c => At <= c
    BY <1>2, <2>3
  <2> QED BY <1>5, <2>1, <2>4
<1> QED BY <1>3, <1>4, <1>5

\* It is cut where the closing line ends.
LEMMA CutEnds ==
    ASSUME StreamTyped, Boundary, AtEnd, Held # {}
    PROVE  /\ End \in Nat /\ At <= End /\ End <= read
           /\ \A x \in Opens : x <= End => x <= At
           /\ \/ text[End] = "CR" /\ End = read /\ ~final
              \/ End = Size \/ EndsLine(End, Size)
<1>1. /\ At \in Opens /\ At \in Nat /\ At >= 1 /\ At <= read /\ read \in Nat /\ read <= Size
      /\ Size \in Nat /\ (final \/ Complete(At, read))
  BY CutIsNext, StartsAre DEF StreamTyped
<1>2. PICK D : D = {i \in At .. read : EndsLine(i, read)}
  OBVIOUS
<1>3. Complete(At, read) <=> D # {}
  BY <1>2 DEF Complete
<1>4. End = IF Complete(At, read) THEN First(D) ELSE read
  BY <1>2 DEF End, LineEnd
<1>5. ASSUME NEW x \in Opens, At < x, x <= read PROVE x - 1 \in D /\ x \in Nat
  <2>1. x \in Nat /\ x # 1 /\ x - 1 \in Nat /\ x - 1 < read /\ x - 1 \in At .. read
    BY <1>1, <1>5, StartsAre
  <2>2. EndsLine(x - 1, Size)
    BY <2>1, StartsAre
  <2> QED BY <1>2, <2>1, <2>2, EndsEither
<1>6. CASE D # {}
  <2>1. D \subseteq Nat
    BY <1>1, <1>2
  <2>2. End \in D /\ \A t \in D : End <= t
    BY <1>3, <1>4, <1>6, <2>1, FirstOf
  <2>3. End \in Nat /\ At <= End /\ End <= read /\ EndsLine(End, read)
    BY <1>1, <1>2, <2>2
  <2>4. ASSUME NEW x \in Opens, x <= End PROVE x <= At
    <3>1. x \in Nat
      BY StartsAre
    <3>2. ~(At < x)
      <4> SUFFICES ASSUME At < x PROVE FALSE
        OBVIOUS
      <4>1. x <= read
        BY <1>1, <2>3, <2>4, <3>1
      <4>2. x - 1 \in D
        BY <1>5, <4>1
      <4>3. End <= x - 1
        BY <2>2, <4>2
      <4> QED BY <2>3, <2>4, <3>1, <4>3
    <3> QED BY <1>1, <3>1, <3>2
  <2>5. \/ text[End] = "CR" /\ End = read /\ ~final
        \/ End = Size \/ EndsLine(End, Size)
    <3>1. CASE End < read
      BY <2>3, <3>1, EndsEither
    <3>2. CASE End = read /\ final
      BY <3>2 DEF AtEnd
    <3>3. CASE End = read /\ text[End] = "CR" /\ ~final
      BY <3>3
    <3>4. CASE End = read /\ text[End] # "CR"
      BY <2>3, <3>4 DEF EndsLine
    <3>5. End < read \/ End = read
      BY <1>1, <2>3
    <3> QED BY <3>1, <3>2, <3>3, <3>4, <3>5
  <2> QED BY <2>3, <2>4, <2>5
<1>7. CASE D = {}
  <2>1. End = read /\ final /\ read = Size
    BY <1>1, <1>3, <1>4, <1>7 DEF AtEnd
  <2>2. ASSUME NEW x \in Opens, x <= End PROVE x <= At
    <3>1. x \in Nat
      BY StartsAre
    <3>2. ~(At < x)
      BY <1>5, <1>7, <2>1, <2>2
    <3> QED BY <1>1, <3>1, <3>2
  <2> QED BY <1>1, <2>1, <2>2
<1> QED BY <1>6, <1>7

\* The printout of what is cut is the one the structure gets in the file.
LEMMA CutIsPiece ==
    ASSUME StreamTyped, Boundary, WholeStructures, Held # {}
    PROVE  PrintoutOf({x \in LineStarts(taken + 1, read) : x < At}, At, text[At])
             = FilePiece(At)
<1>1. /\ At \in Nat /\ At <= read /\ taken < At /\ taken \in Nat /\ read \in Nat
      /\ \A c \in Closing : c < At => c <= taken
  BY CutIsNext, StartsAre DEF StreamTyped
<1>2. \A x \in Opens : x \in Nat
  BY StartsAre
<1>3. Closing \subseteq Opens
  BY StartsAre
<1>4. ASSUME NEW x \in Opens, x < At
      PROVE  taken < x <=> \A c \in Closing : c < At => c < x
  <2>1. CASE taken < x
    BY <1>1, <1>2, <1>3, <2>1
  <2>2. CASE ~(taken < x)
    <3>1. PICK c \in Closing : x <= c /\ c <= taken
      BY <1>1, <1>2, <2>2 DEF WholeStructures
    <3> QED BY <1>1, <1>2, <1>3, <2>2, <3>1
  <2> QED BY <2>1, <2>2
<1>5. {x \in LineStarts(taken + 1, read) : x < At}
        = {x \in Opens : x < At /\ \A c \in Closing : c < At => c < x}
  <2>1. LineStarts(taken + 1, read) = {s \in Opens : taken < s /\ s <= read}
    BY SameLines
  <2>2. \A x \in Opens : x < At => x <= read
    BY <1>1, <1>2
  <2> QED BY <1>4, <2>1, <2>2
<1> QED BY <1>5 DEF FilePiece, Opens, Closing, Size

\* The cards after the last structure are the ones the file ends with.
LEMMA RestIsTail ==
    ASSUME StreamTyped, Boundary, WholeStructures, AtEnd, final, Held = {}
    PROVE  /\ \A c \in Closing : c <= taken
           /\ PrintoutOf(LineStarts(taken + 1, read), read + 1, "none")
                = FileTail("none")
           /\ FileTail("none").body = LineStarts(taken + 1, read)
<1>1. read = Size /\ read \in Nat /\ taken \in Nat
  BY DEF AtEnd, StreamTyped
<1>2. \A x \in Opens : x \in Nat /\ x <= Size
  BY StartsAre DEF StreamTyped
<1>3. Closing \subseteq Opens
  BY StartsAre
<1>4. ASSUME NEW c \in Closing PROVE c <= taken
  <2>1. ~(taken < c)
    BY <1>1, <1>2, <1>3, SameClosers DEF Held
  <2> QED BY <1>1, <1>2, <1>3, <2>1
<1>5. ASSUME NEW x \in Opens
      PROVE  taken < x <=> \A c \in Closing : c < x
  <2>1. CASE taken < x
    BY <1>1, <1>2, <1>3, <1>4, <2>1
  <2>2. CASE ~(taken < x)
    <3>1. PICK c \in Closing : x <= c /\ c <= taken
      BY <1>1, <1>2, <2>2 DEF WholeStructures
    <3> QED BY <1>1, <1>2, <1>3, <2>2, <3>1
  <2> QED BY <2>1, <2>2
<1>6. LineStarts(taken + 1, read) = {x \in Opens : \A c \in Closing : c < x}
  <2>1. LineStarts(taken + 1, read) = {s \in Opens : taken < s /\ s <= read}
    BY SameLines
  <2> QED BY <1>1, <1>2, <1>5, <2>1
<1>7. FileTail("none")
        = PrintoutOf({x \in Opens : \A c \in Closing : c < x}, Size + 1, "none")
  BY DEF FileTail, Opens, Closing, Size
<1>8. PICK body : body = LineStarts(taken + 1, read)
  OBVIOUS
<1>9. FileTail("none") = PrintoutOf(body, read + 1, "none")
  BY <1>1, <1>6, <1>7, <1>8
<1>10. PrintoutOf(body, read + 1, "none").body = body
  BY DEF PrintoutOf
<1> QED BY <1>4, <1>8, <1>9, <1>10

-----------------------------------------------------------------------------
(* The printouts.                                                           *)

\* Each printout is where its structure is closed, the last cards' at the end.
LEMMA PiecesAt ==
    /\ \A s : FilePiece(s).at = s
    /\ \A closer : FileTail(closer).at = Size + 1
BY DEF FilePiece, FileTail, PrintoutOf, Size

\* One more printout, after all the others.
LEMMA ListsOne ==
    ASSUME NEW S, NEW o \in Seq(S), NEW D, D \subseteq Nat, Lists(o, D),
           NEW s \in Nat, \A d \in D : d < s, NEW p, p = FilePiece(s)
    PROVE  Lists(Append(o, p), D \cup {s})
<1>1. PICK n \in Nat : n = Len(o) /\ DOMAIN o = 1 .. n
  OBVIOUS
<1>2. PICK q : q = Append(o, p)
  OBVIOUS
<1>3. /\ DOMAIN q = 1 .. n + 1 /\ q[n + 1] = p /\ \A k \in 1 .. n : q[k] = o[k]
      /\ n + 1 \in 1 .. n + 1
  <2>1. o \in Seq(S \cup {p}) /\ p \in S \cup {p}
    OBVIOUS
  <2>2. q \in Seq(S \cup {p}) /\ Len(q) = n + 1 /\ q[n + 1] = p /\ \A k \in 1 .. n : q[k] = o[k]
    BY <1>1, <1>2, <2>1, AppendProperties
  <2> QED BY <1>1, <2>2
<1>4. p.at = s /\ p = FilePiece(p.at)
  BY PiecesAt
<1>5. \A k \in 1 .. n + 1 : k = n + 1 \/ k \in 1 .. n
  BY <1>1
<1>6. ASSUME NEW k \in DOMAIN q
      PROVE  q[k].at \in D \cup {s} /\ q[k] = FilePiece(q[k].at)
  BY <1>1, <1>3, <1>4, <1>5 DEF Lists
<1>7. ASSUME NEW k \in DOMAIN q, NEW j \in 1 .. k - 1 PROVE q[j].at < q[k].at
  <2>1. j \in 1 .. n
    BY <1>1, <1>3
  <2>2. q[j] = o[j] /\ o[j].at \in D
    BY <1>1, <1>3, <2>1 DEF Lists
  <2>3. CASE k = n + 1
    BY <1>3, <1>4, <2>2, <2>3
  <2>4. CASE k \in 1 .. n
    <3>1. q[k] = o[k] /\ o[j].at < o[k].at
      BY <1>1, <1>3, <2>4 DEF Lists
    <3> QED BY <2>2, <3>1
  <2> QED BY <1>3, <1>5, <2>3, <2>4
<1>8. ASSUME NEW d \in D \cup {s} PROVE \E k \in DOMAIN q : q[k].at = d
  <2>1. CASE d = s
    BY <1>3, <1>4, <2>1
  <2>2. CASE d \in D
    <3>1. PICK k \in 1 .. n : o[k].at = d
      BY <1>1, <2>2 DEF Lists
    <3>2. k \in DOMAIN q /\ q[k].at = d
      BY <1>1, <1>3, <3>1
    <3> QED BY <3>2
  <2> QED BY <2>1, <2>2
<1> QED BY <1>2, <1>6, <1>7, <1>8 DEF Lists

\* The printouts of closing lines with no gap before them, of which each but
\* the last goes on, are the chain's, as far as they go.
InFileOrder(o) ==
    \A k \in DOMAIN o :
       /\ o[k] \in Chain
       /\ \A p \in Chain : p.at < o[k].at => \E j \in 1 .. k - 1 : o[j] = p
       /\ \A j \in 1 .. k - 1 : o[j].at < o[k].at

GoodStart(D) ==
    /\ D \subseteq Closing
    /\ \A s \in D : \A c \in Closing : c < s => c \in D /\ GoesOn(FilePiece(c))

LEMMA ChainIs ==
    \A p \in Chain :
       \/ \E s \in Closing : /\ p = FilePiece(s) /\ p.at = s
                             /\ \A c \in Closing : c < s => GoesOn(FilePiece(c))
       \/ /\ p = FileTail("none") /\ p.at = Size + 1
          /\ \A c \in Closing : c < Size + 1 => GoesOn(FilePiece(c))
          /\ \E x \in p.body : ~IsBreak(x)
<1>1. ASSUME NEW p \in Chain,
             NEW s \in Closing, Reached(s), p = FilePiece(s)
      PROVE  /\ p.at = s
             /\ \A c \in Closing : c < s => GoesOn(FilePiece(c))
  BY <1>1, PiecesAt DEF Reached, Closing
<1>2. ASSUME NEW p, p = FileTail("none"), Reached(p.at)
      PROVE  /\ p.at = Size + 1
             /\ \A c \in Closing : c < Size + 1 => GoesOn(FilePiece(c))
  BY <1>2, PiecesAt DEF Reached, Closing
<1>3. ASSUME NEW p \in Chain
      PROVE  \/ \E s \in Closing : Reached(s) /\ p = FilePiece(s)
             \/ /\ p = FileTail("none") /\ Reached(p.at)
                /\ \E x \in p.body : ~IsBreak(x)
  BY DEF Chain, Closing
<1> QED BY <1>1, <1>2, <1>3

LEMMA GoodStartInOrder ==
    ASSUME StreamTyped, NEW S, NEW o \in Seq(S), NEW D, GoodStart(D), Lists(o, D)
    PROVE  InFileOrder(o)
<1>1. PICK n \in Nat : n = Len(o) /\ DOMAIN o = 1 .. n
  OBVIOUS
<1>2. /\ Closing \subseteq 1 .. Size /\ Size \in Nat /\ D \subseteq Closing
      /\ \A s \in Closing : s \in Nat /\ s < Size + 1
  BY StartsAre DEF StreamTyped, GoodStart
<1>3. ASSUME NEW k \in DOMAIN o
      PROVE  o[k] \in Chain
  <2>1. PICK s \in D : s = o[k].at /\ o[k] = FilePiece(s)
    BY DEF Lists
  <2>2. Reached(s)
    BY <1>2, <2>1 DEF Reached, GoodStart, Closing
  <2>3. s \in FileClosers
    BY <1>2 DEF Closing
  <2> QED BY <2>1, <2>2, <2>3 DEF Chain
<1>4. ASSUME NEW k \in DOMAIN o, NEW p \in Chain, p.at < o[k].at
      PROVE  \E j \in 1 .. k - 1 : o[j] = p
  <2>1. PICK s \in D : s = o[k].at
    BY DEF Lists
  <2>2. ASSUME p.at = Size + 1 PROVE FALSE
    <3>1. s \in Nat /\ s < Size + 1 /\ Size \in Nat
      BY <1>2, <2>1
    <3>2. Size + 1 < s
      BY <1>4, <2>1, <2>2, Zenon
    <3> QED BY <3>1, <3>2
  <2>3. PICK c \in Closing : p = FilePiece(c) /\ p.at = c
    BY <2>2, ChainIs
  <2>4. c \in D
    BY <1>4, <2>1, <2>3 DEF GoodStart
  <2>5. PICK j \in DOMAIN o : o[j].at = c /\ o[j] = p
    BY <2>3, <2>4 DEF Lists
  <2>6. ~(k < j) /\ k # j
    <3>1. c \in Nat /\ s \in Nat /\ c < s
      BY <1>2, <1>4, <2>1, <2>3
    <3>2. k < j => k \in 1 .. j - 1
      BY <1>1
    <3>3. k < j => s < c
      BY <2>1, <2>5, <3>2 DEF Lists
    <3> QED BY <2>1, <2>5, <3>1, <3>3
  <2>7. j \in 1 .. k - 1
    BY <1>1, <2>6
  <2> QED BY <2>5, <2>7
<1> QED BY <1>3, <1>4 DEF InFileOrder, Lists

-----------------------------------------------------------------------------
(* A step leaves the text, and what the text says.                          *)

LEMMA TextStays ==
    ASSUME text' = text
    PROVE  /\ Size' = Size /\ Opens' = Opens /\ Closing' = Closing
           /\ \A i, b : EndsLine(i, b)' <=> EndsLine(i, b)
           /\ \A s, b : Complete(s, b)' <=> Complete(s, b)
           /\ \A s : FilePiece(s)' = FilePiece(s)
           /\ \A p : GoesOn(p)' <=> GoesOn(p)
           /\ Chain' = Chain
           /\ \A o, D : Lists(o, D)' <=> Lists(o, D)
<1>1. Size' = Size /\ \A i : IsBreak(i)' <=> IsBreak(i)
  BY DEF Size, IsBreak
<1>2. \A i, b : EndsLine(i, b)' <=> EndsLine(i, b)
  BY <1>1 DEF EndsLine
<1>3. \A s, b : Complete(s, b)' <=> Complete(s, b)
  BY <1>2 DEF Complete
<1>4. Opens' = Opens
  <2>1. \A x : x \in Opens' <=> x \in Opens
    BY <1>1, <1>2 DEF Opens, LineStarts
  <2> QED BY <2>1
<1>5. Closing' = Closing
  <2>1. Closing = {s \in Opens : text[s] \in {"NX", "EN"}}
    BY DEF Opens, Closing, FileClosers, Closers, Size
  <2>2. Closing' = {s \in Opens' : text'[s] \in {"NX", "EN"}}
    BY DEF Opens, Closing, FileClosers, Closers, Size
  <2> QED BY <1>4, <2>1, <2>2
<1>6. \A body, closer : Verdict(body, closer)' = Verdict(body, closer)
  BY <1>1 DEF Verdict
<1>7. \A body, at, closer : PrintoutOf(body, at, closer)' = PrintoutOf(body, at, closer)
  BY <1>6 DEF PrintoutOf
<1>8. ASSUME NEW s PROVE FilePiece(s)' = FilePiece(s)
  <2>1. PICK body : body = {x \in Opens : x < s /\ \A c \in Closing : c < s => c < x}
    OBVIOUS
  <2>2. FilePiece(s) = PrintoutOf(body, s, text[s])
    BY <2>1 DEF FilePiece, Opens, Closing, Size
  <2>3. FilePiece(s)' = PrintoutOf(body, s, text[s])'
    <3>1. body = {x \in Opens' : x < s /\ \A c \in Closing' : c < s => c < x}
      BY <1>4, <1>5, <2>1
    <3> QED BY <3>1 DEF FilePiece, Opens, Closing, Size
  <2>4. PrintoutOf(body, s, text[s])' = PrintoutOf(body, s, text[s])
    BY <1>7
  <2> QED BY <2>2, <2>3, <2>4
<1>9. \A p : GoesOn(p)' <=> GoesOn(p)
  BY DEF GoesOn
<1>10. FileTail("none")' = FileTail("none")
  <2>1. PICK body, m : /\ body = {x \in Opens : \A c \in Closing : c < x}
                       /\ m = Size
    OBVIOUS
  <2>2. FileTail("none") = PrintoutOf(body, m + 1, "none")
    BY <2>1 DEF FileTail, Opens, Closing, Size
  <2>3. FileTail("none")' = PrintoutOf(body, m + 1, "none")'
    <3>1. body = {x \in Opens' : \A c \in Closing' : c < x} /\ m = Size'
      BY <1>1, <1>4, <1>5, <2>1
    <3> QED BY <3>1 DEF FileTail, Opens, Closing, Size
  <2>4. PrintoutOf(body, m + 1, "none")' = PrintoutOf(body, m + 1, "none")
    BY <1>7
  <2> QED BY <2>2, <2>3, <2>4
<1>11. Chain' = Chain
  <2>1. \A s : Reached(s)' <=> Reached(s)
    BY <1>5, <1>8, <1>9 DEF Reached, Closing
  <2>2. \A p : p \in Chain <=>
          \/ \E s \in Closing : Reached(s) /\ p = FilePiece(s)
          \/ /\ p = FileTail("none") /\ Reached(p.at)
             /\ \E x \in p.body : ~IsBreak(x)
    BY DEF Chain, Closing
  <2>3. \A p : p \in Chain' <=>
          \/ \E s \in Closing' : Reached(s)' /\ p = FilePiece(s)'
          \/ /\ p = FileTail("none")' /\ Reached(p.at)'
             /\ \E x \in p.body : ~IsBreak(x)'
    BY DEF Chain, Closing
  <2>4. \A p : p \in Chain' <=> p \in Chain
    BY <1>1, <1>5, <1>8, <1>10, <2>1, <2>2, <2>3
  <2> QED BY <2>4
<1>12. \A o, D : Lists(o, D)' <=> Lists(o, D)
  BY <1>8 DEF Lists
<1> QED BY <1>1, <1>2, <1>3, <1>4, <1>5, <1>8, <1>9, <1>11, <1>12

\* A step of the host, and one that answers nothing, leave what is printed.
LEMMA PrintsStay ==
    ASSUME text' = text, turn' = turn, out' = out, InTurn
    PROVE  InTurn'
BY TextStays DEF InTurn

LEMMA HostKeeps ==
    ASSUME StreamInv, HostWrites \/ HostCloses
    PROVE  StreamInv'
<1>1. /\ text' = text /\ patient' = patient /\ read' = read /\ taken' = taken /\ swallow' = swallow
      /\ final' = final /\ turn' = turn /\ out' = out
      /\ \/ closed' = closed /\ ~closed /\ \E n \in 1 .. Size - sent : sent' = sent + n
         \/ sent' = sent /\ sent = Size /\ closed' = TRUE
  BY DEF HostWrites, HostCloses, engine, Size
<1>2. Size' = Size /\ Size \in Nat /\ sent \in Nat /\ read \in Nat
  BY <1>1, TextStays DEF StreamInv, StreamTyped
<1>3. StreamTyped'
  <2>1. sent' \in 0 .. Size /\ sent <= sent'
    BY <1>1, <1>2 DEF StreamInv, StreamTyped
  <2>2. read \in 0 .. sent'
    BY <1>2, <2>1 DEF StreamInv, StreamTyped
  <2>3. closed' \in BOOLEAN
    BY <1>1 DEF StreamInv, StreamTyped
  <2> QED BY <1>1, <1>2, <2>1, <2>2, <2>3 DEF StreamInv, StreamTyped
<1>4. Boundary'
  <2>1. EndsLine(taken, Size)' <=> EndsLine(taken, Size)
    BY <1>1, TextStays
  <2> QED BY <1>1, <1>2, <2>1 DEF StreamInv, Boundary
<1>5. AtEnd'
  BY <1>1, <1>2 DEF StreamInv, AtEnd
<1>6. WholeStructures'
  BY <1>1, TextStays DEF StreamInv, WholeStructures
<1>7. Printouts'
  <2>1. Behind' = Behind
    BY <1>1, TextStays DEF Behind
  <2>2. Lists(out, Behind)' <=> Lists(out, Behind)
    BY <1>1, <2>1, TextStays DEF Lists
  <2>3. \A c : GoesOn(FilePiece(c))' <=> GoesOn(FilePiece(c))
    BY <1>1, TextStays DEF GoesOn
  <2> QED BY <1>1, <2>1, <2>2, <2>3 DEF StreamInv, Printouts
<1>8. NoneWaits'
  <2>1. \A s : Complete(s, read)' <=> Complete(s, read)
    BY <1>1, TextStays DEF Complete
  <2>2. Closing' = Closing
    BY <1>1, TextStays
  <2> QED BY <1>1, <2>1, <2>2 DEF StreamInv, NoneWaits
<1>9. OverPrints'
  BY <1>1, PrintsStay DEF StreamInv, OverPrints
<1> QED BY <1>3, <1>4, <1>5, <1>6, <1>7, <1>8, <1>9 DEF StreamInv

-----------------------------------------------------------------------------
(* The engine's steps.                                                      *)

LEMMA ReadsKeeps ==
    ASSUME StreamInv, Reads
    PROVE  StreamInv'
<1>1. /\ text' = text /\ patient' = patient /\ sent' = sent /\ closed' = closed /\ final' = final
      /\ out' = out /\ turn = "read" /\ turn' = "cut" /\ read < sent /\ read' = sent
      /\ swallow' = FALSE
      /\ taken' = IF swallow /\ text[read + 1] = "LF" THEN read + 1 ELSE taken
  BY DEF Reads
<1>2. /\ Size' = Size /\ Size \in Nat /\ sent \in Nat /\ read \in Nat /\ taken \in Nat
      /\ taken <= read /\ sent <= Size
  BY <1>1, TextStays DEF StreamInv, StreamTyped
<1>3. Boundary /\ StreamTyped
  BY DEF StreamInv
<1>4. taken' \in Nat /\ taken' <= read' /\ taken <= taken'
  BY <1>1, <1>2
<1>5. StreamTyped'
  <2>1. taken' \in 0 .. read' /\ read' \in 0 .. sent'
    BY <1>1, <1>2, <1>4
  <2>2. \E S : out' \in Seq(S)
    BY <1>1, <1>3 DEF StreamTyped
  <2> QED BY <1>1, <1>2, <1>3, <2>1, <2>2 DEF StreamTyped
<1>6. taken' = 0 \/ taken' = Size \/ EndsLine(taken', Size)
  <2>1. CASE swallow /\ text[read + 1] = "LF"
    BY <1>1, <2>1 DEF EndsLine, IsBreak
  <2>2. CASE swallow /\ text[read + 1] # "LF"
    BY <1>1, <1>3, <2>2 DEF Boundary, EndsLine, IsBreak
  <2>3. CASE ~swallow
    BY <1>1, <1>3, <2>3 DEF Boundary
  <2> QED BY <2>1, <2>2, <2>3
<1>7. Boundary'
  <2>1. EndsLine(taken, Size)' <=> EndsLine(taken', Size)
    BY <1>1, <1>2, TextStays DEF EndsLine, IsBreak
  <2> QED BY <1>1, <1>2, <1>6, <2>1 DEF Boundary
<1>8. AtEnd'
  BY <1>1, <1>2 DEF StreamInv, AtEnd
\* The line feed that is skipped starts no line.
<1>9. ASSUME NEW x \in Opens, x <= taken' PROVE x <= taken
  <2>1. x \in Nat
    BY <1>3, StartsAre
  <2>2. CASE swallow /\ text[read + 1] = "LF"
    <3>1. taken = read /\ taken > 0 /\ text[read] = "CR" /\ taken' = read + 1
      BY <1>1, <1>3, <2>2 DEF Boundary
    <3>2. ~EndsLine(read, Size)
      BY <1>1, <1>2, <2>2, <3>1 DEF EndsLine
    <3>3. x # read + 1
      <4> SUFFICES ASSUME x = read + 1 PROVE FALSE
        OBVIOUS
      <4>1. x - 1 = read /\ x # 1
        BY <1>2, <3>1
      <4> QED BY <1>3, <2>1, <3>2, <4>1, StartsAre
    <3> QED BY <1>2, <1>9, <2>1, <3>1, <3>3
  <2>3. CASE ~(swallow /\ text[read + 1] = "LF")
    BY <1>1, <1>9, <2>3
  <2> QED BY <2>2, <2>3
<1>10. Opens' = Opens /\ Closing' = Closing /\ Closing \subseteq Opens
  BY <1>1, <1>3, TextStays, StartsAre
<1>11. \A c \in Closing : c \in Nat
  BY <1>3, <1>10, StartsAre
<1>12. WholeStructures'
  BY <1>2, <1>4, <1>9, <1>10, <1>11 DEF StreamInv, WholeStructures
<1>13. Behind' = Behind
  BY <1>2, <1>4, <1>9, <1>10, <1>11 DEF Behind
<1>14. Printouts'
  <2>1. Lists(out, Behind) /\ \A c \in Behind : GoesOn(FilePiece(c))
    BY <1>1 DEF StreamInv, Printouts
  <2>2. Lists(out, Behind)'
    BY <1>1, <1>13, <2>1, TextStays DEF Lists
  <2>3. \A c : GoesOn(FilePiece(c))' <=> GoesOn(FilePiece(c))
    BY <1>1, TextStays DEF GoesOn
  <2> QED BY <1>13, <2>1, <2>2, <2>3 DEF Printouts
<1>15. NoneWaits' /\ OverPrints'
  BY <1>1 DEF NoneWaits, OverPrints
<1> QED BY <1>5, <1>7, <1>8, <1>12, <1>14, <1>15 DEF StreamInv

\* A step of the engine that leaves its buffer where it is.
LEMMA BufferKept ==
    ASSUME StreamInv, text' = text, patient' = patient, sent' = sent, closed' = closed,
           read' = read, taken' = taken, swallow' = swallow
    PROVE  /\ Size' = Size /\ Closing' = Closing /\ Behind' = Behind
           /\ Boundary' /\ WholeStructures'
           /\ \A s : Complete(s, read)' <=> Complete(s, read)
           /\ \A c : GoesOn(FilePiece(c))' <=> GoesOn(FilePiece(c))
<1>1. Size' = Size /\ Closing' = Closing /\ Opens' = Opens
  BY TextStays
<1>2. Behind' = Behind
  BY <1>1 DEF Behind
<1>3. Boundary'
  <2>1. EndsLine(taken, Size)' <=> EndsLine(taken, Size)
    BY <1>1, TextStays DEF EndsLine, IsBreak
  <2> QED BY <1>1, <2>1 DEF StreamInv, Boundary
<1>4. WholeStructures'
  BY <1>1 DEF StreamInv, WholeStructures
<1>5. \A s : Complete(s, read)' <=> Complete(s, read)
  BY TextStays DEF Complete
<1>6. \A c : GoesOn(FilePiece(c))' <=> GoesOn(FilePiece(c))
  BY TextStays DEF GoesOn
<1> QED BY <1>1, <1>2, <1>3, <1>4, <1>5, <1>6

LEMMA ReadsEndKeeps ==
    ASSUME StreamInv, ReadsEnd
    PROVE  StreamInv'
<1>1. /\ text' = text /\ patient' = patient /\ sent' = sent /\ closed' = closed /\ read' = read
      /\ taken' = taken /\ swallow' = swallow /\ out' = out
      /\ turn = "read" /\ turn' = "cut" /\ closed /\ read = sent /\ final' = TRUE
  BY DEF ReadsEnd
<1>2. Size' = Size /\ Behind' = Behind /\ Boundary' /\ WholeStructures'
  BY <1>1, BufferKept
<1>3. StreamTyped'
  BY <1>1, <1>2 DEF StreamInv, StreamTyped
<1>4. AtEnd'
  BY <1>1, <1>2 DEF StreamInv, AtEnd
<1>5. Printouts'
  <2>1. Lists(out, Behind) /\ \A c \in Behind : GoesOn(FilePiece(c))
    BY <1>1 DEF StreamInv, Printouts
  <2>2. Lists(out, Behind)'
    BY <1>1, <1>2, <2>1, TextStays DEF Lists
  <2>3. \A c : GoesOn(FilePiece(c))' <=> GoesOn(FilePiece(c))
    BY <1>1, BufferKept
  <2> QED BY <1>2, <2>1, <2>2, <2>3 DEF Printouts
<1>6. NoneWaits' /\ OverPrints'
  BY <1>1 DEF NoneWaits, OverPrints
<1> QED BY <1>2, <1>3, <1>4, <1>5, <1>6 DEF StreamInv

\* The closing lines behind, once the next structure is cut off.
LEMMA CutMoves ==
    ASSUME StreamInv, Held # {}
    PROVE  /\ {s \in Closing : s <= End} = Behind \cup {At}
           /\ \A x \in Opens : x <= End => \E c \in Closing : x <= c /\ c <= End
           /\ \A d \in Behind : d < At
           /\ Behind \subseteq Nat /\ At \in Nat
<1>1. StreamTyped /\ Boundary /\ AtEnd /\ WholeStructures
  BY DEF StreamInv
<1>2. /\ At \in Closing /\ At \in Opens /\ taken < At /\ \A c \in Closing : c < At => c <= taken
      /\ End \in Nat /\ At <= End /\ \A x \in Opens : x <= End => x <= At
  BY <1>1, CutIsNext, CutEnds
<1>3. Closing \subseteq Opens /\ (\A x \in Opens : x \in Nat) /\ taken \in Nat
  BY <1>1, StartsAre DEF StreamTyped
<1>4. ASSUME NEW c \in Closing PROVE c <= End <=> c <= taken \/ c = At
  <2>1. c \in Nat /\ At \in Nat /\ c \in Opens
    BY <1>2, <1>3
  <2>2. c <= End => c <= At
    BY <1>2, <2>1
  <2>3. c <= At => c = At \/ c <= taken
    BY <1>2, <2>1
  <2>4. c <= taken \/ c = At => c <= End
    BY <1>2, <1>3, <2>1
  <2> QED BY <2>2, <2>3, <2>4
<1>5. {s \in Closing : s <= End} = Behind \cup {At}
  BY <1>2, <1>4 DEF Behind
<1>6. \A d \in Behind : d < At
  BY <1>2, <1>3 DEF Behind
<1>7. ASSUME NEW x \in Opens, x <= End PROVE x <= At /\ At <= End
  BY <1>2, <1>7
<1>8. Behind \subseteq Nat
  BY <1>3 DEF Behind
<1> QED BY <1>2, <1>3, <1>5, <1>6, <1>7, <1>8

LEMMA CutsKeeps ==
    ASSUME StreamInv, Cuts
    PROVE  StreamInv'
<1> DEFINE p == PrintoutOf({x \in LineStarts(taken + 1, read) : x < At}, At, text[At])
<1>1. /\ text' = text /\ patient' = patient /\ sent' = sent /\ closed' = closed /\ read' = read
      /\ final' = final /\ turn = "cut" /\ Held # {}
      /\ out' = Append(out, p) /\ taken' = End
      /\ swallow' = (text[End] = "CR" /\ End = read /\ ~final)
      /\ turn' = IF GoesOn(p) THEN "cut" ELSE "over"
  BY DEF Cuts, Held, At, End
<1>2. StreamTyped /\ Boundary /\ AtEnd /\ WholeStructures
  BY DEF StreamInv
<1>3. p = FilePiece(At)
  BY <1>1, <1>2, CutIsPiece
<1> HIDE DEF p
<1>4. /\ At \in Closing /\ At \in Nat /\ End \in Nat /\ End <= read
      /\ \/ text[End] = "CR" /\ End = read /\ ~final
         \/ End = Size \/ EndsLine(End, Size)
  BY <1>1, <1>2, CutIsNext, CutEnds, CutMoves
<1>5. /\ Size' = Size /\ Size \in Nat /\ Opens' = Opens /\ Closing' = Closing /\ Closing \subseteq Opens
      /\ \A s \in Closing : s \in Nat /\ s <= Size
  BY <1>1, <1>2, TextStays, StartsAre DEF StreamTyped
<1>6. Behind' = Behind \cup {At}
  BY <1>1, <1>5, CutMoves DEF Behind
<1>7. PICK S : out \in Seq(S)
  BY <1>2 DEF StreamTyped
<1>8. out' \in Seq(S \cup {p})
  BY <1>1, <1>7
<1>9. Lists(out, Behind) /\ \A c \in Behind : GoesOn(FilePiece(c))
  BY <1>1 DEF StreamInv, Printouts
<1>10. Lists(out', Behind \cup {At})
  <2>1. Behind \subseteq Nat /\ (\A d \in Behind : d < At)
    BY <1>1, CutMoves
  <2> QED BY <1>1, <1>3, <1>4, <1>7, <1>9, <2>1, ListsOne
<1>11. StreamTyped'
  <2>1. taken' \in 0 .. read' /\ read' \in 0 .. sent'
    BY <1>1, <1>2, <1>4 DEF StreamTyped
  <2>2. swallow' \in BOOLEAN /\ turn' \in {"read", "cut", "over"}
    BY <1>1
  <2> QED BY <1>1, <1>2, <1>5, <1>8, <2>1, <2>2 DEF StreamTyped
<1>12. Boundary'
  <2>1. EndsLine(taken, Size)' <=> EndsLine(End, Size)
    BY <1>1, <1>5 DEF EndsLine, IsBreak
  <2>2. swallow' => taken' > 0 /\ taken' = read' /\ text'[taken'] = "CR"
    <3>1. At >= 1 /\ At <= End
      BY <1>1, <1>2, <1>4, CutEnds, CutIsNext DEF StreamTyped
    <3>2. End > 0
      BY <1>4, <3>1
    <3> QED BY <1>1, <3>2
  <2>3. ~swallow' => End = Size \/ EndsLine(End, Size)
    BY <1>1, <1>4
  <2> QED BY <1>1, <1>5, <2>1, <2>2, <2>3 DEF Boundary
<1>13. AtEnd'
  BY <1>1, <1>2, <1>5 DEF AtEnd
<1>14. WholeStructures'
  BY <1>1, <1>5, CutMoves DEF WholeStructures
<1>15. NoneWaits'
  BY <1>1 DEF NoneWaits
<1>16. Printouts'
  <2>1. Lists(out, Behind)'
    <3>1. PICK o, D : o = out' /\ D = Behind'
      OBVIOUS
    <3>2. Lists(o, D)
      BY <1>6, <1>10, <3>1
    <3>3. Lists(o, D)'
      BY <1>1, <3>2, TextStays
    <3> QED BY <3>1, <3>3 DEF Lists
  <2>2. \A c : GoesOn(FilePiece(c))' <=> GoesOn(FilePiece(c))
    BY <1>1, TextStays DEF GoesOn
  <2>3. turn' # "over" => GoesOn(FilePiece(At))
    BY <1>1, <1>3
  <2> QED BY <1>6, <1>9, <2>1, <2>2, <2>3 DEF Printouts
<1>17. OverPrints'
  <2> SUFFICES ASSUME turn' = "over" PROVE InTurn'
    BY DEF OverPrints
  <2>1. ~GoesOn(FilePiece(At))
    BY <1>1, <1>3
  <2>2. \A c \in Closing : c < At => c \in Behind
    BY <1>1, <1>2, CutIsNext DEF Behind
  <2>3. GoodStart(Behind \cup {At})
    <3>1. Behind \cup {At} \subseteq Closing
      BY <1>4 DEF Behind
    <3>2. ASSUME NEW s \in Behind, NEW c \in Closing, c < s PROVE c \in Behind
      BY <1>2, <1>5, <3>2 DEF Behind, StreamTyped
    <3> QED BY <1>9, <2>2, <3>1, <3>2 DEF GoodStart
  <2>4. InFileOrder(out')
    BY <1>2, <1>8, <1>10, <2>3, GoodStartInOrder
  <2>5. ASSUME NEW q \in Chain PROVE \E k \in DOMAIN out' : out'[k] = q
    <3>1. At < Size + 1
      BY <1>4, <1>5
    <3>2. PICK s \in Closing :
            /\ q = FilePiece(s)
            /\ \A c \in Closing : c < s => GoesOn(FilePiece(c))
      BY <1>4, <2>1, <3>1, ChainIs
    <3>3. s <= At
      BY <1>4, <1>5, <2>1, <3>2
    <3>4. s \in Behind \cup {At}
      BY <1>4, <1>5, <2>2, <3>3
    <3>5. PICK k \in DOMAIN out' : out'[k].at = s
      BY <1>10, <3>4 DEF Lists
    <3>6. out'[k] = q
      BY <1>10, <3>2, <3>5 DEF Lists
    <3> QED BY <3>5, <3>6
  <2>6. Chain' = Chain
    BY <1>1, TextStays
  <2> QED BY <2>4, <2>5, <2>6 DEF InTurn, InFileOrder
<1> QED BY <1>11, <1>12, <1>13, <1>14, <1>15, <1>16, <1>17 DEF StreamInv

LEMMA NothingToCutKeeps ==
    ASSUME StreamInv, NothingToCut
    PROVE  StreamInv'
<1> DEFINE rest == PrintoutOf(LineStarts(taken + 1, read), read + 1, "none")
<1>1. /\ text' = text /\ patient' = patient /\ sent' = sent /\ closed' = closed /\ read' = read
      /\ taken' = taken /\ swallow' = swallow /\ final' = final /\ turn = "cut" /\ Held = {}
      /\ out' = IF final /\ Leftover THEN Append(out, rest) ELSE out
      /\ turn' = IF final THEN "over" ELSE "read"
  BY DEF NothingToCut, Held
<1> HIDE DEF rest
<1>2. StreamTyped /\ Boundary /\ AtEnd /\ WholeStructures
  BY DEF StreamInv
<1>3. PICK S : out \in Seq(S)
  BY <1>2 DEF StreamTyped
<1>4. PICK n \in Nat : n = Len(out) /\ DOMAIN out = 1 .. n
  BY <1>3
<1>5. Lists(out, Behind) /\ \A c \in Behind : GoesOn(FilePiece(c))
  BY <1>1 DEF StreamInv, Printouts
<1>6. /\ Size' = Size /\ Size \in Nat /\ Closing' = Closing /\ Behind' = Behind
      /\ Boundary' /\ WholeStructures'
      /\ \A s : Complete(s, read)' <=> Complete(s, read)
      /\ \A c : GoesOn(FilePiece(c))' <=> GoesOn(FilePiece(c))
  BY <1>1, <1>2, BufferKept DEF StreamTyped
<1>7. /\ Closing \subseteq Opens /\ \A s \in Closing : s \in Nat /\ s <= Size
  BY <1>2, <1>6, StartsAre
<1>8. out' \in Seq(S \cup {rest})
  BY <1>1, <1>3
<1>9. StreamTyped'
  <2>1. turn' \in {"read", "cut", "over"}
    BY <1>1
  <2> QED BY <1>1, <1>2, <1>6, <1>8, <2>1 DEF StreamTyped
<1>10. AtEnd'
  BY <1>1, <1>2, <1>6 DEF AtEnd
<1>11. Printouts'
  <2> SUFFICES ASSUME ~final PROVE Printouts'
    BY <1>1 DEF Printouts
  <2>1. out' = out
    BY <1>1
  <2>2. Lists(out, Behind)'
    BY <1>1, <1>5, <1>6, <2>1, TextStays DEF Lists
  <2> QED BY <1>5, <1>6, <2>2 DEF Printouts
<1>12. NoneWaits'
  <2> SUFFICES ASSUME ~final, NEW s \in Closing, Complete(s, read) PROVE s <= taken
    BY <1>1, <1>6 DEF NoneWaits
  <2>1. s \in Nat /\ taken \in Nat /\ read \in Nat
    BY <1>2, <1>7 DEF StreamTyped
  <2>2. s <= read
    BY <2>1 DEF Complete
  <2>3. ~(taken < s)
    BY <1>1, <1>2, <2>2, SameClosers DEF Held
  <2> QED BY <2>1, <2>3
<1>13. OverPrints'
  <2> SUFFICES ASSUME final, turn' = "over" PROVE InTurn'
    BY <1>1 DEF OverPrints
  <2>1. /\ \A c \in Closing : c <= taken
        /\ rest = FileTail("none") /\ rest.at = Size + 1
        /\ rest.body = LineStarts(taken + 1, read)
    BY <1>1, <1>2, RestIsTail, PiecesAt DEF rest
  <2>2. Behind = Closing
    BY <2>1 DEF Behind
  <2>3. GoodStart(Behind)
    BY <1>5, <2>2 DEF GoodStart
  <2>4. InFileOrder(out)
    BY <1>2, <1>3, <1>5, <2>3, GoodStartInOrder
  <2>5. ASSUME NEW q \in Chain, q.at # Size + 1
        PROVE  \E k \in 1 .. n : out[k] = q
    <3>1. PICK s \in Closing : q = FilePiece(s)
      BY <2>5, ChainIs
    <3> QED BY <1>4, <1>5, <2>2, <3>1 DEF Lists
  <2>6. ASSUME NEW q \in Chain, q.at = Size + 1
        PROVE  q = rest /\ Leftover
    <3>1. q = rest /\ \E x \in q.body : ~IsBreak(x)
      BY <1>6, <1>7, <2>1, <2>6, ChainIs
    <3> QED BY <2>1, <3>1 DEF Leftover
  <2>7. Chain' = Chain
    BY <1>1, TextStays
  <2>8. CASE ~Leftover
    <3>1. out' = out
      BY <1>1, <2>8
    <3>2. \A q \in Chain : \E k \in DOMAIN out : out[k] = q
      BY <1>4, <2>5, <2>6, <2>8
    <3> QED BY <2>4, <2>7, <3>1, <3>2 DEF InTurn, InFileOrder
  <2>9. CASE Leftover
    <3>1. out' = Append(out, rest)
      BY <1>1, <2>9
    <3>2. PICK o : o = out'
      OBVIOUS
    <3>3. DOMAIN o = 1 .. n + 1 /\ o[n + 1] = rest /\ \A k \in 1 .. n : o[k] = out[k]
      <4>1. out \in Seq(S \cup {rest}) /\ rest \in S \cup {rest}
        BY <1>3
      <4>2. /\ o \in Seq(S \cup {rest}) /\ Len(o) = n + 1 /\ o[n + 1] = rest
            /\ \A k \in 1 .. n : o[k] = out[k]
        BY <1>4, <3>1, <3>2, <4>1, AppendProperties
      <4> QED BY <1>4, <4>2
    <3>4. rest \in Chain
      <4>1. Reached(rest.at)
        BY <1>5, <2>2 DEF Reached, Closing
      <4>2. \E x \in rest.body : ~IsBreak(x)
        BY <2>1, <2>9 DEF Leftover
      <4> QED BY <2>1, <4>1, <4>2 DEF Chain
    <3>5. \A k \in 1 .. n : out[k].at < Size + 1
      BY <1>4, <1>5, <1>6, <1>7, <2>2 DEF Lists
    <3>6. InFileOrder(o)
      <4> SUFFICES ASSUME NEW k \in 1 .. n + 1
                   PROVE  /\ o[k] \in Chain
                          /\ \A q \in Chain :
                               q.at < o[k].at => \E j \in 1 .. k - 1 : o[j] = q
                          /\ \A j \in 1 .. k - 1 : o[j].at < o[k].at
        BY <3>3 DEF InFileOrder
      <4>1. CASE k = n + 1
        <5>1. 1 .. k - 1 = 1 .. n
          BY <4>1
        <5>2. \A q \in Chain : q.at < Size + 1 => q.at # Size + 1
          BY <1>6
        <5>3. \A q \in Chain : q.at < Size + 1 => \E j \in 1 .. n : o[j] = q
          BY <2>5, <3>3, <5>2
        <5> QED BY <2>1, <3>3, <3>4, <3>5, <4>1, <5>1, <5>3
      <4>2. CASE k \in 1 .. n
        <5>1. \A j \in 1 .. k - 1 : j \in 1 .. n
          BY <4>2
        <5>2. o[k] = out[k] /\ \A j \in 1 .. k - 1 : o[j] = out[j]
          BY <3>3, <4>2, <5>1
        <5>3. /\ out[k] \in Chain
              /\ \A q \in Chain :
                   q.at < out[k].at => \E j \in 1 .. k - 1 : out[j] = q
              /\ \A j \in 1 .. k - 1 : out[j].at < out[k].at
          BY <1>4, <2>4, <4>2, Zenon DEF InFileOrder
        <5>4. ASSUME NEW q \in Chain, q.at < o[k].at
              PROVE  \E j \in 1 .. k - 1 : o[j] = q
          <6>1. PICK j \in 1 .. k - 1 : out[j] = q
            BY <5>2, <5>3, <5>4, Zenon
          <6> QED BY <5>2, <6>1, Zenon
        <5>5. \A j \in 1 .. k - 1 : o[j].at < o[k].at
          BY <5>2, <5>3, Zenon
        <5> QED BY <5>2, <5>3, <5>4, <5>5, Zenon
      <4>3. k = n + 1 \/ k \in 1 .. n
        OBVIOUS
      <4> QED BY <4>1, <4>2, <4>3, Zenon
    <3>7. \A q \in Chain : \E k \in DOMAIN o : o[k] = q
      <4>1. n + 1 \in 1 .. n + 1 /\ 1 .. n \subseteq 1 .. n + 1
        OBVIOUS
      <4> QED BY <2>5, <2>6, <3>3, <4>1
    <3> QED BY <2>7, <3>2, <3>6, <3>7 DEF InTurn, InFileOrder
  <2> QED BY <2>8, <2>9
<1> QED BY <1>6, <1>9, <1>10, <1>11, <1>12, <1>13 DEF StreamInv

-----------------------------------------------------------------------------
(* The theorems.                                                            *)

\* Every step of the stream keeps the invariant.
LEMMA StreamStep ==
    ASSUME StreamInv, [StreamNext]_streamVars
    PROVE  StreamInv'
<1>1. CASE HostWrites \/ HostCloses
  BY <1>1, HostKeeps
<1>2. CASE Engine
  BY <1>2, ReadsKeeps, ReadsEndKeeps, CutsKeeps, NothingToCutKeeps DEF Engine
<1>3. CASE UNCHANGED streamVars
  <2>1. /\ text' = text /\ patient' = patient /\ sent' = sent /\ closed' = closed /\ read' = read
        /\ taken' = taken /\ swallow' = swallow /\ final' = final /\ turn' = turn /\ out' = out
    BY <1>3 DEF streamVars
  <2>2. /\ Size' = Size /\ Closing' = Closing /\ Behind' = Behind /\ Boundary' /\ WholeStructures'
        /\ \A s : Complete(s, read)' <=> Complete(s, read)
        /\ \A c : GoesOn(FilePiece(c))' <=> GoesOn(FilePiece(c))
    BY <2>1, BufferKept
  <2>3. StreamTyped' /\ AtEnd'
    BY <2>1, <2>2 DEF StreamInv, StreamTyped, AtEnd
  <2>4. Lists(out, Behind)' <=> Lists(out, Behind)
    BY <2>1, <2>2, TextStays DEF Lists
  <2>5. Printouts' /\ NoneWaits'
    BY <2>1, <2>2, <2>4 DEF StreamInv, Printouts, NoneWaits
  <2>6. OverPrints'
    BY <2>1, PrintsStay DEF StreamInv, OverPrints
  <2> QED BY <2>2, <2>3, <2>5, <2>6 DEF StreamInv
<1> QED BY <1>1, <1>2, <1>3 DEF StreamNext, Over

LEMMA StreamStarts ==
    ASSUME StreamInit
    PROVE  StreamInv
<1>1. /\ text \in Seq(Symbols) /\ patient \in BOOLEAN /\ sent = 0 /\ closed = FALSE
      /\ read = 0 /\ taken = 0 /\ swallow = FALSE /\ final = FALSE /\ turn = "read" /\ out = <<>>
  BY InputsAreTexts DEF StreamInit
<1>2. Size \in Nat
  BY <1>1 DEF Size
<1>3. StreamTyped
  <2>1. \E S : out \in Seq(S)
    <3>1. <<>> \in Seq({})
      OBVIOUS
    <3> QED BY <1>1, <3>1, Zenon
  <2>2. taken \in 0 .. read /\ read \in 0 .. sent /\ sent \in 0 .. Size
    BY <1>1, <1>2
  <2>3. swallow \in BOOLEAN /\ final \in BOOLEAN /\ closed \in BOOLEAN
    BY <1>1, Zenon
  <2>4. turn \in {"read", "cut", "over"}
    BY <1>1
  <2> QED BY <1>1, <1>2, <2>1, <2>2, <2>3, <2>4, Zenon DEF StreamTyped
<1>4. \A x \in Opens : x \in Nat /\ x >= 1
  BY <1>3, StartsAre
<1>5. Closing \subseteq Opens
  BY <1>3, StartsAre
<1>6. Boundary /\ AtEnd
  BY <1>1 DEF Boundary, AtEnd
<1>7. WholeStructures
  BY <1>1, <1>4 DEF WholeStructures
<1>8. Behind = {}
  BY <1>1, <1>4, <1>5 DEF Behind
<1>9. Printouts
  <2>1. DOMAIN <<>> = {}
    OBVIOUS
  <2> QED BY <1>1, <1>8, <2>1 DEF Printouts, Lists
<1>10. NoneWaits
  BY <1>1, <1>4, <1>5 DEF NoneWaits, Complete
<1>11. OverPrints
  BY <1>1 DEF OverPrints
<1> QED BY <1>3, <1>6, <1>7, <1>9, <1>10, <1>11 DEF StreamInv

\* The invariant in the running engine.
LEMMA StreamSafe == StreamSpec => []StreamInv
<1>1. StreamInit => StreamInv
  BY StreamStarts
<1>2. StreamInv /\ [StreamNext]_streamVars => StreamInv'
  BY StreamStep
<1> QED BY <1>1, <1>2, PTL DEF StreamSpec

\* For any text, and however the host cuts its writes, each structure is answered
\* in its turn with its own printout, and when the stream is over its printouts
\* are those of a file that holds the text, unless a structure raises, for which
\* the file has one refusal only (_shell.stream, _render_chain, main).
THEOREM StreamPrintsAsFile == StreamSpec => []PrintsAsFile
<1>1. ASSUME StreamInv PROVE InTurn
  <2>1. StreamTyped
    BY <1>1 DEF StreamInv
  <2>2. CASE turn = "over"
    BY <1>1, <2>2 DEF StreamInv, OverPrints
  <2>3. CASE turn # "over"
    <3>1. Lists(out, Behind) /\ \A c \in Behind : GoesOn(FilePiece(c))
      BY <1>1, <2>3 DEF StreamInv, Printouts
    <3>2. Closing \subseteq Nat /\ taken \in Nat
      BY <2>1, StartsAre DEF StreamTyped
    <3>3. GoodStart(Behind)
      <4>1. ASSUME NEW s \in Behind, NEW c \in Closing, c < s PROVE c \in Behind
        BY <3>2, <4>1 DEF Behind
      <4> QED BY <3>1, <4>1 DEF GoodStart, Behind
    <3>4. PICK S : out \in Seq(S)
      BY <2>1 DEF StreamTyped
    <3>5. InFileOrder(out)
      BY <2>1, <3>1, <3>3, <3>4, GoodStartInOrder
    <3> QED BY <2>3, <3>5 DEF InFileOrder, InTurn
  <2> QED BY <2>2, <2>3
<1>2. ASSUME InTurn PROVE PrintsAsFile
  <2> SUFFICES ASSUME turn = "over", ~Raised
               PROVE  {out[k] : k \in DOMAIN out} = FileAnswer
    BY <1>2 DEF PrintsAsFile
  <2>1. FileAnswer = Chain
    BY DEF FileAnswer
  <2>2. \A p : p \in Chain <=> \E k \in DOMAIN out : out[k] = p
    BY <1>2 DEF InTurn
  <2>3. \A p : p \in Chain <=> p \in {out[k] : k \in DOMAIN out}
    BY <2>2
  <2> QED BY <2>1, <2>3
<1> QED BY <1>1, <1>2, StreamSafe, PTL

\* The engine waits for input only when every structure whose closing line it
\* was given is answered, so that a host that waits for that answer is not left
\* waiting (_shell.stream).
THEOREM StreamAnswersBeforeReading == StreamSpec => []AnsweredBeforeReading
<1>1. ASSUME StreamInv PROVE AnsweredBeforeReading
  <2> SUFFICES ASSUME turn = "read", NEW s \in Closing, Complete(s, read)
               PROVE  \E k \in DOMAIN out : out[k].at = s
    BY DEF AnsweredBeforeReading, Closing
  <2>1. s \in Behind
    BY <1>1 DEF StreamInv, NoneWaits, Behind
  <2> QED BY <1>1, <2>1 DEF StreamInv, Printouts, Lists
<1> QED BY <1>1, StreamSafe, PTL
=============================================================================
