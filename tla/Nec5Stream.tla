----------------------------- MODULE Nec5Stream -----------------------------
(* The NEC-5 engine held open on its standard input (dropin/nec5/_shell.py     *)
(* stream): the host writes structures in pieces of any size, the engine cuts  *)
(* off each structure when the line that closes it is complete, and answers    *)
(* it before it reads on.  Beside it stands the answer the same text gets as   *)
(* a file (split_structures, _render_chain, main's refusal).                   *)
(*                                                                             *)
(* A text is a sequence of symbols: the two line breaks and one symbol for     *)
(* all that a line says; a line is read by its first symbol (_mnemonic).  Two  *)
(* offsets stand for the engine's buffer: pending is text[taken + 1 .. read].  *)
EXTENDS Naturals, Sequences, FiniteSets

CONSTANT Inputs      \* the texts a host may write

Symbols == {"card", "bad", "boom", "NX", "EN", "CR", "LF"}

ASSUME InputsAreTexts == Inputs \subseteq Seq(Symbols)

VARIABLES
    text,       \* what the host writes, in the end
    patient,    \* does it wait for each printout, as SimNEC does
    sent,       \* how much of text it has written
    closed,     \* it closed its end of the pipe
    read,       \* how much of text the engine has read
    taken,      \* how much of text has left the engine's buffer
    swallow,    \* a line feed that comes next belongs to the line already cut
    final,      \* the engine read the end of its input
    turn,       \* "read", "cut" (cutting the buffer) or "over"
    out         \* the printouts written, in order

streamVars == <<text, patient, sent, closed, read, taken, swallow, final, turn, out>>

-----------------------------------------------------------------------------
(* Lines of text[a .. b], as str.splitlines finds them. *)

IsBreak(i) == text[i] \in {"CR", "LF"}

\* A line of text[.. b] ends at i: CR LF is one break when both are there.
EndsLine(i, b) ==
    /\ IsBreak(i)
    /\ ~ (text[i] = "CR" /\ i < b /\ text[i + 1] = "LF")

LineStarts(a, b) == {i \in a .. b : i = a \/ EndsLine(i - 1, b)}

\* The line from s on has its break; where it ends.
Complete(s, b) == \E i \in s .. b : EndsLine(i, b)

First(S) == CHOOSE s \in S : \A t \in S : s <= t

LineEnd(s, b) == IF Complete(s, b) THEN First({i \in s .. b : EndsLine(i, b)}) ELSE b

\* The lines of text[a .. b] that are complete and close a structure; the
\* first of them is where next_structure cuts.
Closers(a, b, whole) ==
    {s \in LineStarts(a, b) : /\ text[s] \in {"NX", "EN"}
                              /\ whole \/ Complete(s, b)}

-----------------------------------------------------------------------------
(* One structure answered: its body (the lines it holds, by where they start), *)
(* the line that closed it, and what came of it.                               *)

\* The parse reads every card before anything else can fail, and refuses a
\* deck with a bad card, with no card or with no EN; "boom" is a deck that
\* parses and raises.
Verdict(body, closer) ==
    IF \/ closer = "none"
       \/ \E s \in body : text[s] = "bad"
       \/ \A s \in body : IsBreak(s)
    THEN "refused"
    ELSE IF \E s \in body : text[s] = "boom" THEN "raised" ELSE "solved"

\* A structure NX closes is solved as a deck EN closes, and echoed as read.
PrintoutOf(body, at, closer) ==
    [body |-> body, at |-> at, closer |-> closer, verdict |-> Verdict(body, closer)]

GoesOn(p) == p.closer = "NX" /\ p.verdict = "solved"

-----------------------------------------------------------------------------
(* The whole text as a file. *)

Size == Len(text)

FileClosers == Closers(1, Size, TRUE)

\* The structure a closing line closes, and the cards after the last one.
FilePiece(s) ==
    PrintoutOf({x \in LineStarts(1, Size) : /\ x < s
                                            /\ \A c \in FileClosers : c < s => c < x},
             s, text[s])
FileTail(closer) ==
    PrintoutOf({x \in LineStarts(1, Size) : \A c \in FileClosers : c < x}, Size + 1, closer)

\* A structure that EN closes or that fails is the last one answered.
Reached(s) == \A c \in FileClosers : c < s => GoesOn(FilePiece(c))

\* The printouts the engine gets as far as: _render_chain's, and the stream's
\* piece by piece (_stream_piece); less the refusal of an empty structure after
\* the last NX.
Chain ==
    {FilePiece(s) : s \in {c \in FileClosers : Reached(c)}}
    \cup {p \in {FileTail("none")} : /\ Reached(p.at)
                                     /\ \E x \in p.body : ~ IsBreak(x)}

\* What a file that holds the text gets.  An exception leaves _render_chain and
\* takes the printouts before it along: main writes one refusal for the file.
Raised == \E p \in Chain : p.verdict = "raised"

InternalError ==
    [body |-> LineStarts(1, Size), at |-> Size + 1, closer |-> "none", verdict |-> "raised"]

FileAnswer == IF Raised THEN {InternalError} ELSE Chain

-----------------------------------------------------------------------------
(* The host. *)

StreamInit ==
    /\ text \in Inputs
    /\ patient \in BOOLEAN
    /\ sent = 0 /\ closed = FALSE
    /\ read = 0 /\ taken = 0
    /\ swallow = FALSE /\ final = FALSE
    /\ turn = "read"
    /\ out = <<>>

engine == <<read, taken, swallow, final, turn, out>>

Answers == Len(out)

\* The closing lines the host completes: what it may wait for an answer to.
Asked == {s \in FileClosers : Complete(s, Size)}

\* SimNEC writes a structure, reads its printout, then writes the next one.
MayWrite(n) ==
    patient => Cardinality({s \in Asked : LineEnd(s, Size) < sent + n}) <= Answers

HostWrites ==
    /\ ~ closed
    /\ \E n \in 1 .. Size - sent : MayWrite(n) /\ sent' = sent + n
    /\ UNCHANGED <<text, patient, closed, engine>>

HostCloses ==
    /\ ~ closed
    /\ sent = Size
    /\ patient => Answers >= Cardinality(Asked) \/ turn = "over"
    /\ closed' = TRUE
    /\ UNCHANGED <<text, patient, sent, engine>>

-----------------------------------------------------------------------------
(* The engine. *)

\* Mutant: the line feed that follows a structure cut at a bare CR stays.
ReadsKeepingLf ==
    /\ turn = "read"
    /\ read < sent /\ read' = sent
    /\ swallow' = FALSE
    /\ turn' = "cut"
    /\ UNCHANGED <<text, patient, sent, closed, taken, final, out>>

\* os.read returns what there is (the host's writes already cut the text
\* anywhere, so the cap on a chunk cuts it nowhere else).  After a structure cut at a
\* bare CR, a line feed that opens the chunk is the rest of that break.
Reads ==
    /\ turn = "read"
    /\ read < sent /\ read' = sent
    /\ taken' = IF swallow /\ text[read + 1] = "LF" THEN read + 1 ELSE taken
    /\ swallow' = FALSE
    /\ turn' = "cut"
    /\ UNCHANGED <<text, patient, sent, closed, final, out>>

\* Mutant: that the input has ended is not kept.
ReadsEndForgetting ==
    /\ turn = "read"
    /\ closed /\ read = sent
    /\ turn' = "cut"
    /\ UNCHANGED <<text, patient, sent, closed, read, taken, swallow, final, out>>

ReadsEnd ==
    /\ turn = "read"
    /\ closed /\ read = sent
    /\ final' = TRUE
    /\ turn' = "cut"
    /\ UNCHANGED <<text, patient, sent, closed, read, taken, swallow, out>>

\* Mutant: one structure is cut from a chunk.
CutsOne ==
    /\ turn = "cut"
    /\ Closers(taken + 1, read, final) # {}
    /\ LET at  == First(Closers(taken + 1, read, final))
           end == LineEnd(at, read)
           p   == PrintoutOf({x \in LineStarts(taken + 1, read) : x < at}, at, text[at])
       IN /\ out' = Append(out, p)
          /\ taken' = end
          /\ swallow' = (text[end] = "CR" /\ end = read /\ ~ final)
          /\ turn' = IF ~ GoesOn(p) THEN "over" ELSE IF final THEN "cut" ELSE "read"
    /\ UNCHANGED <<text, patient, sent, closed, read, final>>

Cuts ==
    /\ turn = "cut"
    /\ Closers(taken + 1, read, final) # {}
    /\ LET at  == First(Closers(taken + 1, read, final))
           end == LineEnd(at, read)
           p   == PrintoutOf({x \in LineStarts(taken + 1, read) : x < at}, at, text[at])
       IN /\ out' = Append(out, p)
          /\ taken' = end
          /\ swallow' = (text[end] = "CR" /\ end = read /\ ~ final)
          /\ turn' = IF GoesOn(p) THEN "cut" ELSE "over"
    /\ UNCHANGED <<text, patient, sent, closed, read, final>>

\* pending.strip(): some line is not blank.
Leftover == \E s \in LineStarts(taken + 1, read) : ~ IsBreak(s)

NothingToCut ==
    /\ turn = "cut"
    /\ Closers(taken + 1, read, final) = {}
    /\ out' = IF final /\ Leftover
              THEN Append(out, PrintoutOf(LineStarts(taken + 1, read), read + 1, "none"))
              ELSE out
    /\ turn' = IF final THEN "over" ELSE "read"
    /\ UNCHANGED <<text, patient, sent, closed, read, taken, swallow, final>>

Engine == Reads \/ ReadsEnd \/ Cuts \/ NothingToCut

Over == turn = "over" /\ UNCHANGED streamVars

StreamNext == HostWrites \/ HostCloses \/ Engine \/ Over

StreamSpec == StreamInit /\ [][StreamNext]_streamVars

\* The engine runs while it has something to do; a host writes what it has
\* and closes when it has no more.
FairStream ==
    /\ StreamSpec
    /\ WF_streamVars(Engine)
    /\ WF_streamVars(HostWrites)
    /\ WF_streamVars(HostCloses)

-----------------------------------------------------------------------------
(* Properties. *)

StreamTypeOK ==
    /\ text \in Inputs
    /\ patient \in BOOLEAN /\ closed \in BOOLEAN
    /\ swallow \in BOOLEAN /\ final \in BOOLEAN
    /\ taken \in 0 .. read /\ read \in 0 .. sent /\ sent \in 0 .. Size
    /\ turn \in {"read", "cut", "over"}

\* The printouts written are those of the structures, one by one and in order,
\* and none is missing at the end.
InTurn ==
    /\ \A k \in DOMAIN out :
          /\ out[k] \in Chain
          /\ \A p \in Chain : p.at < out[k].at => \E j \in 1 .. k - 1 : out[j] = p
          /\ \A j \in 1 .. k - 1 : out[j].at < out[k].at
    /\ turn = "over" => \A p \in Chain : \E k \in DOMAIN out : out[k] = p

\* However the host cuts its writes, inside a CR LF included, each structure is
\* answered in its turn with its own printout, up to the one that ends the run,
\* and when the stream is over its printouts are those a file holding the whole
\* text gets (stream's docstring, _render_chain).  Not where a structure raises:
\* the stream has written the printouts before it by then, the file has none.
PrintsAsFile ==
    /\ InTurn
    /\ turn = "over" /\ ~Raised => {out[k] : k \in DOMAIN out} = FileAnswer

\* The engine blocks in read only when every structure whose closing line it
\* was given is answered: a host that waits for that printout before it writes
\* more, as SimNEC does, is never left waiting (stream's docstring).
AnsweredBeforeReading ==
    turn = "read" =>
        \A s \in FileClosers : Complete(s, read) => \E k \in DOMAIN out : out[k].at = s

\* Whether its host waits or not, each stream comes to its end.
EveryStreamEnds == <>(turn = "over")
=============================================================================
