---------------------------- MODULE EznecLadder ----------------------------
(***************************************************************************)
(* One calculation of the thin EZNEC client (momwire_eznec_client.py): its *)
(* ladder of a served answer, the stock one-shot in a child process        *)
(* (dropin/nec5/_shell.py) and the last-ditch refusal, over files that may *)
(* fail and processes that may die.                                        *)
(*                                                                         *)
(* A file's content and an answer are sequences of parts.  What obtain     *)
(* does is Rendezvous; what the server does between the deck and the first *)
(* part of the answer is WorkerPool; here they succeed or fail.            *)
(***************************************************************************)
EXTENDS Naturals, Sequences, SequencesExt

CONSTANTS
    Decks       \* the decks asked: "gmo" if its GE card asks for a .GMO file

ASSUME LadderAssumption == Decks \subseteq {"plain", "gmo"}

VARIABLES
    deck,      \* the deck of this calculation
    mortal,    \* may the server die, or be stopped, while it answers it?
    foreign,   \* has a path in it a character outside latin-1?
    pc,        \* where the client is
    srv,       \* the connection's thread: "solving", "sending", "closed"
    unsent,    \* the parts of the answer it has not sent
    wire,      \* the parts the client has not received
    answer,    \* the parts it has
    child,     \* the one-shot: "none", "gmo", "printout", "report", "ended"
    status,    \* how it ended: "ok" or "bad"
    gmo,       \* the .GMO file
    printout,  \* the printout file
    said       \* a failure was named on stdout

given == <<deck, mortal, foreign>>
vars == <<given, pc, srv, unsent, wire, answer, child, status, gmo, printout, said>>
served == <<srv, unsent, wire, answer>>
files == <<gmo, printout, said>>

Old == <<"old">>                 \* a file of an earlier calculation
Refusal == <<"refusal">>
Geometry == <<"geometry", "end">>
Printout == <<"header", "body">>
FrameStart == <<"open">>
FrameEnd == <<"close">>
WantsGmo == deck = "gmo"
Answer == IF WantsGmo THEN FrameStart \o Geometry \o FrameEnd \o Printout
                      ELSE Printout

\* What writing text leaves in a file that holds old, and whether it raises:
\* nothing is opened, the text is cut short, or all of it is written.
Writing(old, text) ==
    {[content |-> old, raised |-> TRUE], [content |-> text, raised |-> FALSE]}
    \cup {[content |-> SubSeq(text, 1, n), raised |-> TRUE] : n \in 0..Len(text) - 1}

Init ==
    /\ deck \in Decks /\ mortal \in BOOLEAN /\ foreign \in BOOLEAN
    /\ pc = "reading" /\ srv = "solving" /\ unsent = Answer
    /\ wire = <<>> /\ answer = <<>> /\ child = "none" /\ status = "ok"
    /\ gmo = Old /\ printout = Old /\ said = FALSE

-----------------------------------------------------------------------------
(* Rungs 1 and 2: main's try block and _served_bytes.                      *)

\* The deck is read, a server obtained and the framed deck sent; any of these
\* may raise, and main falls through to the one-shot.
Asks ==
    /\ pc = "reading"
    /\ pc' \in {"receiving", "oneshot"}
    /\ UNCHANGED <<given, served, child, status, files>>

\* One recv takes what has arrived.
Receives ==
    /\ pc = "receiving" /\ wire # <<>>
    /\ answer' = answer \o wire
    /\ wire' = <<>>
    /\ UNCHANGED <<given, pc, srv, unsent, child, status, files>>

\* recv fails on a reset connection.
ReceiveFails ==
    /\ mortal /\ pc = "receiving" /\ srv = "closed"
    /\ pc' = "oneshot"
    /\ UNCHANGED <<given, served, child, status, files>>

\* Mutant: an empty answer is asked for again.
EndOfAnswerRetries ==
    /\ pc = "receiving" /\ wire = <<>> /\ srv = "closed"
    /\ pc' = IF answer = <<>> THEN "reading"
             ELSE IF IsPrefix(FrameStart, answer) /\ ~Contains(answer, FrameEnd[1])
             THEN "oneshot" ELSE "gmo"
    /\ UNCHANGED <<given, served, child, status, files>>

\* Mutant: what has arrived is the answer, whether or not the server closed.
EndOfAnswerEarly ==
    /\ pc = "receiving" /\ wire = <<>>
    /\ pc' = IF \/ answer = <<>>
                \/ IsPrefix(FrameStart, answer) /\ ~Contains(answer, FrameEnd[1])
             THEN "oneshot" ELSE "gmo"
    /\ UNCHANGED <<given, served, child, status, files>>

\* The server closed.  An empty answer raises; so does a .GMO frame that is not
\* closed (split_answer).
EndOfAnswer ==
    /\ pc = "receiving" /\ wire = <<>> /\ srv = "closed"
    /\ pc' = IF \/ answer = <<>>
                \/ IsPrefix(FrameStart, answer) /\ ~Contains(answer, FrameEnd[1])
             THEN "oneshot" ELSE "gmo"
    /\ UNCHANGED <<given, served, child, status, files>>

Framed == IsPrefix(FrameStart, answer)
Close == CHOOSE k \in DOMAIN answer : answer[k] = FrameEnd[1]

\* Mutant: a .GMO file that cannot be written is no reason to fall through.
WritesGmoAnyway ==
    /\ pc = "gmo"
    /\ IF Framed
       THEN \E w \in Writing(gmo, SubSeq(answer, 2, Close - 1)) : gmo' = w.content
       ELSE UNCHANGED gmo
    /\ pc' = "printout"
    /\ UNCHANGED <<given, served, child, status, printout, said>>

\* The geometry goes beside the printout, before it.
WritesGmo ==
    /\ pc = "gmo"
    /\ \/ /\ ~Framed
          /\ pc' = "printout"
          /\ UNCHANGED gmo
       \/ /\ Framed
          /\ \E w \in Writing(gmo, SubSeq(answer, 2, Close - 1)) :
               /\ gmo' = w.content
               /\ pc' = IF w.raised THEN "oneshot" ELSE "printout"
    /\ UNCHANGED <<given, served, child, status, printout, said>>

WritesPrintout ==
    /\ pc = "printout"
    /\ \E w \in Writing(printout, IF Framed THEN SubSeq(answer, Close + 1, Len(answer))
                                            ELSE answer) :
         /\ printout' = w.content
         /\ pc' = IF w.raised THEN "oneshot" ELSE "exit"
    /\ UNCHANGED <<given, served, child, status, gmo, said>>

\* The server's thread.
Solves ==
    /\ srv = "solving" /\ pc # "reading"
    /\ srv' = "sending"
    /\ UNCHANGED <<given, pc, unsent, wire, answer, child, status, files>>

Sends ==
    /\ srv = "sending"
    /\ IF unsent = <<>> THEN srv' = "closed" /\ UNCHANGED <<given, unsent, wire>>
       ELSE /\ wire' = Append(wire, Head(unsent))
            /\ unsent' = Tail(unsent)
            /\ UNCHANGED srv
    /\ UNCHANGED <<given, pc, answer, child, status, files>>

\* The process is killed, or stopped with its daemon threads: what was sent
\* arrives, and the connection closes.
ServerDies ==
    /\ mortal /\ srv # "closed" /\ pc # "reading"
    /\ srv' = "closed"
    /\ UNCHANGED <<given, pc, unsent, wire, answer, child, status, files>>

-----------------------------------------------------------------------------
(* Rung 3: _one_shot and the child's _shell.run and main.                  *)

Starts ==
    /\ pc = "oneshot"
    /\ \/ pc' = "waiting" /\ child' = "gmo"
       \/ pc' = "lastditch" /\ UNCHANGED child
    /\ UNCHANGED <<given, served, status, files>>

\* run: the .GMO file, if the deck asks for one, then the printout; what raises
\* is reported in the printout.  A deck that cannot be read is refused there.
ChildWritesGmo ==
    /\ child = "gmo"
    /\ IF WantsGmo
       THEN \E w \in Writing(gmo, Geometry) :
              /\ gmo' = w.content
              /\ child' = IF w.raised THEN "report" ELSE "printout"
       ELSE child' = "printout" /\ UNCHANGED gmo
    /\ UNCHANGED <<given, pc, served, status, printout, said>>

ChildWritesPrintout ==
    /\ child = "printout"
    /\ \E w \in Writing(printout, Printout) :
         /\ printout' = w.content
         /\ child' = IF w.raised THEN "report" ELSE "ended"
    /\ UNCHANGED <<given, pc, served, status, gmo, said>>

\* _report_internal_error: the refusal, which the child transliterates, or a
\* line on stdout.  It names the printout's path, and stdout may have no code
\* for it: then the child ends by the exception.
ChildReports ==
    /\ child = "report"
    /\ \E w \in Writing(printout, Refusal) :
         /\ printout' = w.content
         /\ \/ said' = (said \/ w.raised) /\ UNCHANGED status
            \/ w.raised /\ foreign /\ status' = "bad" /\ UNCHANGED said
    /\ child' = "ended"
    /\ UNCHANGED <<given, pc, served, gmo>>

ChildDies ==
    /\ child \in {"gmo", "printout", "report"}
    /\ child' = "ended" /\ status' = "bad"
    /\ UNCHANGED <<given, pc, served, files>>

\* A write in the child may be under way when it dies, or is killed.
ChildDiesWriting ==
    /\ \/ /\ child = "gmo" /\ WantsGmo
          /\ \E n \in 0..Len(Geometry) : gmo' = SubSeq(Geometry, 1, n)
          /\ UNCHANGED printout
       \/ /\ child = "printout"
          /\ \E n \in 0..Len(Printout) : printout' = SubSeq(Printout, 1, n)
          /\ UNCHANGED gmo
    /\ child' = "ended" /\ status' = "bad"
    /\ UNCHANGED <<given, pc, served, said>>

\* subprocess.run(timeout=600) kills a child that does not end, and raises.
Expires ==
    /\ pc = "waiting" /\ child # "ended"
    /\ child' = "ended" /\ status' = "bad"
    /\ pc' = "lastditch"
    /\ UNCHANGED <<given, served, files>>

\* Mutant: the status is not checked.
ChildEndedUnchecked ==
    /\ pc = "waiting" /\ child = "ended"
    /\ pc' = "exit"
    /\ UNCHANGED <<given, served, child, status, files>>

\* check=True: a failing status raises.
ChildEnded ==
    /\ pc = "waiting" /\ child = "ended"
    /\ pc' = IF status = "ok" THEN "exit" ELSE "lastditch"
    /\ UNCHANGED <<given, served, child, status, files>>

-----------------------------------------------------------------------------
(* Rung 4: _last_ditch.                                                    *)

\* The refusal, or two lines on stdout if that raised an OSError.
Refuses ==
    /\ \E w \in Writing(printout, Refusal) :
         /\ printout' = w.content
         /\ said' = (said \/ w.raised)
    /\ pc' = "exit"

\* The reason quotes the paths, and the file is strict latin-1: the encoding
\* error is no OSError and leaves the file empty.  Or the file cannot be opened
\* and stdout has no code for one of the two lines.
Unencodable ==
    /\ foreign
    /\ \/ printout' = <<>> /\ UNCHANGED said
       \/ said' \in {said, TRUE} /\ UNCHANGED printout
    /\ pc' = "traceback"

LastDitch ==
    /\ pc = "lastditch"
    /\ Refuses \/ Unencodable
    /\ UNCHANGED <<given, served, child, status, gmo>>

Client ==
    \/ Asks \/ Receives \/ EndOfAnswer \/ WritesGmo \/ WritesPrintout
    \/ Starts \/ Expires \/ ChildEnded \/ LastDitch
Child ==
    \/ ChildWritesGmo \/ ChildWritesPrintout \/ ChildReports
    \/ ChildDies \/ ChildDiesWriting

\* main returned 0, or an exception left it.
ClientOver == pc \in {"exit", "traceback"}

Finished == ClientOver /\ srv = "closed" /\ UNCHANGED vars

Next == \/ Client \/ ReceiveFails \/ Child
        \/ Solves \/ Sends \/ ServerDies \/ Finished

Spec == Init /\ [][Next]_vars

\* The client runs, and so does the server's thread: a solve ends.  The child
\* need not: its timeout is a step of the client.
Fairness == WF_vars(Client) /\ WF_vars(Solves) /\ WF_vars(Sends)

FairSpec == Spec /\ Fairness

-----------------------------------------------------------------------------
PCs == {"reading", "receiving", "gmo", "printout", "oneshot", "waiting",
        "lastditch", "exit", "traceback"}

\* The type of the state: what a file holds is a prefix of something whole, and
\* the answer received is one of the answer computed.
TypeOK ==
    /\ deck \in Decks /\ mortal \in BOOLEAN /\ foreign \in BOOLEAN
    /\ pc \in PCs /\ srv \in {"solving", "sending", "closed"}
    /\ child \in {"none", "gmo", "printout", "report", "ended"}
    /\ status \in {"ok", "bad"} /\ said \in BOOLEAN
    /\ answer \o wire \o unsent = Answer
    /\ \E whole \in {Old, Geometry} : IsPrefix(gmo, whole)
    /\ \E whole \in {Old, Refusal, Printout} : IsPrefix(printout, whole)

\* The one way to end without a printout of this calculation and without a
\* word: the last rung could not encode the reason.
Unspoken == foreign /\ pc = "traceback"

\* "Always write the printout" (rule 2): whatever failed, a client that ends
\* without a word on stdout leaves a printout of this calculation, or it ended
\* by a traceback over a path outside latin-1.
Answered == ClientOver /\ ~said => printout # Old \/ Unspoken

\* The order of the two files: a whole printout never stands beside a .GMO file
\* that is missing, cut short or an earlier calculation's.
GmoFirst ==
    ClientOver /\ WantsGmo /\ printout = Printout => gmo = Geometry

\* Every launch ends, whichever process dies or hangs ("exit 0 always", but for
\* the traceback).
AlwaysEnds == <>ClientOver

\* Every rung leaves a whole printout or a whole refusal, whatever write failed
\* and however the answer was cut on the wire, if the server outlives its answer
\* and the last rung can write its reason down.
LeftWhole ==
    ClientOver /\ ~said /\ ~mortal => printout \in {Refusal, Printout} \/ Unspoken

\* "The resident path fails ANYWHERE (spawn, timeout, socket death, an empty
\* answer) - run the stock one-shot", and "an empty printout must never reach
\* EZNEC as an answer" (_served_bytes): no part of a printout passes for one.
NeverCut == pc = "exit" /\ ~said => printout \in {Refusal, Printout}
=============================================================================
