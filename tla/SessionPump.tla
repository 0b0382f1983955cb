----------------------------- MODULE SessionPump -----------------------------
(***************************************************************************)
(* SimNEC sessions of one resident server: for each, the host, the thin    *)
(* client's pump (momwire_nec2c_client.py), the framed wire (FrameReader   *)
(* of momwire_serve_client.py) and the server thread's session loop        *)
(* (run_session of serve/_session.py).  The sessions share the solve lock. *)
(*                                                                         *)
(* The host's input is a script: a sequence of line kinds.  A line travels *)
(* as its number in the script; a frame as a header followed by its lines; *)
(* an answer as AnswerSize parts that each name the body they answer.      *)
(* Every pipe and socket buffer holds a bounded number of these.           *)
(***************************************************************************)
EXTENDS Integers, Sequences, SequencesExt

CONSTANTS
    Sessions,
    None,
    Scripts,     \* what the hosts of the opened sessions may send, each a
                 \* sequence of "card", "NX" and "EN"
    Stalled,     \* sessions whose host does not have to read its answers
    AnswerSize,  \* parts of an answer
    Chunk,       \* _PUMP_CHUNK: what one read or recv takes
    HighWater,   \* _HIGH_WATER: what may wait for the socket
    PipeCap,     \* room in a pipe between host and client
    SockCap,     \* room in each direction of the socket
    Mortal       \* bound: the sessions whose client may be killed

ASSUME PumpAssumption ==
    /\ None \notin Sessions /\ Stalled \subseteq Sessions /\ Mortal \subseteq Sessions
    /\ \A given \in Scripts : /\ DOMAIN given \subseteq Sessions
                             /\ \A i \in DOMAIN given : given[i] \in Seq({"card", "NX", "EN"})
    /\ {AnswerSize, Chunk, HighWater, PipeCap, SockCap} \subseteq Nat \ {0}

VARIABLES
    script,   \* per opened session: what the host sends
    sent,     \* per session: the lines the host has written
    hung,     \* per session: the host has closed the client's stdin
    got,      \* per session: the answer parts the host has read
    stdin,    \* the pipe from host to client
    stdout,   \* the pipe from client to host
    cl,       \* the client: pc, pending, stdinOpen, data (being printed)
    up, down, \* the socket, towards and from the server
    sv,       \* the server's thread: see Init
    lock      \* the session that holds the solve lock, or None

hostVars == <<script, sent, hung, got>>
vars == <<hostVars, stdin, stdout, cl, up, down, sv, lock>>

\* A frame's header carries the number of lines that follow; the empty frame
\* ends the stream.
Header(n) == -n
StreamEnd == Header(0)

Answer(body) == [part \in 1..AnswerSize |-> <<body, part>>]
Greeting == <<"greeting">>

Take(q, n) == SubSeq(q, 1, n)
Drop(q, n) == SubSeq(q, n + 1, Len(q))
Least(m, n) == IF m < n THEN m ELSE n

Opened == DOMAIN script

Init ==
    /\ script \in Scripts
    /\ sent = [i \in Sessions |-> 0] /\ hung = [i \in Sessions |-> FALSE]
    /\ got = [i \in Sessions |-> <<>>]
    /\ stdin = [i \in Sessions |-> <<>>] /\ stdout = [i \in Sessions |-> <<>>]
    /\ up = [i \in Sessions |-> <<>>] /\ down = [i \in Sessions |-> <<>>]
    /\ cl = [i \in Sessions |->
               [pc |-> IF i \in Opened THEN "select" ELSE "idle", pending |-> <<>>, stdinOpen |-> TRUE,
                data |-> <<>>]]
    \* need, frag: of the frame being read; rx: lines the session may read;
    \* done: no frame follows; body: of the deck being read; out: what is left
    \* to write; last: the session ends after that
    /\ sv = [i \in Sessions |->
               [pc |-> IF i \in Opened THEN "writing" ELSE "closed", need |-> 0,
                frag |-> <<>>, rx |-> <<>>, done |-> FALSE, body |-> <<>>, out |-> <<Greeting>>, last |-> FALSE]]
    /\ lock = None

Running(i) == cl[i].pc \in {"select", "printing"}
Closed(i) == sv[i].pc = "closed"

-----------------------------------------------------------------------------
(* The host.                                                               *)

HostWrites(i) ==
    /\ Running(i) /\ sent[i] < Len(script[i]) /\ Len(stdin[i]) < PipeCap
    /\ sent' = [sent EXCEPT ![i] = @ + 1]
    /\ stdin' = [stdin EXCEPT ![i] = Append(@, sent[i] + 1)]
    /\ UNCHANGED <<script, hung, got, stdout, cl, up, down, sv, lock>>

HostHangsUp(i) ==
    /\ Running(i) /\ sent[i] = Len(script[i]) /\ ~hung[i]
    /\ hung' = [hung EXCEPT ![i] = TRUE]
    /\ UNCHANGED <<script, sent, got, stdin, stdout, cl, up, down, sv, lock>>

HostReads(i) ==
    /\ stdout[i] # <<>>
    /\ got' = [got EXCEPT ![i] = @ \o stdout[i]]
    /\ stdout' = [stdout EXCEPT ![i] = <<>>]
    /\ UNCHANGED <<script, sent, hung, stdin, cl, up, down, sv, lock>>

-----------------------------------------------------------------------------
(* The client: pump.  The events select reports are served one by one.     *)

\* Mutant: stdin is watched whatever waits for the socket.
ReadStdinUnbounded(i) ==
    /\ cl[i].pc = "select" /\ cl[i].stdinOpen
    /\ \/ /\ stdin[i] # <<>>
          /\ LET n == Least(Chunk, Len(stdin[i])) IN
               /\ cl' = [cl EXCEPT ![i].pending =
                           @ \o <<Header(n)>> \o Take(stdin[i], n)]
               /\ stdin' = [stdin EXCEPT ![i] = Drop(@, n)]
       \/ /\ stdin[i] = <<>> /\ hung[i]
          /\ cl' = [cl EXCEPT ![i].pending = Append(@, StreamEnd),
                              ![i].stdinOpen = FALSE]
          /\ UNCHANGED stdin
    /\ UNCHANGED <<hostVars, stdout, up, down, sv, lock>>

\* Stdin is watched below the high-water mark.  A piece of it is one frame;
\* its end is the empty frame.
ReadStdin(i) ==
    /\ cl[i].pc = "select" /\ cl[i].stdinOpen /\ Len(cl[i].pending) < HighWater
    /\ \/ /\ stdin[i] # <<>>
          /\ LET n == Least(Chunk, Len(stdin[i])) IN
               /\ cl' = [cl EXCEPT ![i].pending =
                           @ \o <<Header(n)>> \o Take(stdin[i], n)]
               /\ stdin' = [stdin EXCEPT ![i] = Drop(@, n)]
       \/ /\ stdin[i] = <<>> /\ hung[i]
          /\ cl' = [cl EXCEPT ![i].pending = Append(@, StreamEnd),
                              ![i].stdinOpen = FALSE]
          /\ UNCHANGED stdin
    /\ UNCHANGED <<hostVars, stdout, up, down, sv, lock>>

\* conn.send takes what fits.  On a connection the server has closed it raises,
\* and pump returns.
SendPending(i) ==
    /\ cl[i].pc = "select" /\ cl[i].pending # <<>>
    /\ \/ /\ ~Closed(i) /\ Len(up[i]) < SockCap
          /\ LET n == Least(SockCap - Len(up[i]), Len(cl[i].pending)) IN
               /\ up' = [up EXCEPT ![i] = @ \o Take(cl[i].pending, n)]
               /\ cl' = [cl EXCEPT ![i].pending = Drop(@, n)]
       \/ /\ Closed(i)
          /\ cl' = [cl EXCEPT ![i].pc = "ended"]
          /\ UNCHANGED up
    /\ UNCHANGED <<hostVars, stdin, stdout, down, sv, lock>>

\* conn.recv; at the end of the stream pump returns.
RecvAnswer(i) ==
    /\ cl[i].pc = "select"
    /\ \/ /\ down[i] # <<>>
          /\ LET n == Least(Chunk, Len(down[i])) IN
               /\ cl' = [cl EXCEPT ![i].pc = "printing", ![i].data = Take(down[i], n)]
               /\ down' = [down EXCEPT ![i] = Drop(@, n)]
       \/ /\ down[i] = <<>> /\ Closed(i)
          /\ cl' = [cl EXCEPT ![i].pc = "ended"]
          /\ UNCHANGED down
    /\ UNCHANGED <<hostVars, stdin, stdout, up, sv, lock>>

\* Mutant: one os.write, and what it did not take is lost.
PrintAnswerShort(i) ==
    /\ cl[i].pc = "printing" /\ Len(stdout[i]) < PipeCap
    /\ LET n == Least(PipeCap - Len(stdout[i]), Len(cl[i].data)) IN
         /\ stdout' = [stdout EXCEPT ![i] = @ \o Take(cl[i].data, n)]
         /\ cl' = [cl EXCEPT ![i].data = <<>>, ![i].pc = "select"]
    /\ UNCHANGED <<hostVars, stdin, up, down, sv, lock>>

\* _write_all blocks until the host has taken every byte.
PrintAnswer(i) ==
    /\ cl[i].pc = "printing" /\ Len(stdout[i]) < PipeCap
    /\ LET n == Least(PipeCap - Len(stdout[i]), Len(cl[i].data)) IN
         /\ stdout' = [stdout EXCEPT ![i] = @ \o Take(cl[i].data, n)]
         /\ cl' = [cl EXCEPT ![i].data = Drop(@, n),
                             ![i].pc = IF n = Len(cl[i].data) THEN "select" ELSE @]
    /\ UNCHANGED <<hostVars, stdin, up, down, sv, lock>>

\* SimNEC ends a session with Process.destroy.
ClientDies(i) ==
    /\ Running(i) /\ i \in Mortal
    /\ cl' = [cl EXCEPT ![i].pc = "killed", ![i].pending = <<>>, ![i].data = <<>>]
    /\ UNCHANGED <<hostVars, stdin, stdout, up, down, sv, lock>>

-----------------------------------------------------------------------------
(* The server's thread: FrameReader and run_session.                       *)

Serves(i, new) == sv' = [sv EXCEPT ![i] = new]

\* FrameReader._next, when the session has no line left: a frame's body
\* becomes readable once it is whole; the empty frame or the peer's end is the
\* end, and what there is of a frame is dropped.
ReadsFrame(i) ==
    /\ sv[i].pc = "reading" /\ sv[i].rx = <<>> /\ ~sv[i].done
    /\ \/ /\ up[i] # <<>> /\ sv[i].need = 0
          /\ Serves(i, [sv[i] EXCEPT !.need = -Head(up[i]),
                                     !.done = Head(up[i]) = StreamEnd])
          /\ up' = [up EXCEPT ![i] = Tail(@)]
       \/ /\ up[i] # <<>> /\ sv[i].need > 0
          /\ LET n == Least(sv[i].need, Len(up[i]))
                 frag == sv[i].frag \o Take(up[i], n)
             IN /\ Serves(i, IF n = sv[i].need
                             THEN [sv[i] EXCEPT !.need = 0, !.frag = <<>>, !.rx = frag]
                             ELSE [sv[i] EXCEPT !.need = @ - n, !.frag = frag])
                /\ up' = [up EXCEPT ![i] = Drop(@, n)]
       \/ /\ up[i] = <<>> /\ ~Running(i)
          /\ Serves(i, [sv[i] EXCEPT !.done = TRUE, !.frag = <<>>])
          /\ UNCHANGED up
    /\ UNCHANGED <<hostVars, stdin, stdout, cl, down, lock>>

\* for line in stdin: a card joins the body, a terminator emits the frame; EN
\* is in seam.closing.
TakesLine(i) ==
    /\ sv[i].pc = "reading" /\ sv[i].rx # <<>>
    /\ LET line == Head(sv[i].rx)
           rest == [sv[i] EXCEPT !.rx = Tail(@)]
       IN Serves(i, IF script[i][line] = "card"
                    THEN [rest EXCEPT !.body = Append(@, line)]
                    ELSE [rest EXCEPT !.pc = "waiting",
                                      !.last = script[i][line] = "EN"])
    /\ UNCHANGED <<hostVars, stdin, stdout, cl, up, down, lock>>

\* Mutant: a body still open at the end is discarded.
EndsInputDiscards(i) ==
    /\ sv[i].pc = "reading" /\ sv[i].rx = <<>> /\ sv[i].done
    /\ Serves(i, [sv[i] EXCEPT !.last = TRUE, !.pc = "closed"])
    /\ UNCHANGED <<hostVars, stdin, stdout, cl, up, down, lock>>

\* A body still open at the end is answered under seam.eof_terminator.
EndsInput(i) ==
    /\ sv[i].pc = "reading" /\ sv[i].rx = <<>> /\ sv[i].done
    /\ Serves(i, [sv[i] EXCEPT !.last = TRUE,
                               !.pc = IF sv[i].body = <<>> THEN "closed" ELSE "waiting"])
    /\ UNCHANGED <<hostVars, stdin, stdout, cl, up, down, lock>>

TakesLock(i) ==
    /\ sv[i].pc = "waiting" /\ lock = None
    /\ lock' = i
    /\ Serves(i, [sv[i] EXCEPT !.pc = "solving"])
    /\ UNCHANGED <<hostVars, stdin, stdout, cl, up, down>>

\* Mutant: the lock is not dropped after the answer.
SolvesLocked(i) ==
    /\ sv[i].pc = "solving"
    /\ Serves(i, [sv[i] EXCEPT !.pc = "writing", !.out = Answer(sv[i].body),
                               !.body = <<>>])
    /\ UNCHANGED <<hostVars, stdin, stdout, cl, up, down, lock>>

\* seam.answer; the lock is dropped before the answer is written.
Solves(i) ==
    /\ sv[i].pc = "solving"
    /\ lock' = None
    /\ Serves(i, [sv[i] EXCEPT !.pc = "writing", !.out = Answer(sv[i].body),
                               !.body = <<>>])
    /\ UNCHANGED <<hostVars, stdin, stdout, cl, up, down>>

\* stdout.write and flush block until the socket took it all, and raise when
\* the client is gone; a raise ends the connection.
Writes(i) ==
    /\ sv[i].pc = "writing"
    /\ \/ /\ Running(i) /\ Len(down[i]) < SockCap
          /\ LET n == Least(SockCap - Len(down[i]), Len(sv[i].out)) IN
               /\ down' = [down EXCEPT ![i] = @ \o Take(sv[i].out, n)]
               /\ Serves(i, [sv[i] EXCEPT
                    !.out = Drop(@, n),
                    !.pc = IF n < Len(sv[i].out) THEN @
                           ELSE IF sv[i].last THEN "closed" ELSE "reading"])
       \/ /\ ~Running(i)
          /\ Serves(i, [sv[i] EXCEPT !.pc = "closed"])
          /\ UNCHANGED down
    /\ UNCHANGED <<hostVars, stdin, stdout, cl, up, lock>>

Host(i) == HostWrites(i) \/ HostHangsUp(i)
Server(i) ==
    \/ ReadsFrame(i) \/ TakesLine(i) \/ EndsInput(i)
    \/ TakesLock(i) \/ Solves(i) \/ Writes(i)

\* Every client has ended and the server has dropped every connection.
Finished ==
    /\ \A i \in Sessions : ~Running(i) /\ Closed(i) /\ stdout[i] = <<>>
    /\ UNCHANGED vars

Next ==
    \/ \E i \in Sessions :
         \/ Host(i) \/ HostReads(i) \/ ReadStdin(i) \/ SendPending(i)
         \/ RecvAnswer(i) \/ PrintAnswer(i) \/ ClientDies(i) \/ Server(i)
    \/ Finished

Spec == Init /\ [][Next]_vars

\* A host sends its script, closes stdin and, unless stalled, reads.  select
\* reports a ready descriptor in every pass and the pass serves each.  The
\* server's threads run.  Nobody is obliged to die.
Fairness ==
    /\ \A i \in Sessions :
         /\ WF_vars(Host(i)) /\ WF_vars(Server(i))
         /\ WF_vars(ReadStdin(i)) /\ WF_vars(SendPending(i))
         /\ WF_vars(RecvAnswer(i)) /\ WF_vars(PrintAnswer(i))
    /\ \A i \in Sessions \ Stalled : WF_vars(HostReads(i))

FairSpec == Spec /\ Fairness

-----------------------------------------------------------------------------
Tokens(i) == 1..Len(script[i]) \cup {Header(n) : n \in 0..Chunk}
Parts(i) == {Greeting} \cup (Seq(1..Len(script[i])) \X (1..AnswerSize))

TypedSession(i) ==
    /\ sent[i] \in 0..Len(script[i]) /\ hung[i] \in BOOLEAN
    /\ stdin[i] \in Seq(1..Len(script[i])) /\ Len(stdin[i]) <= PipeCap
    /\ up[i] \in Seq(Tokens(i)) /\ Len(up[i]) <= SockCap
    /\ down[i] \in Seq(Parts(i)) /\ Len(down[i]) <= SockCap
    /\ stdout[i] \in Seq(Parts(i)) /\ Len(stdout[i]) <= PipeCap
    /\ got[i] \in Seq(Parts(i))
    /\ cl[i].pc \in {"select", "printing", "ended", "killed"}
    /\ cl[i].pending \in Seq(Tokens(i)) /\ Len(cl[i].pending) <= HighWater + Chunk
    /\ cl[i].stdinOpen \in BOOLEAN
    /\ cl[i].data \in Seq(Parts(i))
    /\ sv[i].pc \in {"reading", "waiting", "solving", "writing", "closed"}
    /\ sv[i].need \in 0..Chunk /\ sv[i].done \in BOOLEAN
    /\ sv[i].last \in BOOLEAN /\ sv[i].out \in Seq(Parts(i))
    /\ {sv[i].frag, sv[i].rx, sv[i].body} \subseteq Seq(1..Len(script[i]))

\* The type of the state, with the room of every buffer: what waits for the
\* socket is bounded by the high-water mark and one read (pump's backpressure).
TypeOK ==
    /\ script \in Scripts
    /\ lock \in Sessions \cup {None}
    /\ \A i \in Opened : TypedSession(i)

\* The reference: what the stock engine prints for a script, read line by
\* line with no client, frames or buffers between.  Before its first line ...
Fresh == [out |-> <<Greeting>>, body |-> <<>>, open |-> TRUE]

\* ... after the line numbered k ...
Line(given, before, k) ==
    IF ~before.open THEN before
    ELSE IF given[k] = "card"
         THEN [before EXCEPT !.body = Append(@, k)]
         ELSE [out |-> before.out \o Answer(before.body), body |-> <<>>,
               open |-> given[k] # "EN"]

\* ... after any number of lines ...
Stock(given) ==
    LET read[k \in 0..Len(given)] ==
          IF k = 0 THEN Fresh ELSE Line(given, read[k - 1], k)
    IN read

\* ... and at the end of its input.
Expected(i) ==
    LET whole == Stock(script[i])[Len(script[i])]
    IN IF whole.body = <<>> THEN whole.out ELSE whole.out \o Answer(whole.body)

Printed(i) == got[i] \o stdout[i] \o cl[i].data

\* What a host reads is the printout of its own script, in order, as far as it
\* goes: nothing lost, repeated, reordered or of another session between the
\* host's write and its read, wherever frames and buffers cut it.
InOrder == \A i \in Opened : IsPrefix(Printed(i), Expected(i))

\* "The remaining output is drained before we go" (pump): a client that ended
\* by itself has handed the host the whole printout.
Drained == \A i \in Opened : cl[i].pc = "ended" => Printed(i) = Expected(i)

\* The two directions never wedge against each other, and no host that stops
\* reading and no client that dies keeps another session from its end.
EverySessionEnds == \A i \in Sessions \ Stalled : <>(~Running(i) /\ Closed(i))
=============================================================================
