----------------------------- MODULE WorkerPool -----------------------------
(***************************************************************************)
(* The resident server's worker pool: serve/_pool.py with the worker side  *)
(* of its pipes, serve/_worker.py.                                         *)
(*                                                                         *)
(* A FRAME is one call of WorkerPool.answer, made by a connection thread.  *)
(* It checks a worker out of the pool (_acquire), sends the frame over the *)
(* worker's stdin, waits for the reply on its stdout and gives the worker  *)
(* back (_release) or drops it (_lost).  A PROC is one worker process.     *)
(* Everything the code does while it holds the pool's condition is one     *)
(* action; a process may die between any two.                              *)
(*                                                                         *)
(* Abstractions.  The list of workers is a set: the code takes its first   *)
(* idle entry, the model any.  Two clocks are choices: whether a worker    *)
(* has been idle past the timeout (_reap_locked) and when the back-off     *)
(* after a failed start is over (BackoffEnds).  A thread in cond.wait may  *)
(* always run its loop again, for the code waits at most a second.         *)
(***************************************************************************)
EXTENDS Integers, FiniteSets, FiniteSetsExt

CONSTANTS
    Frames,      \* the calls of answer
    Procs,       \* the process slots a worker may run in
    None,        \* no process, no frame
    MaxWorkers,  \* max_workers, the cap on the pool
    Cores,       \* the physical cores divided among the workers
    Default,     \* the OpenMP threads of a solve that is not limited
    MaxFaults    \* bound: worker deaths and failed starts in one behaviour

ASSUME PoolAssumption ==
    /\ IsFiniteSet(Frames)
    /\ IsFiniteSet(Procs)
    /\ None \notin Frames \cup Procs
    /\ MaxWorkers \in Nat \ {0}
    /\ Cores \in Nat \ {0}
    /\ Default \in Nat \ {0}
    /\ MaxFaults \in Nat

VARIABLES
    workers,     \* the pool's list of workers
    busy,        \* the workers whose busy flag is set
    starting,    \* how many workers are being started
    waiting,     \* how many threads are inside _acquire
    closed,      \* close has been called
    backoff,     \* a start failed less than _SPAWN_BACKOFF ago
    holder,      \* the frame that holds fallback_lock, or None
    closing,     \* workers that close still has to stop
    retiring,    \* workers another thread stops: reaped, or started too late
    exited,      \* the server process is gone
    proc,        \* what each process is doing
    piped,       \* the processes whose stdin the server holds open
    inbox,       \* the frame sent to a process and not yet answered
    reply,       \* the reply in a process's stdout, not yet received
    pc,          \* where each frame's thread is
    has,         \* the worker it has checked out
    tries,       \* how often it failed to send
    live,        \* len(workers) when it checked its worker out
    answer,      \* what its call returned or raised
    delivered,   \* history: how often the frame reached a solver
    faults       \* bound counter, see MaxFaults

poolVars   == <<workers, busy, starting, waiting, closed, backoff>>
stopVars   == <<closing, retiring, exited>>
procVars   == <<proc, piped, inbox, reply>>
frameVars  == <<pc, has, tries, live, answer, delivered>>
vars == <<poolVars, stopVars, procVars, frameVars, holder, faults>>

Kinds == {"reply", "raised"}           \* the replies a worker can send
NoReply == [kind |-> "none", frame |-> None]
Reply == [kind : Kinds, frame : Frames]
\* How a call of answer can end: with a worker's reply, or with one of these.
Ends == {"in_process", "crashed", "lost", "stopping", "abandoned"}
Answer == Reply \cup [kind : Ends, frame : {None}]
Ended(kind) == [kind |-> kind, frame |-> None]

Alive(p) == proc[p] # "dead"
Stopping == closing \cup retiring
Held == {has[f] : f \in Frames} \ {None}
\* _discard_dead_locked keeps these of the pool's workers.
Kept == {p \in workers : p \in busy \/ Alive(p)}
\* A slot whose last process is gone and which nobody refers to any more.
Free == {p \in Procs : ~Alive(p) /\ p \notin Kept \cup Stopping \cup Held}

\* Each worker's share of the cores; a lone worker is not limited.
ThreadBudget(n) ==
    IF n <= 1 THEN Default
    ELSE IF Cores \div n < 1 THEN 1 ELSE Cores \div n

\* The threads a worker solves on: a limit only ever lowers their count.
Threads(n) == IF ThreadBudget(n) < Default THEN ThreadBudget(n) ELSE Default

-----------------------------------------------------------------------------
\* The pool as start leaves it, before the server binds its address: the
\* first worker is being started and no connection has been accepted.
Init ==
    /\ workers = {} /\ busy = {} /\ starting = 1 /\ waiting = 0
    /\ closed = FALSE /\ backoff = FALSE /\ holder = None
    /\ closing = {} /\ retiring = {} /\ exited = FALSE
    /\ \E first \in Procs :
         /\ proc = [p \in Procs |-> IF p = first THEN "booting" ELSE "dead"]
         /\ piped = {first}
    /\ inbox = [p \in Procs |-> None] /\ reply = [p \in Procs |-> NoReply]
    /\ pc = [f \in Frames |-> "new"] /\ has = [f \in Frames |-> None]
    /\ tries = [f \in Frames |-> 0] /\ live = [f \in Frames |-> 0]
    /\ answer = [f \in Frames |-> NoReply]
    /\ delivered = [f \in Frames |-> 0] /\ faults = 0

-----------------------------------------------------------------------------
(* Starting a worker.                                                      *)

\* _spawn_locked and the head of _spawn: count it, start a process in a
\* free slot and send it the spec.
SpawnLocked ==
    /\ starting' = starting + 1
    /\ \E p \in Free :
         /\ proc' = [proc EXCEPT ![p] = "booting"]
         /\ piped' = piped \cup {p}
         /\ busy' = busy \ {p}
         /\ inbox' = [inbox EXCEPT ![p] = None]
         /\ reply' = [reply EXCEPT ![p] = NoReply]

NoSpawn == UNCHANGED <<starting, busy, procVars>>

\* Mutant: a worker that is ready after close is forgotten, not stopped.
SpawnReadyForgets(p) ==
    /\ proc[p] = "booting" /\ ~exited
    /\ proc' = [proc EXCEPT ![p] = "ready"]
    /\ starting' = starting - 1
    /\ workers' = IF closed THEN workers ELSE workers \cup {p}
    /\ backoff' = FALSE
    /\ UNCHANGED <<busy, waiting, closed, stopVars, piped, inbox, reply,
                   frameVars, holder, faults>>

\* The worker said it is ready.  If the pool was closed meanwhile the
\* spawning thread stops it, otherwise it joins the pool.
SpawnReady(p) ==
    /\ proc[p] = "booting" /\ ~exited
    /\ proc' = [proc EXCEPT ![p] = "ready"]
    /\ starting' = starting - 1
    /\ IF closed
         THEN /\ retiring' = retiring \cup {p}
              /\ UNCHANGED <<workers, backoff>>
         ELSE /\ workers' = workers \cup {p}
              /\ backoff' = FALSE
              /\ UNCHANGED retiring
    /\ UNCHANGED <<busy, waiting, closed, closing, exited, piped, inbox, reply,
                   frameVars, holder, faults>>

\* Popen failed, the worker exited before it was ready, or it took longer
\* than _READY_TIMEOUT: it is killed and the back-off begins.
SpawnFails(p) ==
    /\ proc[p] = "booting" /\ ~exited
    /\ faults < MaxFaults
    /\ faults' = faults + 1
    /\ proc' = [proc EXCEPT ![p] = "dead"]
    /\ piped' = piped \ {p}
    /\ starting' = starting - 1
    /\ backoff' = TRUE
    /\ UNCHANGED <<workers, busy, waiting, closed, stopVars, inbox, reply,
                   frameVars, holder>>

\* _SPAWN_BACKOFF seconds have passed since the last failed start.
BackoffEnds ==
    /\ backoff /\ ~exited
    /\ backoff' = FALSE
    /\ UNCHANGED <<workers, busy, starting, waiting, closed, stopVars,
                   procVars, frameVars, holder, faults>>

-----------------------------------------------------------------------------
(* _acquire: one round of its loop, under the condition.  A thread enters  *)
(* from "new", counting itself, and stays in "waiting" between rounds.     *)

Acquiring(f) == pc[f] \in {"new", "waiting"} /\ ~exited
\* self.waiting while f is inside the loop, and after f has left it.
Waiters(f) == IF pc[f] = "new" THEN waiting + 1 ELSE waiting

\* The pool is closed: WorkerLost("the server is stopping").
AcquireRefused(f) ==
    /\ Acquiring(f) /\ closed
    /\ waiting' = Waiters(f) - 1
    /\ pc' = [pc EXCEPT ![f] = "done"]
    /\ answer' = [answer EXCEPT ![f] = Ended("stopping")]
    /\ UNCHANGED <<workers, busy, starting, closed, backoff, stopVars, procVars,
                   has, tries, live, delivered, holder, faults>>

\* Mutant: the busy flag of the worker is not looked at.
AcquireAnyWorker(f) ==
    /\ Acquiring(f) /\ ~closed
    /\ workers' = Kept
    /\ \E p \in Kept :
         /\ busy' = busy \cup {p}
         /\ has' = [has EXCEPT ![f] = p]
    /\ live' = [live EXCEPT ![f] = Cardinality(Kept)]
    /\ waiting' = Waiters(f) - 1
    /\ pc' = [pc EXCEPT ![f] = "sending"]
    /\ UNCHANGED <<starting, closed, backoff, stopVars, procVars,
                   tries, answer, delivered, holder, faults>>

\* Mutant: the share is taken of the idle workers, not of all.
AcquireIdleShare(f) ==
    /\ Acquiring(f) /\ ~closed
    /\ workers' = Kept
    /\ \E p \in Kept \ busy :
         /\ busy' = busy \cup {p}
         /\ has' = [has EXCEPT ![f] = p]
    /\ live' = [live EXCEPT ![f] = Cardinality(Kept \ busy)]
    /\ waiting' = Waiters(f) - 1
    /\ pc' = [pc EXCEPT ![f] = "sending"]
    /\ UNCHANGED <<starting, closed, backoff, stopVars, procVars,
                   tries, answer, delivered, holder, faults>>

\* A worker that is not busy: check it out.
AcquireWorker(f) ==
    /\ Acquiring(f) /\ ~closed
    /\ workers' = Kept
    /\ \E p \in Kept \ busy :
         /\ busy' = busy \cup {p}
         /\ has' = [has EXCEPT ![f] = p]
    /\ live' = [live EXCEPT ![f] = Cardinality(Kept)]
    /\ waiting' = Waiters(f) - 1
    /\ pc' = [pc EXCEPT ![f] = "sending"]
    /\ UNCHANGED <<starting, closed, backoff, stopVars, procVars,
                   tries, answer, delivered, holder, faults>>

\* No worker, none being started and none may be: _NoWorker.
AcquireNoWorker(f) ==
    /\ Acquiring(f) /\ ~closed
    /\ Kept = {} /\ starting = 0 /\ backoff
    /\ workers' = Kept
    /\ waiting' = Waiters(f) - 1
    /\ pc' = [pc EXCEPT ![f] = "fallback"]
    /\ UNCHANGED <<busy, starting, closed, backoff, stopVars, procVars,
                   has, tries, live, answer, delivered, holder, faults>>

\* Mutant: the starts under way do not count against the cap.
MaySpawnUncapped(f) ==
    ~backoff /\ starting < Waiters(f) /\ Cardinality(Kept) < MaxWorkers

MaySpawn(f) ==
    ~backoff /\ starting < Waiters(f)
             /\ Cardinality(Kept) + starting < MaxWorkers

\* Every worker is busy: start another if the cap, the back-off and the
\* starts under way allow it, and wait.
AcquireWait(f) ==
    /\ Acquiring(f) /\ ~closed
    /\ Kept \subseteq busy
    /\ ~(Kept = {} /\ starting = 0 /\ backoff)
    /\ workers' = Kept
    /\ waiting' = Waiters(f)
    /\ pc' = [pc EXCEPT ![f] = "waiting"]
    /\ IF MaySpawn(f) THEN SpawnLocked ELSE NoSpawn
    /\ UNCHANGED <<closed, backoff, stopVars,
                   has, tries, live, answer, delivered, holder, faults>>

-----------------------------------------------------------------------------
(* The frame's way through its worker.                                     *)

\* worker.send: the whole message goes into the pipe, or the pipe is broken
\* and no whole message does.
Send(f) ==
    /\ pc[f] = "sending"
    /\ LET p == has[f] IN
         IF Alive(p) /\ p \in piped
           THEN /\ inbox' = [inbox EXCEPT ![p] = f]
                /\ delivered' = [delivered EXCEPT ![f] = @ + 1]
                /\ pc' = [pc EXCEPT ![f] = "receiving"]
           ELSE /\ pc' = [pc EXCEPT ![f] = "unsent"]
                /\ UNCHANGED <<inbox, delivered>>
    /\ UNCHANGED <<poolVars, stopVars, proc, piped, reply,
                   has, tries, live, answer, holder, faults>>

\* worker.receive returned a reply.
Receive(f) ==
    /\ pc[f] = "receiving"
    /\ reply[has[f]] # NoReply
    /\ answer' = [answer EXCEPT ![f] = reply[has[f]]]
    /\ reply' = [reply EXCEPT ![has[f]] = NoReply]
    /\ pc' = [pc EXCEPT ![f] = "releasing"]
    /\ UNCHANGED <<poolVars, stopVars, proc, piped, inbox,
                   has, tries, live, delivered, holder, faults>>

\* Mutant: a failed receive is treated as a failed send.
ReceiveFailsUnsent(f) ==
    /\ pc[f] = "receiving"
    /\ reply[has[f]] = NoReply /\ ~Alive(has[f])
    /\ pc' = [pc EXCEPT ![f] = "unsent"]
    /\ UNCHANGED <<poolVars, stopVars, procVars,
                   has, tries, live, answer, delivered, holder, faults>>

\* worker.receive met the end of the pipe.
ReceiveFails(f) ==
    /\ pc[f] = "receiving"
    /\ reply[has[f]] = NoReply /\ ~Alive(has[f])
    /\ pc' = [pc EXCEPT ![f] = "crashed"]
    /\ UNCHANGED <<poolVars, stopVars, procVars,
                   has, tries, live, answer, delivered, holder, faults>>

\* _reap_locked: of the workers idle past the timeout, those to stop.  When
\* that is every worker of the pool, one of them is kept.
Reapable(pool, flags) ==
    LET idle == pool \ flags IN
    {gone \in SUBSET idle : gone # pool \/ gone = {}}

\* _release: the worker is idle again, and workers idle too long leave the
\* pool to be stopped on another thread.
Release(f) ==
    /\ pc[f] = "releasing"
    /\ busy' = busy \ {has[f]}
    /\ \E gone \in Reapable(workers, busy') :
         /\ workers' = workers \ gone
         /\ retiring' = retiring \cup gone
    /\ has' = [has EXCEPT ![f] = None]
    /\ pc' = [pc EXCEPT ![f] = "done"]
    /\ UNCHANGED <<starting, waiting, closed, backoff, closing, exited,
                   procVars, tries, live, answer, delivered, holder, faults>>

\* _lost: out of the pool, then killed.
Lost(f) ==
    /\ workers' = workers \ {has[f]}
    /\ proc' = [proc EXCEPT ![has[f]] = "dead"]
    /\ inbox' = [inbox EXCEPT ![has[f]] = None]
    /\ has' = [has EXCEPT ![f] = None]

\* The frame never reached its worker: another one, three times in all.
Unsent(f) ==
    /\ pc[f] = "unsent"
    /\ Lost(f)
    /\ tries' = [tries EXCEPT ![f] = @ + 1]
    /\ IF tries[f] + 1 < 3
         THEN /\ pc' = [pc EXCEPT ![f] = "new"]
              /\ UNCHANGED answer
         ELSE /\ pc' = [pc EXCEPT ![f] = "done"]
              /\ answer' = [answer EXCEPT ![f] = Ended("lost")]
    /\ UNCHANGED <<busy, starting, waiting, closed, backoff, stopVars, piped,
                   reply, live, delivered, holder, faults>>

\* The worker died with the frame: the seam's own error frame, no retry.
Crashed(f) ==
    /\ pc[f] = "crashed"
    /\ Lost(f)
    /\ pc' = [pc EXCEPT ![f] = "done"]
    /\ answer' = [answer EXCEPT ![f] = Ended("crashed")]
    /\ UNCHANGED <<busy, starting, waiting, closed, backoff, stopVars, piped,
                   reply, tries, live, delivered, holder, faults>>

\* After _NoWorker: seam.answer in this process, one frame at a time.
FallbackTake(f) ==
    /\ pc[f] = "fallback" /\ holder = None
    /\ holder' = f
    /\ delivered' = [delivered EXCEPT ![f] = @ + 1]
    /\ pc' = [pc EXCEPT ![f] = "in_process"]
    /\ UNCHANGED <<poolVars, stopVars, procVars,
                   has, tries, live, answer, faults>>

\* Mutant: the fallback lock is not released.
FallbackAnswerLocked(f) ==
    /\ pc[f] = "in_process"
    /\ pc' = [pc EXCEPT ![f] = "done"]
    /\ answer' = [answer EXCEPT ![f] = Ended("in_process")]
    /\ UNCHANGED <<poolVars, stopVars, procVars,
                   has, tries, live, delivered, holder, faults>>

FallbackAnswer(f) ==
    /\ pc[f] = "in_process"
    /\ holder' = None
    /\ pc' = [pc EXCEPT ![f] = "done"]
    /\ answer' = [answer EXCEPT ![f] = Ended("in_process")]
    /\ UNCHANGED <<poolVars, stopVars, procVars,
                   has, tries, live, delivered, faults>>

-----------------------------------------------------------------------------
(* The worker process: worker_main, and its death at any moment.           *)

WorkerReads(p) ==
    /\ proc[p] = "ready" /\ inbox[p] # None
    /\ proc' = [proc EXCEPT ![p] = "solving"]
    /\ UNCHANGED <<poolVars, stopVars, piped, inbox, reply, frameVars,
                   holder, faults>>

\* The answer, or the exception seam.answer raised.
WorkerReplies(p) ==
    /\ proc[p] = "solving"
    /\ proc' = [proc EXCEPT ![p] = "ready"]
    /\ inbox' = [inbox EXCEPT ![p] = None]
    /\ \E kind \in Kinds :
         reply' = [reply EXCEPT ![p] = [kind |-> kind, frame |-> inbox[p]]]
    /\ UNCHANGED <<poolVars, stopVars, piped, frameVars, holder, faults>>

\* Mutant: a worker does not leave at the end of its stdin.
WorkerStays(p) ==
    /\ p \notin piped
    /\ proc[p] = "booting" /\ exited
    /\ proc' = [proc EXCEPT ![p] = "dead"]
    /\ UNCHANGED <<poolVars, stopVars, piped, inbox, reply, frameVars,
                   holder, faults>>

\* End of stdin, read when no frame is left before it (by a worker whose
\* server is gone, possibly right after it booted).
WorkerLeaves(p) ==
    /\ p \notin piped
    /\ \/ proc[p] = "ready" /\ inbox[p] = None
       \/ proc[p] = "booting" /\ exited
    /\ proc' = [proc EXCEPT ![p] = "dead"]
    /\ UNCHANGED <<poolVars, stopVars, piped, inbox, reply, frameVars,
                   holder, faults>>

\* A crash of the native solver, the OOM killer.
WorkerDies(p) ==
    /\ proc[p] \in {"ready", "solving"}
    /\ faults < MaxFaults
    /\ faults' = faults + 1
    /\ proc' = [proc EXCEPT ![p] = "dead"]
    /\ inbox' = [inbox EXCEPT ![p] = None]
    /\ UNCHANGED <<poolVars, stopVars, piped, reply, frameVars, holder>>

-----------------------------------------------------------------------------
(* Stopping: _Worker.stop on whichever thread runs it, and close.          *)

\* close: no worker is handed out any more and every waiter is woken.
Close ==
    /\ ~closed
    /\ closed' = TRUE
    /\ closing' = workers
    /\ workers' = {}
    /\ UNCHANGED <<busy, starting, waiting, backoff, retiring, exited,
                   procVars, frameVars, holder, faults>>

\* stop closes the worker's stdin ...
StopAsks(p) ==
    /\ p \in Stopping /\ p \in piped
    /\ piped' = piped \ {p}
    /\ UNCHANGED <<poolVars, stopVars, proc, inbox, reply, frameVars,
                   holder, faults>>

\* ... kills it if it is still there after the wait ...
StopKills(p) ==
    /\ p \in Stopping /\ p \notin piped /\ Alive(p)
    /\ proc' = [proc EXCEPT ![p] = "dead"]
    /\ inbox' = [inbox EXCEPT ![p] = None]
    /\ UNCHANGED <<poolVars, stopVars, piped, reply, frameVars, holder, faults>>

\* ... and returns once it is gone.
StopReturns(p) ==
    /\ p \in Stopping /\ p \notin piped /\ ~Alive(p)
    /\ closing' = closing \ {p}
    /\ retiring' = retiring \ {p}
    /\ UNCHANGED <<poolVars, exited, procVars, frameVars, holder, faults>>

\* close has returned and the server process ends.  Its threads are daemons:
\* a frame still under way is never answered, a worker being started or
\* stopped loses its stdin with the server.
ServerExits ==
    /\ closed /\ closing = {} /\ ~exited
    /\ exited' = TRUE
    /\ piped' = {}
    /\ retiring' = {} /\ holder' = None
    /\ pc' = [f \in Frames |-> "done"]
    /\ has' = [f \in Frames |-> None]
    /\ answer' = [f \in Frames |->
                    IF pc[f] = "done" THEN answer[f] ELSE Ended("abandoned")]
    /\ UNCHANGED <<poolVars, closing, proc, inbox, reply,
                   tries, live, delivered, faults>>

-----------------------------------------------------------------------------
Thread(f) ==
    \/ AcquireRefused(f) \/ AcquireWorker(f) \/ AcquireNoWorker(f)
    \/ AcquireWait(f)
    \/ Send(f) \/ Unsent(f) \/ Receive(f) \/ ReceiveFails(f)
    \/ Release(f) \/ Crashed(f)
    \/ FallbackTake(f) \/ FallbackAnswer(f)

Process(p) == WorkerReads(p) \/ WorkerReplies(p) \/ WorkerLeaves(p)
Stop(p) == StopAsks(p) \/ StopKills(p) \/ StopReturns(p)

\* Nothing is left to do: the server and all its workers are gone.
Finished ==
    /\ exited /\ \A p \in Procs : ~Alive(p)
    /\ UNCHANGED vars

Next ==
    \/ \E f \in Frames : Thread(f)
    \/ \E p \in Procs : \/ SpawnReady(p) \/ SpawnFails(p) \/ WorkerDies(p)
                        \/ Process(p) \/ Stop(p)
    \/ BackoffEnds \/ Close \/ ServerExits \/ Finished

Spec == Init /\ [][Next]_vars

\* Threads run, a worker that is started gets ready or is given up, a solve
\* ends, stop returns.  Nothing makes a fault, a close or a back-off's end
\* happen; a thread that has not called answer need not.
Fairness ==
    /\ \A f \in Frames : WF_vars(pc[f] # "new" /\ Thread(f))
    /\ \A f \in Frames : WF_vars(tries[f] > 0 /\ Thread(f))
    /\ \A p \in Procs : /\ WF_vars(SpawnReady(p) \/ SpawnFails(p))
                        /\ WF_vars(Process(p))
                        /\ WF_vars(Stop(p))
    /\ WF_vars(closed /\ ServerExits)

FairSpec == Spec /\ Fairness

-----------------------------------------------------------------------------
(* Type invariant.                                                         *)

PCs == {"new", "waiting", "sending", "unsent", "receiving", "releasing",
        "crashed", "fallback", "in_process", "done"}

TypeOK ==
    /\ workers \subseteq Procs /\ busy \subseteq Procs /\ piped \subseteq Procs
    /\ closing \subseteq Procs /\ retiring \subseteq Procs
    /\ starting \in Int /\ waiting \in Int /\ faults \in 0..MaxFaults
    /\ closed \in BOOLEAN /\ backoff \in BOOLEAN /\ exited \in BOOLEAN
    /\ holder \in Frames \cup {None}
    /\ proc \in [Procs -> {"dead", "booting", "ready", "solving"}]
    /\ inbox \in [Procs -> Frames \cup {None}]
    /\ reply \in [Procs -> Reply \cup {NoReply}]
    /\ pc \in [Frames -> PCs]
    /\ has \in [Frames -> Procs \cup {None}]
    /\ tries \in [Frames -> 0..3] /\ live \in [Frames -> Nat]
    /\ answer \in [Frames -> Answer \cup {NoReply}]
    /\ delivered \in [Frames -> Nat]

-----------------------------------------------------------------------------
(* Safety.                                                                 *)

Booting == {p \in Procs : proc[p] = "booting"}

\* The two counters are kept on every path out of _acquire and _spawn,
\* exceptions included: `starting` counts the starts under way and `waiting`
\* the threads in the loop.  A leak in either would starve or overspawn.
CountersExact ==
    ~exited => /\ starting = Cardinality(Booting)
               /\ waiting = Cardinality({f \in Frames : pc[f] = "waiting"})

\* The cap holds at every moment, starts under way counted in (_acquire's
\* test and _spawn's append happen in different critical sections).
CapRespected == Cardinality(workers) + starting <= MaxWorkers

\* A worker carries one frame at a time: no two threads hold it.
OneFramePerWorker ==
    \A f, g \in Frames : has[f] = has[g] /\ has[f] # None => f = g

\* A call returns the answer to its own frame, never one a worker still had
\* in its pipe from another (replies carry no frame number in the code).
AnswerIsOwn ==
    \A f \in Frames : answer[f].kind \in Kinds => answer[f].frame = f

\* A frame is handed to a solver at most once, in a worker or in-process:
\* it may be what killed the worker that had it.
SolvedAtMostOnce == \A f \in Frames : delivered[f] <= 1

\* An idle worker of an open pool is clean: nothing in its pipes, nobody's
\* frame, its stdin still open.
IdleIsClean ==
    \A p \in workers \ busy :
        /\ p \notin Held \cup Stopping /\ p \in piped
        /\ inbox[p] = None /\ reply[p] = NoReply

\* Of Accounted: no worker process is forgotten while the server runs, it is
\* being started, in the pool, checked out, or someone is stopping it.
NoStrayProcess ==
    \A p \in Procs :
        Alive(p) /\ ~exited => p \in workers \cup Booting \cup Held \cup Stopping

\* What the pool counts and lists is what there is, on every path of a failing
\* start, a death, a wait that raises and a close.
Accounted == CountersExact /\ NoStrayProcess

InWorkers == {f \in Frames : pc[f] = "receiving" /\ Alive(has[f])}
InProcess == {f \in Frames : pc[f] = "in_process"}

Total(w, S) == MapThenSumSet(LAMBDA x : w[x], S)

\* The OpenMP threads of all solves under way: those in workers on the share
\* fixed at their checkout, one in this process on no limit at all.
ThreadsInUse ==
    Total([f \in Frames |-> Threads(live[f])], InWorkers)
        + Default * Cardinality(InProcess)

\* A lone worker's threads, and those of a share of a half, ... an n-th.
Staircase(n) == Total([k \in Nat |-> Threads(k)], 1..n)

\* Shares are right only at the checkout: the pool grows, dies and shrinks
\* under the solves, and an in-process solve goes on after the back-off beside
\* new workers.  Together they may exceed the cores, but by no more than this:
\* n workers solve on the threads of a lone one, a half, ... an n-th share,
\* and all in-process solves on those of a single one.
ThreadsBounded ==
    ThreadsInUse <= Staircase(Cardinality(InWorkers))
                      + (IF InProcess = {} THEN 0 ELSE Default)

-----------------------------------------------------------------------------
(* Liveness.                                                               *)

\* A call of answer that has begun ends, by an answer or by an exception.
EveryCallEnds ==
    \A f \in Frames : pc[f] # "new" ~> pc[f] = "done"

\* Once the pool is closed no worker process outlives the server for good.
NoOrphans == closed ~> \A p \in Procs : ~Alive(p)

-----------------------------------------------------------------------------
(* The promise to the callers, refined.                                    *)

FrameState ==
    [f \in Frames |-> IF pc[f] = "done" THEN "over"
                      ELSE IF delivered[f] > 0 THEN "solving" ELSE "asked"]
FrameOutcome ==
    [f \in Frames |-> IF pc[f] = "done" THEN answer[f] ELSE NoReply]

Service == INSTANCE FrameService
             WITH state <- FrameState, outcome <- FrameOutcome

\* WorkerPool.answer keeps the promise of FrameService: at most one solve,
\* the frame's own answer, a refusal only if it was never with a solver.
ServiceSpec == Service!Spec
=============================================================================
