-------------------------- MODULE WorkerPoolProofs --------------------------
(***************************************************************************)
(* Theorems about WorkerPool for every number of frames, process slots,    *)
(* workers and faults.                                                     *)
(***************************************************************************)
EXTENDS WorkerPool, FiniteSetTheorems, TLAPS

-----------------------------------------------------------------------------
(* The inductive invariant, in named parts.                                *)

Holding == {"sending", "unsent", "receiving", "releasing", "crashed"}
Unsolved == {"new", "waiting", "sending", "unsent", "fallback"}

\* A thread has a worker exactly between _acquire and _release or _lost, and
\* the worker's busy flag is set all that while.
Checkout ==
    \A f \in Frames : /\ has[f] # None <=> pc[f] \in Holding
                      /\ has[f] # None => has[f] \in busy

\* A call that has not ended may still try to send.
TriesLeft == \A f \in Frames : pc[f] # "done" => tries[f] < 3

\* What is in a worker's pipes belongs to the one thread waiting on it.
PipesOwned ==
    ~exited => \A p \in Procs :
        /\ inbox[p] # None => /\ pc[inbox[p]] = "receiving"
                              /\ has[inbox[p]] = p
                              /\ reply[p] = NoReply
        /\ reply[p] # NoReply => /\ reply[p].frame \in Frames
                                 /\ pc[reply[p].frame] = "receiving"
                                 /\ has[reply[p].frame] = p

\* A worker solves the frame in its inbox; one that is dead or still booting
\* has none.
InboxMatches ==
    \A p \in Procs : /\ proc[p] = "solving" => inbox[p] # None
                     /\ proc[p] \in {"dead", "booting"} => inbox[p] = None

\* A frame not yet given to a solver has been delivered to none, any other of
\* a call still under way to one.
DeliveredOnce ==
    \A f \in Frames : /\ delivered[f] <= 1
                      /\ pc[f] \in Unsolved => delivered[f] = 0
                      /\ pc[f] \notin Unsolved \cup {"done"} => delivered[f] = 1

\* The reply a thread is about to return is to its own frame.
ReceivedOwn ==
    \A f \in Frames :
        pc[f] = "releasing" => answer[f] \in Reply /\ answer[f].frame = f

\* The pool's list, the processes being started and those being stopped are
\* apart; closing empties the list for good, and only then the server exits
\* and ends every call.
Apart ==
    /\ closed => workers = {}
    /\ exited => closed /\ \A f \in Frames : pc[f] = "done"
    /\ workers \cap Stopping = {} /\ workers \cap Booting = {}
    /\ Booting \cap (Stopping \cup Held) = {}
    /\ workers \subseteq piped
    /\ ~exited => Booting \subseteq piped

IInv == /\ TypeOK /\ Checkout /\ TriesLeft /\ PipesOwned /\ InboxMatches
        /\ DeliveredOnce /\ ReceivedOwn /\ Apart
        /\ OneFramePerWorker /\ AnswerIsOwn /\ IdleIsClean

-----------------------------------------------------------------------------
(* Init establishes the invariant and every step keeps it.                 *)

\* Before the first frame there is one process, the one start began.
LEMMA InitIInv == Init => IInv
<1> SUFFICES ASSUME Init PROVE IInv
  OBVIOUS
<1> USE PoolAssumption DEF Init, NoReply
<1>1. PICK first \in Procs :
         /\ proc = [p \in Procs |-> IF p = first THEN "booting" ELSE "dead"]
         /\ piped = {first}
  BY Zenon
<1>2. closed \in BOOLEAN /\ backoff \in BOOLEAN /\ exited \in BOOLEAN
  BY Zenon
<1>3. TypeOK
  BY <1>1, <1>2, SMT DEF TypeOK, PCs
<1>4. Checkout /\ TriesLeft /\ PipesOwned /\ InboxMatches
  BY <1>1, SMT DEF Checkout, TriesLeft, PipesOwned, InboxMatches, Holding
<1>5. DeliveredOnce /\ ReceivedOwn /\ OneFramePerWorker /\ AnswerIsOwn
      /\ IdleIsClean
  BY SMT DEF DeliveredOnce, ReceivedOwn, OneFramePerWorker, AnswerIsOwn,
             IdleIsClean, Kinds, Unsolved
<1>6. Apart
  BY <1>1, SMT DEF Apart, Stopping, Held, Booting
<1> QED BY <1>3, <1>4, <1>5, <1>6 DEF IInv

\* The step proof has one step per action; the ones about a checkout, a reply
\* that is received and a worker that joins the pool need facts of their own.
LEMMA StepIInv == IInv /\ [Next]_vars => IInv'
<1> SUFFICES ASSUME IInv, [Next]_vars PROVE IInv'
  OBVIOUS
<1> USE PoolAssumption
    DEF IInv, TypeOK, Checkout, TriesLeft, PipesOwned, InboxMatches,
        DeliveredOnce, ReceivedOwn, Apart, OneFramePerWorker, AnswerIsOwn,
        IdleIsClean, Holding, Unsolved, PCs, Reply, Kinds, NoReply, Answer,
        Ends, Ended, Stopping, Held, Booting,
        poolVars, stopVars, procVars, frameVars
<1>1. ASSUME NEW f \in Frames, AcquireRefused(f) PROVE IInv'
  BY <1>1, SMTT(40) DEF AcquireRefused, Acquiring, Waiters
<1>2. ASSUME NEW f \in Frames, AcquireWorker(f) PROVE IInv'
  <2> USE <1>2 DEF AcquireWorker, Acquiring, Waiters, Kept, Alive
  <2>1. Cardinality(Kept) \in Nat
    <3>1. IsFiniteSet(Kept)
      BY FS_Subset
    <3> QED BY <3>1, FS_CardinalityType
  <2>2. TypeOK'
    BY <2>1, SMTT(40)
  <2>3. Checkout' /\ TriesLeft' /\ PipesOwned' /\ InboxMatches'
    BY SMTT(40)
  <2>4. OneFramePerWorker' /\ IdleIsClean'
    BY SMTT(40)
  <2>5. DeliveredOnce' /\ ReceivedOwn' /\ Apart' /\ AnswerIsOwn'
    BY SMTT(40)
  <2> QED BY <2>2, <2>3, <2>4, <2>5
<1>3. ASSUME NEW f \in Frames, AcquireNoWorker(f) PROVE IInv'
  BY <1>3, SMTT(40) DEF AcquireNoWorker, Acquiring, Waiters, Kept, Alive
<1>4. ASSUME NEW f \in Frames, AcquireWait(f) PROVE IInv'
  BY <1>4, SMTT(40) DEF AcquireWait, Acquiring, Waiters, Kept, Free, Alive, MaySpawn, SpawnLocked,
         NoSpawn
<1>5. ASSUME NEW f \in Frames, Send(f) PROVE IInv'
  <2> USE <1>5 DEF Send, Alive
  <2>1. TypeOK' /\ Checkout' /\ TriesLeft' /\ PipesOwned'
    BY SMTT(40)
  <2>2. InboxMatches' /\ DeliveredOnce' /\ ReceivedOwn' /\ Apart'
    BY SMTT(40)
  <2>3. OneFramePerWorker' /\ AnswerIsOwn' /\ IdleIsClean'
    BY SMTT(40)
  <2> QED BY <2>1, <2>2, <2>3
<1>6. ASSUME NEW f \in Frames, Unsent(f) PROVE IInv'
  <2> USE <1>6 DEF Unsent, Lost
  <2>1. TypeOK' /\ Checkout' /\ TriesLeft' /\ PipesOwned'
    BY SMTT(40)
  <2>2. InboxMatches' /\ DeliveredOnce' /\ ReceivedOwn' /\ Apart'
    BY SMTT(40)
  <2>3. OneFramePerWorker' /\ AnswerIsOwn' /\ IdleIsClean'
    BY SMTT(40)
  <2> QED BY <2>1, <2>2, <2>3
<1>7. ASSUME NEW f \in Frames, Receive(f) PROVE IInv'
  <2> USE <1>7 DEF Receive
  <2>1. has[f] \in Procs /\ reply[has[f]] \in Reply
    BY SMT
  <2>2. ~exited
    BY SMT
  <2>3. reply[has[f]].frame = f
    BY <2>1, <2>2, SMT
  <2>4. answer' = [answer EXCEPT ![f] = reply[has[f]]]
    OBVIOUS
  <2>5. ReceivedOwn' /\ AnswerIsOwn'
    BY <2>1, <2>3, <2>4, SMTT(40)
  <2>6. TypeOK' /\ Checkout' /\ TriesLeft' /\ PipesOwned'
    BY SMTT(40)
  <2>7. InboxMatches' /\ DeliveredOnce' /\ Apart' /\ OneFramePerWorker'
        /\ IdleIsClean'
    BY SMTT(40)
  <2> QED BY <2>5, <2>6, <2>7
<1>8. ASSUME NEW f \in Frames, ReceiveFails(f) PROVE IInv'
  BY <1>8, SMTT(40) DEF ReceiveFails, Alive
<1>9. ASSUME NEW f \in Frames, Release(f) PROVE IInv'
  BY <1>9, SMTT(40) DEF Release, Reapable
<1>10. ASSUME NEW f \in Frames, Crashed(f) PROVE IInv'
  BY <1>10, SMTT(40) DEF Crashed, Lost
<1>11. ASSUME NEW f \in Frames, FallbackTake(f) PROVE IInv'
  BY <1>11, SMTT(40) DEF FallbackTake
<1>12. ASSUME NEW f \in Frames, FallbackAnswer(f) PROVE IInv'
  BY <1>12, SMTT(40) DEF FallbackAnswer
<1>13. ASSUME NEW p \in Procs, SpawnReady(p) PROVE IInv'
  <2> USE <1>13 DEF SpawnReady
  <2>1. backoff' \in BOOLEAN
    BY Zenon
  <2>2. TypeOK'
    BY <2>1, SMTT(40)
  <2>3. Checkout' /\ TriesLeft' /\ PipesOwned' /\ InboxMatches'
        /\ DeliveredOnce' /\ ReceivedOwn'
    BY SMTT(40)
  <2>4. Apart' /\ OneFramePerWorker' /\ AnswerIsOwn' /\ IdleIsClean'
    BY SMTT(40)
  <2> QED BY <2>2, <2>3, <2>4
<1>14. ASSUME NEW p \in Procs, SpawnFails(p) PROVE IInv'
  BY <1>14, SMTT(40) DEF SpawnFails
<1>15. ASSUME NEW p \in Procs, WorkerDies(p) PROVE IInv'
  BY <1>15, SMTT(40) DEF WorkerDies
<1>16. ASSUME NEW p \in Procs, WorkerReads(p) PROVE IInv'
  BY <1>16, SMTT(40) DEF WorkerReads
<1>17. ASSUME NEW p \in Procs, WorkerReplies(p) PROVE IInv'
  BY <1>17, SMTT(40) DEF WorkerReplies
<1>18. ASSUME NEW p \in Procs, WorkerLeaves(p) PROVE IInv'
  BY <1>18, SMTT(40) DEF WorkerLeaves
<1>19. ASSUME NEW p \in Procs, StopAsks(p) PROVE IInv'
  BY <1>19, SMTT(40) DEF StopAsks
<1>20. ASSUME NEW p \in Procs, StopKills(p) PROVE IInv'
  BY <1>20, SMTT(40) DEF StopKills, Alive
<1>21. ASSUME NEW p \in Procs, StopReturns(p) PROVE IInv'
  BY <1>21, SMTT(40) DEF StopReturns, Alive
<1>22. ASSUME BackoffEnds PROVE IInv'
  <2> USE <1>22 DEF BackoffEnds
  <2>1. backoff' \in BOOLEAN
    BY Zenon
  <2>2. TypeOK'
    BY <2>1, SMTT(40)
  <2> QED BY <2>2, SMTT(40)
<1>23. ASSUME Close PROVE IInv'
  BY <1>23, SMTT(40) DEF Close
<1>24. ASSUME ServerExits PROVE IInv'
  BY <1>24, SMTT(40) DEF ServerExits
<1>25. ASSUME Finished PROVE IInv'
  BY <1>25, SMTT(40) DEF Finished, vars
<1>26. CASE UNCHANGED vars
  BY <1>26, SMTT(40) DEF vars
<1> QED BY <1>1, <1>2, <1>3, <1>4, <1>5, <1>6, <1>7, <1>8, <1>9, <1>10,
           <1>11, <1>12, <1>13, <1>14, <1>15, <1>16, <1>17, <1>18,
           <1>19, <1>20, <1>21, <1>22, <1>23, <1>24, <1>25, <1>26
     DEF Next, Thread, Process, Stop

-----------------------------------------------------------------------------
(* Type correctness and the safety properties of the runs.                 *)

THEOREM Invariance == Spec => []IInv
BY InitIInv, StepIInv, PTL DEF Spec

\* Every variable keeps its type: no counter, flag, pipe or thread leaves its
\* range, a fourth send of a frame included (WorkerPool.answer).
THEOREM TypeCorrect == Spec => []TypeOK
<1>1. IInv => TypeOK
  BY DEF IInv
<1> QED BY <1>1, Invariance, PTL

\* No two connection threads ever hold the same worker (_acquire, _release).
THEOREM MutualExclusion == Spec => []OneFramePerWorker
<1>1. IInv => OneFramePerWorker
  BY DEF IInv
<1> QED BY <1>1, Invariance, PTL

\* A call of WorkerPool.answer that returns a worker's reply returns the reply
\* to its own frame, though replies carry no frame number.
THEOREM NoCrossTalk == Spec => []AnswerIsOwn
<1>1. IInv => AnswerIsOwn
  BY DEF IInv
<1> QED BY <1>1, Invariance, PTL

\* No frame is solved twice, in workers or in-process, however often a send
\* fails and whichever worker dies (WorkerPool.answer's retry loop).
THEOREM AtMostOneSolve == Spec => []SolvedAtMostOnce
<1>1. IInv => SolvedAtMostOnce
  BY DEF IInv, DeliveredOnce, SolvedAtMostOnce
<1> QED BY <1>1, Invariance, PTL

\* Every worker an open pool may hand out next is clean (_release, _lost).
THEOREM IdleClean == Spec => []IdleIsClean
<1>1. IInv => IdleIsClean
  BY DEF IInv
<1> QED BY <1>1, Invariance, PTL

-----------------------------------------------------------------------------
(* The cap.                                                                *)

\* A list that loses workers keeps the cap.
LEMMA CapOfSubset ==
    ASSUME TypeOK, CapRespected, NEW S, S \subseteq workers
    PROVE  Cardinality(S) \in Nat /\ Cardinality(S) + starting <= MaxWorkers
<1>1. IsFiniteSet(workers)
  BY PoolAssumption, FS_Subset DEF TypeOK
<1>2. Cardinality(S) \in Nat /\ Cardinality(S) <= Cardinality(workers)
      /\ Cardinality(workers) \in Nat
  BY <1>1, FS_Subset, FS_CardinalityType
<1> QED BY <1>2, PoolAssumption, SMT DEF TypeOK, CapRespected

LEMMA StepCap == TypeOK /\ CapRespected /\ [Next]_vars => CapRespected'
<1> SUFFICES ASSUME TypeOK, CapRespected, [Next]_vars PROVE CapRespected'
  OBVIOUS
\* The steps that only let workers go.
<1>1. ASSUME workers' \subseteq workers, starting' = starting PROVE CapRespected'
  BY <1>1, CapOfSubset, SMT DEF CapRespected
<1>2. ASSUME NEW f \in Frames, AcquireWait(f) PROVE CapRespected'
  <2>1. workers' = Kept /\ Kept \subseteq workers
    BY <1>2 DEF AcquireWait, Kept
  <2>2. CASE MaySpawn(f)
    <3>1. starting' = starting + 1
      BY <1>2, <2>2 DEF AcquireWait, SpawnLocked
    <3> QED BY <2>1, <2>2, <3>1, CapOfSubset, PoolAssumption, SMT
            DEF MaySpawn, CapRespected, TypeOK
  <2>3. CASE ~MaySpawn(f)
    BY <1>1, <1>2, <2>1, <2>3 DEF AcquireWait, NoSpawn
  <2> QED BY <2>2, <2>3
<1>3. ASSUME NEW p \in Procs, SpawnReady(p) PROVE CapRespected'
  <2>1. IsFiniteSet(workers) /\ Cardinality(workers) \in Nat
    BY PoolAssumption, FS_Subset, FS_CardinalityType DEF TypeOK
  <2>2. Cardinality(workers') \in Nat
        /\ Cardinality(workers') <= Cardinality(workers) + 1
    <3>1. CASE closed
      BY <1>3, <2>1, <3>1, SMT DEF SpawnReady
    <3>2. CASE ~closed
      <4>1. workers' = workers \cup {p}
        BY <1>3, <3>2 DEF SpawnReady
      <4>2. /\ IsFiniteSet(workers \cup {p})
            /\ \/ Cardinality(workers \cup {p}) = Cardinality(workers)
               \/ Cardinality(workers \cup {p}) = Cardinality(workers) + 1
        BY <2>1, FS_AddElement
      <4> QED BY <2>1, <4>1, <4>2, SMT
    <3> QED BY <3>1, <3>2
  <2>3. starting' = starting - 1
    BY <1>3 DEF SpawnReady
  <2> QED BY <2>1, <2>2, <2>3, PoolAssumption, SMT DEF CapRespected, TypeOK
<1>4. ASSUME NEW p \in Procs, SpawnFails(p) PROVE CapRespected'
  <2>1. workers' = workers /\ starting' = starting - 1
    BY <1>4 DEF SpawnFails
  <2> QED BY <2>1, CapOfSubset, PoolAssumption, SMT DEF CapRespected, TypeOK
<1>5. ASSUME NEW f \in Frames,
             \/ AcquireRefused(f) \/ AcquireWorker(f) \/ AcquireNoWorker(f)
             \/ Send(f) \/ Unsent(f) \/ Receive(f) \/ ReceiveFails(f)
             \/ Release(f) \/ Crashed(f)
             \/ FallbackTake(f) \/ FallbackAnswer(f)
      PROVE  CapRespected'
  <2>1. workers' \subseteq workers /\ starting' = starting
    BY <1>5, SMT DEF AcquireRefused, AcquireWorker, AcquireNoWorker, Kept, Send,
       Unsent, Lost, Receive, ReceiveFails, Release, Crashed, FallbackTake,
       FallbackAnswer, poolVars
  <2> QED BY <1>1, <2>1
<1>6. ASSUME NEW p \in Procs, WorkerDies(p) \/ Process(p) \/ Stop(p)
      PROVE  CapRespected'
  <2>1. workers' \subseteq workers /\ starting' = starting
    BY <1>6, SMT DEF WorkerDies, Process, WorkerReads, WorkerReplies,
       WorkerLeaves, Stop, StopAsks, StopKills, StopReturns, poolVars
  <2> QED BY <1>1, <2>1
<1>7. CASE BackoffEnds \/ Close \/ ServerExits \/ Finished \/ UNCHANGED vars
  <2>1. workers' \subseteq workers /\ starting' = starting
    BY <1>7, SMT DEF BackoffEnds, Close, ServerExits, Finished, vars, poolVars
  <2> QED BY <1>1, <2>1
<1> QED BY <1>2, <1>3, <1>4, <1>5, <1>6, <1>7 DEF Next, Thread

\* The pool and the starts under way never exceed max_workers, although the
\* test (_acquire) and the append (_spawn) are different critical sections.
THEOREM Cap == Spec => []CapRespected
<1>1. Init => CapRespected
  BY FS_EmptySet, PoolAssumption, SMT DEF Init, CapRespected
<1> QED BY <1>1, StepCap, TypeCorrect, PTL DEF Spec

-----------------------------------------------------------------------------
(* What the pool counts and lists is what there is.                        *)

\* A worker process is being started, in the pool, or being stopped: one that is
\* checked out is still on the list, or was on it when the pool was closed.
Tracked ==
    ~exited => \A p \in Procs : Alive(p) => p \in workers \cup Booting \cup Stopping

\* close takes the list but once.
ClosesOnce == ~closed => closing = {}

AccountedInv == CountersExact /\ Tracked

\* The two counters across a step that moves one process, or one thread.
LEMMA Counting ==
    ASSUME NEW S, NEW T, NEW x, IsFiniteSet(S)
    PROVE  /\ Cardinality(S) \in Nat
           /\ T = S \cup {x} /\ x \notin S => Cardinality(T) = Cardinality(S) + 1
           /\ T = S \ {x} /\ x \in S => Cardinality(T) = Cardinality(S) - 1
<1>1. Cardinality(S) \in Nat
  BY FS_CardinalityType
<1>2. x \notin S => Cardinality(S \cup {x}) = Cardinality(S) + 1
  BY FS_AddElement
<1>3. x \in S => Cardinality(S \ {x}) = Cardinality(S) - 1
  BY FS_RemoveElement
<1> QED BY <1>1, <1>2, <1>3

Waits == {f \in Frames : pc[f] = "waiting"}

LEMMA FiniteCounts == IsFiniteSet(Booting) /\ IsFiniteSet(Waits)
<1>1. Booting \in SUBSET Procs /\ Waits \in SUBSET Frames
  BY DEF Booting, Waits
<1> QED BY <1>1, PoolAssumption, FS_Subset

\* A thread that leaves _acquire, on whichever path.
LEMMA LeavesLoop ==
    ASSUME TypeOK, CountersExact, NEW f \in Frames, Acquiring(f),
           waiting' = Waiters(f) - 1, NEW to \in PCs \ {"waiting"},
           pc' = [pc EXCEPT ![f] = to]
    PROVE  waiting' = Cardinality(Waits')
<1>1. waiting = Cardinality(Waits)
  BY DEF CountersExact, Waits, Acquiring
<1>2. CASE pc[f] = "new"
  <2>1. Waits' = Waits
    BY <1>2, SMT DEF Waits, TypeOK
  <2>2. waiting' = waiting
    BY <1>2, SMT DEF Waiters, TypeOK
  <2> QED BY <1>1, <2>1, <2>2
<1>3. CASE pc[f] = "waiting"
  <2>1. Waits' = Waits \ {f} /\ f \in Waits
    BY <1>3, SMT DEF Waits, TypeOK
  <2>2. Cardinality(Waits') = Cardinality(Waits) - 1
    BY <2>1, FiniteCounts, Counting
  <2>3. waiting' = waiting - 1
    BY <1>3, SMT DEF Waiters
  <2> QED BY <1>1, <2>2, <2>3
<1> QED BY <1>2, <1>3 DEF Acquiring

LEMMA StepCloses == ClosesOnce /\ [Next]_vars => ClosesOnce'
BY SMT DEF ClosesOnce, Next, Thread, AcquireRefused, AcquireWorker, AcquireNoWorker, AcquireWait,
   Send, Unsent, Receive, ReceiveFails, Release, Crashed, FallbackTake, FallbackAnswer,
   SpawnReady, SpawnFails, WorkerDies, Process, WorkerReads, WorkerReplies, WorkerLeaves,
   Stop, StopAsks, StopKills, StopReturns, BackoffEnds, Close, ServerExits, Finished,
   vars, poolVars, stopVars

\* The slot of a new process is one no list of the pool names.
LEMMA StepAccounted == IInv /\ ClosesOnce /\ AccountedInv /\ [Next]_vars => AccountedInv'
<1> SUFFICES ASSUME IInv, ClosesOnce, AccountedInv, [Next]_vars PROVE AccountedInv'
  OBVIOUS
<1>0. TypeOK /\ Apart /\ CountersExact /\ Tracked
  BY DEF IInv, AccountedInv
\* A step that starts and boots nothing and leaves the loop alone keeps both
\* counters.
<1>1. ASSUME Booting' = Booting, Waits' = Waits, starting' = starting, waiting' = waiting,
             exited' = exited
      PROVE  CountersExact'
  BY <1>0, <1>1 DEF CountersExact, Waits
<1>2. ASSUME NEW f \in Frames,
             AcquireRefused(f) \/ AcquireWorker(f) \/ AcquireNoWorker(f)
      PROVE  AccountedInv'
  <2>1. /\ Booting' = Booting /\ starting' = starting /\ exited' = exited /\ Stopping' = Stopping
        /\ proc' = proc /\ (workers' = workers \/ workers' = Kept)
    BY <1>2, SMT DEF AcquireRefused, AcquireWorker, AcquireNoWorker, stopVars, procVars, Booting,
       Stopping
  <2>2. PICK to \in {"done", "sending", "fallback"} :
           Acquiring(f) /\ waiting' = Waiters(f) - 1 /\ pc' = [pc EXCEPT ![f] = to]
    BY <1>2 DEF AcquireRefused, AcquireWorker, AcquireNoWorker
  <2>3. waiting' = Cardinality(Waits')
    BY <1>0, <2>2, LeavesLoop DEF PCs
  <2>4. CountersExact'
    BY <1>0, <2>1, <2>3 DEF CountersExact, Waits
  <2>5. Tracked'
    BY <1>0, <2>1, SMT DEF Tracked, Kept, Alive
  <2> QED BY <2>4, <2>5 DEF AccountedInv
<1>3. ASSUME NEW f \in Frames, AcquireWait(f) PROVE AccountedInv'
  <2>1. /\ Acquiring(f) /\ workers' = Kept /\ waiting' = Waiters(f) /\ ~exited
        /\ pc' = [pc EXCEPT ![f] = "waiting"] /\ exited' = exited /\ Stopping' = Stopping
    BY <1>3, SMT DEF AcquireWait, Acquiring, stopVars, Stopping
  <2>2. waiting' = Cardinality(Waits')
    <3>1. waiting = Cardinality(Waits)
      BY <1>0, <2>1 DEF CountersExact, Waits
    <3>2. CASE pc[f] = "new"
      <4>1. Waits' = Waits \cup {f} /\ f \notin Waits
        BY <1>0, <2>1, <3>2, SMT DEF Waits, TypeOK
      <4>2. Cardinality(Waits') = Cardinality(Waits) + 1
        BY <4>1, FiniteCounts, Counting
      <4> QED BY <2>1, <3>1, <3>2, <4>2 DEF Waiters
    <3>3. CASE pc[f] = "waiting"
      <4>1. Waits' = Waits
        BY <1>0, <2>1, <3>3, SMT DEF Waits, TypeOK
      <4> QED BY <2>1, <3>1, <3>3, <4>1 DEF Waiters
    <3> QED BY <2>1, <3>2, <3>3 DEF Acquiring
  <2>3. CASE ~MaySpawn(f)
    <3>1. Booting' = Booting /\ starting' = starting /\ proc' = proc
      BY <1>3, <2>3, SMT DEF AcquireWait, NoSpawn, procVars, Booting
    <3>2. CountersExact'
      BY <1>0, <2>1, <2>2, <3>1 DEF CountersExact, Waits
    <3>3. Tracked'
      BY <1>0, <2>1, <3>1, SMT DEF Tracked, Kept, Alive
    <3> QED BY <3>2, <3>3 DEF AccountedInv
  <2>4. CASE MaySpawn(f)
    <3>1. PICK p \in Free : proc' = [proc EXCEPT ![p] = "booting"]
      BY <1>3, <2>4 DEF AcquireWait, SpawnLocked
    <3>2. starting' = starting + 1
      BY <1>3, <2>4 DEF AcquireWait, SpawnLocked
    <3>3. p \in Procs /\ proc[p] = "dead"
      BY <1>0, <3>1, SMT DEF Free, Alive
    <3>4. Booting' = Booting \cup {p} /\ p \notin Booting
      BY <1>0, <3>1, <3>3, SMT DEF Booting, TypeOK
    <3>5. Cardinality(Booting') = Cardinality(Booting) + 1
      BY <3>4, FiniteCounts, Counting
    <3>6. CountersExact'
      BY <1>0, <2>1, <2>2, <3>2, <3>5 DEF CountersExact, Waits
    <3>7. Tracked'
      BY <1>0, <2>1, <3>1, <3>3, <3>4, SMT DEF Tracked, Kept, Alive, TypeOK
    <3> QED BY <3>6, <3>7 DEF AccountedInv
  <2> QED BY <2>3, <2>4
\* A start that ends: the process joins the pool, is handed to a thread that
\* stops it, or is dead.
<1>4. ASSUME NEW p \in Procs, SpawnReady(p) \/ SpawnFails(p) PROVE AccountedInv'
  <2>1. /\ proc[p] = "booting" /\ starting' = starting - 1 /\ waiting' = waiting /\ pc' = pc
        /\ ~exited /\ exited' = exited
    BY <1>4, SMT DEF SpawnReady, SpawnFails, stopVars, frameVars
  <2>2. \/ proc' = [proc EXCEPT ![p] = "dead"] /\ workers' = workers /\ Stopping' = Stopping
        \/ /\ proc' = [proc EXCEPT ![p] = "ready"]
           /\ workers \subseteq workers' /\ Stopping \subseteq Stopping'
           /\ p \in workers' \cup Stopping'
    BY <1>4, SMT DEF SpawnReady, SpawnFails, stopVars, Stopping
  <2>3. Booting' = Booting \ {p} /\ p \in Booting
    BY <1>0, <2>1, <2>2, SMT DEF Booting, TypeOK
  <2>4. Cardinality(Booting') = Cardinality(Booting) - 1
    BY <2>3, FiniteCounts, Counting
  <2>5. CountersExact'
    BY <1>0, <2>1, <2>4 DEF CountersExact
  <2>6. Tracked'
    BY <1>0, <2>1, <2>2, <2>3, SMT DEF Tracked, Alive, TypeOK
  <2> QED BY <2>5, <2>6 DEF AccountedInv
<1>5. ASSUME NEW f \in Frames,
             \/ Send(f) \/ Unsent(f) \/ Receive(f) \/ ReceiveFails(f)
             \/ Release(f) \/ Crashed(f) \/ FallbackTake(f) \/ FallbackAnswer(f)
      PROVE  AccountedInv'
  <2>1. PICK to \in PCs \ {"waiting"} : pc' = [pc EXCEPT ![f] = to]
    BY <1>5 DEF Send, Unsent, Receive, ReceiveFails, Release, Crashed, FallbackTake, FallbackAnswer,
       PCs
  <2>2. pc[f] # "waiting" /\ starting' = starting /\ waiting' = waiting /\ exited' = exited
    BY <1>5, SMT DEF Send, Unsent, Receive, ReceiveFails, Release, Crashed, FallbackTake,
       FallbackAnswer, poolVars, stopVars
  <2>3. Waits' = Waits
    BY <1>0, <2>1, <2>2, SMT DEF Waits, TypeOK
  <2>4. /\ Booting' = Booting
        /\ \/ proc' = proc /\ workers' \cup Stopping' = workers \cup Stopping
           \/ /\ proc' = [proc EXCEPT ![has[f]] = "dead"]
              /\ workers' = workers \ {has[f]} /\ Stopping' = Stopping
    <3>1. CASE Unsent(f) \/ Crashed(f)
      <4>1. has[f] \in Procs /\ has[f] \notin Booting
        BY <1>0, <3>1, PoolAssumption, SMT DEF IInv, Checkout, Holding, Apart, Held, TypeOK, Unsent, Crashed
      <4> QED BY <1>0, <3>1, <4>1, SMT DEF Unsent, Crashed, Lost, stopVars, Stopping, Booting, TypeOK
    <3>2. CASE Release(f)
      BY <3>2, SMT DEF Release, Reapable, procVars, Stopping, Booting
    <3>3. CASE \/ Send(f) \/ Receive(f) \/ ReceiveFails(f)
               \/ FallbackTake(f) \/ FallbackAnswer(f)
      BY <3>3, SMT DEF Send, Receive, ReceiveFails, FallbackTake, FallbackAnswer,
         poolVars, stopVars, procVars, Stopping, Booting
    <3> QED BY <1>5, <3>1, <3>2, <3>3
  <2>5. CountersExact'
    BY <1>1, <2>2, <2>3, <2>4
  <2>6. Tracked'
    BY <1>0, <2>2, <2>4, SMT DEF Tracked, Alive, TypeOK
  <2> QED BY <2>5, <2>6 DEF AccountedInv
<1>6. ASSUME NEW p \in Procs, WorkerDies(p) \/ Process(p) \/ Stop(p)
      PROVE  AccountedInv'
  <2>1. /\ Waits' = Waits /\ starting' = starting /\ waiting' = waiting /\ exited' = exited
        /\ workers' = workers
    BY <1>6, SMT DEF WorkerDies, Process, WorkerReads, WorkerReplies, WorkerLeaves, Stop, StopAsks,
       StopKills, StopReturns, poolVars, stopVars, frameVars, Waits
  <2>2. /\ \A q \in Procs : Alive(q)' => Alive(q) /\ (q \in Stopping => q \in Stopping')
        /\ ~exited => Booting' = Booting
    BY <1>0, <1>6, SMT DEF WorkerDies, Process, WorkerReads, WorkerReplies, WorkerLeaves, Stop,
       StopAsks, StopKills, StopReturns, stopVars, procVars, Alive, Stopping, Booting, TypeOK, Apart
  <2>3. CountersExact'
    BY <1>0, <2>1, <2>2 DEF CountersExact, Waits
  <2>4. Tracked'
    BY <1>0, <2>1, <2>2 DEF Tracked
  <2> QED BY <2>3, <2>4 DEF AccountedInv
<1>7. CASE BackoffEnds \/ Close \/ Finished \/ UNCHANGED vars
  <2>1. /\ starting' = starting /\ waiting' = waiting /\ exited' = exited /\ pc' = pc /\ proc' = proc
        /\ workers \cup Stopping \subseteq workers' \cup Stopping'
    BY <1>0, <1>7, SMT DEF BackoffEnds, Close, Finished, vars, poolVars, stopVars, procVars, frameVars,
       Stopping, Apart, ClosesOnce
  <2>2. Booting' = Booting /\ Waits' = Waits
    BY <2>1 DEF Booting, Waits
  <2>3. Tracked'
    BY <1>0, <2>1, <2>2, SMT DEF Tracked, Alive
  <2> QED BY <1>1, <2>1, <2>2, <2>3 DEF AccountedInv
<1>8. CASE ServerExits
  BY <1>8 DEF ServerExits, AccountedInv, CountersExact, Tracked
<1> QED BY <1>2, <1>3, <1>4, <1>5, <1>6, <1>7, <1>8 DEF Next, Thread

\* No path out of _acquire or _spawn leaks a count, and no worker process is
\* forgotten while the server runs, whatever dies, fails to start or is closed.
THEOREM CountsAreExact == Spec => []Accounted
<1>1. Init => AccountedInv
  <2> SUFFICES ASSUME Init PROVE AccountedInv
    OBVIOUS
  <2>1. PICK first \in Procs : proc = [p \in Procs |-> IF p = first THEN "booting" ELSE "dead"]
    BY Zenon DEF Init
  <2>2. Booting = {first} /\ Waits = {}
    BY <2>1, SMT DEF Booting, Waits, Init
  <2>3. Cardinality(Booting) = 1 /\ Cardinality(Waits) = 0
    BY <2>2, FS_Singleton, FS_EmptySet
  <2>4. CountersExact
    BY <2>3 DEF CountersExact, Waits, Init
  <2>5. Tracked
    BY <2>1, <2>2, SMT DEF Tracked, Alive
  <2> QED BY <2>4, <2>5 DEF AccountedInv
<1>2. AccountedInv => Accounted
  BY DEF AccountedInv, Accounted, Tracked, NoStrayProcess
<1>3. Init => ClosesOnce
  BY DEF Init, ClosesOnce
<1> QED BY <1>1, <1>2, <1>3, StepCloses, StepAccounted, Invariance, PTL DEF Spec

-----------------------------------------------------------------------------
(* The threads of all solves under way are bounded.                        *)

\* While the pool is open, a worker that is checked out and alive is on its list.
InPool == ~closed => \A f \in Frames : has[f] # None /\ Alive(has[f]) => has[f] \in workers

\* The frames with a worker that were given an n-th of the cores or more: the
\* n-th worker to be checked out saw all the others on the list.
Given(n) == {f \in Frames : has[f] # None /\ Alive(has[f]) /\ live[f] <= n}
Shares == \A n \in Nat : Cardinality(Given(n)) <= n

LEMMA StepInPool == IInv /\ InPool /\ [Next]_vars => InPool'
<1> SUFFICES ASSUME IInv, InPool, [Next]_vars PROVE InPool'
  OBVIOUS
<1>0. TypeOK /\ Checkout /\ OneFramePerWorker
  BY DEF IInv
<1>1. ASSUME NEW f \in Frames, AcquireWorker(f) PROVE InPool'
  <2>1. PICK p \in Kept : has' = [has EXCEPT ![f] = p]
    BY <1>1 DEF AcquireWorker
  <2>2. workers' = Kept /\ closed' = closed /\ proc' = proc
    BY <1>1 DEF AcquireWorker, procVars
  <2>3. \A g \in Frames : has'[g] = IF g = f THEN p ELSE has[g]
    BY <1>0, <2>1 DEF TypeOK
  <2> QED BY <2>2, <2>3, Zenon DEF InPool, Kept, Alive
<1>2. ASSUME NEW f \in Frames, AcquireRefused(f) \/ AcquireNoWorker(f) PROVE InPool'
  BY <1>2, SMT DEF AcquireRefused, AcquireNoWorker, procVars, InPool, Kept, Alive
<1>3. ASSUME NEW f \in Frames, AcquireWait(f) PROVE InPool'
  <2>1. workers' = Kept /\ closed' = closed /\ has' = has
    BY <1>3 DEF AcquireWait
  <2>2. \A p \in Held : Alive(p)' => Alive(p)
    <3>1. proc' = proc \/ \E p \in Free : proc' = [proc EXCEPT ![p] = "booting"]
      BY <1>3, SMT DEF AcquireWait, SpawnLocked, NoSpawn, procVars
    <3> QED BY <1>0, <3>1, PoolAssumption, SMT DEF Free, Alive, TypeOK, Held
  <2> QED BY <1>0, <2>1, <2>2, SMT DEF InPool, Kept, Held, TypeOK
<1>4. ASSUME NEW f \in Frames, Unsent(f) \/ Crashed(f) PROVE InPool'
  <2>1. /\ workers' = workers \ {has[f]} /\ proc' = [proc EXCEPT ![has[f]] = "dead"]
        /\ has' = [has EXCEPT ![f] = None] /\ closed' = closed /\ has[f] # None
    BY <1>0, <1>4, SMT DEF Unsent, Crashed, Lost, Checkout, Holding
  <2> QED BY <1>0, <2>1, SMT DEF InPool, Alive, TypeOK, OneFramePerWorker
<1>5. ASSUME NEW f \in Frames, Release(f) PROVE InPool'
  BY <1>0, <1>5, SMT DEF Release, Reapable, procVars, InPool, Alive, TypeOK, Checkout, OneFramePerWorker,
     Holding
<1>6. ASSUME NEW f \in Frames,
             Send(f) \/ Receive(f) \/ ReceiveFails(f) \/ FallbackTake(f) \/ FallbackAnswer(f)
      PROVE  InPool'
  BY <1>6, SMT DEF Send, Receive, ReceiveFails, FallbackTake, FallbackAnswer, poolVars, procVars,
     InPool, Alive
<1>7. ASSUME NEW p \in Procs, SpawnReady(p) \/ SpawnFails(p) PROVE InPool'
  BY <1>0, <1>7, SMT DEF SpawnReady, SpawnFails, frameVars, InPool, Alive, TypeOK
<1>8. ASSUME NEW p \in Procs, WorkerDies(p) \/ Process(p) \/ Stop(p) PROVE InPool'
  <2>1. /\ workers' = workers /\ closed' = closed /\ has' = has
        /\ \A q \in Procs : Alive(q)' => Alive(q)
    BY <1>0, <1>8, SMT DEF WorkerDies, Process, WorkerReads, WorkerReplies, WorkerLeaves, Stop,
       StopAsks, StopKills, StopReturns, poolVars, procVars, frameVars, Alive, TypeOK
  <2> QED BY <1>0, <2>1, SMT DEF InPool, TypeOK
<1>9. CASE BackoffEnds \/ Close \/ ServerExits \/ Finished \/ UNCHANGED vars
  BY <1>9, SMT DEF BackoffEnds, Close, ServerExits, Finished, vars, poolVars, procVars, frameVars,
     InPool, Alive
<1> QED BY <1>1, <1>2, <1>3, <1>4, <1>5, <1>6, <1>7, <1>8, <1>9
        DEF Next, Thread

\* Only a checkout adds to the frames given a share.
LEMMA StepShares == IInv /\ InPool /\ Shares /\ [Next]_vars => Shares'
<1> SUFFICES ASSUME IInv, InPool, InPool', IInv', Shares, [Next]_vars,
                    NEW n \in Nat
             PROVE  Cardinality(Given(n)') <= n
  BY StepIInv, StepInPool DEF Shares
<1>0. TypeOK /\ Checkout /\ n \in Nat
  BY DEF IInv
<1>a. IsFiniteSet(Given(n)) /\ Cardinality(Given(n)) \in Nat /\ Cardinality(Given(n)) <= n
  <2>1. Given(n) \in SUBSET Frames
    BY DEF Given
  <2> QED BY <2>1, PoolAssumption, FS_Subset, FS_CardinalityType DEF Shares
\* A step after which no other frame has a share.
<1>b. ASSUME Given(n)' \subseteq Given(n) PROVE Cardinality(Given(n)') <= n
  <2>1. Cardinality(Given(n)') <= Cardinality(Given(n)) /\ Cardinality(Given(n)') \in Nat
    BY <1>a, <1>b, FS_Subset, FS_CardinalityType
  <2> QED BY <1>0, <1>a, <2>1
<1>1. ASSUME NEW f \in Frames, AcquireWorker(f) PROVE Cardinality(Given(n)') <= n
  <2>1. /\ workers' = Kept /\ ~closed' /\ live' = [live EXCEPT ![f] = Cardinality(Kept)]
        /\ proc' = proc /\ \E p \in Kept : has' = [has EXCEPT ![f] = p]
    BY <1>1, Zenon DEF AcquireWorker, procVars
  <2>2. IsFiniteSet(Kept) /\ Cardinality(Kept) \in Nat
    <3>1. Kept \in SUBSET Procs
      BY <1>0 DEF Kept, TypeOK
    <3> QED BY <3>1, PoolAssumption, FS_Subset, FS_CardinalityType
  <2>3. CASE Cardinality(Kept) <= n
    <3> DEFINE hold == [g \in Given(n)' |-> has'[g]]
    <3>1. \A g \in Given(n)' : has'[g] \in Kept
      BY <2>1 DEF InPool, Given
    <3>2. \A g, h \in Given(n)' : has'[g] = has'[h] => g = h
      BY DEF IInv, OneFramePerWorker, Given
    <3>3. hold \in Injection(Given(n)', Kept)
      BY <3>1, <3>2 DEF Injection, IsInjective
    <3>4. Cardinality(Given(n)') <= Cardinality(Kept) /\ IsFiniteSet(Given(n)')
      BY <2>2, <3>3, FS_Injection
    <3>5. Cardinality(Given(n)') \in Nat
      BY <3>4, FS_CardinalityType
    <3> QED BY <1>0, <2>2, <2>3, <3>4, <3>5
  <2>4. CASE ~(Cardinality(Kept) <= n)
    <3>1. Given(n)' \subseteq Given(n)
      BY <1>0, <2>1, <2>4, SMT DEF Given, Alive, TypeOK
    <3> QED BY <1>b, <3>1
  <2> QED BY <2>3, <2>4
<1>2. ASSUME NEW f \in Frames, AcquireWait(f) PROVE Given(n)' \subseteq Given(n)
  <2>1. has' = has /\ live' = live
    BY <1>2 DEF AcquireWait
  <2>2. \A p \in Held : Alive(p)' => Alive(p)
    <3>1. proc' = proc \/ \E p \in Free : proc' = [proc EXCEPT ![p] = "booting"]
      BY <1>2, SMT DEF AcquireWait, SpawnLocked, NoSpawn, procVars
    <3> QED BY <1>0, <3>1, PoolAssumption, SMT DEF Free, Alive, TypeOK, Held
  <2> QED BY <2>1, <2>2, SMT DEF Given, Held
<1>3. ASSUME NEW f \in Frames, Unsent(f) \/ Crashed(f) \/ Release(f)
      PROVE  Given(n)' \subseteq Given(n)
  <2>1. /\ has' = [has EXCEPT ![f] = None] /\ live' = live
        /\ \A p \in Procs : Alive(p)' => Alive(p)
    <3>1. has' = [has EXCEPT ![f] = None] /\ live' = live
      BY <1>3 DEF Unsent, Crashed, Release, Lost
    <3>2. proc' = proc \/ proc' = [proc EXCEPT ![has[f]] = "dead"]
      BY <1>3 DEF Unsent, Crashed, Release, Lost, procVars
    <3> QED BY <1>0, <3>1, <3>2, SMT DEF Alive, TypeOK
  <2> QED BY <1>0, <2>1, SMT DEF Given, TypeOK
<1>4. ASSUME NEW f \in Frames,
             \/ AcquireRefused(f) \/ AcquireNoWorker(f) \/ Send(f) \/ Receive(f)
             \/ ReceiveFails(f) \/ FallbackTake(f) \/ FallbackAnswer(f)
      PROVE  Given(n)' \subseteq Given(n)
  <2>1. has' = has /\ live' = live /\ proc' = proc
    BY <1>4 DEF AcquireRefused, AcquireNoWorker, Send, Receive, ReceiveFails, FallbackTake,
       FallbackAnswer, procVars
  <2> QED BY <2>1 DEF Given, Alive
<1>5. ASSUME NEW p \in Procs,
             SpawnReady(p) \/ SpawnFails(p) \/ WorkerDies(p) \/ Process(p) \/ Stop(p)
      PROVE  Given(n)' \subseteq Given(n)
  <2>1. has' = has /\ live' = live /\ \A q \in Procs : Alive(q)' => Alive(q)
    BY <1>0, <1>5, SMT DEF SpawnReady, SpawnFails, WorkerDies, Process, WorkerReads, WorkerReplies,
       WorkerLeaves, Stop, StopAsks, StopKills, StopReturns, procVars, frameVars, Alive, TypeOK
  <2> QED BY <1>0, <2>1, SMT DEF Given, TypeOK
<1>6. CASE BackoffEnds \/ Close \/ ServerExits \/ Finished \/ UNCHANGED vars
  <2>1. proc' = proc /\ live' = live /\ (has' = has \/ has' = [f \in Frames |-> None])
    BY <1>6 DEF BackoffEnds, Close, ServerExits, Finished, vars, procVars, frameVars
  <2>2. Given(n)' \subseteq Given(n)
    BY <2>1, SMT DEF Given, Alive
  <2> QED BY <1>b, <2>2
<1> QED BY <1>b, <1>1, <1>2, <1>3, <1>4, <1>5, <1>6 DEF Next, Thread

-----------------------------------------------------------------------------
(* Sums over finite sets.                                                  *)

\* g sums w over each of the sets in C.
Adds(C, w, g) ==
    g = [s \in C |-> IF s = {} THEN 0
                     ELSE LET x == CHOOSE x \in s : TRUE IN w[x] + g[s \ {x}]]

\* The subsets of S of at most n elements.
Few(S, n) == {s \in SUBSET S : Cardinality(s) <= n}

\* Nat is the only set of numbers that has 0 and, with each of its elements,
\* the next one.
LEMMA SetInduction ==
    ASSUME NEW T, T \subseteq Nat, 0 \in T, \A m \in T : m + 1 \in T
    PROVE  T = Nat
<1> DEFINE U == Nat \ T
           R == {ss \in Nat \X Nat : ss[1] < ss[2]}
<1>1. IsWellFoundedOn(R, Nat)
    BY NatLessThanWellFounded DEF OpToRel
<1>2. SUFFICES ASSUME U # {} PROVE FALSE
    OBVIOUS
<1>3. PICK x \in U : \A y \in U : ~(<<y, x>> \in R)
    BY <1>1, <1>2, WFMin
<1>4. x - 1 \in Nat /\ x - 1 < x /\ (x - 1) + 1 = x
    BY <1>3
<1>5. x - 1 \in T
    BY <1>3, <1>4
<1>6. QED
    BY <1>3, <1>4, <1>5

\* A set less one of its elements is smaller.
LEMMA OneOfFew ==
    ASSUME NEW S, IsFiniteSet(S), NEW n \in Nat, NEW s \in Few(S, n + 1), NEW x \in s
    PROVE  x \in S /\ s \ {x} \in Few(S, n)
<1>1. IsFiniteSet(s) /\ Cardinality(s) \in Nat
    BY FS_Subset, FS_CardinalityType DEF Few
<1>2. Cardinality(s \ {x}) = Cardinality(s) - 1
    BY <1>1, FS_RemoveElement
<1>3. QED
    BY <1>1, <1>2 DEF Few

\* With enough elements allowed the sets are all subsets.
LEMMA FewOfAll ==
    ASSUME NEW S, IsFiniteSet(S)
    PROVE  /\ \A s \in Few(S, 0) : s = {}
           /\ {} \in Few(S, 0)
           /\ \A n \in Nat : Few(S, n) \subseteq Few(S, n + 1)
           /\ \E n \in Nat : Few(S, n) = SUBSET S
<1>1. \A s \in SUBSET S : IsFiniteSet(s) /\ Cardinality(s) \in Nat /\ Cardinality(s) <= Cardinality(S)
    BY FS_Subset, FS_CardinalityType
<1>2. Cardinality(S) \in Nat
    BY FS_CardinalityType
<1>3. \A s \in SUBSET S : Cardinality(s) <= 0 <=> s = {}
    BY <1>1, FS_EmptySet
<1>4. (\A s \in Few(S, 0) : s = {}) /\ {} \in Few(S, 0)
    BY <1>3 DEF Few
<1>5. \A n \in Nat : Few(S, n) \subseteq Few(S, n + 1)
    BY <1>1 DEF Few
<1>6. Few(S, Cardinality(S)) = SUBSET S
    BY <1>1 DEF Few
<1>7. QED
    BY <1>2, <1>4, <1>5, <1>6

\* The recursive sum has a solution.
LEMMA AddsUp ==
    ASSUME NEW S, IsFiniteSet(S), NEW w
    PROVE  \E g : Adds(SUBSET S, w, g)
<1> DEFINE T == {n \in Nat : \E g : Adds(Few(S, n), w, g)}
           Sum(f, s) == IF s = {} THEN 0
                        ELSE LET x == CHOOSE x \in s : TRUE IN w[x] + f[s \ {x}]
<1>1. 0 \in T
    <2> DEFINE g == [s \in Few(S, 0) |-> 0]
    <2>1. \A s \in Few(S, 0) : Sum(g, s) = 0
        BY FewOfAll
    <2>2. g = [s \in Few(S, 0) |-> Sum(g, s)]
        <3> HIDE DEF Sum
        <3>1. QED
            BY <2>1
    <2> HIDE DEF g
    <2>3. Adds(Few(S, 0), w, g)
        BY <2>2 DEF Adds
    <2>4. QED
        BY <2>3
<1>2. ASSUME NEW n \in T PROVE n + 1 \in T
    <2>1. n \in Nat
        OBVIOUS
    <2>2. PICK g : Adds(Few(S, n), w, g)
        OBVIOUS
    <2> DEFINE h == [s \in Few(S, n + 1) |-> Sum(g, s)]
    <2>3. \A s \in Few(S, n) : h[s] = g[s]
        BY <2>1, <2>2, FewOfAll DEF Adds
    <2>4. ASSUME NEW s \in Few(S, n + 1) PROVE Sum(g, s) = Sum(h, s)
        <3>1. CASE s = {}
            BY <3>1
        <3>2. CASE s # {}
            <4> DEFINE x == CHOOSE x \in s : TRUE
            <4>1. x \in s
                BY <3>2
            <4>2. s \ {x} \in Few(S, n)
                BY <2>1, <4>1, OneOfFew
            <4>3. h[s \ {x}] = g[s \ {x}]
                BY <2>3, <4>2
            <4> HIDE DEF h
            <4>4. QED
                BY <3>2, <4>3
        <3>3. QED
            BY <3>1, <3>2
    <2>5. h = [s \in Few(S, n + 1) |-> Sum(h, s)]
        <3>1. h = [s \in Few(S, n + 1) |-> Sum(g, s)]
            OBVIOUS
        <3> HIDE DEF h, Sum
        <3>2. QED
            BY <2>4, <3>1
    <2> HIDE DEF h
    <2>6. Adds(Few(S, n + 1), w, h)
        BY <2>5 DEF Adds
    <2>7. QED
        BY <2>1, <2>6
<1>3. T = Nat
    <2>1. T \subseteq Nat
        OBVIOUS
    <2> HIDE DEF T
    <2>2. QED
        BY <1>1, <1>2, <2>1, SetInduction
<1>4. PICK n \in Nat : Few(S, n) = SUBSET S
    BY FewOfAll
<1>5. n \in T
    BY <1>3
<1>6. QED
    BY <1>4, <1>5

\* Total is that sum, over the elements in the order CHOOSE takes them.
Taken(s) == CHOOSE x \in s : TRUE

Summed(S, w, g) ==
    /\ Total(w, S) = g[S] /\ g[{}] = 0
    /\ \A s \in SUBSET S : s # {} =>
        /\ Taken(s) \in s
        /\ g[s] = w[Taken(s)] + g[s \ {Taken(s)}]

\* The sum has such a solution for every finite set.
LEMMA TotalAdds ==
    ASSUME NEW S, IsFiniteSet(S), NEW w
    PROVE  \E g : Summed(S, w, g)
<1>1. Total(w, S) = (CHOOSE g : Adds(SUBSET S, w, g))[S]
    BY DEF Total, MapThenSumSet, MapThenFoldSet, Adds
<1>2. PICK g : g = CHOOSE f : Adds(SUBSET S, w, f)
    OBVIOUS
<1>3. Adds(SUBSET S, w, g)
    BY <1>2, AddsUp
<1>4. ASSUME NEW s \in SUBSET S, s # {}
      PROVE  g[s] = w[Taken(s)] + g[s \ {Taken(s)}] /\ Taken(s) \in s
    BY <1>3, <1>4 DEF Adds, Taken
<1>5. g[{}] = 0
    <2>1. {} \in SUBSET S
        OBVIOUS
    <2>2. QED
        BY <1>3, <2>1 DEF Adds
<1>6. Total(w, S) = g[S]
    BY <1>1, <1>2
<1>7. QED
    BY <1>4, <1>5, <1>6 DEF Summed

\* Weights in Nat, and a sum that takes out any element it has.
Numbers(S, w) == \A x \in S : w[x] \in Nat
Removable(S, w, g) ==
    \A s \in SUBSET S : /\ g[s] \in Nat
                        /\ \A y \in s : g[s] = w[y] + g[s \ {y}]

LEMMA TakeOut ==
    ASSUME NEW S, IsFiniteSet(S), NEW w, Numbers(S, w), NEW g, Summed(S, w, g)
    PROVE  Removable(S, w, g)
<1> USE DEF Numbers
<1> DEFINE Fine(s) == g[s] \in Nat /\ \A y \in s : g[s] = w[y] + g[s \ {y}]
           T == {m \in Nat : \A s \in Few(S, m) : Fine(s)}
<1>1. Fine({})
    BY DEF Summed
<1>2. 0 \in T
    <2>1. ASSUME NEW s \in Few(S, 0) PROVE Fine(s)
        <3>1. s = {}
            BY FewOfAll
        <3> HIDE DEF Fine
        <3>2. QED
            BY <1>1, <3>1
    <2> HIDE DEF Fine
    <2>2. QED
        BY <2>1
<1>3. ASSUME NEW m \in T PROVE m + 1 \in T
    <2>0. m \in Nat
        OBVIOUS
    <2>1. ASSUME NEW s \in Few(S, m + 1), s # {} PROVE Fine(s)
        <3>0. PICK x : x = Taken(s)
            OBVIOUS
        <3>1. g[s] = w[x] + g[s \ {x}] /\ x \in s /\ s \subseteq S
            BY <2>1, <3>0 DEF Few, Summed
        <3>2. \A z \in s : s \ {z} \in Few(S, m)
            BY <2>0, OneOfFew
        <3>3. \A z \in s : Fine(s \ {z})
            BY <3>2
        <3>4. ASSUME NEW y \in s, y # x PROVE g[s] = w[y] + g[s \ {y}]
            <4>1. g[s \ {x}] = w[y] + g[(s \ {x}) \ {y}]
                BY <3>1, <3>3, <3>4
            <4>2. g[s \ {y}] = w[x] + g[(s \ {y}) \ {x}]
                BY <3>1, <3>3, <3>4
            <4>3. PICK u : u = (s \ {x}) \ {y}
                OBVIOUS
            <4>4. (s \ {y}) \ {x} = u
                BY <4>3
            <4>5. u \in Few(S, m) /\ g[u] \in Nat
                <5>1. u = (s \ {x}) \ {y} /\ y \in s \ {x} /\ IsFiniteSet(s \ {x})
                    BY <3>1, <3>2, <3>4, <4>3, FS_Subset DEF Few
                <5>2. Cardinality(u) <= Cardinality(s \ {x}) /\ Cardinality(u) \in Nat
                      /\ Cardinality(s \ {x}) \in Nat /\ u \subseteq S
                    BY <3>1, <5>1, FS_Subset, FS_CardinalityType
                <5>3. u \in Few(S, m)
                    BY <2>0, <3>1, <3>2, <5>2 DEF Few
                <5> QED BY <5>3
            <4>6. w[x] \in Nat /\ w[y] \in Nat
                BY <3>1
            <4> QED BY <3>1, <4>1, <4>2, <4>3, <4>4, <4>5, <4>6
        <3>5. g[s] \in Nat
            <4>1. x \in S /\ g[s \ {x}] \in Nat
                BY <3>1, <3>3
            <4>2. w[x] \in Nat
                BY <4>1
            <4> QED BY <3>1, <4>1, <4>2
        <3> QED BY <3>1, <3>4, <3>5
    <2>2. ASSUME NEW s \in Few(S, m + 1) PROVE Fine(s)
        <3> HIDE DEF Fine
        <3>1. QED
            BY <1>1, <2>1
    <2>3. m + 1 \in Nat
        OBVIOUS
    <2> HIDE DEF Fine
    <2>4. QED
        BY <2>2, <2>3
<1>4. T = Nat
    <2>1. T \subseteq Nat
        OBVIOUS
    <2> HIDE DEF T
    <2>2. QED
        BY <1>2, <1>3, <2>1, SetInduction
<1>5. PICK m \in Nat : Few(S, m) = SUBSET S
    BY FewOfAll
<1>6. \A s \in Few(S, m) : Fine(s)
    BY <1>4
<1> QED BY <1>5, <1>6 DEF Removable

\* At most n of the frames of S have a share for n workers or fewer.
FewSmall(S, l) == /\ \A x \in S : l[x] \in Nat
                  /\ \A n \in Nat : Cardinality({x \in S : l[x] <= n}) <= n

\* A share for more workers is no larger.
Steps(T) == /\ \A n \in Nat : T[n] \in Nat
            /\ \A m, n \in Nat : m <= n => T[n] <= T[m]

\* Of k such frames one has a share for k workers or more.
LEMMA SmallShare ==
    ASSUME NEW S, IsFiniteSet(S), NEW l, FewSmall(S, l),
           NEW s \in SUBSET S, NEW k \in Nat, k # 0, Cardinality(s) = k
    PROVE  \E x \in s : k <= l[x]
<1> USE DEF FewSmall
<1> SUFFICES ASSUME \A x \in s : l[x] <= k - 1 PROVE FALSE
    OBVIOUS
<1>1. PICK t : t = {x \in S : l[x] <= k - 1}
    OBVIOUS
<1>2. s \subseteq t /\ t \subseteq S
    BY <1>1
<1>3. Cardinality(s) <= Cardinality(t) /\ Cardinality(t) \in Nat
    BY <1>2, FS_Subset, FS_CardinalityType
<1>4. k - 1 \in Nat
    OBVIOUS
<1>5. Cardinality(t) <= k - 1
    BY <1>1, <1>4
<1> QED BY <1>3, <1>5

\* Their threads are at most the first Cardinality(S) steps.
LEMMA Stairs ==
    ASSUME NEW S, IsFiniteSet(S), NEW l, FewSmall(S, l), NEW T, Steps(T),
           NEW w, \A x \in S : w[x] = T[l[x]]
    PROVE  /\ Total(w, S) \in Nat
           /\ Total(T, 1..Cardinality(S)) \in Nat
           /\ Total(w, S) <= Total(T, 1..Cardinality(S))
<1>1. PICK N \in Nat : N = Cardinality(S)
    BY FS_CardinalityType
<1>2. PICK I : I = 1..N /\ IsFiniteSet(I)
    BY FS_Interval
<1>3. PICK g : Summed(S, w, g)
    BY TotalAdds
<1>4. PICK h : Summed(I, T, h)
    BY <1>2, TotalAdds
<1>5. Removable(S, w, g)
    <2>1. Numbers(S, w)
        BY DEF Numbers, FewSmall, Steps
    <2> QED BY <1>3, <2>1, TakeOut
<1>6. Removable(I, T, h)
    <2>1. Numbers(I, T)
        BY <1>2 DEF Numbers, Steps
    <2> QED BY <1>2, <1>4, <2>1, TakeOut, Zenon
<1> DEFINE Fine(s) == g[s] <= h[1..Cardinality(s)]
           M == {m \in Nat : \A s \in Few(S, m) : Fine(s)}
<1>7. Fine({})
    <2>1. Cardinality({}) = 0 /\ 1..0 = {}
        BY FS_EmptySet
    <2>2. g[{}] = 0 /\ h[{}] = 0
        BY <1>3, <1>4 DEF Summed
    <2> QED BY <2>1, <2>2
<1>8. 0 \in M
    <2>1. ASSUME NEW s \in Few(S, 0) PROVE Fine(s)
        <3>1. s = {}
            BY FewOfAll
        <3> HIDE DEF Fine
        <3>2. QED
            BY <1>7, <3>1
    <2> HIDE DEF Fine
    <2>2. QED
        BY <2>1
<1>9. ASSUME NEW m \in M PROVE m + 1 \in M
    <2>0. m \in Nat
        OBVIOUS
    <2>1. ASSUME NEW s \in Few(S, m + 1), s # {} PROVE Fine(s)
        <3>1. s \in SUBSET S /\ IsFiniteSet(s)
            BY FS_Subset DEF Few
        <3>2. PICK k \in Nat : k = Cardinality(s)
            BY <3>1, FS_CardinalityType
        <3>3. k # 0 /\ k <= N
            BY <1>1, <2>1, <3>1, <3>2, FS_EmptySet, FS_Subset
        <3>4. PICK x \in s : k <= l[x]
            BY <3>1, <3>2, <3>3, SmallShare
        <3>5. s \ {x} \in Few(S, m) /\ Cardinality(s \ {x}) = k - 1
            BY <2>0, <3>1, <3>2, OneOfFew, FS_RemoveElement
        <3>6. g[s \ {x}] <= h[1..(k - 1)]
            <4>1. Fine(s \ {x})
                BY <3>5
            <4> QED BY <3>5, <4>1
        <3>7. g[s] = w[x] + g[s \ {x}] /\ g[s \ {x}] \in Nat
            BY <1>5, <3>1 DEF Removable
        <3>8. h[1..k] = T[k] + h[1..(k - 1)] /\ h[1..(k - 1)] \in Nat
            <4>1. 1..k \in SUBSET I /\ 1..(k - 1) \in SUBSET I /\ k \in 1..k
                BY <1>2, <3>3
            <4>2. (1..k) \ {k} = 1..(k - 1)
                BY <3>3
            <4>3. h[1..k] = T[k] + h[(1..k) \ {k}]
                BY <1>6, <4>1 DEF Removable
            <4>4. h[1..(k - 1)] \in Nat
                BY <1>6, <4>1 DEF Removable
            <4> QED BY <4>2, <4>3, <4>4
        <3>9. w[x] <= T[k] /\ w[x] \in Nat /\ T[k] \in Nat
            BY <3>1, <3>4 DEF FewSmall, Steps
        <3>10. g[s] <= h[1..k]
            BY <3>6, <3>7, <3>8, <3>9
        <3> QED BY <3>2, <3>10
    <2>2. ASSUME NEW s \in Few(S, m + 1) PROVE Fine(s)
        <3> HIDE DEF Fine
        <3>1. QED
            BY <1>7, <2>1
    <2>3. m + 1 \in Nat
        OBVIOUS
    <2> HIDE DEF Fine
    <2>4. QED
        BY <2>2, <2>3
<1>10. M = Nat
    <2>1. M \subseteq Nat
        OBVIOUS
    <2> HIDE DEF M
    <2>2. QED
        BY <1>8, <1>9, <2>1, SetInduction
<1>11. PICK m \in Nat : Few(S, m) = SUBSET S
    BY FewOfAll
<1>12. Fine(S)
    BY <1>10, <1>11
<1>13. g[S] \in Nat /\ h[I] \in Nat
    BY <1>2, <1>5, <1>6 DEF Removable
<1>14. Total(w, S) = g[S] /\ Total(T, I) = h[I]
    BY <1>3, <1>4 DEF Summed
<1> QED BY <1>1, <1>2, <1>12, <1>13, <1>14

\* The shares are such steps.
LEMMA SharesShrink ==
    /\ \A n \in Nat : Threads(n) \in Nat
    /\ \A m, n \in Nat : m <= n => Threads(n) <= Threads(m)
<1>1. \A n \in Nat \ {0} : /\ Cores \div n \in Nat
                           /\ n * (Cores \div n) <= Cores
                           /\ Cores < n * ((Cores \div n) + 1)
    BY PoolAssumption, SMT
<1>2. ASSUME NEW m \in Nat \ {0}, NEW n \in Nat, m <= n PROVE Cores \div n <= Cores \div m
    <2>1. PICK a \in Nat : a = Cores \div m
        BY <1>1
    <2>2. PICK b \in Nat : b = Cores \div n
        BY <1>1, <1>2
    <2>3. n * b <= Cores /\ Cores < m * (a + 1)
        BY <1>1, <1>2, <2>1, <2>2
    <2>4. m * b <= n * b
        BY <1>2, SMT
    <2>5. ASSUME a + 1 <= b PROVE FALSE
        <3>1. m * (a + 1) <= m * b
            BY <2>5, SMT
        <3> QED BY <2>3, <2>4, <3>1, PoolAssumption, SMT
    <2> QED BY <2>1, <2>2, <2>5, SMT
<1>3. \A n \in Nat : Threads(n) \in Nat
    <2>1. TAKE n \in Nat
    <2>2. CASE n <= 1
        BY <2>2, PoolAssumption, SMT DEF Threads, ThreadBudget
    <2>3. CASE ~(n <= 1)
        BY <1>1, <2>3, PoolAssumption, SMT DEF Threads, ThreadBudget
    <2> QED BY <2>2, <2>3
<1>4. ASSUME NEW m \in Nat, NEW n \in Nat, m <= n PROVE Threads(n) <= Threads(m)
    <2>1. CASE m <= 1
        <3>1. Threads(m) = Default /\ Default \in Nat
            BY <2>1, PoolAssumption DEF Threads, ThreadBudget
        <3>2. Threads(n) <= Default
            <4>1. PICK b : b = ThreadBudget(n)
                OBVIOUS
            <4>2. b \in Int
                BY <1>1, <4>1, PoolAssumption, SMT DEF ThreadBudget
            <4> QED BY <4>1, <4>2, PoolAssumption DEF Threads
        <3> QED BY <3>1, <3>2
    <2>2. CASE ~(m <= 1)
        <3>1. PICK a \in Nat : a = Cores \div m
            BY <1>1, <2>2
        <3>2. PICK b \in Nat : b = Cores \div n
            BY <1>1, <1>4, <2>2
        <3>3. b <= a
            BY <1>2, <1>4, <2>2, <3>1, <3>2
        <3>4. ThreadBudget(m) = (IF a < 1 THEN 1 ELSE a)
            BY <2>2, <3>1 DEF ThreadBudget
        <3>5. ThreadBudget(n) = (IF b < 1 THEN 1 ELSE b)
            BY <1>4, <2>2, <3>2 DEF ThreadBudget
        <3> QED BY <3>3, <3>4, <3>5, PoolAssumption DEF Threads
    <2> QED BY <2>1, <2>2
<1> QED BY <1>3, <1>4

\* fallback_lock is held by the thread that solves in this process.
OneInProcess == \A f \in Frames : pc[f] = "in_process" => holder = f

LEMMA StepOneInProcess == TypeOK /\ OneInProcess /\ [Next]_vars => OneInProcess'
<1> SUFFICES ASSUME TypeOK, OneInProcess, [Next]_vars PROVE OneInProcess'
  OBVIOUS
<1> USE DEF TypeOK, OneInProcess
<1>1. ASSUME NEW f \in Frames, FallbackTake(f) \/ FallbackAnswer(f) PROVE OneInProcess'
  <2>1. \A g \in Frames : g # None
    BY PoolAssumption
  <2>2. CASE FallbackTake(f)
    BY <2>1, <2>2, SMT DEF FallbackTake
  <2>3. CASE FallbackAnswer(f)
    BY <2>1, <2>3, SMT DEF FallbackAnswer
  <2> QED BY <1>1, <2>2, <2>3
<1>2. ASSUME NEW f \in Frames,
             \/ AcquireRefused(f) \/ AcquireWorker(f) \/ AcquireNoWorker(f) \/ AcquireWait(f)
             \/ Send(f) \/ Unsent(f) \/ Receive(f) \/ ReceiveFails(f)
             \/ Release(f) \/ Crashed(f)
      PROVE  OneInProcess'
  BY <1>2, SMT DEF AcquireRefused, AcquireWorker, AcquireNoWorker, AcquireWait, Send, Unsent, Receive,
     ReceiveFails, Release, Crashed
<1>3. ASSUME NEW p \in Procs,
             SpawnReady(p) \/ SpawnFails(p) \/ WorkerDies(p) \/ Process(p) \/ Stop(p)
      PROVE  OneInProcess'
  BY <1>3, SMT DEF SpawnReady, SpawnFails, WorkerDies, Process, WorkerReads, WorkerReplies,
     WorkerLeaves, Stop, StopAsks, StopKills, StopReturns, frameVars
<1>4. CASE BackoffEnds \/ Close \/ ServerExits \/ Finished \/ UNCHANGED vars
  BY <1>4, SMT DEF BackoffEnds, Close, ServerExits, Finished, vars, frameVars
<1> QED BY <1>1, <1>2, <1>3, <1>4 DEF Next, Thread

\* The solves under way use no more threads together than a lone worker's, a
\* half, ... an n-th share for n in workers, and one unlimited solve's in this
\* process, although a share is fixed at the checkout and workers join, die and
\* leave the pool after it (WorkerPool.answer, thread_budget).
THEOREM ThreadsAreBounded == Spec => []ThreadsBounded
<1>1. Init => InPool /\ Shares /\ OneInProcess
  <2> SUFFICES ASSUME Init PROVE InPool /\ Shares /\ OneInProcess
    OBVIOUS
  <2>1. \A n \in Nat : Given(n) = {}
    BY DEF Init, Given
  <2>2. Cardinality({}) = 0 /\ IsFiniteSet({})
    BY FS_EmptySet
  <2>3. InPool /\ OneInProcess
    BY DEF InPool, OneInProcess, Init
  <2> QED BY <2>1, <2>2, <2>3 DEF Shares
<1>2. IInv /\ Shares /\ OneInProcess => ThreadsBounded
  <2> SUFFICES ASSUME IInv, Shares, OneInProcess PROVE ThreadsBounded
    OBVIOUS
  <2>1. PICK S : S = InWorkers
    OBVIOUS
  <2>2. S \in SUBSET Frames /\ IsFiniteSet(S)
    BY <2>1, PoolAssumption, FS_Subset DEF InWorkers
  <2>3. live \in [Frames -> Nat]
    BY DEF IInv, TypeOK
  <2>4. ASSUME NEW n \in Nat PROVE Cardinality({x \in S : live[x] <= n}) <= n
    <3>1. PICK t : t = {x \in S : live[x] <= n}
      OBVIOUS
    <3>2. t \subseteq Given(n) /\ Given(n) \in SUBSET Frames
      BY <2>1, <3>1 DEF InWorkers, Given, IInv, Checkout, Holding
    <3>3. Cardinality(t) \in Nat /\ Cardinality(t) <= Cardinality(Given(n)) /\ Cardinality(Given(n)) \in Nat
      BY <3>2, PoolAssumption, FS_Subset, FS_CardinalityType
    <3>4. Cardinality(Given(n)) <= n
      BY DEF Shares
    <3> QED BY <3>1, <3>3, <3>4
  <2>5. PICK T : T = [k \in Nat |-> Threads(k)]
    OBVIOUS
  <2>6. Steps(T)
    <3>1. \A n \in Nat : T[n] = Threads(n)
      BY <2>5
    <3> QED BY <3>1, SharesShrink DEF Steps
  <2>7. PICK w : w = [f \in Frames |-> Threads(live[f])]
    OBVIOUS
  <2>8. FewSmall(S, live) /\ \A x \in S : w[x] = T[live[x]]
    BY <2>2, <2>3, <2>4, <2>5, <2>7 DEF FewSmall
  <2>9. /\ Total(w, S) \in Nat /\ Total(T, 1..Cardinality(S)) \in Nat
        /\ Total(w, S) <= Total(T, 1..Cardinality(S))
    <3>1. IsFiniteSet(S)
      BY <2>2
    <3>2. FewSmall(S, live)
      BY <2>8
    <3>3. \A x \in S : w[x] = T[live[x]]
      BY <2>8
    <3>4. Steps(T)
      BY <2>6
    <3> QED BY <3>1, <3>2, <3>3, <3>4, Stairs
  <2>10. PICK u : u = InProcess
    OBVIOUS
  <2>11. u = {} \/ \E f : u = {f}
    <3>1. \A f \in u : f = holder
      BY <2>10 DEF InProcess, OneInProcess
    <3> QED BY <3>1
  <2>12. /\ u = {} => Cardinality(u) = 0
         /\ u # {} => Cardinality(u) = 1
    BY <2>11, FS_EmptySet, FS_Singleton
  <2>13. ThreadsInUse = Total(w, S) + Default * Cardinality(u)
    BY <2>1, <2>7, <2>10, Zenon DEF ThreadsInUse
  <2>14. Staircase(Cardinality(InWorkers)) = Total(T, 1..Cardinality(S))
    BY <2>1, <2>5, Zenon DEF Staircase
  <2>15. ThreadsInUse <= Total(T, 1..Cardinality(S)) + (IF u = {} THEN 0 ELSE Default)
    BY <2>9, <2>12, <2>13, PoolAssumption, SMT
  <2> QED BY <2>10, <2>14, <2>15, Zenon DEF ThreadsBounded
<1> QED BY <1>1, <1>2, StepInPool, StepShares, StepOneInProcess, Invariance, TypeCorrect, PTL DEF Spec

-----------------------------------------------------------------------------
(* The pool implements FrameService.                                       *)

\* The two mapped variables when one call ends, argument by argument.
LEMMA CallEnds ==
    ASSUME TypeOK, NEW f \in Frames, pc[f] # "done",
           pc' = [pc EXCEPT ![f] = "done"], delivered' = delivered,
           \A g \in Frames \ {f} : answer'[g] = answer[g]
    PROVE  /\ FrameState' = [FrameState EXCEPT ![f] = "over"]
           /\ FrameOutcome' = [FrameOutcome EXCEPT ![f] = answer'[f]]
<1>1. \A g \in Frames : FrameState'[g] = [FrameState EXCEPT ![f] = "over"][g]
  BY SMT DEF FrameState, TypeOK
<1>2. \A g \in Frames :
         FrameOutcome'[g] = [FrameOutcome EXCEPT ![f] = answer'[f]][g]
  BY SMT DEF FrameOutcome, TypeOK
<1>3. FrameState' = [FrameState EXCEPT ![f] = "over"]
  BY <1>1, Zenon DEF FrameState
<1>4. FrameOutcome' = [FrameOutcome EXCEPT ![f] = answer'[f]]
  BY <1>2, Zenon DEF FrameOutcome
<1> QED BY <1>3, <1>4

\* What a caller sees of a step: nothing, or one abstract step.
LEMMA StepService ==
    IInv /\ [Next]_vars => [Service!Next]_<<FrameState, FrameOutcome>>
<1> SUFFICES ASSUME IInv, [Next]_vars
             PROVE  [Service!Next]_<<FrameState, FrameOutcome>>
  OBVIOUS
<1> USE DEF IInv, TypeOK, DeliveredOnce, Unsolved
\* Most steps change nothing the caller can see.
<1>1. ASSUME delivered' = delivered,
             \A f \in Frames : \/ pc'[f] = pc[f] /\ answer'[f] = answer[f]
                               \/ pc[f] # "done" /\ pc'[f] # "done"
      PROVE  UNCHANGED <<FrameState, FrameOutcome>>
  BY <1>1, SMT DEF FrameState, FrameOutcome
\* A frame reaches a solver.
<1>2. ASSUME NEW f \in Frames, pc[f] \in {"sending", "fallback"},
             delivered' = [delivered EXCEPT ![f] = @ + 1], answer' = answer,
             \/ pc' = [pc EXCEPT ![f] = "receiving"]
             \/ pc' = [pc EXCEPT ![f] = "in_process"]
      PROVE  Service!Take(f)
  <2>1. FrameState[f] = "asked"
    BY <1>2, SMT DEF FrameState
  <2>2. \A g \in Frames : FrameState'[g] = [FrameState EXCEPT ![f] = "solving"][g]
    BY <1>2, SMT DEF FrameState
  <2>3. FrameState' = [FrameState EXCEPT ![f] = "solving"]
    BY <2>2, Zenon DEF FrameState
  <2>4. FrameOutcome' = FrameOutcome
    BY <1>2, SMT DEF FrameOutcome
  <2> QED BY <2>1, <2>3, <2>4 DEF Service!Take
\* A call ends after its frame reached a solver.
<1>3. ASSUME NEW f \in Frames, pc[f] # "done", pc[f] \notin Unsolved,
             pc' = [pc EXCEPT ![f] = "done"], delivered' = delivered,
             \A g \in Frames \ {f} : answer'[g] = answer[g],
             answer'[f] \in Service!Solved(f)
      PROVE  Service!Finish(f)
  <2>1. FrameState[f] = "solving"
    BY <1>3, SMT DEF FrameState
  <2>2. FrameState' = [FrameState EXCEPT ![f] = "over"]
        /\ FrameOutcome' = [FrameOutcome EXCEPT ![f] = answer'[f]]
    BY <1>3, CallEnds
  <2> QED BY <1>3, <2>1, <2>2, Zenon DEF Service!Finish
\* A call ends although its frame never did.
<1>4. ASSUME NEW f \in Frames, pc[f] \in Unsolved,
             pc' = [pc EXCEPT ![f] = "done"], delivered' = delivered,
             \A g \in Frames \ {f} : answer'[g] = answer[g],
             answer'[f] \in Service!Refused
      PROVE  Service!Refuse(f)
  <2>1. FrameState[f] = "asked"
    BY <1>4, SMT DEF FrameState
  <2>2. FrameState' = [FrameState EXCEPT ![f] = "over"]
        /\ FrameOutcome' = [FrameOutcome EXCEPT ![f] = answer'[f]]
    BY <1>4, CallEnds
  <2> QED BY <1>4, <2>1, <2>2, Zenon DEF Service!Refuse
<1>5. ASSUME NEW f \in Frames, AcquireRefused(f) PROVE Service!Refuse(f)
  <2>1. Ended("stopping") \in Service!Refused
    BY DEF Ended, Service!Refused, Service!Ended
  <2>2. /\ pc' = [pc EXCEPT ![f] = "done"] /\ delivered' = delivered
        /\ \A g \in Frames \ {f} : answer'[g] = answer[g]
        /\ answer'[f] = Ended("stopping")
    BY <1>5, SMT DEF AcquireRefused
  <2>3. pc[f] \in Unsolved
    BY <1>5 DEF AcquireRefused, Acquiring
  <2> QED BY <1>4, <2>1, <2>2, <2>3, Zenon
<1>6. ASSUME NEW f \in Frames, Send(f)
      PROVE  Service!Take(f) \/ UNCHANGED <<FrameState, FrameOutcome>>
  <2>1. CASE Alive(has[f]) /\ has[f] \in piped
    BY <1>2, <1>6, <2>1, SMT DEF Send
  <2>2. CASE ~(Alive(has[f]) /\ has[f] \in piped)
    BY <1>1, <1>6, <2>2, SMT DEF Send
  <2> QED BY <2>1, <2>2
<1>7. ASSUME NEW f \in Frames, Unsent(f)
      PROVE  Service!Refuse(f) \/ UNCHANGED <<FrameState, FrameOutcome>>
  <2>1. CASE tries[f] + 1 < 3
    BY <1>1, <1>7, <2>1, SMT DEF Unsent
  <2>2. CASE ~(tries[f] + 1 < 3)
    <3>1. Ended("lost") \in Service!Refused
      BY DEF Ended, Service!Refused, Service!Ended
    <3> QED BY <1>4, <1>7, <2>2, <3>1, SMT DEF Unsent
  <2> QED BY <2>1, <2>2
<1>8. ASSUME NEW f \in Frames, Release(f) PROVE Service!Finish(f)
  <2>1. answer[f] \in Service!Solved(f)
    BY <1>8, SMT DEF Release, ReceivedOwn, Reply, Kinds, Service!Solved
  <2>2. /\ pc' = [pc EXCEPT ![f] = "done"] /\ delivered' = delivered
        /\ \A g \in Frames \ {f} : answer'[g] = answer[g]
        /\ answer'[f] = answer[f]
    BY <1>8, SMT DEF Release
  <2>3. pc[f] # "done" /\ pc[f] \notin Unsolved
    BY <1>8, SMT DEF Release
  <2> QED BY <1>3, <2>1, <2>2, <2>3, Zenon
<1>9. ASSUME NEW f \in Frames, Crashed(f) PROVE Service!Finish(f)
  <2>1. Ended("crashed") \in Service!Solved(f)
    BY DEF Ended, Service!Solved, Service!Ended
  <2>2. /\ pc' = [pc EXCEPT ![f] = "done"] /\ delivered' = delivered
        /\ \A g \in Frames \ {f} : answer'[g] = answer[g]
        /\ answer'[f] = Ended("crashed")
    BY <1>9, SMT DEF Crashed
  <2>3. pc[f] # "done" /\ pc[f] \notin Unsolved
    BY <1>9, SMT DEF Crashed
  <2> QED BY <1>3, <2>1, <2>2, <2>3, Zenon
<1>10. ASSUME NEW f \in Frames, FallbackTake(f) PROVE Service!Take(f)
  <2>1. answer' = answer
    BY <1>10, SMT DEF FallbackTake
  <2> QED BY <1>2, <1>10, <2>1, Zenon DEF FallbackTake
<1>11. ASSUME NEW f \in Frames, FallbackAnswer(f) PROVE Service!Finish(f)
  <2>1. Ended("in_process") \in Service!Solved(f)
    BY DEF Ended, Service!Solved, Service!Ended
  <2>2. /\ pc' = [pc EXCEPT ![f] = "done"] /\ delivered' = delivered
        /\ \A g \in Frames \ {f} : answer'[g] = answer[g]
        /\ answer'[f] = Ended("in_process")
    BY <1>11, SMT DEF FallbackAnswer
  <2>3. pc[f] # "done" /\ pc[f] \notin Unsolved
    BY <1>11, SMT DEF FallbackAnswer
  <2> QED BY <1>3, <2>1, <2>2, <2>3, Zenon
<1>12. ASSUME NEW f \in Frames,
              \/ AcquireWorker(f) \/ AcquireNoWorker(f) \/ AcquireWait(f)
              \/ Receive(f) \/ ReceiveFails(f)
       PROVE  UNCHANGED <<FrameState, FrameOutcome>>
  BY <1>1, <1>12, SMT DEF AcquireWorker, AcquireNoWorker, AcquireWait,
     Acquiring, Receive, ReceiveFails
<1>13. ASSUME NEW p \in Procs,
              SpawnReady(p) \/ SpawnFails(p) \/ WorkerDies(p) \/ Process(p) \/ Stop(p)
       PROVE  UNCHANGED <<FrameState, FrameOutcome>>
  BY <1>1, <1>13, SMT DEF SpawnReady, SpawnFails, WorkerDies, Process,
     WorkerReads, WorkerReplies, WorkerLeaves, Stop, StopAsks, StopKills,
     StopReturns, frameVars
<1>14. CASE BackoffEnds \/ Close \/ Finished \/ UNCHANGED vars
  BY <1>1, <1>14, SMT DEF BackoffEnds, Close, Finished, vars, frameVars
<1>15. CASE ServerExits
  <2>1. FrameState' = [f \in Frames |-> "over"]
    BY <1>15, SMT DEF ServerExits, FrameState
  <2>2. FrameOutcome' = [f \in Frames |->
                           IF FrameState[f] = "over" THEN FrameOutcome[f]
                                                     ELSE Ended("abandoned")]
    BY <1>15, SMT DEF ServerExits, FrameState, FrameOutcome
  <2>3. Ended("abandoned") = Service!Ended("abandoned")
    BY DEF Ended, Service!Ended
  <2> QED BY <2>1, <2>2, <2>3 DEF Service!Abandon, Service!Next
<1> QED BY <1>5, <1>6, <1>7, <1>8, <1>9, <1>10, <1>11, <1>12, <1>13, <1>14,
           <1>15 DEF Next, Thread, Service!Next

\* WorkerPool.answer keeps the promise FrameService states to its callers.
THEOREM Refinement == Spec => ServiceSpec
<1>1. Init => Service!Init
  BY SMT DEF Init, Service!Init, Service!NoOutcome, NoReply, FrameState,
             FrameOutcome
<1> QED BY <1>1, StepService, Invariance, PTL DEF Spec, ServiceSpec, Service!Spec
=============================================================================
