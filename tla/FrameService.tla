---------------------------- MODULE FrameService ----------------------------
(***************************************************************************)
(* What the pool promises the connection threads that call                 *)
(* WorkerPool.answer, whatever happens to its workers: a frame is handed   *)
(* to a solver at most once; a call that ends with a solver's own words    *)
(* ends with those for its own frame; a call is refused (WorkerLost) only  *)
(* if the frame never reached a solver, and gets the crash frame only if   *)
(* it did; a call that has ended stays ended.                              *)
(***************************************************************************)
CONSTANTS Frames, None

VARIABLES
    state,    \* of each frame: "asked", "solving" or "over"
    outcome   \* how its call ended

NoOutcome == [kind |-> "none", frame |-> None]
Ended(kind) == [kind |-> kind, frame |-> None]

Solved(f) == [kind : {"reply", "raised"}, frame : {f}]
             \cup {Ended("in_process"), Ended("crashed")}
Refused == {Ended("lost"), Ended("stopping")}

Init ==
    /\ state = [f \in Frames |-> "asked"]
    /\ outcome = [f \in Frames |-> NoOutcome]

\* A solver is given the frame.
Take(f) ==
    /\ state[f] = "asked"
    /\ state' = [state EXCEPT ![f] = "solving"]
    /\ UNCHANGED outcome

\* The call ends after the frame was with a solver ...
Finish(f) ==
    /\ state[f] = "solving"
    /\ state' = [state EXCEPT ![f] = "over"]
    /\ \E o \in Solved(f) : outcome' = [outcome EXCEPT ![f] = o]

\* ... or without.
Refuse(f) ==
    /\ state[f] = "asked"
    /\ state' = [state EXCEPT ![f] = "over"]
    /\ \E o \in Refused : outcome' = [outcome EXCEPT ![f] = o]

\* The server is gone, and every call under way with it.
Abandon ==
    /\ state' = [f \in Frames |-> "over"]
    /\ outcome' = [f \in Frames |-> IF state[f] = "over" THEN outcome[f]
                                                         ELSE Ended("abandoned")]

Next ==
    \/ \E f \in Frames : Take(f) \/ Finish(f) \/ Refuse(f)
    \/ Abandon

Spec == Init /\ [][Next]_<<state, outcome>>
=============================================================================
