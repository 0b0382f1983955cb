-------------------------- MODULE RendezvousProofs --------------------------
(***************************************************************************)
(* Proofs about Rendezvous, for any number of clients and servers.         *)
(*                                                                         *)
(* TypeCorrect and Belongs hold whatever fails.  The rest holds as long as *)
(* the run is Orderly: no client was killed and no server outlasted its    *)
(* client's SPAWN_TIMEOUT; servers may crash, be stopped and idle out.     *)
(* What makes it work is that a server between its start and listen has a client that *)
(* polls for it inside the lock (Guarded), so that whoever looks for       *)
(* litter under the lock has no server running at all (Alone).             *)
(***************************************************************************)
EXTENDS Rendezvous, TLAPS

\* A server that runs and has not yet removed its address.
Present(s) == sv[s] \notin {"gone", "closing", "ending"}

\* Until it is connected a client has no connection.
Unconnected ==
    \A c \in Clients :
        pc[c] \in {"start", "locking"} \cup Inside => conn[c] = None

\* A server that starts has a client that waits for it.
Guarded ==
    \A s \in Servers :
        sv[s] \in Starting => \E c \in Clients : pc[c] = "polling" /\ child[c] = s

\* Under the lock, after the second connect, nothing runs.
Alone ==
    \A c \in Clients :
        pc[c] \in {"litter", "unlinking", "spawning"}
            => \A s \in Servers : ~Present(s)

\* The address file while a server starts, runs, and when litter was seen.
Addressed ==
    /\ \A s \in Servers :
         /\ sv[s] \in {"bound", "accepting", "polled", "leaving"} => path = s
         /\ sv[s] \in {"booting", "checking", "publishing"} => path = None
         /\ sv[s] \notin {"probing", "claiming", "claimed"}
         /\ path = s => sv[s] \in {"bound", "accepting", "polled", "leaving", "gone"}
    /\ \A c \in Clients :
         /\ pc[c] = "unlinking" => path # None
         /\ pc[c] = "spawning" => path = None
         /\ pc[c] = "polling" => child[c] \in Servers

CInv == TypeOK /\ Unconnected /\ OneConnection
OInv == TypeOK /\ (Orderly => Guarded /\ Alone /\ Addressed) /\ OneServer

-----------------------------------------------------------------------------
(* Each step keeps the type, whatever fails.                               *)

LEMMA TypeStep == TypeOK /\ [Next]_vars => TypeOK'
<1> SUFFICES ASSUME TypeOK, [Next]_vars PROVE TypeOK'
  OBVIOUS
<1> USE DEF ClientPCs, ServerPCs, Inside, Over, Starting, Open, clientVars, others
<1>1. ASSUME NEW c \in Clients, FastPath(c) PROVE TypeOK'
  BY <1>1, RendezvousAssumption DEF TypeOK, FastPath, Connected, Refused, Answers
<1>2. ASSUME NEW c \in Clients, TakeLock(c) PROVE TypeOK'
  BY <1>2, RendezvousAssumption DEF TypeOK, TakeLock
<1>3. ASSUME NEW c \in Clients, SecondLook(c) PROVE TypeOK'
  BY <1>3, RendezvousAssumption DEF TypeOK, SecondLook, Connected, Refused, Answers
<1>4. ASSUME NEW c \in Clients, LooksForLitter(c) PROVE TypeOK'
  BY <1>4, RendezvousAssumption DEF TypeOK, LooksForLitter
<1>5. ASSUME NEW c \in Clients, ClientUnlinks(c) PROVE TypeOK'
  BY <1>5, RendezvousAssumption DEF TypeOK, ClientUnlinks, Raises
<1>6. ASSUME NEW c \in Clients, Spawns(c) PROVE TypeOK'
  BY <1>6, RendezvousAssumption DEF TypeOK, Spawns, Free, Alive
<1>7. ASSUME NEW c \in Clients, Polls(c) PROVE TypeOK'
  BY <1>7, RendezvousAssumption DEF TypeOK, Polls, Connected, Raises, Answers
<1>8. ASSUME NEW c \in Clients, ClientDies(c) PROVE TypeOK'
  BY <1>8, RendezvousAssumption DEF TypeOK, ClientDies
<1>9. ASSUME NEW s \in Servers, BindsUnix(s) PROVE TypeOK'
  BY <1>9, RendezvousAssumption DEF TypeOK, BindsUnix, Moves
<1>10. ASSUME NEW s \in Servers, ProbesUnix(s) PROVE TypeOK'
  BY <1>10, RendezvousAssumption DEF TypeOK, ProbesUnix, Moves, Answers
<1>11. ASSUME NEW s \in Servers, ClaimsUnix(s) PROVE TypeOK'
  BY <1>11, RendezvousAssumption DEF TypeOK, ClaimsUnix, Moves
<1>12. ASSUME NEW s \in Servers, RebindsUnix(s) PROVE TypeOK'
  BY <1>12, RendezvousAssumption DEF TypeOK, RebindsUnix, Moves
<1>13. ASSUME NEW s \in Servers, ListensUnix(s) PROVE TypeOK'
  BY <1>13, RendezvousAssumption DEF TypeOK, ListensUnix, Moves
<1>14. ASSUME NEW s \in Servers, ListensTcp(s) PROVE TypeOK'
  BY <1>14, RendezvousAssumption DEF TypeOK, ListensTcp, Moves
<1>15. ASSUME NEW s \in Servers, ChecksTcp(s) PROVE TypeOK'
  BY <1>15, RendezvousAssumption DEF TypeOK, ChecksTcp, Moves, Answers
<1>16. ASSUME NEW s \in Servers, PublishesTcp(s) PROVE TypeOK'
  BY <1>16, RendezvousAssumption DEF TypeOK, PublishesTcp, Moves
<1>17. ASSUME NEW s \in Servers, Accepts(s) PROVE TypeOK'
  BY <1>17, RendezvousAssumption DEF TypeOK, Accepts
<1>18. ASSUME NEW s \in Servers, Serves(s) PROVE TypeOK'
  BY <1>18, RendezvousAssumption DEF TypeOK, Serves, Alive
<1>19. ASSUME NEW s \in Servers, TimesOut(s) PROVE TypeOK'
  BY <1>19, RendezvousAssumption DEF TypeOK, TimesOut, Moves
<1>20. ASSUME NEW s \in Servers, IdleCheck(s) PROVE TypeOK'
  BY <1>20, RendezvousAssumption DEF TypeOK, IdleCheck, Moves
<1>21. ASSUME NEW s \in Servers, Stops(s) PROVE TypeOK'
  BY <1>21, RendezvousAssumption DEF TypeOK, Stops, Moves
<1>22. ASSUME NEW s \in Servers, ServerUnlinks(s) PROVE TypeOK'
  BY <1>22, RendezvousAssumption DEF TypeOK, ServerUnlinks, Moves
<1>23. ASSUME NEW s \in Servers, Closes(s) PROVE TypeOK'
  BY <1>23, RendezvousAssumption DEF TypeOK, Closes, Drop
<1>24. ASSUME NEW s \in Servers, Exits(s) PROVE TypeOK'
  BY <1>24, RendezvousAssumption DEF TypeOK, Exits, Ends, Drop
<1>25. ASSUME NEW s \in Servers, Crashes(s) PROVE TypeOK'
  BY <1>25, RendezvousAssumption DEF TypeOK, Crashes, Ends, Drop, Alive
<1>26. CASE UNCHANGED vars
  BY <1>26 DEF TypeOK, vars, clientVars
<1> QED BY <1>1, <1>2, <1>3, <1>4, <1>5, <1>6, <1>7, <1>8, <1>9, <1>10, <1>11,
           <1>12, <1>13, <1>14, <1>15, <1>16, <1>17, <1>18, <1>19,
           <1>20, <1>21, <1>22, <1>23, <1>24, <1>25, <1>26
       DEF Next, Finished, Client, Server, Binding, Leaving

(* Each step keeps a connection with one server, whatever fails.           *)

LEMMA ConnectionStep ==
    CInv /\ [Next]_vars => Unconnected' /\ OneConnection'
<1> DEFINE G == Unconnected /\ OneConnection
<1> SUFFICES ASSUME CInv, [Next]_vars PROVE G'
  OBVIOUS
<1> USE DEF ClientPCs, ServerPCs, Inside, Over, Starting, Open, clientVars, others, CInv, TypeOK
<1>1. ASSUME NEW c \in Clients, FastPath(c) PROVE G'
  BY <1>1, RendezvousAssumption DEF Unconnected, OneConnection, FastPath, Connected, Refused, Answers
<1>2. ASSUME NEW c \in Clients, TakeLock(c) PROVE G'
  BY <1>2, RendezvousAssumption DEF Unconnected, OneConnection, TakeLock
<1>3. ASSUME NEW c \in Clients, SecondLook(c) PROVE G'
  BY <1>3, RendezvousAssumption DEF Unconnected, OneConnection, SecondLook, Connected, Refused, Answers
<1>4. ASSUME NEW c \in Clients, LooksForLitter(c) PROVE G'
  BY <1>4, RendezvousAssumption DEF Unconnected, OneConnection, LooksForLitter
<1>5. ASSUME NEW c \in Clients, ClientUnlinks(c) PROVE G'
  BY <1>5, RendezvousAssumption DEF Unconnected, OneConnection, ClientUnlinks, Raises
<1>6. ASSUME NEW c \in Clients, Spawns(c) PROVE G'
  BY <1>6, RendezvousAssumption DEF Unconnected, OneConnection, Spawns, Free, Alive
<1>7. ASSUME NEW c \in Clients, Polls(c) PROVE G'
  BY <1>7, RendezvousAssumption DEF Unconnected, OneConnection, Polls, Connected, Raises, Answers
<1>8. ASSUME NEW c \in Clients, ClientDies(c) PROVE G'
  BY <1>8, RendezvousAssumption DEF Unconnected, OneConnection, ClientDies
<1>9. ASSUME NEW s \in Servers, BindsUnix(s) PROVE G'
  BY <1>9, RendezvousAssumption DEF Unconnected, OneConnection, BindsUnix, Moves
<1>10. ASSUME NEW s \in Servers, ProbesUnix(s) PROVE G'
  BY <1>10, RendezvousAssumption DEF Unconnected, OneConnection, ProbesUnix, Moves, Answers
<1>11. ASSUME NEW s \in Servers, ClaimsUnix(s) PROVE G'
  BY <1>11, RendezvousAssumption DEF Unconnected, OneConnection, ClaimsUnix, Moves
<1>12. ASSUME NEW s \in Servers, RebindsUnix(s) PROVE G'
  BY <1>12, RendezvousAssumption DEF Unconnected, OneConnection, RebindsUnix, Moves
<1>13. ASSUME NEW s \in Servers, ListensUnix(s) PROVE G'
  BY <1>13, RendezvousAssumption DEF Unconnected, OneConnection, ListensUnix, Moves
<1>14. ASSUME NEW s \in Servers, ListensTcp(s) PROVE G'
  BY <1>14, RendezvousAssumption DEF Unconnected, OneConnection, ListensTcp, Moves
<1>15. ASSUME NEW s \in Servers, ChecksTcp(s) PROVE G'
  BY <1>15, RendezvousAssumption DEF Unconnected, OneConnection, ChecksTcp, Moves, Answers
<1>16. ASSUME NEW s \in Servers, PublishesTcp(s) PROVE G'
  BY <1>16, RendezvousAssumption DEF Unconnected, OneConnection, PublishesTcp, Moves
<1>17. ASSUME NEW s \in Servers, Accepts(s) PROVE G'
  BY <1>17, RendezvousAssumption DEF Unconnected, OneConnection, Accepts
<1>18. ASSUME NEW s \in Servers, Serves(s) PROVE G'
  BY <1>18, RendezvousAssumption DEF Unconnected, OneConnection, Serves, Alive
<1>19. ASSUME NEW s \in Servers, TimesOut(s) PROVE G'
  BY <1>19, RendezvousAssumption DEF Unconnected, OneConnection, TimesOut, Moves
<1>20. ASSUME NEW s \in Servers, IdleCheck(s) PROVE G'
  BY <1>20, RendezvousAssumption DEF Unconnected, OneConnection, IdleCheck, Moves
<1>21. ASSUME NEW s \in Servers, Stops(s) PROVE G'
  BY <1>21, RendezvousAssumption DEF Unconnected, OneConnection, Stops, Moves
<1>22. ASSUME NEW s \in Servers, ServerUnlinks(s) PROVE G'
  BY <1>22, RendezvousAssumption DEF Unconnected, OneConnection, ServerUnlinks, Moves
<1>23. ASSUME NEW s \in Servers, Closes(s) PROVE G'
  BY <1>23, RendezvousAssumption DEF Unconnected, OneConnection, Closes, Drop
<1>24. ASSUME NEW s \in Servers, Exits(s) PROVE G'
  BY <1>24, RendezvousAssumption DEF Unconnected, OneConnection, Exits, Ends, Drop
<1>25. ASSUME NEW s \in Servers, Crashes(s) PROVE G'
  BY <1>25, RendezvousAssumption DEF Unconnected, OneConnection, Crashes, Ends, Drop, Alive
<1>26. CASE UNCHANGED vars
  BY <1>26 DEF Unconnected, OneConnection, vars, clientVars
<1> QED BY <1>1, <1>2, <1>3, <1>4, <1>5, <1>6, <1>7, <1>8, <1>9, <1>10, <1>11,
           <1>12, <1>13, <1>14, <1>15, <1>16, <1>17, <1>18, <1>19,
           <1>20, <1>21, <1>22, <1>23, <1>24, <1>25, <1>26
       DEF Next, Finished, Client, Server, Binding, Leaving

(* Each step of an orderly system keeps one server and its address.        *)

LEMMA OrderlyStep ==
    OInv /\ [Next]_vars /\ Orderly' => Guarded' /\ Alone' /\ Addressed' /\ OneServer'
<1> DEFINE G == Guarded /\ Alone /\ Addressed /\ OneServer
<1> SUFFICES ASSUME OInv, [Next]_vars, Orderly' PROVE G'
  OBVIOUS
<1> USE DEF ClientPCs, ServerPCs, Inside, Over, Starting, Open, clientVars, others, OInv, TypeOK, Orderly, Present
<1>1. ASSUME NEW c \in Clients, FastPath(c) PROVE G'
  BY <1>1, RendezvousAssumption DEF Guarded, Alone, Addressed, OneServer, FastPath, Connected, Refused, Answers
<1>2. ASSUME NEW c \in Clients, TakeLock(c) PROVE G'
  BY <1>2, RendezvousAssumption DEF Guarded, Alone, Addressed, OneServer, TakeLock
<1>3. ASSUME NEW c \in Clients, SecondLook(c) PROVE G'
  BY <1>3, RendezvousAssumption DEF Guarded, Alone, Addressed, OneServer, SecondLook, Connected, Refused, Answers
<1>4. ASSUME NEW c \in Clients, LooksForLitter(c) PROVE G'
  BY <1>4, RendezvousAssumption DEF Guarded, Alone, Addressed, OneServer, LooksForLitter
<1>5. ASSUME NEW c \in Clients, ClientUnlinks(c) PROVE G'
  BY <1>5, RendezvousAssumption DEF Guarded, Alone, Addressed, OneServer, ClientUnlinks, Raises
<1>6. ASSUME NEW c \in Clients, Spawns(c) PROVE G'
  BY <1>6, RendezvousAssumption DEF Guarded, Alone, Addressed, OneServer, Spawns, Free, Alive
<1>7. ASSUME NEW c \in Clients, Polls(c) PROVE G'
  BY <1>7, RendezvousAssumption DEF Guarded, Alone, Addressed, OneServer, Polls, Connected, Raises, Answers
<1>8. ASSUME NEW c \in Clients, ClientDies(c) PROVE G'
  BY <1>8, RendezvousAssumption DEF Guarded, Alone, Addressed, OneServer, ClientDies
<1>9. ASSUME NEW s \in Servers, BindsUnix(s) PROVE G'
  BY <1>9, RendezvousAssumption DEF Guarded, Alone, Addressed, OneServer, BindsUnix, Moves
<1>10. ASSUME NEW s \in Servers, ProbesUnix(s) PROVE G'
  BY <1>10, RendezvousAssumption DEF Guarded, Alone, Addressed, OneServer, ProbesUnix, Moves, Answers
<1>11. ASSUME NEW s \in Servers, ClaimsUnix(s) PROVE G'
  BY <1>11, RendezvousAssumption DEF Guarded, Alone, Addressed, OneServer, ClaimsUnix, Moves
<1>12. ASSUME NEW s \in Servers, RebindsUnix(s) PROVE G'
  BY <1>12, RendezvousAssumption DEF Guarded, Alone, Addressed, OneServer, RebindsUnix, Moves
<1>13. ASSUME NEW s \in Servers, ListensUnix(s) PROVE G'
  BY <1>13, RendezvousAssumption DEF Guarded, Alone, Addressed, OneServer, ListensUnix, Moves
<1>14. ASSUME NEW s \in Servers, ListensTcp(s) PROVE G'
  BY <1>14, RendezvousAssumption DEF Guarded, Alone, Addressed, OneServer, ListensTcp, Moves
<1>15. ASSUME NEW s \in Servers, ChecksTcp(s) PROVE G'
  BY <1>15, RendezvousAssumption DEF Guarded, Alone, Addressed, OneServer, ChecksTcp, Moves, Answers
<1>16. ASSUME NEW s \in Servers, PublishesTcp(s) PROVE G'
  BY <1>16, RendezvousAssumption DEF Guarded, Alone, Addressed, OneServer, PublishesTcp, Moves
<1>17. ASSUME NEW s \in Servers, Accepts(s) PROVE G'
  BY <1>17, RendezvousAssumption DEF Guarded, Alone, Addressed, OneServer, Accepts
<1>18. ASSUME NEW s \in Servers, Serves(s) PROVE G'
  BY <1>18, RendezvousAssumption DEF Guarded, Alone, Addressed, OneServer, Serves, Alive
<1>19. ASSUME NEW s \in Servers, TimesOut(s) PROVE G'
  BY <1>19, RendezvousAssumption DEF Guarded, Alone, Addressed, OneServer, TimesOut, Moves
<1>20. ASSUME NEW s \in Servers, IdleCheck(s) PROVE G'
  BY <1>20, RendezvousAssumption DEF Guarded, Alone, Addressed, OneServer, IdleCheck, Moves
<1>21. ASSUME NEW s \in Servers, Stops(s) PROVE G'
  BY <1>21, RendezvousAssumption DEF Guarded, Alone, Addressed, OneServer, Stops, Moves
<1>22. ASSUME NEW s \in Servers, ServerUnlinks(s) PROVE G'
  BY <1>22, RendezvousAssumption DEF Guarded, Alone, Addressed, OneServer, ServerUnlinks, Moves
<1>23. ASSUME NEW s \in Servers, Closes(s) PROVE G'
  BY <1>23, RendezvousAssumption DEF Guarded, Alone, Addressed, OneServer, Closes, Drop
<1>24. ASSUME NEW s \in Servers, Exits(s) PROVE G'
  BY <1>24, RendezvousAssumption DEF Guarded, Alone, Addressed, OneServer, Exits, Ends, Drop
<1>25. ASSUME NEW s \in Servers, Crashes(s) PROVE G'
  BY <1>25, RendezvousAssumption DEF Guarded, Alone, Addressed, OneServer, Crashes, Ends, Drop, Alive
<1>26. CASE UNCHANGED vars
  BY <1>26 DEF Guarded, Alone, Addressed, OneServer, vars
<1> QED BY <1>1, <1>2, <1>3, <1>4, <1>5, <1>6, <1>7, <1>8, <1>9, <1>10, <1>11,
           <1>12, <1>13, <1>14, <1>15, <1>16, <1>17, <1>18, <1>19,
           <1>20, <1>21, <1>22, <1>23, <1>24, <1>25, <1>26
       DEF Next, Finished, Client, Server, Binding, Leaving

-----------------------------------------------------------------------------
(* The theorems.                                                           *)

\* Nothing runs and no file is there at the start.
LEMMA InitInv == Init => CInv /\ OInv
<1> SUFFICES ASSUME Init PROVE CInv /\ OInv
  OBVIOUS
<1>1. TypeOK
  <2>1. tcp \in BOOLEAN /\ late \in BOOLEAN /\ told \in BOOLEAN
    BY DEF Init
  <2>2. kills \in 0..MaxKills /\ crashes \in 0..MaxCrashes
    BY RendezvousAssumption DEF Init
  <2>3. QED
    BY <2>1, <2>2, RendezvousAssumption
       DEF Init, TypeOK, ClientPCs, ServerPCs, Inside, Over
<1>2. Unconnected /\ OneConnection
  BY RendezvousAssumption DEF Init, Unconnected, OneConnection
<1>3. Guarded /\ Alone /\ OneServer
  BY DEF Init, Guarded, Alone, OneServer, Starting
<1>4. Addressed
  BY RendezvousAssumption DEF Init, Addressed
<1>5. QED
  BY <1>1, <1>2, <1>3, <1>4 DEF CInv, OInv

\* Every variable keeps its type, and whoever is in the with-block of the obtain
\* lock is the one that holds it, however obtain, run and their failures
\* interleave.
THEOREM TypeCorrect == Spec => []TypeOK
<1>1. Init => TypeOK
  BY InitInv DEF CInv
<1>2. QED
  BY <1>1, TypeStep, PTL DEF Spec

\* A connection is in the backlog of one server or served by one server, and no
\* other, whatever servers do to each other's address.
THEOREM Belongs == Spec => []OneConnection
<1>1. CInv /\ [Next]_vars => CInv'
  BY TypeStep, ConnectionStep DEF CInv
<1>2. CInv => OneConnection
  BY DEF CInv
<1>3. QED
  BY InitInv, <1>1, <1>2, PTL DEF Spec

\* The inductive invariant of the orderly system.
LEMMA OrderlyInvariance == Spec => []OInv
<1>1. OInv /\ [Next]_vars => OInv'
  BY TypeStep, OrderlyStep DEF OInv, OneServer
<1>2. QED
  BY InitInv, <1>1, PTL DEF Spec

\* "A crew firing 16 clients at once starts ONE server", for any crew.
THEOREM OneAtATime == Spec => []OneServer
<1>1. OInv => OneServer
  BY DEF OInv
<1>2. QED
  BY OrderlyInvariance, <1>1, PTL

\* The address file names the server that waits for connections.
THEOREM Found == Spec => []Findable
<1>1. OInv => Findable
  BY DEF OInv, Addressed, Findable
<1>2. QED
  BY OrderlyInvariance, <1>1, PTL

\* Nobody takes the address of a server that waits for connections.
THEOREM Kept == Spec => KeptWhileOrderly
<1> DEFINE A == Orderly' /\ path # None /\ sv[path] \in {"accepting", "polled"} => path' = path
<1>1. OInv /\ [Next]_vars => [A]_vars
  <2> SUFFICES ASSUME OInv, Next, Orderly', path # None, sv[path] \in {"accepting", "polled"}
               PROVE path' = path
    OBVIOUS
  <2> USE DEF OInv, TypeOK, Orderly, others, Alone, Addressed, OneServer, Present
  <2>1. ASSUME NEW c \in Clients, ClientUnlinks(c) PROVE path' = path
    BY <2>1 DEF ClientUnlinks
  <2>2. ASSUME NEW s \in Servers, BindsUnix(s) PROVE path' = path
    BY <2>2 DEF BindsUnix, Moves
  <2>3. ASSUME NEW s \in Servers, ProbesUnix(s) \/ ClaimsUnix(s) \/ RebindsUnix(s)
        PROVE path' = path
    BY <2>3 DEF ProbesUnix, ClaimsUnix, RebindsUnix, Moves
  <2>4. ASSUME NEW s \in Servers, PublishesTcp(s) PROVE path' = path
    BY <2>4 DEF PublishesTcp, Moves
  <2>5. ASSUME NEW s \in Servers, ServerUnlinks(s) PROVE path' = path
    BY <2>5 DEF ServerUnlinks, Moves
  <2>6. ASSUME NEW c \in Clients,
               \/ FastPath(c) \/ TakeLock(c) \/ SecondLook(c) \/ LooksForLitter(c)
               \/ Spawns(c) \/ Polls(c) \/ ClientDies(c)
        PROVE path' = path
    BY <2>6 DEF FastPath, TakeLock, SecondLook, LooksForLitter, Spawns, Polls,
                ClientDies, Connected, Refused
  <2>7. ASSUME NEW s \in Servers,
               \/ ListensUnix(s) \/ ListensTcp(s) \/ ChecksTcp(s) \/ Accepts(s)
               \/ Serves(s) \/ TimesOut(s) \/ IdleCheck(s) \/ Stops(s) \/ Closes(s)
               \/ Exits(s) \/ Crashes(s)
        PROVE path' = path
    BY <2>7 DEF ListensUnix, ListensTcp, ChecksTcp, Accepts, Serves, TimesOut,
                IdleCheck, Stops, Closes, Exits, Crashes, Ends
  <2> QED BY <2>1, <2>2, <2>3, <2>4, <2>5, <2>6, <2>7
             DEF Next, Finished, Client, Server, Binding, Leaving, vars
<1>2. QED
  BY OrderlyInvariance, <1>1, PTL DEF Spec, KeptWhileOrderly

\* obtain fails only because the server it started has itself left or died.
THEOREM FailsOnlyWithItsChild == Spec => FailsWithItsChild
<1> DEFINE A == \A c \in Clients :
          Orderly' /\ pc[c] # "failed" /\ pc'[c] = "failed" =>
              pc[c] = "polling" /\ sv[child[c]] \in {"closing", "ending", "gone"}
<1>1. OInv /\ [Next]_vars => [A]_vars
  <2> SUFFICES ASSUME OInv, Next, Orderly', NEW c \in Clients,
                      pc[c] # "failed", pc'[c] = "failed"
               PROVE pc[c] = "polling" /\ sv[child[c]] \in {"closing", "ending", "gone"}
    BY DEF A
  <2> USE DEF OInv, TypeOK, Orderly, others, Addressed
  <2>1. ASSUME NEW d \in Clients, ClientUnlinks(d) PROVE FALSE
    BY <2>1 DEF ClientUnlinks, Raises
  <2>2. ASSUME NEW d \in Clients, Polls(d)
        PROVE pc[c] = "polling" /\ sv[child[c]] \in {"closing", "ending", "gone"}
    BY <2>2, RendezvousAssumption
       DEF Polls, Connected, Raises, Answers, Orderly, ServerPCs, Starting, Open
  <2>3. ASSUME NEW d \in Clients,
               \/ FastPath(d) \/ TakeLock(d) \/ SecondLook(d) \/ LooksForLitter(d)
               \/ Spawns(d) \/ ClientDies(d)
        PROVE FALSE
    BY <2>3 DEF FastPath, TakeLock, SecondLook, LooksForLitter, Spawns,
                ClientDies, Connected, Refused
  <2>4. ASSUME NEW s \in Servers, Binding(s) \/ Accepts(s) \/ Serves(s) \/ IdleCheck(s)
               \/ TimesOut(s) \/ Stops(s) \/ ServerUnlinks(s)
        PROVE FALSE
    BY <2>4 DEF Binding, BindsUnix, ProbesUnix, ClaimsUnix, RebindsUnix, ListensUnix,
                ListensTcp, ChecksTcp, PublishesTcp, Moves, Accepts, Serves, IdleCheck,
                TimesOut, Stops, ServerUnlinks, clientVars
  <2>5. ASSUME NEW s \in Servers, Closes(s) \/ Exits(s) \/ Crashes(s) PROVE FALSE
    BY <2>5 DEF Closes, Exits, Crashes, Ends, Drop
  <2> QED BY <2>1, <2>2, <2>3, <2>4, <2>5
             DEF Next, Finished, Client, Server, Leaving, vars, clientVars
<1>2. QED
  BY OrderlyInvariance, <1>1, PTL DEF Spec, FailsWithItsChild

\* Unless it was told to stop, a server that leaves serves nobody.
LeavesIdle ==
    ~told => \A s \in Servers :
                 sv[s] \in {"leaving", "closing", "ending"} => active[s] = {}

LEMMA LeavesIdleStep == TypeOK /\ LeavesIdle /\ [Next]_vars => LeavesIdle'
<1> SUFFICES ASSUME TypeOK, LeavesIdle, [Next]_vars PROVE LeavesIdle'
  OBVIOUS
<1> USE DEF TypeOK, LeavesIdle, others
<1>1. ASSUME NEW c \in Clients, Client(c) \/ ClientDies(c) PROVE LeavesIdle'
  <2>1. UNCHANGED <<told, active>>
    BY <1>1 DEF Client, FastPath, TakeLock, SecondLook, LooksForLitter, ClientUnlinks,
                Spawns, Polls, ClientDies, Connected, Refused
  <2>2. \A s \in Servers : sv'[s] = sv[s] \/ sv'[s] = "booting"
    BY <1>1 DEF Client, FastPath, TakeLock, SecondLook, LooksForLitter, ClientUnlinks,
                Spawns, Polls, ClientDies, Connected, Refused
  <2> QED BY <2>1, <2>2
<1>2. ASSUME NEW s \in Servers, Binding(s) \/ TimesOut(s) PROVE LeavesIdle'
  BY <1>2 DEF Binding, BindsUnix, ProbesUnix, ClaimsUnix, RebindsUnix, ListensUnix,
              ListensTcp, ChecksTcp, PublishesTcp, TimesOut, Moves
<1>3. ASSUME NEW s \in Servers, IdleCheck(s) \/ ServerUnlinks(s) PROVE LeavesIdle'
  BY <1>3 DEF IdleCheck, ServerUnlinks, Moves
<1>4. ASSUME NEW s \in Servers, Accepts(s) \/ Serves(s) PROVE LeavesIdle'
  BY <1>4 DEF Accepts, Serves
<1>5. ASSUME NEW s \in Servers, Stops(s) PROVE LeavesIdle'
  BY <1>5 DEF Stops
<1>6. ASSUME NEW s \in Servers, Closes(s) \/ Exits(s) \/ Crashes(s) PROVE LeavesIdle'
  BY <1>6 DEF Closes, Exits, Crashes, Ends
<1>7. CASE UNCHANGED vars
  BY <1>7 DEF vars
<1> QED BY <1>1, <1>2, <1>3, <1>4, <1>5, <1>6, <1>7 DEF Next, Finished, Server, Leaving

\* An idle exit ends no connection the server accepted.
THEOREM IdleExit == Spec => IdleExitKeepsAccepted
<1> DEFINE A == \A c \in Clients :
          /\ pc[c] = "connected" /\ pc'[c] = "dropped"
          /\ crashes' = crashes /\ ~told
          => \E s \in Servers : c \in backlog[s]
<1>1. Init => TypeOK /\ LeavesIdle
  BY InitInv DEF CInv, Init, LeavesIdle
<1>2. TypeOK /\ LeavesIdle /\ [Next]_vars => (TypeOK /\ LeavesIdle)'
  BY TypeStep, LeavesIdleStep
<1>3. TypeOK /\ LeavesIdle /\ [Next]_vars => [A]_vars
  <2> SUFFICES ASSUME TypeOK, LeavesIdle, Next, NEW c \in Clients,
                      pc[c] = "connected", pc'[c] = "dropped", crashes' = crashes, ~told
               PROVE \E s \in Servers : c \in backlog[s]
    OBVIOUS
  <2> USE DEF TypeOK, LeavesIdle, others
  <2>1. ASSUME NEW d \in Clients, Client(d) \/ ClientDies(d) PROVE FALSE
    BY <2>1 DEF Client, FastPath, TakeLock, SecondLook, LooksForLitter, ClientUnlinks,
                Spawns, Polls, ClientDies, Connected, Refused, Raises
  <2>2. ASSUME NEW s \in Servers,
               \/ Binding(s) \/ TimesOut(s) \/ IdleCheck(s) \/ ServerUnlinks(s)
               \/ Accepts(s) \/ Serves(s) \/ Stops(s)
        PROVE FALSE
    BY <2>2 DEF Binding, BindsUnix, ProbesUnix, ClaimsUnix, RebindsUnix, ListensUnix,
                ListensTcp, ChecksTcp, PublishesTcp, TimesOut, IdleCheck, ServerUnlinks,
                Accepts, Serves, Stops, Moves, clientVars
  <2>3. ASSUME NEW s \in Servers, Closes(s) PROVE c \in backlog[s]
    BY <2>3 DEF Closes, Drop
  <2>4. ASSUME NEW s \in Servers, Exits(s) PROVE c \in backlog[s]
    BY <2>4 DEF Exits, Ends, Drop
  <2>5. ASSUME NEW s \in Servers, Crashes(s) PROVE FALSE
    BY <2>5 DEF Crashes
  <2>6. CASE Finished
    BY <2>6 DEF Finished, vars, clientVars
  <2> QED BY <2>1, <2>2, <2>3, <2>4, <2>5, <2>6 DEF Next, Server, Leaving
<1>4. QED
  BY <1>1, <1>2, <1>3, PTL DEF Spec, IdleExitKeepsAccepted
=============================================================================
