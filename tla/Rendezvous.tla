----------------------------- MODULE Rendezvous -----------------------------
(***************************************************************************)
(* How clients and servers of one configuration find each other: obtain    *)
(* and connect of momwire_serve_client.py against Server of                *)
(* serve/_server.py.  What they share is the address file (a unix socket,  *)
(* or a file with a loopback port) and the obtain lock beside it.          *)
(*                                                                         *)
(* Each system call on a shared name is a step of its own: a connect, an   *)
(* existence test, an unlink, a bind, a replace.  Clocks are choices: the  *)
(* idle clock of a server may be up at any poll, and the client's spawn    *)
(* timeout comes before its server listens only if servers are slow        *)
(* (SlowStarts).  A connect to a loopback port reads the file and connects *)
(* in one step.  A probe of one server by another is not counted among the *)
(* connections of the probed one.                                          *)
(***************************************************************************)
EXTENDS Naturals

CONSTANTS
    Clients,     \* client processes, each obtaining one connection
    Servers,     \* process slots a server may run in
    None,
    SlowStarts,  \* may a server take longer than SPAWN_TIMEOUT to listen?
    Signals,     \* may a server be told to stop (SIGTERM, SIGINT)?
    MaxKills,    \* bound: clients killed
    MaxCrashes   \* bound: servers killed

ASSUME RendezvousAssumption ==
    /\ None \notin Clients \cup Servers
    /\ SlowStarts \in BOOLEAN /\ Signals \in BOOLEAN
    /\ MaxKills \in Nat /\ MaxCrashes \in Nat

VARIABLES
    tcp,       \* the transport: TRUE for the loopback port, else unix
    path,      \* whose address the file holds, or None: no file
    lock,      \* the client that holds the obtain lock, or None
    pc,        \* where each client is
    child,     \* the server a client started
    conn,      \* the server a client is connected to
    sv,        \* where each server is
    backlog,   \* connections a server has not accepted yet
    active,    \* connections a server is serving
    late,      \* history: a client gave up on a server that was still starting
    told,      \* history: a server was told to stop
    kills,     \* bound counter, see MaxKills
    crashes    \* bound counter, see MaxCrashes

clientVars == <<lock, pc, child, conn>>
others == <<tcp, late, told, kills, crashes>>
vars == <<path, clientVars, sv, backlog, active, others>>

\* A server in one of these has an open listening socket.
Open == {"checking", "publishing", "accepting", "polled", "leaving", "closing"}
Starting == {"booting", "probing", "claiming", "claimed", "bound",
             "checking", "publishing"}
Over == {"served", "dropped", "failed", "killed"}
Alive(s) == sv[s] # "gone"
Answers(s) == s # None /\ sv[s] \in Open

\* A process slot nothing refers to any more.
Free == {s \in Servers :
            /\ ~Alive(s) /\ path # s
            /\ \A c \in Clients : /\ conn[c] # s
                                 /\ pc[c] = "polling" => child[c] # s}

Init ==
    /\ tcp \in BOOLEAN
    /\ path = None /\ lock = None /\ late = FALSE /\ told = FALSE /\ kills = 0 /\ crashes = 0
    /\ pc = [c \in Clients |-> "start"]
    /\ child = [c \in Clients |-> None] /\ conn = [c \in Clients |-> None]
    /\ sv = [s \in Servers |-> "gone"]
    /\ backlog = [s \in Servers |-> {}] /\ active = [s \in Servers |-> {}]

-----------------------------------------------------------------------------
(* The client: obtain.                                                     *)

\* connect found a listener: the connection is in its backlog.  A client that
\* holds the lock leaves the with-block, which drops it.
Connected(c) ==
    /\ Answers(path)
    /\ conn' = [conn EXCEPT ![c] = path]
    /\ backlog' = [backlog EXCEPT ![path] = @ \cup {c}]
    /\ pc' = [pc EXCEPT ![c] = "connected"]
    /\ lock' = IF lock = c THEN None ELSE lock
    /\ UNCHANGED <<path, child, sv, active, others>>

Refused(c, next) ==
    /\ ~Answers(path)
    /\ pc' = [pc EXCEPT ![c] = next]
    /\ UNCHANGED <<path, lock, child, conn, sv, backlog, active, others>>

\* The fast path, without the lock.
FastPath(c) == pc[c] = "start" /\ (Connected(c) \/ Refused(c, "locking"))

\* Mutant: the lock excludes nobody.
TakeLockShared(c) ==
    /\ pc[c] = "locking"
    /\ lock' = c
    /\ pc' = [pc EXCEPT ![c] = "locked"]
    /\ UNCHANGED <<path, child, conn, sv, backlog, active, others>>

TakeLock(c) ==
    /\ pc[c] = "locking" /\ lock = None
    /\ lock' = c
    /\ pc' = [pc EXCEPT ![c] = "locked"]
    /\ UNCHANGED <<path, child, conn, sv, backlog, active, others>>

\* Mutant: no second connect under the lock.
SecondLookSkipped(c) ==
    /\ pc[c] = "locked"
    /\ pc' = [pc EXCEPT ![c] = "litter"]
    /\ UNCHANGED <<path, lock, child, conn, sv, backlog, active, others>>

\* The second connect, under the lock.
SecondLook(c) == pc[c] = "locked" /\ (Connected(c) \/ Refused(c, "litter"))

\* if os.path.exists(path) ...
LooksForLitter(c) ==
    /\ pc[c] = "litter"
    /\ pc' = [pc EXCEPT ![c] = IF path = None THEN "spawning" ELSE "unlinking"]
    /\ UNCHANGED <<path, lock, child, conn, sv, backlog, active, others>>

\* Mutant: an exception leaves the lock taken.
RaisesLocked(c) ==
    /\ pc' = [pc EXCEPT ![c] = "failed"]
    /\ UNCHANGED lock

\* obtain raises; the with-block drops the lock.
Raises(c) ==
    /\ pc' = [pc EXCEPT ![c] = "failed"]
    /\ lock' = None

\* ... os.unlink(path), which raises if the file has gone meanwhile.
ClientUnlinks(c) ==
    /\ pc[c] = "unlinking"
    /\ \/ /\ path # None
          /\ path' = None
          /\ pc' = [pc EXCEPT ![c] = "spawning"]
          /\ UNCHANGED lock
       \/ /\ path = None
          /\ Raises(c)
          /\ UNCHANGED path
    /\ UNCHANGED <<child, conn, sv, backlog, active, others>>

Spawns(c) ==
    /\ pc[c] = "spawning"
    /\ \E s \in Free :
         /\ sv' = [sv EXCEPT ![s] = "booting"]
         /\ child' = [child EXCEPT ![c] = s]
    /\ pc' = [pc EXCEPT ![c] = "polling"]
    /\ UNCHANGED <<path, lock, conn, backlog, active, others>>

\* A round of the poll loop that ends it: an answer; or no answer and either
\* the child has exited or the deadline is there.
Polls(c) ==
    /\ pc[c] = "polling"
    /\ \/ Connected(c)
       \/ /\ ~Answers(path)
          /\ sv[child[c]] \in Starting => SlowStarts
          /\ late' = (late \/ sv[child[c]] \in Starting)
          /\ Raises(c)
          /\ UNCHANGED <<tcp, told, path, child, conn, sv, backlog, active, kills, crashes>>

\* The client is killed; the OS drops its lock.  The server may have its
\* connection still, and learns of the end when it writes to it.
ClientDies(c) ==
    /\ pc[c] \notin Over
    /\ kills < MaxKills
    /\ kills' = kills + 1
    /\ pc' = [pc EXCEPT ![c] = "killed"]
    /\ lock' = IF lock = c THEN None ELSE lock
    /\ UNCHANGED <<tcp, late, told, path, child, conn, sv, backlog, active, crashes>>

Client(c) ==
    \/ FastPath(c) \/ TakeLock(c) \/ SecondLook(c) \/ LooksForLitter(c)
    \/ ClientUnlinks(c) \/ Spawns(c) \/ Polls(c)

-----------------------------------------------------------------------------
(* The server: _bind_unix and _bind_tcp.                                   *)

Moves(s, next) ==
    /\ sv' = [sv EXCEPT ![s] = next]
    /\ UNCHANGED <<clientVars, backlog, active, others>>

\* bind, or EADDRINUSE.
BindsUnix(s) ==
    /\ sv[s] = "booting" /\ ~tcp
    /\ \/ path = None /\ path' = s /\ Moves(s, "bound")
       \/ path # None /\ Moves(s, "probing") /\ UNCHANGED path

\* The probe: a live peer keeps the address and this server exits.
ProbesUnix(s) ==
    /\ sv[s] = "probing"
    /\ Moves(s, IF Answers(path) THEN "gone" ELSE "claiming")
    /\ UNCHANGED path

\* The unlink of what looked dead; it raises if the file has gone.
ClaimsUnix(s) ==
    /\ sv[s] = "claiming"
    /\ path' = None
    /\ Moves(s, IF path = None THEN "gone" ELSE "claimed")

\* The second bind; a second EADDRINUSE is raised.
RebindsUnix(s) ==
    /\ sv[s] = "claimed"
    /\ \/ path = None /\ path' = s /\ Moves(s, "bound")
       \/ path # None /\ Moves(s, "gone") /\ UNCHANGED path

\* chmod, which raises if the file has gone, and listen.
ListensUnix(s) ==
    /\ sv[s] = "bound"
    /\ Moves(s, IF path = None THEN "gone" ELSE "accepting")
    /\ UNCHANGED path

ListensTcp(s) ==
    /\ sv[s] = "booting" /\ tcp
    /\ Moves(s, "checking")
    /\ UNCHANGED path

\* Is the published address alive?
ChecksTcp(s) ==
    /\ sv[s] = "checking"
    /\ Moves(s, IF Answers(path) THEN "gone" ELSE "publishing")
    /\ UNCHANGED path

\* publish_rendezvous: os.replace over whatever is there.
PublishesTcp(s) ==
    /\ sv[s] = "publishing"
    /\ path' = s
    /\ Moves(s, "accepting")

-----------------------------------------------------------------------------
(* The server: run and _serve.                                             *)

\* accept: a thread serves the connection from now on.
Accepts(s) ==
    /\ sv[s] = "accepting"
    /\ \E c \in backlog[s] :
         /\ backlog' = [backlog EXCEPT ![s] = @ \ {c}]
         /\ active' = [active EXCEPT ![s] = @ \cup {c}]
    /\ UNCHANGED <<path, clientVars, sv, others>>

\* _serve ends: the answer went out, or to nobody.
Serves(s) ==
    /\ Alive(s)
    /\ \E c \in active[s] :
         /\ active' = [active EXCEPT ![s] = @ \ {c}]
         /\ pc' = [pc EXCEPT ![c] = IF @ = "connected" THEN "served" ELSE @]
         /\ conn' = [conn EXCEPT ![c] = None]
    /\ UNCHANGED <<path, lock, child, sv, backlog, others>>

\* accept timed out: nothing was in the backlog.
TimesOut(s) ==
    /\ sv[s] = "accepting" /\ backlog[s] = {}
    /\ Moves(s, "polled")
    /\ UNCHANGED path

\* Mutant: the idle clock alone decides.
IdleCheckClock(s) ==
    /\ sv[s] = "polled"
    /\ \E next \in {"leaving", "accepting"} : Moves(s, next)
    /\ UNCHANGED path

\* _idle_expired: no connection is active and the idle clock is up, or not.
IdleCheck(s) ==
    /\ sv[s] = "polled"
    /\ \/ active[s] = {} /\ Moves(s, "leaving")
       \/ Moves(s, "accepting")
    /\ UNCHANGED path

\* stop was called; the loop's head sees it.
Stops(s) ==
    /\ sv[s] = "accepting" /\ Signals
    /\ sv' = [sv EXCEPT ![s] = "leaving"]
    /\ told' = TRUE
    /\ UNCHANGED <<tcp, late, path, clientVars, backlog, active, kills, crashes>>

\* finally: os.unlink(self.path), whoever's it is now ...
ServerUnlinks(s) ==
    /\ sv[s] = "leaving"
    /\ path' = None
    /\ Moves(s, "closing")

Drop(lost) ==
    /\ pc' = [c \in Clients |->
                IF c \in lost /\ pc[c] = "connected" THEN "dropped" ELSE pc[c]]
    /\ conn' = [c \in Clients |-> IF c \in lost THEN None ELSE conn[c]]

\* Mutant: the address file is removed (once more) after the listener closed.
ClosesUnlinking(s) ==
    /\ sv[s] = "closing"
    /\ sv' = [sv EXCEPT ![s] = "ending"]
    /\ path' = None
    /\ Drop(backlog[s])
    /\ backlog' = [backlog EXCEPT ![s] = {}]
    /\ UNCHANGED <<lock, child, active, others>>

\* ... then listener.close(): connections nobody accepted are reset.
Closes(s) ==
    /\ sv[s] = "closing"
    /\ sv' = [sv EXCEPT ![s] = "ending"]
    /\ Drop(backlog[s])
    /\ backlog' = [backlog EXCEPT ![s] = {}]
    /\ UNCHANGED <<path, lock, child, active, others>>

\* The process ends, its daemon threads with it; or it is killed.
Ends(s) ==
    /\ sv' = [sv EXCEPT ![s] = "gone"]
    /\ Drop(backlog[s] \cup active[s])
    /\ backlog' = [backlog EXCEPT ![s] = {}]
    /\ active' = [active EXCEPT ![s] = {}]
    /\ UNCHANGED <<tcp, late, told, path, lock, child, kills>>

Exits(s) == sv[s] = "ending" /\ Ends(s) /\ UNCHANGED crashes

Crashes(s) ==
    /\ Alive(s) /\ crashes < MaxCrashes
    /\ crashes' = crashes + 1
    /\ Ends(s)

Binding(s) ==
    \/ BindsUnix(s) \/ ProbesUnix(s) \/ ClaimsUnix(s) \/ RebindsUnix(s)
    \/ ListensUnix(s) \/ ListensTcp(s) \/ ChecksTcp(s) \/ PublishesTcp(s)
Leaving(s) == ServerUnlinks(s) \/ Closes(s) \/ Exits(s)
Server(s) ==
    Binding(s) \/ Accepts(s) \/ Serves(s) \/ IdleCheck(s) \/ Leaving(s)

\* Every client has ended and so has every server.
Finished ==
    /\ \A c \in Clients : pc[c] \in Over
    /\ \A s \in Servers : ~Alive(s)
    /\ UNCHANGED vars

Next ==
    \/ \E c \in Clients : Client(c) \/ ClientDies(c)
    \/ \E s \in Servers : Server(s) \/ TimesOut(s) \/ Stops(s) \/ Crashes(s)
    \/ Finished

Spec == Init /\ [][Next]_vars

\* Processes run: a client goes on with obtain, a server with its start and
\* its end, accept takes what is in the backlog, a connection's thread
\* finishes.  Nobody is obliged to be idle, to be told to stop or to die.
Fairness ==
    /\ \A c \in Clients : WF_vars(Client(c))
    /\ \A s \in Servers : /\ WF_vars(Binding(s)) /\ WF_vars(Leaving(s))
                          /\ WF_vars(Accepts(s)) /\ WF_vars(Serves(s))
                          /\ WF_vars(IdleCheck(s))

FairSpec == Spec /\ Fairness

-----------------------------------------------------------------------------
\* Where a client holds the obtain lock.
Inside == {"locked", "litter", "unlinking", "spawning", "polling"}

ClientPCs == {"start", "locking", "connected"} \cup Inside \cup Over
ServerPCs == {"gone", "ending"} \cup Starting \cup Open

\* The type of the state; and who is in the with-block of the lock (_locked) is
\* the one that holds it, however it left the block before.
TypeOK ==
    /\ path \in Servers \cup {None} /\ lock \in Clients \cup {None}
    /\ \A c \in Clients : lock = c <=> pc[c] \in Inside
    /\ pc \in [Clients -> ClientPCs] /\ sv \in [Servers -> ServerPCs]
    /\ child \in [Clients -> Servers \cup {None}]
    /\ conn \in [Clients -> Servers \cup {None}]
    /\ backlog \in [Servers -> SUBSET Clients]
    /\ active \in [Servers -> SUBSET Clients]
    /\ tcp \in BOOLEAN /\ late \in BOOLEAN /\ told \in BOOLEAN
    /\ kills \in 0..MaxKills /\ crashes \in 0..MaxCrashes

\* No client was killed, none gave up on a server that was still starting.
Orderly == kills = 0 /\ ~late

\* "A crew firing 16 clients at once starts ONE server" (obtain): while no
\* client is killed or times out, at most one server is between its start and
\* the unlink with which it leaves, whatever the clients' order.
OneServer ==
    Orderly =>
        \A s, t \in Servers :
            sv[s] \notin {"gone", "closing", "ending"}
            /\ sv[t] \notin {"gone", "closing", "ending"} => s = t

\* A server waiting for connections can be found: the address file is its own.
Findable ==
    Orderly =>
        \A s \in Servers : sv[s] \in {"accepting", "polled", "leaving"} => path = s

\* The address of a server waiting for connections is never taken from it: not
\* by a client that removes litter, not by another server that binds,
\* publishes or leaves.
KeptWhileOrderly ==
    [][Orderly' /\ path # None /\ sv[path] \in {"accepting", "polled"} => path' = path]_vars

\* "An address file left behind by a server that died without unlinking is
\* detected here and removed" (obtain): what is left of a dead server costs no
\* client its connection.  Without kills obtain fails only because the server it
\* started has itself left or died.
FailsWithItsChild ==
    [][\A c \in Clients :
          Orderly' /\ pc[c] # "failed" /\ pc'[c] = "failed" =>
              pc[c] = "polling" /\ sv[child[c]] \in {"closing", "ending", "gone"}]_vars

\* A client holds a connection exactly while one server has it in its backlog
\* or serves it: no connection is accepted twice or by two servers.
OneConnection ==
    \A c \in Clients, s \in Servers :
        /\ conn[c] = s <=> c \in backlog[s] \cup active[s]
        /\ c \notin backlog[s] \cap active[s]

\* A server that leaves because it is idle ends no connection it accepted,
\* whatever connects between its polls and its exit; what it may reset is a
\* connection still in its backlog when the listener closes (Server.run).
IdleExitKeepsAccepted ==
    [][\A c \in Clients :
          /\ pc[c] = "connected" /\ pc'[c] = "dropped"
          /\ crashes' = crashes /\ ~told
          => \E s \in Servers : c \in backlog[s]]_vars

\* obtain returns or raises, and a connection ends: nobody waits for ever for
\* the lock, for a server that died, or in a backlog.
EveryObtainEnds ==
    \A c \in Clients : <>(pc[c] \in Over)
=============================================================================
