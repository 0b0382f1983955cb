# A verification development for momwire

momwire is a method-of-moments antenna simulator with drop-in front ends for
the hosts that expect NEC engines (EZNEC, SimNEC).  Most of its lines are
numerics.  The part modelled here is the part numerics tests do not reach: the
resident server that keeps a warm engine between decks, the processes and
threads it is made of, the files and pipes they share, and the state an engine
carries from one card, deck or frequency to the next.

Paths below are relative to `src/src/momwire/` unless they start with `src/`.

## 1. Inventory

### Components, their state and their operations

| component | state | operations | module |
|---|---|---|---|
| worker pool, `serve/_pool.py`, `serve/_worker.py` | the list of workers and their busy flags, the counters `starting` and `waiting`, `closed`, the time of the last failed start, the fallback lock; one pair of pipes per worker process | `start`, `_spawn`, `_acquire`, `_release`, `_reap_locked`, `_lost`, `answer`, `close`, `_Worker.stop`; `worker_main` | `WorkerPool`, `FrameService` |
| server, `serve/_server.py` | listener, address file, `active`, `idle_since`, `stopping` | `_bind`, `run` (accept loop), `_serve`, `_idle_expired`, `stop`, `serve_forever` | `Rendezvous` |
| client side of the address, `src/src/momwire_serve_client.py` | the address file and the obtain lock | `connect`, `_locked`, `publish_rendezvous`, `read_rendezvous`, `spawn_server`, `obtain` | `Rendezvous` |
| session loop, `serve/_session.py` | the body being collected, the solve lock | `run_session` | `SessionPump` |
| wire framing, `src/src/momwire_serve_client.py` | reader buffers | `deck_frame`, `FrameReader`; `split_answer` | `SessionPump`; `EznecLadder` |
| thin SimNEC client, `src/src/momwire_nec2c_client.py` | the pending buffer and the two half-open streams | `pump`, `_write_all` | `SessionPump` |
| thin EZNEC client, `src/src/momwire_eznec_client.py` | which rung of its ladder it is on, two output files, a child process | `main`, `_served_bytes`, `_one_shot`, `_last_ditch` | `EznecLadder` |
| NEC-2 drop-in, `dropin/nec2c/_shared.py`, `dropin/nec2c/_portal.py` | the solver cache, its statistics and their file; a connection; the groups of a printout | `render_deck`, `_solver_for`, `_cache_evict`, `_cache_measure`, `DeckSolver.at`, `_write_cache_stats`; `_connection`, `portal_seam`; `parse_deck` | `SolverCache`; `SessionPump`; `DeckReader` |
| NEC-2 and NEC-4.2 deck reading, `deck/_nec2.py`, `deck/_nec4.py` | what the cards so far have armed, driven, loaded and connected | `_Nec2Parser.card` with its handlers, `_execute`, `model` | `DeckReader` |
| NEC-5 drop-in, `dropin/nec5/_shell.py`, `dropin/nec5/_resident.py`, `deck/_nec5.py` | the input not yet cut; the structures of a file | `run`, `_report_internal_error`, the answer frame; `stream`, `next_structure`, `split_structures`, `_render_chain` | `EznecLadder` (one run); `Nec5Stream` |
| fill cache on disk, `_somm_disk_cache.py` | cache files, their mtimes, what each process holds in memory | `fetch_or_fill`, `note_mutated`, `_load`, `_store`, `_evict`; `note_seen`, `fetch`, `store` | `DiskCache`; `SweepAnchors` |
| ground-table sweeps, `_sommerfeld_below.py` | the frequencies asked for (shared, and a process's own), anchors in memory and on disk | `get_grid_below`, `_is_sweep`, `_ensure_anchors`, `_anchors_ready`, `SommerfeldGridBelowBlended._fill_region` | `SweepAnchors` |
| cancellation, `_cancel.py` | a token and a thread-local scope | `poll` in the middle of a walk; `cancel`, `scope` are one byte and one slot | `SweepAnchors` (a poll that raises) |
| build jobs, `_build_jobs.py` | none | reads the machine once | not modelled: computes one number |
| network semantics (`networks/`, circuit assembly), geometry, printout layout | none between decks | parsing and formatting | not modelled: data without a state machine |
| numerics (`solvers`, `bspline.py`, `razor.py`, `hmatrix`, the Sommerfeld integrals, the C++ accelerators) | arrays | fills, solves, far fields | not modelled: floating-point algorithms, outside a model checker's reach |
| native launchers, build, CI, benches | none | restatements in C of the thin clients; scripts | not modelled: the Python clients are the reference |

### How they interact

A host starts a thin client per deck or per session.  The client computes the
address of a server for its configuration, connects, or takes the obtain lock
and starts one.  The server accepts connections, one thread each; the thread
runs the session loop over the connection and, for every frame, calls
`seam.answer`.  For the EZNEC server that call is `WorkerPool.answer`: the
thread checks a worker process out of the pool, writes the frame to the
worker's stdin and waits on its stdout.  Workers share the fill cache on disk,
with each other and with every other momwire process of the user; a crew of
them that sweeps one deck over frequencies meets there too, in the anchors it
shares.  For the SimNEC portal `answer` is `render_deck`: the deck is read
twice, by `_Nec2Parser` into the model that is solved and by `parse_deck` into
the groups that are printed, and answered by a solver of the cache or a new
one.  Without a server the NEC-5 engine reads structures from its standard input.

### What is hard

* **Interleavings**: N connection threads, the spawning threads and the closing
  thread share the pool's bookkeeping; many clients race to start one server.
* **Stale decisions**: a worker's liveness is checked under the condition and
  its pipe is written later; a thread share is computed at checkout and used
  while the pool changes; an address is probed and replaced afterwards.
* **Partial failure**: a worker dies before, while or after it solves; a start
  fails; the server is told to stop while a worker is being started; a client
  is killed while it holds the lock.
* **Ordering**: replies on a pipe carry no frame number; input is cut anywhere.
* **State carried on**: what a card means depends on all cards before it; a
  cached solver is answered from long after the deck it was built for; two
  readers of one deck must carry the same state.
* **Liveness**: a lock that is not released, a counter that leaks or a host that
  does not read would leave a caller waiting for ever.

### What makes each part correct

* *Pool*: a frame is solved at most once and its caller gets its own answer; the
  cap is respected and the threads of all solves under way stay under a known
  bound; no call waits for ever and no process is left.
* *Server and address*: concurrent clients start one server, it stays findable
  until it goes, what a dead one left behind costs nobody a connection.
* *Session*: the host reads the answers to its own decks, in order and whole;
  a session that is stuck or killed does not hold up another; queues are bounded.
* *EZNEC client*: it always ends, and leaves a whole printout, or a refusal, or
  a word on stdout; the two files belong to one calculation.
* *Fill cache*: what is served is whole, what is stored loses nothing, the
  directory fits its budget, whoever else works in it or dies there.
* *NEC-5 stream*: a stream prints what a file with the same text prints, and each
  structure is answered before more input is asked for.
* *Solver cache*: a deck is answered as a fresh process answers it; the cap and the
  statistics hold; every deck gets its end of frame.
* *Deck reading*: an execute card is answered with the drive, loads, networks,
  frequencies and ground NEC-2's rules give it; the printout's groups are the model's.
* *Sweeps*: anchors are bought for a sweep and not for single frequencies, a
  crew counts as one, and a blend is summed over anchors that serve it.

`PROJECT.json` lists every hazard at the line where it bites, with the
property that would see it go wrong, or the reason none does yet.

## 2. The modules

| module | what it is | composes with |
|---|---|---|
| `WorkerPool` | the pool, its workers, the closing server | refines `FrameService` |
| `FrameService` | what a connection thread may rely on | - |
| `WorkerPoolProofs` | 9 theorems about `WorkerPool` | extends it |
| `Rendezvous` | clients and servers that meet at one address file | the accepted connection's work is `WorkerPool` or `SessionPump` |
| `RendezvousProofs` | 7 theorems about `Rendezvous` | extends it |
| `SessionPump` | host, thin client, socket and session loop together | the solve inside the lock is one step |
| `SessionPumpProofs` | 5 theorems about `SessionPump` | extends it |
| `EznecLadder` | one EZNEC calculation | its `obtain` is `Rendezvous`, its solve `WorkerPool`; both may fail |
| `DiskCache` | the shared cache directory | used by every solve; independent of the others |
| `DiskCacheProofs` | 4 theorems about `DiskCache` | extends it |
| `SweepAnchors` | a crew of processes that sweeps a buried deck | its loads and stores are single steps, which `DiskCache` justifies |
| `SweepAnchorsProofs` | 4 theorems about `SweepAnchors` | extends it |
| `SolverCache` | one portal engine and a session of decks | a deck's runs are what `DeckReader` makes of its cards |
| `SolverCacheProofs` | 5 theorems about `SolverCache` | extends it |
| `DeckReader` | the two readers of a NEC-2 or NEC-4.2 deck, card by card | its result is the `Model` of `SolverCache` |
| `DeckReaderProofs` | 3 theorems about `DeckReader` | extends it |
| `Nec5Stream` | the NEC-5 engine on its standard input, and its host | - |
| `Nec5Proofs` | 5 theorems about `EznecLadder`, 2 about `Nec5Stream` | extends both, whose names are disjoint for that |
| `MC...` | one per module: symmetry, scripts, decks, cards, texts | |

Each module names its abstractions in its header.  The definitions headed
"Mutant:" are variants of the action that follows them with one plausible mistake;
no next-state relation uses them.

### WorkerPool

A *frame* is one call of `WorkerPool.answer` and has a program counter (`pc`)
that names the point of the call: inside `_acquire`'s loop (`new`, `waiting`),
before `worker.send`, in `worker.receive`, about to `_release`, about to drop
its worker (`unsent`, `crashed`), or in the in-process fallback.  A *proc* is
a slot for a worker process.  `workers`, `busy`, `starting`, `waiting`,
`closed`, `backoff` and `holder` are the pool's fields and the fallback lock;
`piped`, `inbox` and `reply` are a worker's two pipes; `closing` and `retiring`
are the workers whose `stop` runs on the closing thread or on a reaper's
thread.  What the code does in one critical section of `self._cond` is one
action; `send` and `receive`, which run outside it, are actions of their own,
and a worker may die between any two.

Abstractions: the list of workers is a set (the code takes its first idle
entry, the model any); the idle clock and the back-off clock are choices; a
thread in `cond.wait` may always look again, for the code waits a second at
most, so a lost notification is not modelled as a hang; a worker that takes
longer than the ready timeout is a failed start.

A solve's threads are those of its OpenMP pool: the share for `live` workers, never
more than `Default`, the count its process started with, which is also what a lone
worker and the in-process fallback have, for neither is limited.  The BLAS pool
(never below two by `_BLAS_FLOOR`) is left out.

### Rendezvous

`path` is whose address the file holds.  A client's `pc` walks through
`obtain`: fast connect, lock, second connect, existence test, unlink, spawn,
poll.  A server's `sv` walks through `_bind_unix` or `_bind_tcp`, the accept
loop with its timeout and its idle test, and the exit's unlink and close.  The
probe, the existence test and the unlink are separate steps, since no lock
makes them one.

Abstractions: the connection a starting server makes to probe another is not
counted among that one's; reading a loopback address and connecting to it is
one step; the reuse of a port by another program is outside; the connection of
a killed client stays until the server has written to it; the Windows lock's
own timeout and the retry of a refused `os.replace` are not modelled.

### SessionPump

One session is a host that writes a script of cards and terminators, two pipes,
`pump`'s loop, two directions of a socket and the server thread.  Every buffer
holds a few items: a line, a frame's header or one part of an answer is an
item, so that frames are cut at any item by short reads and short writes.  Cuts
inside a header are below this granularity.  The sessions share the solve
lock only.

### EznecLadder

A file's content and an answer are sequences of two or more parts, so that a cut
in each is visible.  `Writing(old, text)` is everything `open(..., "w")` and
`write` can leave and whether they raise.  The deck asked and whether the server
may die while it answers (`mortal`) are chosen in `Init` and never change.  The
server's thread, the client and the one-shot child run concurrently; the child
can be killed by the timeout in the middle of a write.  So is `foreign`: a path has
a character outside latin-1, in which the last rung cannot write its reason
(`Unencodable`); its exception leaves `main`, pc `"traceback"`, which `Unspoken`
names in the properties it is an exception to (section 5).  A cut or empty printout
is one of this calculation to `Answered`; that it is whole is `LeftWhole`.

### DiskCache

`dir` maps each key to the file under its name and `order` is the order of
their mtimes; `tmp` is the temporary file of each process; `mem` is what a
process holds.  A grid is its set of filled nodes.  `fetch_or_fill` and
`note_mutated` are broken where another process can come between: load, touch,
fill, open, write, replace, scan, and one turn of the eviction loop.

Abstractions: the scan of the directory with the `stat` of its entries is one
step; a temp file old enough to be swept is one of a dead process; the unlink
of an existing file succeeds; files that do not verify are one value, cut ones
another; the memo of the binary's digest is advice that a lost update may drop,
and is left out; `note_seen` is in `SweepAnchors`.

### SweepAnchors

Each process has a program counter `pr[p].pc` through `get_grid_below` in mode
`auto`: the list of frequencies is read (`noting`) and put back (`telling`), the
table looked for (`fetching`), the anchors looked for (`readying`), walked and
grown (`gathering`, `growing`), or the table filled exactly (`filling`).  `seen`,
`anchors` and `exact` are the directory; `cache`, `fifo` and `grids` are a
process's own.  A frequency is its place on the ladder, a size its bucket of
1.25, and an anchor the pair of its size and its deferred regions.

Abstractions: one soil; whether a region lies on the anchors' lattice is a
choice; the values and rows are left out; modes `off` and `on`, watched fills and
the limit of the grid cache are not modelled; the list is never evicted.  The list on
disk is cut at `_SEEN_MAX`; the process's own, cut at 256 (`_SWEEP_SEEN_MAX`), is
taken to be shorter than that, so that `SweepCounted` is of sweeps of up to 256
frequencies a process.

### SolverCache

`_render_deck` for one deck at a time: `Arrive`, `_solver_for` in its three modes
(`BuildsUncached`, `Refuse`, `Hit`, `Miss`), a `Solve` for each group and frequency
or its `Raise`, the `Frame`.  `Raise` and the refusals are of the types `render_deck`
lists; a deck of `Unlisted` may raise another at any point from its reading on and ends
the session by it (`Escapes`, section 5).  `Destroy` is SimNEC's, at any moment.  A
solver records the deck it was `built` for, the deck it prints (`portal`) and
its fills; what is printed is a set of blocks, each with whatever the code takes
from the one deck and from the other, so that `Fresh(deck)` can be compared with
it.  Bytes are counted in fills.

### DeckReader

Both readers of a NEC-2 deck, card by card: `_Nec2Parser`'s fields carry their
names, `portal` holds the locals of `parse_deck`.  `parse_deck` runs when the
parser is done and takes from it which execute cards ran; since it looks at
nothing later than the card in hand, the two are advanced together.  `model` is
what `model()` assembles at the end, and `deck` is kept as a history, from which
the properties say independently what an execute card must be answered with:
they look back through the cards, the code carries state forward.

`dialect` is NEC-2 or NEC-4.2.  The latter drives ports by voltage or by current, one
kind to a port of the deck, has the extended kernel always and keeps a run of LD
cards open across EK, a rule that both readers have to know.

Abstractions: geometry is a given set of segments without symmetric cells; an LD
addresses one segment or all metal, for which there is one value (in the code LD 5 and LD 2
or 3 are two states that compose, `deck/_nec2.py:1260`); a group's loads stand in the order in
which they were met, where `model()` sorts their places (`:1387`): the properties
count loads and do not order them; what is printed for an execute card, refusals
of a card by its own fields and the second medium are left out.

### Nec5Stream

A text is a sequence of symbols, the two line breaks and one symbol for what a
line says.  The host writes pieces of any length, of which the engine reads any
part; `taken` and `read` are the two ends of `pending`.  `Chain` is the printouts
of the structures of the whole text that `render` gets as far as, defined on the text
at once from `split_structures`; the stream must come to it by pieces.  `FileAnswer`
is what a file with the text gets: the chain, or, if a structure of it raises, the one
INTERNAL ERROR printout that `main` writes for the file.  So `PrintsAsFile` compares
stream and chain piece by piece, and with the file's answer unless one raised
(section 5).

A `patient` host, as SimNEC is, writes the next structure when it has the printout
of the last; another writes on.  Both are checked.

## 3. What the runs check

Ten runs pass.  Two end in the violation of something a comment says; they are in
section 5.

| run | instance | what it shows |
|---|---|---|
| `pool_safety` | 3 frames, 3 slots, at most 2 workers, 1 fault | the pool refines `FrameService`, so no frame is solved twice; its counters are exact and no worker process is forgotten on any path (`Accounted`); the cap holds with starts counted in; replies, which carry no number, reach their own call; the OpenMP threads of all solves under way, the in-process one included, stay under the bound that shares fixed at checkout allow, which is more than the cores (`ThreadsBounded`) |
| `pool_liveness` | 2 frames, 2 slots, 2 faults | each call of `answer` that has begun ends; a closed pool leaves no worker process |
| `rendezvous_faults` | 2 clients, 3 servers, unix or loopback, 1 kill, 1 crash, slow starts, stops | until a client is killed or gives up: one server at a time, found at its address, which nobody takes from it, and a dead server's litter costs nobody a connection; always: an idle exit ends no accepted connection, every `obtain` and connection ends |
| `pump_session` | 1 session with each of 4 scripts, or 2 of which one host stalls; buffers and reads of two, answers of three parts; a client killed at any moment | the host reads its own answers, in order and all of them; `pending` is bounded; a host that stops reading does not stop the other session |
| `ladder_faults` | both decks, paths in latin-1 or not, a failure at every point | the client ends; it leaves a printout of this calculation or a word on stdout, and a whole one if the server outlives its answer, both unless the last rung could not encode a path; never a whole printout beside a wrong .GMO file |
| `cache_safety` | 2 processes, 3 keys, any directory left before, 2 calls each, 1 failing write, 1 kill | nothing torn is under a name or handed out; a store keeps what its process holds; the budget holds after concurrent evictions |
| `sweep_crew` | 2 processes, 3 tables, 3 asks, 1 kill, failing write or eviction, cancellation anywhere | anchors are bought for a sweep only, a crew counts as one and anchors that are there cost nothing (`SweepCounted`); a blend reads anchors that serve it; no smaller file shrinks what a process holds; every call ends |
| `solver_serve` | 9 decks, sessions of 4, each of the 4 modes, a cap of 4 fills | every deck is answered as a fresh process answers it; the solver in use is not evicted; statistics and their file tell what was solved; every deck is framed, but for one that raises what `render_deck` does not list |
| `deck_reader` | every deck of up to 6 out of 14 cards of NEC-2 or 9 of NEC-4.2 | an execute card is answered with what NEC's rules of retention and contiguity make of the cards before it; loads count as often as they are written; the printout's groups are the model's |
| `nec5_stream` | 649 texts of two structures or three lines with every line break | each structure is answered in its turn, and unless one raises the printouts are those of a file with the text; a host that waits for its printout is not kept waiting; the stream ends |

**Bounds.**  *Pool*: three frames over two workers are the least at which a
thread waits while another's worker dies and a third slot is started; one fault
reaches every error path of one call, and two frames with two faults let a
death and a failed start meet (the fallback).  A third try needs three lost
workers and is covered by the proofs, for every `MaxFaults`.  *Rendezvous*: two
clients race for the lock with what either read before; three
servers are an old one that leaves, a new one and one more.  *Pump*:
capacities of two with answers of three parts make every write partial at least
once, and reads of two split and join frames; longer scripts repeat the same
states.  *Cache*: two processes with overlapping scans and three files over a
budget of two nodes make each eviction see a directory the other has changed.
*Sweep*: two frequencies in one window and a third table of another size are
the least at which a trigger of two is reached by two processes, by one alone,
and not at all; `SeenMax` and `AnchorMax` of two are reached; three asks let a
second table or region meet what a first left, of the same process or the other.
*Solver cache*: with a cap of four fills three small structures, or one that is
alone too big, make eviction and overshoot; four decks are a miss, its eviction,
a miss again and a hit.  *Deck reader*: six cards are two execute cards with their
sources and loads before and between them; the sixth card can only matter if it
executes, so other decks of six are not made.  *Stream*: every break before and
after every kind of line, cut at every symbol.
Every constant that caps a counter is named `Max...` and documented where it is declared.

**Symmetry** is used only in runs without liveness properties, over sets of
model values that no definition distinguishes.

**Deadlock** is checked in every run but two: in `pump_session` a stalled host
and its client may wait for one another for ever, and that is a case looked at; in
`deck_reader` a deck that is read is an end.  Elsewhere a `Finished` step marks the
states in which a system may rightly stop.

### Fairness

Weak fairness everywhere; strong fairness nowhere.

* *Pool*: threads run (the operating system's scheduling), a started worker gets
  ready or is given up at the ready timeout, a worker's solve ends, `stop`
  returns (its wait has a timeout and ends in a kill).  Nothing obliges a
  fault, a close or the end of a back-off.  A solve that never ends is outside:
  the code sets no timeout on a solve either, and `answer` would wait.
* *Rendezvous*: clients go on with `obtain`, a server with its start and its end,
  a connection's thread finishes.  Nobody has to be idle, killed or stopped.
* *Pump*: `select` reports every ready descriptor in each pass and the pass
  serves each in turn, hence fairness for each of the pump's branches
  separately; the stalled host gets none for reading.
* *Ladder*: the client and the server's thread run.  The child gets no
  fairness: its timeout is a step of the client.
* *Sweep*: a process that is not killed goes on with its call; no process waits
  for another.
* *Solver cache*: the engine goes on; SimNEC is not obliged to destroy it.
* *Stream*: the engine runs, the host writes what it has and closes its end.

## 4. What is proved

For every value of the constants that satisfies the named assumptions
(`PoolAssumption`, `RendezvousAssumption`, `PumpAssumption`, `LadderAssumption`,
`CacheAssumption`, `SweepAssumption`, `SolverAssumption`, `ReaderAssumption`), so for
any number of frames, workers, clients, servers, sessions, lines, processes, keys,
frequencies, decks, cards and faults, and buffers, reads and answers of any size.

**WorkerPool** (`WorkerPoolProofs`): `TypeCorrect`, `MutualExclusion`,
`NoCrossTalk`, `AtMostOneSolve`, `IdleClean`, `Cap`, and `Refinement` of
`FrameService`.  `MutualExclusion`, `AtMostOneSolve` and `IdleClean` are facts the
others rest on and no run repeats.  None of the safety properties is inductive
alone.  `IInv` adds what the code relies on without writing it down:

* `Checkout`: a thread has a worker exactly between `_acquire` and `_release` or
  `_lost`, and the busy flag is set meanwhile - hence two threads never hold
  one worker;
* `PipesOwned`, `InboxMatches`: whatever is in a worker's pipes belongs to the
  one thread that waits on it - hence a reply without a number is one's own;
* `DeliveredOnce`, `TriesLeft`, `ReceivedOwn`: how far a call has come says
  how often its frame was delivered - hence a retry is never a second solve;
* `Apart`: the pool's list, the processes being started and those being stopped
  are disjoint, and the server exits only after the pool is closed.

`Cap` has an invariant of its own.  So has `CountsAreExact` (`Accounted`): besides the
counters themselves, `AccountedInv` says that no process is closed twice (`ClosesOnce`)
and that each belongs to the list, a start, a caller or a stop (`Tracked`);
the counters are cardinalities, so each action's step adds or removes one
element (`FiniteSetTheorems`).  `ThreadsAreBounded` (`ThreadsBounded`) rests on the list: while the pool is open a
living worker that is checked out is on it (`InPool`), so the frame that is the n-th
to get a worker sees at least n and is given an n-th or less (`Shares`, for
all frames with a living worker).  Of any k of them one has then a share for k
workers or more (`SmallShare`), and taking it out of the sum (`TakeOut`) leaves k - 1
of which the same holds: the sum is at most the first k steps of the staircase of
shares (`Stairs`), which falls (`SharesShrink`).  The in-process solves are one at
most, the one that holds `fallback_lock` (`OneInProcess`).  `Refinement` maps each step to `Take`,
`Finish`, `Refuse`, `Abandon` or a stutter, from `IInv`.

**Rendezvous** (`RendezvousProofs`): `TypeCorrect`, `Belongs` and `IdleExit` hold
whatever is killed (`CInv`).  `OneAtATime`, `Found`, `Kept` and
`FailsOnlyWithItsChild` assume `Orderly`: no client is killed and no server takes
longer than `SPAWN_TIMEOUT` to listen; the assumption is needed (section 5).
Under it `OInv` says that a starting server has a client that holds the lock and
waits for it (`Guarded`), that after its second connect the lock's holder is
alone (`Alone`), and where the address file points at each point (`Addressed`).
Server crashes, stops and idle exits are in the theorems without a bound.

**SessionPump** (`SessionPumpProofs`): `BuffersKeepTheirRoom` (`TypeOK`),
`HostsReadTheirPrintout` (`InOrder`) and `OutputIsDrained` (`Drained`), all from
`PumpInvariant`.  `InOrder` compares two ends of a chain of seven buffers, so
the invariant has to say where everything between them is.  For each session there is
a number k of lines the server's thread has taken, such that

* `Reads`: the wire, which is the socket and then `pending`, is a sequence of frames
  (`Parses`), the first of which may have begun; its lines are numbered on from what
  the reader holds of a frame (`InHand`) and end where the host's pipe begins
  (`Linked`), and an empty frame is at its end and nowhere else;
* `Engine`: what the thread has written, of which the host's reads, its pipe,
  `data` and the socket hold parts in this order (`Emitted`), is what the stock
  engine has printed after k lines, one line less or one answer more according
  to the thread's program counter;
* `EndsLast`, `Leaves`: in a session without an EN the thread ends only at the end of
  the input, and what a client leaves behind is a beginning of the printout,
  the whole of it if the client ended by itself.

A step then moves a piece from one buffer to the next, which changes neither
the wire nor what was emitted (`Passes`, `StreamKept`), or adds a line at one end
(`WireGrows`) or takes one at the other (`WireDrops`, `FrameBody`).
`Drained` does not hold of a script with an EN (section 5, `pump_en`): `OutputIsDrained`
assumes that no script has one, and `ClientsDrain` needs it only of the session's own.

**EznecLadder** (`Nec5Proofs`): `LadderAnswers` (`Answered`),
`LadderWritesGmoFirst` (`GmoFirst`) and `LadderLeavesWhole` (`LeftWhole`), with
`LadderTyped`, from `LadderInvariant`.  What is in a file depends on every rung
that was tried, so `LadderInv` ties the program counters of client, child and
server's thread to both files: what can be in each (`Contents`), that an answer
the client took was on the connection (`AnswerTaken`, `Wires`), that client
and child never write together (`Turns`), that the printout is touched
after the .GMO file only (`Order`), and what an end leaves (`Endings`), the
traceback of the last rung included.
`NeverCut` is not among them: the code violates it (`ladder_cut`).

**Nec5Stream** (`Nec5Proofs`): `StreamPrintsAsFile` (`PrintsAsFile`) and
`StreamAnswersBeforeReading` (`AnsweredBeforeReading`), for any set of texts,
however the host cuts its writes; of the inputs they need `InputsAreTexts` only.
The engine finds lines in its buffer, and the file's
chain finds them in the whole text, so the proof is about when these are the same
lines.  `Boundary` says where the buffer may start: where a line of the text
starts, or, right after a cut at a bare CR with nothing read behind it, inside
a CR LF (`swallow`).  Lines of such a buffer are lines of the text, but for a
last CR that may be half a break (`SameLines`, `SameClosers`); so what
`next_structure` cuts is the text's next structure (`CutIsNext`, `CutIsPiece`), its
end is again a boundary or leaves `swallow` set (`CutEnds`), and what is left over at
the end is what the file has after its last closing line (`RestIsTail`).
`WholeStructures` says that what has left the buffer ends with a closing line,
`Printouts` that the printouts written are those of the closing lines behind, in
order, none of which ended the run, and `NoneWaits` that nothing the engine could cut
is in the buffer when it reads.

**SweepAnchors** (`SweepAnchorsProofs`): `AnchorsAreBoughtForASweep` (`SweepCounted`),
`BlendsAreServed` (`AnchorsServe`) and the action property `MemoryNeverShrinks`
(`NeverShrinks`), for any number of processes, rungs, sizes and regions.
`SweepInv` has a part for the shared list (`ListKept`: it holds only frequencies asked
for and, as long as no note was lost, all that were noted) and three for each process: what it
read of the list and what it decided from that (`Counts`), how far an anchor walk has
come and that each anchor gathered serves (`Walks`), and that it still holds what it
found large enough, but for what its own cache dropped (`Holds`), whatever other
processes put in the files meanwhile.
The proof needs that `"none"` is not the name of a region (`SweepAssumption`).

**DiskCache** (`DiskCacheProofs`): `Untorn`, `HandedOutWhole`, `NothingLost` and
`DirectoryFits` (`Budget`), for any directory left by earlier processes.  `CacheInv` adds to them what each file,
temp file and grid in memory can hold (`Contents`), and that a process between
load and replace carries a grid with at least the nodes it has in memory
(`Calls`).  One lemma (`OthersKept`) says that a step of one process leaves the
calls of the others alone; it rests on the sweep of temp files taking only
those of dead processes.
`DirectoryFits` needs to know what an eviction under way can rely on while others
read, write and evict (`SizeInv`).  Of the last process to write, `Going` says that
the total it goes by is not less than the size of the directory (each file it
takes away, or finds gone, leaves both, and files go but do not come, since whoever
wrote would be the last to write), and that every file that is left, but
the one it wrote, is ahead of it with its size; so when its list is at an end the
directory fits or holds that one file.

**SolverCache** (`SolverCacheProofs`): `Typed`; `Answered`; `Resident`; `AtBoundary`;
`Told` (`StatsTell`).
`Answered` has the hypothesis `KeyTells`: decks with one operator key agree on
their tags and on the places of their runs, the two things the key leaves out and a
held solver still answers by (section 5 says what happens where they do not).
Under it everything else a hit could take from the older deck is either in the
key or read from the deck that arrived.  The invariant `AnswerInv` says that a held
solver stands under the key of the deck it was built for and holds no fill that
raised (`HeldInv`), and that what has been printed so far is the part of the
fresh answer up to the run and frequency in hand (`RenderInv`).  `Resident` rests
on eviction taking from the front of the order and never the last; `AtBoundary`
on the counters moving once between two frames.
`Told` ties the counters to what the cache holds and to what was asked (`TellInv`): the
keys of the cache have been solved for, and are all of those until an eviction
(`Known`); until then the fills asked for are exactly the fills held (`Asked`); only
the most recent entry's size can be out of date (`Exact`), which is why a pass that
measures that one entry first counts every byte.
The proof found a fault of the model: the history once took a deck's first fill as
asked when the deck arrived, which on a hit is before any solver made it.  With decks of
one key that start at different frequencies, now among those of `solver_serve`,
TLC finds `FillsOnce` violated then.

**DeckReader** (`DeckReaderProofs`): `Drive` (`SameDrive`), `Asked` (`AnswersAsNec`) and
`InForce` (`LoadsInForce`), for both dialects, every set of cards and every length of deck.
`Drive`: the groups of the printout are those of the model, in number, in which of
them ran and in their sources but for the voltage of a zero-volt source.  `StepInv`
keeps the two readers' sources, their staleness and their groups alike while cards
are read.

The other two say at the end of a deck, of all its cards at once, what the reader has
made of them one at a time.  A group is of an execute card, of the one whose rank
among them is the group's number, and what it must answer is said of the cards before
that place.  So the proof has three parts.  What is said of a place that was there
stays with one card more (`BeforeSame`, `LastRunSame`, `SourcesSame`, `LoadsSame` ...,
together `SaysSame`).  What is said of the place where the next card will stand changes
with the card's kind (`LastNext`, `RunNext`, `SourcesNext`, `LoadsNext`, `OpenNext` ...).
And the reader's state is what is said of that place: its flags are an order of places
(`FlagInv`: `freshFr`, say, is that the last FR comes after the last run), its
sources, kernel and networks are those in force there (`SourceInv`, `OperatorInv`,
`NetInv`, the last with the reason why no group forgets a network: a card that
destroys one has later ones refused).  A group made at that place then answers it
(`SaysNow`) and goes on answering it (`GroupInv`).
For the loads `CountInv` says that an entry is among those in force as often as the LD
cards in force state it, through the log in which a card finds its entry or adds it
(`LogNext`), and
`PlaceIs` that numbering the loads all groups share loses none.  `PrintInv` lays the
rows of the walk beside them, one for one.
`InForce` states `LoadsSolved`, the half about the solve, of every deck, and the whole
of `LoadsInForce` of a deck whose geometry comes before its first LD card
(`GeometryFirst`): section 5 says what the two readers make of one whose does not.

**Induction.**  The library's induction theorems take an operator as a
parameter, which the provers here cannot instantiate.  Where a proof needs
induction over numbers it uses the set of the numbers for which the claim
holds: a set of naturals with 0 and every successor is `Nat` (`SetInduction`, from
`WFMin` and the well-foundedness of `<`).  So `Stock`, the recursive reference
of the session, is shown to have a solution (`StockRuns`) and to print on only
(`StockGrows`).  Sums over the files of the directory and the keys of the solver cache
are recursive functions on subsets: by induction over the number of elements
they have a solution (`AddsUp`), and weights that differ at one key only have sums that
differ by as much (`TotalMore`, `TotalLess`).

**Only model-checked**: the liveness properties (`EveryCallEnds` of the pool and of a
sweep, `NoOrphans`, `EveryObtainEnds`, `EverySessionEnds`, `AlwaysEnds`,
`EveryStreamEnds`, `EveryDeckFramed`), out of the prover's reach with ENABLED and
fairness.  Every safety invariant and action property of a passing run is stated by
a theorem, under the hypotheses named above.

## 5. Findings

Each of these two is a run of its own with TLC's counterexample.

* `pump_en` (bug): after `EN` the server closes; the pump's send of anything
  that follows raises and the pump returns with the answer unread.
  Reproduced with the real `pump` on a socket pair.
* `ladder_cut` (bug): the client takes the end of the stream for the end of the
  answer.  A server that dies, or exits with its daemon threads, in the
  middle leaves a cut or empty printout that is reported as an answer.

Met while modelling, and not the subject of a run:

* *A killed client* (`src/src/momwire_serve_client.py:1178`).  `obtain` unlinks an
  address it found refused a moment before without asking again.  If the client that
  started a server is killed while that server starts, the next client's unlink
  can take the address of the server that began to listen meanwhile; it lives
  on unfound until it idles out.  Hence `Orderly`.
* *The closing window* (`serve/_server.py:284`).  A client that connects between a
  server's idle test and its `listener.close()` is reset, after `obtain` has
  returned.  `IdleExitKeepsAccepted` speaks of accepted connections only.
* *`WorkerLost`* (`serve/_pool.py:731`).  After three workers lost before the frame
  reached any of them `answer` raises, which `serve/_session.py` says it never
  does; `FrameService` allows it, for frames no solver had.
* *Shares that add up* (`serve/_pool.py:61`, "Threads are divided").  A share is fixed
  at the checkout and not taken back when the pool grows, and a solve in this process
  has no limit: with 4 cores, 8 hardware threads and two workers, a frame with the
  lone worker (8), one with the second (2) and an in-process solve begun during the
  back-off (8) run together on 18 threads.  `ThreadsBounded` is that sum, and TLC finds
  it reached in the instance of `pool_safety`; it is a bound, not a division.
* *A hit on a deck with other groups* (`dropin/nec2c/_portal.py:2142`).  A hit reads
  loads by the arriving deck's group index from the deck the solver was built
  for, while the key (`:2913`) leaves out the groups that ran nothing: two decks
  that differ only in an execute card that runs nothing share a key and not
  their indices.  Tags (EX and LD addresses) are outside the key likewise.
  This is what `KeyTells` excludes; the decks of `solver_serve` satisfy it.
* *A source of zero volts* (`deck/_nec2.py:464`).  The dialect drives it at 1 V;
  `parse_deck` (`_portal.py:1380`) keeps 0 V, and `_driven` (`:2335`) drives the
  printed solve from that one, though `PortalDeck`'s docstring says that the two
  readings must agree about drive.  `SameDrive` leaves this voltage out.
* *A geometry card between two LD cards* closes the dialect's run of loads
  (`deck/_nec2.py:1186`) and not the walk's, which sets geometry aside first
  (`_portal.py:1348`): the table printed has rows more than the loads solved.  The decks of
  `deck_reader` have their geometry first, as NEC decks do.
* *A fill that raises in a solver's construction* is counted in `fills`
  although the deck is refused and "moves nothing" (`_portal.py:3055`);
  `FillsOnce` counts it as paid.
* *Cards left at the end of a stream* are refused as a structure cut short
  (`dropin/nec5/_shell.py:917`), as `render` refuses them; `run` closes a file's
  text first (`close_deck`, `:385`), so that a file named on the command line has
  its last deck solved.  `Chain` has what `render` prints.
* *A structure that raises behind others* (`dropin/nec5/_shell.py:698`).  In a file the
  exception leaves `_render_chain`, the printouts of the structures before it are lost,
  and `main` writes one INTERNAL ERROR printout for the whole file (`:1060`).  The
  stream has written those printouts by then and adds the INTERNAL ERROR of the last
  piece (`_stream_piece`, `:810`).  `stream`'s docstring says both that its printouts "are the
  ones a file holding the whole stream gets" (`:874`) and that an exception "ends the
  stream after its printout"; the first does not hold then.
* *An exception `render_deck` does not list* (`dropin/nec2c/_portal.py:3919`, `:3982`).
  A geometric FR that overflows (`start * step**i`, `deck/_nec2.py:447`) raises
  `OverflowError`, a line of separators alone `IndexError` (`deck/_cards.py:198`).
  Neither is caught: the deck gets no frame and no NX, and the session ends, although
  "`answer` never raises" (`serve/_session.py:37`, `_portal.py:4073`).
  `EveryDeckFramed` is of the decks outside `Unlisted`.
* *The last rung's encoding* (`src/src/momwire_eznec_client.py:229`).  `_last_ditch` catches
  `OSError` and writes strict latin-1; its reason quotes the paths of the command
  that failed.  With a path outside latin-1 the write raises `UnicodeEncodeError` after
  the file was truncated: an empty printout, nothing on stdout and a traceback, against
  "exit 0 always, always write the printout" (`:32`).  Reproduced with the real
  `_last_ditch`.  The child's own last word, `print` of such a path (`_shell.py:1100`), can
  raise likewise; its status is then a failure, and the ladder goes on.
* *Larger files lost* (`_sommerfeld_below.py:2656`).  A worker that has filled a
  smaller anchor stores it over a larger one; the regions that belong to the
  smaller size are dropped when a process adopts a larger file.  Both cost
  fills and no wrong value; `NeverShrinks` is about what a process holds.

## 6. Not modelled

Numerics (about nine tenths of the lines: the bases, the fills, the compression,
the accelerators) are floating-point functions of their inputs and are tested as
such; no property of theirs is a matter of reachable states.  Geometry cards,
circuit assembly and printout layout are data.
The C launchers restate the Python clients.  Argument handling, environment
variables, logging, the times reports and the naming of keys and directories do
not interact with anything modelled.  `_cancel`'s token is a byte that goes from 0
to 1; only what a poll interrupts is modelled, in `SweepAnchors`.

## 7. Plan

Done: the pool, its abstract service and proofs; the rendezvous and proofs; the
SimNEC session and proofs; the EZNEC ladder and proofs; the fill cache and proofs;
the NEC-5 stream and proofs; the solver cache and proofs; the sweep's anchors and
proofs; the deck readers and proofs.

A composition worth stating next: a server under
`Rendezvous` whose connections are frames of `FrameService`, so that an idle exit is
seen together with a solve.
