# anticent in TLA+

`anticent` is a small single-threaded HTTP server: a priority scheduler
(`job.cc`) over intrusive lists (`dlist.cc`), an edge-triggered epoll loop
(`eventable.cc`), an HTTP connection with a reader, a writer and requests
(`http.cc`, `httpreq.cc`), and a shutdown by SIGINT (`signals.cc`, `init.cc`).
Its difficulty is not parallelism but *order*: handlers delete objects,
themselves included, while pointers to them are held by the scheduler's walk,
by a batch of epoll events, by the signal subscribers and by parents; and
edge-triggered wakeups are lost for good if a handler does not use them up.

## Inventory

| component | state | operations | interacts with |
|---|---|---|---|
| scheduler, `job.cc` | `Jobs[5]`, `nJobs`, `shutItDown`; per job `priority`, `prevPriority`, `parent`; locals of `Scheduler` | `Schedule`, `Unschedule`, `Block`, `Ready`, `Scheduler`, `DeathRequest`, `Shutdown` | calls `vRun` of every job, and `Poll` when nothing ran |
| intrusive list, `dlist.cc` | `head`, `count`, links in the jobs | `Push`, `Remove`, `Pop` | the scheduler's five lists, `HttpConn::requests` |
| event loop, `eventable.cc` | epoll set, `nSockets`, the array `events[]` | `Add`, `Close`, `Poll` | calls `Event` of listener, connections, signals |
| listener, `http.cc` | `connCount`, `shuttingDown` | `Event` (accept), `vSignal`, `vDeathRequest` | child of `Init`, parent of connections |
| connection, `http.cc` | `state`, `reader`, `writer`, `request`, `requests` | `Event`, `NextState`, `Close`, `NewHttpRequest`, `vDeathRequest` | readies reader and writer, deleted by the listener |
| reader, writer, `http.cc` | `request` (text read), `buffer` (text to write) | `vRun`, `Parse`; `vRun`, `Write` | system calls through the connection |
| request, `httpreq.cc` | its text | `myRun` | writes to the writer, dies through the connection |
| signals, `signals.cc` | `Subscribers`, `foober` | `Subscribe`, `Event` | signals `Init` and the listener |
| init, `init.cc` | `nListeners` | `vDeathRequest` | deletes the listener, calls `Job::Shutdown` |
| lexer generator, `lex.cc` | syntax tree, `positions`, `followpos`, `states`, `transitions` | `ParseRegex`, `CalculateFollowPos`, `CreateDfa`, `GenerateMachine` | stand-alone |
| process table, `process.cc` | a counter and a list | `New` | nothing calls it |
| startup, `anticent.cc`, `init.cc`, `ipaddr.cc`, `listener.cc`, `v8main.cc` | descriptors, the signal mask, the subscribers; V8's threads for a while | `NewInit`, `Bind`, `SetAddrFromEth`, `Listen`, `V8Main`, `~Init` | once, before and after the loop; the world can already reach the process |
| superseded or vendored: `poll.cc`, `resource.cc`, `database.cc`, `test.cc`, SQLite | | | not called |

What makes each component correct: the lists are rings and agree with the
jobs' fields; the scheduler's saved `next` and count stay good while jobs move;
the counters agree with the objects that exist, since the loop, the shutdown
and the deletion of the listener test nothing else; no wakeup is lost; a
request is answered; a shutdown ends. `PROJECT.json` lists the hazards at their
lines.

## Modules

| module | models |
|---|---|
| `JobQueue` | `Jobs[]` as one sequence per priority; `Schedule` (as `Push`), `Unschedule`, `Block`, `Ready`, and `next` in the circular list |
| `JobLists` | abstract specification: every legal sequence of scheduler calls on any jobs, with the fields `priority` and `prevPriority` |
| `DList` | the same calls on the real pointers (`next`, `previous`, `head`, `count`); implements `JobLists` |
| `DListProofs` | proofs about `DList`, and that it implements `JobLists` |
| `JobQueueProofs` | lemmas: what the operators of `JobQueue` do to the lists |
| `Extremes` | lemmas: sets of numbers have a least and, if bounded, a greatest element |
| `HttpStates` | `HttpConn::NextState` as a table |
| `Sockets` | external: clients, SIGINT, and what the kernel keeps (receive and send buffers, accept queue, epoll's interest and ready lists) |
| `Anticent` | the whole server: `Scheduler`, `Poll` and every handler, composed with `JobQueue`, `HttpStates` and `Sockets` |
| `HttpService` | abstract specification: what clients and the operator are promised, with no jobs, lists or events |
| `AnticentProps` | the server's properties, and its mapping to `HttpService` |
| `AnticentProofs`, `AnticentWakeProofs` | proofs about the server, the second on top of the first: objects and counters, then run queues; epoll, the types and the refinement of `HttpService` |
| `HttpText` | the reader's `read()`s and `Parse()` byte class by byte class, and the search for the Cookie header |
| `HttpTextProps` | what `Anticent` takes for granted of them, and what a comment says of the search |
| `HttpTextProofs` | proofs about them |
| `Startup` | `main()` system call by system call, with early SIGINTs and clients, and the end; its properties |
| `StartupProofs` | proofs about it |
| `SyntaxNodes` | the nodes of the lexer generator's syntax tree, with nullable, firstpos and lastpos |
| `Dfa` | its machine: subset construction and the walk that prints the switch, behind any parser; their properties |
| `DfaProofs` | proofs about `Dfa` and `SyntaxNodes` |
| `Lexin` | the lexer generator: recursive descent parser and followpos, in front of `Dfa` |
| `LexinProps` | the language of an expression, the grammar of the parser's comment, and the properties |
| `MCDList`, `MCAnticent`, `MCHttpText`, `MCStartup`, `MCLexin` | small instances for TLC |

### Actions and code

| action | code |
|---|---|
| `Top`, `NextList` | the loops of `Job::Scheduler` (`nRunnable` and `iJob` are read once per list) |
| `ReaderRun`, `RequestRun`, `WriterRun` | one turn of the inner loop: `next` is saved, the job runs to its end, deaths included |
| `Poll`, `PollDone` | `epoll_wait`, and the end of `Eventable::Poll` with the countdown |
| `ConnEvents`, `ListenerEvent`, `SignalsEvent` | one event of the batch |
| `Connect`, `Send`, `Fin`, `Reset`, `Drain`, `Sigint` | the world |
| `Exited` | the process is gone |
| `Read`, `RequestRun`, `Wake` (of `HttpText`) | one round of the loop of `HttpReader::vRun`; `myRun` up to the header; EPOLLIN |
| `Sigprocmask`, `Signalfd`, `AddSignals`, ... (of `Startup`) | one system call, or what stands between two, of `main()` in the order of `Steps`; `Fails` is any of them failing |
| `Parse`, `CalculateFollowPos` (of `Lexin`) | the recursive passes of `lex.cc`, one step each |
| `CreateDfa`, `GenerateMachine` (of `Dfa`) | one turn of the loop over symbols; one turn of the loop over states |
| `Generate`, `Generated` (of `Dfa`) | `CreateDfa`'s worklist is empty; the switch is printed |
| `Prepare` (of `Dfa`) | not code: any pass before `CreateDfa`, of which only the kind of its results is known |

A handler is one action because nothing interrupts it. What can happen in
between is what clients do, and they act between any two handlers and between
`epoll_wait` and each handler. Within a handler clients matter only to the
reader, which makes several system calls: its loop is one step in closed form,
because data that arrives between two reads might as well have arrived before
the first (`TurnAtomic` checks that against a reader whose reads are steps of
their own). One exception is kept: a SIGINT that arrives while `Signals::Event`
loops over the signalfd (`more`).

The build is the one `run.sh` runs: assertions on, AddressSanitizer on. A failed
assertion or a use of freed memory therefore ends the process, and `exit` says
why. The properties about objects that live are about a process that has not
ended.

### What is abstracted

- Request text is a sequence of pieces: `"end"` (the blank line), `"cookie"`
  (the name `Cookie`, anywhere) and `"text"`. That the reader finds the pieces
  however TCP cuts them is what `HttpText` checks with the bytes: line ends, the
  colon, space, NUL, and the header's name as one letter. That nothing but the
  name decides whether a request ends the process is lemma `Searched` of
  `HttpTextProofs` (what should decide it is another matter: run `emptyHeader`). `BUFSIZE` counts pieces in `Anticent`, bytes in
  `HttpText`, where the connection's state is reduced to whether a request is
  in flight. The
  response is `RESPONSE` units; its wording is left out.
- `prevPriority` of a job of the server is a constant of its kind (writer HIGH,
  others LOW): no other value is ever passed to `Schedule` or saved by `Block`.
  `priority` is the list the job is on; that the field and the list agree is
  what `DList` proves (`RingInv`).
- `HttpConn::requests` is left out: what pushes on it ends the process in the
  same handler (`NextState(EWORKTODO)` in CONNIOWORKING), so it is empty
  whenever it is read. `Init::shuttingDown` is written and never read.
- Branches without a caller: `CONNREADONLY` and `ECLOSEWRITE` (kept in the table,
  not reachable), reader's and writer's `vDeathRequest`, `HttpListener::Shutdown`,
  `Eventable::Ignore`, `SetPriority`. `EPOLLHUP` without `EPOLLERR` does not
  occur on these sockets.
- `Lexin`'s passes run in the order of the lines `main()` has disabled, as it
  calls only the empty `Parse()`. `ReadFile`, the dumps and the frame around
  the generated switch are left out; the frame skips the first character and
  never returns true, and the final states are not computed, so the properties
  take the position of the last end marker as final. The read past the end of
  `transitions` (line 308) is a choice: harmless, or `phase = "overrun"`. `CreateDfa`'s
  first line, which pushes the root's firstpos, belongs to `CalculateFollowPos`.
- `Startup` takes `Job::Scheduler` as one step, whose effect on the counters is
  what `ObjectCounts` and `ParentOutlives` say of a server without a listener.
- Not modelled: a failing `epoll_wait` (EINTR), running out of descriptors,
  the accept queue's limit, the NDEBUG build; `process.cc` (no caller), `poll.cc`
  (the predecessor of `eventable.cc`, not called) and the stubs `resource.cc`,
  `database.cc` and `test.cc`; V8; and SQLite's vendored sources (`shell.c`,
  `sqlite3.h`, `sqlite3ext.h`: nine tenths of the lines under `src/`, and not
  used by the server). What is left unmapped of the repository's own files is
  tracing, comments, code under `#if 0`, and what has no caller.

## Runs

| run | instance | shows |
|---|---|---|
| `dlist` | 3 jobs, 5 lists | types, inverse links, exact counts, the assertions of `dlist.cc`, the inductive invariant, and that the pointers implement `JobLists` |
| `safety` | 2 connections, 2 pieces of input, 2 SIGINTs, 2 events per batch | counters, run queues, saved pointers, event targets, the accept queue and the shutdown agree about which objects exist; the invariant the proofs use (`ServerInv`); the server implements `HttpService` |
| `stream` | 1 connection, 5 pieces of three kinds, buffer of 2, 1 SIGINT, 1 event per batch | no lost wakeup for input or room, the state machine tracks the request in flight, the writer never runs empty, a closed connection does nothing under its old descriptor |
| `liveness` | 2 connections, 2 requests, 1 SIGINT | requests are answered, input is read, a SIGINT ends the process unless connections stay, and then with the last of them |
| `text` | texts of up to 6 line ends and others around a blank line, two requests and a rest, every request text of up to 3 letters, and NULs; 2 bytes per read; every cut into segments | requests come out as they were sent, turns are atomic in effect, the header search stays in its text |
| `startup` | every list of up to 3 interfaces, 2 clients, 2 SIGINTs, any call may fail | SIGINT is never taken by default once it has a descriptor, the server starts in `Anticent`'s initial state with wakeups for what came early, on an address of the interface, and at a normal exit the three counters are 0 and the descriptors epoll watched are closed |
| `lexin` | every text of up to 6 characters over 2 letters, operators and a newline | the tree has the language the grammar gives the text, `firstpos` is exact, the automaton accepts that language where `lastpos` is right, states and transitions are well formed, the switch is complete; parser and tree walk are a `Prepare` of `Dfa` |

The bounds. Three jobs are needed for a ring with a head, a middle and a tail,
and let two lists of several jobs coexist. Two connections are needed for two events
in a batch, two writers in one list, and the last but one connection of a
shutdown; what happens inside a connection does not depend on the other
(`stream` has one, with input long enough for reads that fill the buffer once
and twice, and for a request that ends inside, at the end of and beyond it). Two SIGINTs
are needed for the double exit. Two events per batch (`safety`), or
one (`stream`), are fewer than there are sources, so that batches leave ready
sources behind; in `liveness` every batch holds all. Two bytes per read cut a blank line at every place, and make reads
that fill the buffer the common case. `MAX_SHUTDOWN_SECONDS` is 2 instead of 5, a
countdown like any other. Symmetry is used in runs without liveness only.
Six characters are enough for a starred alternative in parentheses,
`(a|b)*`, and an alternative or a nested group inside a concatenation.
All runs but `lexin`, which ends, check deadlock: the server never gets stuck,
since `epoll_wait` times out, and a process that has ended loops.

Fairness is `WF_vars(Server)`: one thread that is always runnable, as `epoll_wait`
returns after 30 s (1 s in a shutdown) at the latest. Nothing is assumed of
clients; liveness is therefore stated up to the end of the process, which a
client can bring about.

### Where the code departs from its comments

Five runs refute a statement found in the sources; each is a finding in
`PROJECT.json` with the lines quoted. The statements are about what a client or the
operator may expect, and the code departs from most of them in several ways;
TLC stops at the first counterexample it meets.

| run | property | what refutes it |
|---|---|---|
| `connectionEnds` | `ConnectionEnds`: a connection whose client closed or reset it is deleted at last | (a) a reset before the first request leads to CONNCLOSED, which no event leaves; a shutdown after one never ends. (b) The reader blocks after a short read; an end of file that came with the data raises no further edge. (c) End of file before the first request, or while one is in flight, and an error on an idle connection have no transition: `assert(error == false)` |
| `requestsStarted` | `RequestsStarted`: a request sent to the listener is started at last | (a) one `accept4` per edge: of two connections behind one wakeup, the second waits for a third. (b) Of two requests read at once, the second is not started when the first is done. (c) A second request read while one is in flight has no transition |
| `owedDelivered` | `OwedDelivered`: no client that did not reset its connection loses what it is owed | (a) half of a response is written, the client closes its sending side, and the connection is deleted with the other half. (b) A response just fills the send buffer and a second request is answered: the writer is readied, gets EAGAIN and asserts false |
| `deletedUncalled` | `DeletedUncalled`: nothing deleted is called | (a) a SIGINT after the listener's death, or a second one in the loop that deletes it, signals the deleted listener. (b) SIGINT and a new connection in one batch, SIGINT first: the deleted listener gets its event |
| `emptyHeader` | `EmptyHeaderAsNone`: only a Cookie header with a value ends the process for its session | (a) the value of a header starts at its colon, so that an empty one is not empty. (b) The name in a path with a colon anywhere behind it counts as the header, as the pattern that would look for one (`httpreq.cc:97`) is not used |

The passing runs say what is true beside these. `EventTargetsOpen` speaks of
connections, not of the listener. `ObjectCounts` counts a connection in CONNCLOSED
as one that lives, as the code does. `RequestAnswered` is about requests in flight,
not about those read ahead. `HttpService` has actions for two of the departures, `Leave` (what
a client is owed is dropped when it closes its sending side) and `Fail` (a
connection that failed before its first request is kept), and `Crash` for a process
that ends, so that the refinement holds in spite of them.

Other departures have no run of their own; the model has them, and the properties
leave them out by a condition. A NUL drops the rest of its read (`FramedAsSent` is
about input without one). In `lex.cc`, `ParseT` takes two parentheses for one and
`((a))` is refused (`ParsedAsGrammar` excludes such texts); and `lastpos` of a concatenation
and of a star is made of the children's `firstpos` (lines 371, 373, 376), so `(ab)*`
and `abb*` become automata of other languages: `AcceptsLanguage` is about trees in which
`LastposExact`. The read past the end of `transitions` (line 308) is the phase
`"overrun"`; `SwitchComplete` is about what was printed before it.

## The abstract service

`HttpService` is what remains of the server for its clients and its operator: a
connection is new, busy with one request, or idle; each answer adds one whole
response to what the connection is owed; deliveries take from it; the door
closes behind the last connection after a SIGINT, and the process stops only
then. The mapping in `AnticentProps` reads `stage` off `HttpConn::state`, `owed`
off the writer's buffer, `door` off the listener and `shuttingDown`, `outcome`
off `exit`. Run `safety` checks that every step of the scheduler, of a job, of an
event handler or of a client is a step of the service or none. The process may
die at any time as far as `HttpService` is concerned (`Crash`); when it does is
what the runs above that refute statements are about.

## Proofs

All theorems are for every value of the constants that the named assumptions
allow: any number of jobs or connections, any input, any number of SIGINTs, any
alphabet. Every safety invariant the runs check is proved but for the four about
`Lexin`'s recursive parser, and so are the refinements of `JobLists` and
`HttpService`. `PROJECT.json` lists the theorems.

### The lists

`DListProofs` proves for every finite set of jobs that each run queue is one
ring. The invariant the runs check, that `next` and `previous` are inverse and
stay in one list, is not inductive: two disjoint rings with the same priority satisfy
it, and then `Remove` of a ring of one (`next == link`) would null the head of a
list that still has jobs, with a count that is not 1. The strengthening is
`RingInv`: for each list there is a sequence of `count` distinct jobs from head to
tail along which `next` and `previous` lead, and it holds every job whose
`priority` names the list. The lemmas `PushRing` and `RemoveRing` say what the two
list operations do to that sequence (`Longer`: append; `Shorter`: drop one
position); `MoveRing` composes them for `Block` and `Ready`. Inverse links, exact
counts and the assertions follow (`RingsLinks`, `RingsCounts`, `RingsAsserts`).

The same lemmas give the refinement, `PointersImplementLists`. The mapping walks
each list by `next` from its head, `count` steps, as a recursive function; that
the walk of a ring *is* the ring's sequence (`WalkIsRing`) needs no induction
principle: if they differed there would be a least position where they do
(`Extremes`), and it is neither the first nor after one where they agree. With
that, `Longer` and `Shorter` are `Append` and `RemoveFirst` of the abstract lists,
and each scheduler call on the pointers is the same call on the lists.

### The server

The server's inductive invariant is `ServerInv`, of which `LifetimeInv` is the
first part, and the types. It is proved in three layers; each uses the ones below
and none above.

1. `AnticentProofs`, first half: counters are exact (`ObjectCounts`) and a parent outlives
   its children (`ParentOutlives`). Neither is inductive. Counting is only right
   if a connection is created for a socket that has no object yet, hence
   `Unaccepted` (each connection is in the accept queue once and then without an
   object), and if no connection dies with a request in flight, hence
   `StatePhase` (CONNIOWORKING and CONNWRITEONLY are exactly the states with a
   request, and CONNDEATH and CONNREADONLY are never seen between handlers). A
   normal exit follows the listener's death because the countdown is positive only
   then and `nJobs` is never 0: `Signals` and `Init` are never deleted. There is a
   lemma per effect on one connection (`Dying`, `ClosingConn`, `Starting`,
   `Finishing`; `Ending` for the process), a lemma per handler that picks the
   effect, and `Targets` for what the state machine can do. This layer needs
   nothing of the run queues: it holds whatever the scheduler's order.
2. `AnticentProofs`, second half: `JobsInv` is `LifetimeInv`, `Places`, `Bytes` and `Walk`.
   That each job that exists is on one list and no deleted job is on any
   (`JobsScheduled`) is not enough to go on. `Places` adds *which* lists: a reader is at LOW or
   blocked, a writer at HIGH or blocked, a request at LOW. So a job that runs
   can append at most one job to the list being walked, remove at most itself, and never
   touches the one after it. That makes the saved pointer good
   (`WalkGoesOn`, then `SavedNextGood`). `Bytes` (a ready writer has bytes,
   bytes come from a request) gives the writer's assertion; `Walk` says that a pass
   that ran nothing found every list it passed empty, so that no request is in
   flight when `Poll` dispatches events (`RequestPhase`). The lemmas of `JobQueueProofs` say who is
   on which list after `Push`, `Unschedule`, `Block` and `Ready`; the sequences
   themselves appear in them only.
3. `AnticentWakeProofs`: `Wakeups` and `Countdown`. That a blocked reader with
   unread input has a wakeup coming (`InputWatched`) is inductive only with the
   kernel's side of it: epoll watches the open connections and no others, a batch
   holds only watched descriptors (so `Close` drops events of the same batch), a
   reset is pending until its event is dispatched. The listener's event is only
   raised with a connection in the backlog, and while it is in a batch only its own
   handler, or its death, takes one out (`AcceptNeverFails`). A connection that has been closed stays
   quiet under its old descriptor because nothing of it is left to run.

`ServiceImplemented` then reads each step of the server as a step of
`HttpService`: the handlers' effects on a connection that the first layer
tells apart are its actions (`Accept`, `Start`, `Answer`, `Deliver`, `Leave`,
`Fail`), a SIGINT is `Interrupt`, the end of the countdown is `Stop`, a failed assertion
or a use of freed memory is `Crash`, and every other step is a stutter.

### The startup

`StartupInv` says that each descriptor, counter and mask is a function of `pc`
alone, except for what the world did meanwhile, for which it keeps `Ready` (what
is watched and ready has its wakeup) and `AddressSet`. The five invariants of run
`startup` are read off it: an interrupt is only fatal before `sigprocmask`, V8's
threads inherit a mask that blocks it, the scheduler is entered with `Anticent`'s
initial state. `EndsClean` is about what is counted or watched: `nJobs`, `nSockets`,
`nListeners` and the descriptors of the signals and of the listener. Epoll's own
descriptor is never closed (and not modelled), and `Subscribers` keeps its pointers to
the end.

### The text

`HttpTextProofs` takes any stream, buffer size, and cut into segments and
reads. `TextInv` adds `MidTurn` to what run `text` checks: between two reads of
a turn all of them filled the buffer (what was read is a multiple of `BUFSIZE`)
and no blank line was seen; and `EndsRead`: no request taken ends beyond what was read. From
it: the requests taken and the text kept are the bytes read, each request up
to its first blank line (`FramesAsSent`); the header search stays in its text (`NeverOverruns`);
and a turn ends as if all input had been there when it began
(`TurnsAreAtomic`). That last theorem is what lets `Anticent` take the reader's
turn as one step: a turn ends at the first multiple of `BUFSIZE` that completes a
request, and if there is none, at the end of the input; that there is a *first* one
is `Extremes` again.

### The machine of the lexer generator

`DfaProofs` takes any alphabet and whatever positions, followpos and first state
a parser leaves (`DfaSpec`); that `Lexin`'s parser and tree walk leave such is
`ImplementsDfa`, which run `lexin` checks. `DfaInv` adds to the properties that
run checks what each loop relies on. `Ahead`: no transition is ahead of
`CreateDfa`'s loops, and those of the state in hand are on symbols the inner loop is
through with; without it, the next transition could repeat a symbol or be out of order.
`InStep`: `GenerateMachine` has printed exactly the transitions of the
states it has passed; with the order of the transitions, the ones it prints next are
*all* of the next state, and the walk never has to look back. `Blank` and `Begun` tie
the passes together. A turn with no positions to move to only moves the loops
(`NoMoveKeeps`); any other appends one transition, and a state only if
`GetStateNum` found none (`MoveAdds`, `MoveKeeps`).

Three results go beyond what the run can see:

- `Tracks`: on words of *any* length the automaton has a run exactly where there is
  a way through the positions along followpos, only one, and after each symbol it is
  in the state of the positions that can come next. The argument is a
  least counterexample over the word's prefixes (`Extremes`), with
  `ComesNext`: what can come after one more symbol is `Moves` of what could come.
- `WorklistEnds`: distinct non-empty sets of positions are fewer than
  `2 ^ Len(positions)`, and each turn of the inner loop is the next of at most that
  many times the number of symbols. This is the safety part of termination: that
  turns are taken at all is fairness.
- `NodesStand`: leaf, concatenation, alternative and star keep `nullable` and
  `firstpos` exact for languages without bound, the star's being the least set closed
  under a word in front. It is the step of the induction over trees of which
  `FirstposExact` checks the short cases. `lastpos` has no such lemma, as it is
  wrong (see above).

### Assumptions, and what is only model-checked

The assumptions are those the modules name: `DListAssumption` (finitely many
jobs, null is not one), `SocketsAssumption` (finitely many connections, distinct
from the listener and the signal descriptor; the request pieces),
`AnticentAssumption` (a buffer, a response, a batch and a countdown of at least 1),
`DfaAssumption` (literals are distinct and no operators),
`HttpTextAssumption` (a buffer of at least one byte, streams of characters) and
`StartupAssumption` (lists of interfaces; any number of clients and SIGINTs).

Only model-checked: liveness, which needs fairness and ENABLED; of `Lexin` what its
parser and tree walks, which are recursive operators, do with a whole text
(`ParsedAsGrammar`, `FirstposExact`, `AcceptsLanguage`, `ImplementsDfa` and the types
of `text` and `tree`), by induction over the tree; and the five runs that refute
a statement, which show one behaviour each.

## Plan

Done: the modules and runs above, and the proofs of everything the passing runs
check but liveness and `Lexin`'s parser. Left:

1. What `lastpos` and `followpos` should be: with the children's `lastpos` in lines 371
   to 376, `LastposExact` would be an invariant, its constructors would have a lemma
   like `NodesStand`, and `AcceptsLanguage` would need no condition.
2. A reader of `ServerInv` might want it smaller: parts of `Walk` and of `Wakeups`
   could be properties of the scheduler and of epoll alone, and be proved once
   in `JobLists` and `Sockets`.
