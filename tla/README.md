# Specifications of UnixDev

UnixDev is a collection of Unix programs: a concurrent HTTP server, a CGI server
over a process pool, a ticket (licence) server with its client, a server that
times out silent connections, and many smaller exercises. This directory holds
TLA+ models of the programs in which several actors meet, the TLC runs that
check them, and machine-checked proofs of what the runs show on small instances,
for every value of the constants. Paths are relative to the repository.

## 1. Inventory

### HTTP server (`src/Http`)

| Part | State | Operations | Interacts with |
|---|---|---|---|
| `threadpool<T>`, `locker.h` | `m_workqueue`, `m_queuelocker`, `m_queuestat`, `m_stop` | `append()`, `run()`, destructor | main thread calls `append()`, workers call `process()` |
| `http_conn` | read and write buffers with their indexes, check state, request fields, mapped file, `m_iv`, `m_sockfd`; static `m_user_count`, `m_epollfd` | `init`, `read`, `process` (`process_read`, `do_request`, `process_write`), `write`, `close_conn` | main thread reads and writes, a worker processes, epoll's one-shot interest hands it over |
| `timer_heap`, `timer_unit` | array of timers with `expire`, callback, connection | `add_timer`, `percolate`, `pop`, `tick`, `resize`, `fresh_expire` | main thread; callbacks call `close_conn()` |
| `main()` (reactor) | `users[]`, signal pipe, epoll set, `is_stop` | accept, signal, hang-up, input, output, leaving the loop | all of the above, SIGALRM and SIGINT |

Hard behaviour: two kinds of threads on one `http_conn`; a queue with a limit
whose refusal nobody looks at; descriptors that are reused while events, queue
entries and timers still refer to the old connection; heap keys that change in
place; partial reads and writes.

What makes it right: one token per queued request and a bounded FIFO (pool);
an answer that belongs to the request, and a buffer that is sent as it was
written (connection); no timer lost, expired timers fired (heap); exactly one
holder per connection, counters and timers that match the connections, input
that is eventually taken up (reactor).

### CGI server (`src/CGIserv`)

`processpool<T>`: table of children with pid and datagram pipe, round-robin
counter, `m_stop`, per process an epoll set and a signal pipe. `cgi_conn`: a
buffer in which a request line is looked for, then a forked program. Hard
behaviour: edges of the listening socket and of the pipes merge, SIGCHLD merges,
processes are killed at any moment, also before their handlers are installed.
Right when notices stand for connections, ended processes are noticed, SIGTERM
ends all children, and the parent ends with them.

### Ticket server and client (`src/TicktServ`, `src/TicktClnt`)

Server: `ticket_array`, `num_ticket_out`, an alarm whose handler takes back the
tickets of dead processes. Client: get, validate, release over datagrams. Hard
behaviour: the signal handler interrupts the loop; datagrams are dropped;
clients die with a ticket and pids are reused. Right when the count matches the
array, a living client's ticket is its own, and tickets of the dead return.

### Time checker (`src/TimeChecker/timechker.cpp`, `time_util.h`)

One thread, an epoll loop, a doubly linked list of timers sorted by expiry. Hard
behaviour: pointer surgery at head, tail and in the middle; events of a
connection that a timeout of the same batch has closed. Right when the list is
whole and sorted and holds one timer per open connection.

### Shared-memory time server (`src/ShmTServ`, `src/ShmTClnt`)

The server writes the time into a segment, clients print it; of two semaphores
one counts readers and one the writer, with `SEM_UNDO`. Hard behaviour: any
process is killed or interrupted at any moment, servers are started again while
clients hold a lock, `strcpy()` is not one step, `SETVAL` comes after the set is
visible. Right when the semaphores count who holds a lock, no torn text is
printed, nothing stays behind that blocks the next server, and nobody waits for
ever.

### Animation with threads (`src/Tanimate`)

A thread per string moves it and hands it to the agent thread through one
pointer, one mutex and one condition variable for both directions; `main()`
changes directions from outside. Hard behaviour: signals that wake the wrong
thread, waits that are not in a loop, keys between a move and its test. Right
when the threads never wait for each other, the agent draws again and again, and
strings stay on the screen.

### Threaded web server (`src/TWebServ`)

`main()` accepts, a detached thread per connection answers and adds to shared
counters. Hard behaviour: the same number is closed twice while other threads
open files and `main()` accepts. Right when no update is lost and a connection
gets the answer to its own request.

### Ball game (`src/Pong/pong.c`) and shell (`src/MySh`)

The game is two signal handlers that interrupt each other and share the ball.
Right when the ball stays in the field, goes on and is not lost on the plate.
The shell is sequential: a state machine for if/then/else/fi, a table of
variables, programs with the exported ones. Right when commands run in the
branch they stand in, and the table holds what was assigned and exported.

### Not modelled

`TinyWeb`, `TimeServ`, `Epoll`, `ChartClnt`, the datagram pair, the file tools,
`TinyBc`, `MyPipe` and the test programs are sequential code around system
calls; `time_wheel_timer.h` and `time_min_heap.h` are included by nothing.
`PROJECT.json` lists every part with its status, and the hazards at their lines.

## 2. Modules

| Module | Models | State and actions |
|---|---|---|
| `WorkQueue` | what the pool promises: a bounded FIFO between one submitter and the workers | `Submit`, `Take`, `Finish`, `Close`; a request that waits is taken unless the pool is closed |
| `ThreadPool` | `threadpool.h`, `locker.h` | one action per segment between synchronisation points of `append()` and `run()`: lock, push, unlock, post, wait, pop, process |
| `HttpConn` | `http_conn.cpp` for one connection | texts are sequences of tokens, buffers have a size in tokens; one action per event of the main thread and per step of the worker |
| `TimerHeapOps`, `TimerHeap` | `http_time_minheap.h` | the array algorithms as operators, with the clock and the `expire` fields that both users of the array share; a heap in which timers are added, refreshed in place and fired |
| `HttpServer` | `http.cpp` with the workers | composes `WorkQueue` (INSTANCE) and `TimerHeapOps` (EXTENDS); one action per branch of the main loop, per signal and clock step, and per part of `process()` |
| `ProcessPool` | `processpool.h`, `CGIserv.cpp` | parent and children with their batches, signal pipes and notices |
| `TicketOffice` | what the ticket server promises: a ticket has one owner, is taken up by nobody else, and is free again only when nobody works with it | `Grant`, `TakeUp`, `Leave`, `Collect` |
| `TicketSystem` | `tkserv*.c`, `tkclnt*.c` | the server loop cut where SIGALRM can come; the client program from start to end; implements `TicketOffice` |
| `TimerList`, `TimeChecker` | `time_util.h`, `timechker.cpp` | list operations on `next` and `prev` functions; the server loop |
| `CgiConn` | `cgi_conn` of `CGIserv.cpp` | one connection: pieces of text arrive, `recv()` fills the buffer, the line is looked for, the program is run |
| `ShmTime` | `shm_tserv.c`, `shm_tclnt.c` | one action per system call of server and client, halves of `strcpy()`, the handler of SIGINT, kills |
| `Animate` | `tanimate.c` | one action per segment between synchronisation points of `animate()` and `agent()`; keys of `main()` |
| `ThreadedWeb` | `tserv.c`, `tservlib.c` | the table of descriptors; one action per call of a thread that touches it, the mutex or the counters |
| `Pong` | `pong.c` | the stack of handlers, and one action per statement of theirs that reads or writes what both share |
| `Shell` | `controlflow.c`, `varlib.c`, `bulitin.c`, `process.c`, `mysh.c` | one action per form of a line |
| `*Proofs` | | theorems about `ThreadPool`, `HttpConn`, `HttpServer` with `TimerHeap`, `ProcessPool`, `TimeChecker`, `TicketSystem` (`TicketProofs`), `ShmTime`, and the other small programs (`SmallProgramsProofs`) |

`MC*` modules and their `.cfg` files give the instances. Definitions marked
"Faulty variant" stand next to the definition they vary; no specification uses
them: each is a plausible slip that the property named with it must notice.

Conventions: what `epoll_wait` returns is a set, `batch`, whose events are
handled in any order, which covers every order of the kernel. Descriptors are
numbers, and `accept()` returns the lowest free one. A `ghosts` variable records
what happened for the properties; actions read it only for the bounds that it
counts and to stop where nothing is known any more: `TimeChecker` once a deleted
object was used, `Animate` after a draw through the null pointer, `ThreadedWeb`
after a crash, `Pong` after the end of the game.

`MCSmallPrograms` takes six programs that share nothing into one run, and
`MCServerParts` three parts of the servers: a behaviour is one of a single
program or part, chosen in the initial state, while the others stand still.

## 3. Runs

| Run | Question and answer |
|---|---|
| `server_parts` | Three parts of the servers that share nothing, one per behaviour. Thread pool, with three workers, two requests and limit 2, so the queue is full and refuses: each queued request has one token (`TokensMatchQueue`), nobody wakes for nothing (`NoWakeForNothing`), and the pool implements `WorkQueue` with its liveness (`ImplementsWorkQueue`). Timer heap, with five timers, capacity 2 and refreshes in place: no timer is lost, and the array is a heap as long as no key changed in place (`TimersIntact`); so long `tick()` fires all that expired, and a lifetime of silence empties the heap even then (`TickFiresExpired`). Process pool, with two children, three connections (so two notices meet in one pipe), two kills or SIGTERMs: notices stand for connections (`EveryNoticeHasConnection`), no ended process is forgotten (`NoZombieForgotten`), every connection is followed by an `accept()` while nothing is killed (`ServedAfterArrival`), SIGTERM reaches every child (`TermReachesChildren`). |
| `thread_pool_limit` (violation) | The comment on the constructor (`threadpool.h:14`) calls `max_requests` the greatest number of requests that may wait; `append()` tests with `>` before it pushes, so one more waits (`QueueBounded`). Two more never do (`OneMoreAtMost`, proved). |
| `http_conn` | Twelve kinds of requests, cut at every place, reads that find nothing, a peer that leaves. The answer is that of the request (`AnswerMatchesRequest`), interest matches the buffers, a response that no short write cut arrives whole (`UncutResponseIntact`), keep-alive is honoured, and what can be answered is (`AnswerableAnswered`). Excepted from the last is a file that `stat()` finds but `open()` or `mmap()` does not get: `m_iv[1]` is MAP_FAILED then, `writev()` refuses the whole vector with EFAULT, and `write()` closes the connection with nothing sent. |
| `http_conn_write` (violation) | `bytes_to_send` counts the header only, and `m_iv` is not moved on: a `writev()` that sends the header and a part of the file is taken for the end, and the client gets a cut file. This is the trace that TLC shows; a `writev()` that sends less than the header is followed by one from the beginning, and the client gets bytes twice. |
| `http_server` | Three descriptors, two workers, queue limit 1 (+1), a timeout. `ConnectionsBooked`: the count of users, descriptors and timers match the connections; `OneHolder` and `ArmedForWhatItHas`: a connection is held by one thread, or armed, for what it has. What can break under a timeout that hits a connection in somebody's hands is stated without such a timeout, and that it takes one is stated too (`OnlyAfterIntrusion`, a part of `ConnectionsBooked`): the use of a timer that `tick()` has deleted, and the `close_conn()` of a worker (`http_conn.cpp:508-509`) that finds the buffer full of an earlier response. Its `--m_user_count` is a load and a store beside those of the main thread, so the count is exact until then; that a connection is open as long as its descriptor is holds whoever closes. |
| `http_server_live` | One worker, a limit on users. Input is taken up or the connection ends, unless such a timeout came or `append()` refused. |
| `http_server_threads` (violation) | EPOLLONESHOT is meant to keep a socket in one thread; a timeout closes a connection a worker has, its number is reused, and a second worker gets the same object. |
| `process_pool_exit` (violation) | All children are reaped and the parent goes on, since `pid = waitpid() > 0` stores 1. |
| `ticket_system` | Two pids, two tickets, four processes, a kill, a lost datagram. The count is exact under the signal handler, so `FAIL database corrupt` is never answered (`CountExact`); the system is a `TicketOffice` (`ImplementsOffice`): no ticket in use is granted again or collected; requests are answered unless a datagram was lost (`EveryRequestAnswered`), tickets of the dead return until the alarm is cancelled (`TicketsOfDeadReturn`). |
| `ticket_alarm` (violation) | `ticket_reclaim()` is to delete the tickets of clients that are gone (its comment). When SIGALRM comes as `alarm(0)` returns 0 (`tkserv.c:32`), the handler sets the alarm, `alarm(time_left)` with 0 cancels it (line 34), and no ticket is ever taken back (`DeadTicketsCollected`). |
| `time_checker` | Three connections on three descriptors. `TimersConsistent`: the list is whole from both ends and sorted, each open connection has one timer, and only a timeout and an event in one batch use a deleted timer. `TickFiresExpired`: no `tick()` leaves a timer that has expired, one that fires nothing included. |
| `small_programs` | Fourteen properties of six programs, below. |

| Program | Property | What it says, and what it excepts |
|---|---|---|
| `ShmTime` | `LocksMatchHolders` | the semaphores and what the kernel would undo match the processes that hold a lock; so readers or one writer. Excepted: a set whose readers `SETVAL` has forgotten. |
| | `NoTornText` | a client prints a text in one piece. Excepted: two servers on one segment, which SIGINT and a new start bring about; a segment whose server was killed inside `strcpy()`, and no other kill; `SETVAL` as above. |
| | `SetHasServer` | a set of semaphores has a server that will remove it, unless the server that made this set was killed; kills of other servers do not matter |
| | `NobodyStuck` | again and again everybody who was started has ended. Excepted: a forgotten reader together with a kill. |
| `Animate` | `HandOverWorks` | somebody is always awake, and the null pointer is drawn only after a spurious wake-up |
| | `OnScreen` | strings stay on the screen unless placed at a border, or turned there, with the direction outward |
| | `KeepsDrawing` | the agent draws again and again, and quitting ends the program |
| `ThreadedWeb` | `BytesExact` | no update of the counter is lost |
| | `AnswersOwnRequest` | a connection gets at most one answer, from its own thread and to its own request. A client that closes before it has sent a line may get one to a request nobody made: `fgets()` (`tservlib.c:30`) is not looked at, and `process_rq()` takes the uninitialised `request[]`. Excepted: what follows when a thread has closed a number that already belonged to somebody else. |
| `CgiConn` | `RunsWhatIsAsked` | the program named before the first CR LF is run and no other, however the text is cut |
| `Pong` | `BallGoesOn` | ball and plate stay in the field, each axis has ticks to go. Excepted: an axis whose `ttm` a key took to zero between its test and its use. |
| | `CaughtIsSafe` | a ball on the plate is not lost before it has left. Excepted: the uninitialised `moved`, and a speed key and a tick that interrupted each other. |
| `Shell` | `RightBranchRuns` | a command runs exactly where a well formed script says |
| | `VariablesHold` | table, `$name` and environment are what was assigned and exported. Excepted: names of which one is a prefix of another. |

The exceptions are what the code really does: without one of them TLC shows the
behaviour that it names.

### Bounds

Every bound is a constant named `Max...` with a comment. They are chosen so that
the interesting case happens: the queue is full with three connections and a
limit of one because `append()` lets one more in; a descriptor is reused with
three accepts; a timer is first, last and in the middle with three; the heap has
three levels and is resized twice with five timers and a capacity of two; two
notices meet in a pipe with three connections and two children. `MaxOutside` and
`MaxSignals` keep the number of signals small: one timeout suffices for every
stale reference, as one batch holds it. Clocks count slots of five seconds, and
a lifetime of one or two slots stands for three. Symmetry is used over values
that are only compared for equality (workers, timers), and in runs without
liveness only. In `small_programs`, three starts let a server be started after
another one has ended, around a client; two units contend for the agent, and a
string has a column in the middle; four descriptors are all that two threads
open at once; a buffer of four tokens overflows with a text of four; two moves
of three keys take `ttm` from two to zero and bring it back; three names, one a
prefix of another, overflow a table of two.

### Fairness

* `ThreadPool`: weak fairness of each worker's next step and of the appender's
  steps inside `append()`; nobody has to call `append()`. The lock is contended,
  and strong fairness is assumed where `ThreadPool` says so: a mutex is released
  after a few instructions.
* `HttpServer`: weak fairness of the main thread as a whole and of each worker,
  as threads are scheduled; the events of a batch are finite, so each is
  handled. Strong fairness of `Flush`: EPOLLOUT is reported only when there is
  room, so a finite response is sent after finitely many writes; it is an
  assumption about a client that reads.
* `ProcessPool`: weak fairness of each process. Clients and CGI programs owe
  nothing.
* `TicketSystem`: weak fairness of server, alarm and clients. The alarm is off
  while a request is handled, and `alarm(time_left)` rounds to seconds, so a
  stream of requests without a pause can hold it back for ever;
  `TicketsOfDeadReturn` is a claim about requests that pause, which bounded
  processes make. A request is handled in less time than the alarm takes
  (`RECLAIM_INTERVAL`, a minute): the alarm that the handler sets between
  `alarm(0)` and `alarm(time_left)` does not run out before the latter.
* `ShmTime`: weak fairness of each process that was started; nobody has to start,
  kill or interrupt one.
* `Animate`: weak fairness of each thread; strong fairness of the agent and of
  `main()` at the mutex, which is free whenever the units sleep, and of the
  signal: of the threads that wait, the agent is not passed over for ever. The last is an
  assumption about `pthread_cond_signal()`, which may wake any waiting thread.

## 4. Proofs

Each `*Proofs` module proves its theorems for every value of the constants that
the module's `ASSUME` admits (TLC evaluates these on its runs); nothing else is
assumed. The argument is the same everywhere: an invariant that TLC has checked
is seldom inductive, so it is joined with what it depends on, the strengthening
was checked by TLC on the run's instance, and the proof has a lemma for each
action. The theorems named below follow from it.

**`ThreadPoolProofs`** (`PoolTypes`, `PoolTokens`, `PoolBounded`,
`PoolWakesForWork`, `PoolImplementsQueue`). That the queue is at most one over
the limit depends on nobody pushing between the test and the push, so the mutex
must have one owner; that tokens match depends on a woken worker finding work,
which is the claim itself, and on `append()` owing the token of the request it
has pushed. `PoolInv` joins `PoolTypeOK`, `MutexOwned`, `RequestAtHand`,
`ClosedAtRest`, `TokensMatchQueue` and `OneMoreAtMost`. The refinement: initial
states map to initial states, every step to a step of `WorkQueue` or a stutter.

**`HttpConnProofs`** (`TypeOKHolds`, `AnswerMatchesRequestHolds`,
`InterestMatchesBufferHolds`, `UncutResponseIntactHolds`,
`KeepAliveHonouredHolds`), for any requests and any sizes of buffers. The parser
is followed along the text on the wire. `ConnInv` says that what was sent is a
beginning of the text, that socket and client have the rest, and that the part
of the buffer behind `m_start_line` is as it was sent (`WireInv`); that the
parser stands at the beginning of line k, or behind its text, or in the body, and
knows of the request exactly what the lines before k say (`ParseInv`); that a
response in the buffer is the one the request calls for, and that of a kept
connection nothing is left to be read (`AnswerInv`). The lemmas `LineFound`,
`BlankFound`, `BareFound` and `BodyFound` say what `parse_line()` returns there,
wherever the text was cut. The last conjunct of `AnswerInv` is why keep-alive
works: a form is only accepted when its whole body is in the buffer, and
otherwise a body is absent. So a request's body is announced by Content-Length
in `IsRequest`: what follows a request that does not announce it is, to client
and server, the beginning of the next one.

**`HttpServerProofs`** (`UserCountExactHolds`, `OneHolderHolds`,
`ArmedForWhatItHasHolds`, `ConnectionsBookedHolds`). `ServerInv` joins types, the
count (`CountInv`) and where a connection can be (`HolderInv`: in an event of the
batch, in the queue, with a worker, or armed); it does not depend on which timers
`tick()` fires. The count is part of it as long as no worker has raced on it, and
that an open connection has an open descriptor throughout; a worker closes only
after an intrusion because, before it, a connection in its hands has no response
in the buffer (`HolderInv`; `ClosesOnlyIntruded`). `BookInv` adds what the main thread keeps of the timers: the heap
has no timer twice, an open connection's own timer is in it (`TimersKnown`), the
count stays under `MAX_FD` (`Limits`), and a deleted timer is refreshed only after
a timeout hit a held connection. The last follows from `HolderInv`: who has an
event to handle has an open connection.

The same module extends `TimerHeap` too and proves the timer heap by itself (`TimersIntactHolds`,
`TickFiresExpiredHolds`), for any timers and any first capacity. The loops of
`add_timer()` and `percolate()` move a hole; the holes they visit are a least
closed set, not recursion. A hole that moves only up or only down comes to an end
(`HolesEnd`), each timer on its way moves by one place, and so the slots are
rearranged whatever the keys are (`MoveHoleRearranges`); where the keys were in
order but for the timer that is moved, they are in order again (`AddTimerKeeps`,
`PopKeeps`). `tick()` is at most as many turns as there are timers, each of which
takes the root away if it has expired (`TurnKeeps`, `AfterTickKeeps`), and the root
of an ordered array expires first (`RootFirst`). `HeapInv` says that the array
has the timers that were added and not fired, each once, and is in order unless a
key was changed in place.

**`ProcessPoolProofs`** (`EveryNoticeHasConnectionHolds`,
`NoZombieForgottenHolds`). An edge of the listening socket, an event about to be
handled and a notice each stand for a connection of their own; behind an edge of
a child's pipe, or the event about to be handled there, is a notice; before its
loop the parent has told nobody (`StartInv`, `ListenInv`). A process that has
ended, and whose SIGCHLD was not missed, lies behind a byte in the signal pipe
(`ZombieInv`).

**`TimeCheckerProofs`** (`TimersConsistentHolds`, `TickFiresExpiredHolds`). The
list is carried through each operation together with its order, a sequence of
timers from head to tail that agrees with `next`, `prev` and `expire`
(`Ordered`). The walks of `add_time()` and `tick()` are least closed sets, not
recursion, so `PassedAlong` can say what they pass: the timers of the order up
to the first that is not good. From it follow what an insertion behind a timer,
a removal and a tick make of the order (`AddBehindOrdered`, `DelTimerOrdered`,
`AfterTickOrdered` and others), for lists of any length. `CheckerInv` joins this
order (`ListInv`) with what the operations presuppose: a refreshed timer moves
only into the future (`ExpireInv`), the timers of the list are those of the open
connections (`OwnerInv`), a descriptor is free for each that waits to be
accepted (`BacklogInv`), and an event stands for a connection that is open
unless a timeout has closed it within the batch (`BatchInv`).

**`TicketProofs`** (`CountExactHolds`, `NeverCorrupt`, `OfficeImplemented`). The
handler of the alarm interrupts the loop anywhere, so `TicketInv` says for each
place in the loop what the array, the counter, the datagrams under way and the
clients know of each other. While a request is handled the
alarm is not running, though the handler may have set it anew: that is all the
count needs, so it stays exact on the path on which the alarm is lost.
`NeverCorrupt` is the consequence the code prints a
message about. `OfficeImplemented` is the refinement of `TicketOffice`.

**`ShmTimeProofs`** (`LocksMatchHoldersHolds`, `NoTornTextHolds`,
`SetHasServerHolds`). A semaphore set has one owner; what the kernel would undo
is exact for servers, and for clients unless `SETVAL` came after them; exclusion
is kept for removed sets too, whose holders still run; the segment is blank
until a server has a set, and whole unless its only server is inside `strcpy()`
or was killed there. Which set and which segment a killed server had is kept, so
that a kill excuses only what that server left.
That a text stays untorn needs all of these, as a new set's identifier must be
nobody's.

**`SmallProgramsProofs`**, five programs under one specification:

* threaded web server (`BytesExactHolds`, `AnswersOwnRequestHolds`): the mutex
  has its owner between lock and unlock; until a number was stolen, a thread
  owns its descriptor up to its own `close()`. The answer is to the request of
  that descriptor's connection, if it has one.
* animation (`HandOverWorksHolds`, `OnScreenHolds`): who handed the pointer over
  has summoned a thread, and while there is nothing to draw some unit is not
  waiting; a string is directed outward only between move and turn.
* shell (`RightBranchRunsHolds`, `VariablesHoldHolds`): `if_state` with the
  result of the condition matches the place in the script; an entry of the table
  is what was promised while no used name is a prefix of another.
* CGI connection (`RunsWhatIsAskedHolds`): the buffer is a beginning of the
  text, and holds no whole line while the connection is open; so the line that is
  found is the first of the text.
* ball game (`BallGoesOnHolds`, `CaughtIsSafeHolds`): the stack of handlers is
  one of five; an axis that moved is looked at before it moves again; unless a
  speed key and a tick interrupted each other the axes move at the same ticks.

Only model-checked: all liveness, which needs fairness and ENABLED, and with it
the fairness half of `ImplementsWorkQueue`. Every safety property that a passing
run checks is a theorem, and so is what `thread_pool_limit` leaves of the limit
(`PoolBounded`).

## 5. What the models leave out

Text: a file name, a header or a body is a token, and a length counts tokens.
Failing system calls with no consequence but a message, and resource exhaustion
other than the limits named. Memory layout: `buf[retlen]` past the end in
`tkserv.c`, `delete[]` of a single object, objects deleted under running threads
at exit; what a program does after using freed memory. `HttpServer` makes
`close_conn()` one step, although it closes the number twice: `ThreadedWeb` shows
for the same mistake what comes of it. What a thread of `ThreadedWeb` is killed by
when it answers a client that has closed (SIGPIPE). That `SO_LINGER {1, 0}` throws unsent data
away at `close()`. `accept()` that returns -1 in `timechker.cpp`. A restart of
the ticket server, which keeps nothing. In the small programs: how the shell
splits a line, and `fgets()` at the end of its input; drawing; the sleeps of the
time server; a SIGALRM that is pending when the key p stops the timer; where a
string goes that has left the screen.

## 6. Plan

Modelled and model-checked: every program in which several actors meet, and the
shell. Proved: the safety of all of them. What is left:

1. The double close of `http_conn::close_conn()` inside `HttpServer`.
2. The timers of `time_min_heap.h` and `time_wheel_timer.h`, should a program
   come to include them.
