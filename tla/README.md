# Verification of mlink_device

TLA+ models of the mlink device library: the MCP server that a robot or an appliance
runs so that a gateway can list and call its tools. The models are checked with TLC on
small instances; the safety of the scheduler, the connection, the server that joins
them, the tool table, the walk of `tools/list`, the one reply to each request, the
example device, its daemon commands, the queue, the event group and the cooperative
scheduler is also proved with TLAPS for every value of the constants. Paths below are
relative to `src/`.

## 1. The system

    peer --socket--> hwio receive thread --recv_cb--> mcp_server_transport_receive_callback
                                                         | bg_sched_post      | fallback
                                                         v                    v
                              application -> tools --> worker thread    (same thread)
                                                         | parse_message, find tool,
                                                         | parse arguments, callback
                                                         v
    peer <--socket-- hwio_*_write <--- mcp_server_send <-+--- main: hello, notify, destroy

Three kinds of threads share the server: the application's main thread, the
connection's receive thread and the scheduler's worker. Only the scheduler's
list has a lock.

| component | state | operations | what makes it correct |
|---|---|---|---|
| background scheduler `core/posix/background_sched.c` | linked list, `running`, `pending`, `active`, mutex, condition variable, worker thread | create, post, worker loop, destroy | each task once and in order; no lost wakeup; a graceful stop; the counters; destroy returns |
| connection `core/transport/hwio/tcp.c`, `unix.c`, `core/posix/task.c` | `tcp_state`: `sock`, `running`, `recv_cb`, `recv_ctx`; the receive thread; no lock | init, callback registration, receive loop, write, deinit (cancel, join, close, free) | nobody inside when it is freed; no leaked descriptor; deinit ends |
| server glue `core/mlink.c`, `core/mcp/mcp_server.c`, `core/transport/transport.c` | `server->worker`, `server->transport`, "initialized" flag | init, receive callback, worker task, send, notify, destroy | no request unaccounted for, one whole reply to each and in order, shutdown order |
| tool table `core/mcp/mcp_server.c` | array with count and capacity, hash table by first character | add, find | the two tables agree, no overrun, a registered tool is found; no lock, though main adds tools while messages are handled |
| tools/list `core/mcp/mcp_server_protocol.c` | none; a cursor that travels through the client | page of at most 8000 bytes, `nextCursor` | a walk shows every tool once and ends |
| dispatch and arguments `mcp_server_protocol.c`, `mcp_property.c`, `mcp_tool.c`, `core/posix/list.c` | locals and a clone of the property list; heap blocks | declare and create a tool; parse, check, call, reply | one outcome; the callback sees conforming arguments; errors name the culprit; what the published schema allows is accepted; nothing leaks |
| example device `example/mlink_device_test.c` | motion thread, its flags, `g_base_mutex`, exit flag | start and stop a motion, exit | one motion at a time; a stop hits only its own motion; exit completes |
| example daemon, same file | pid file; processes | run, start, stop, restart, status | one recorded server; commands tell the truth |
| transport registry `core/transport/transport.c` | table of hwio types | register, create | |
| queue `core/posix/queue.c` | ring buffer, mutex, two condition variables; the server itself does not use it | create, send, recv with a timeout, reset, delete | a bounded FIFO; nobody is forgotten; a timeout is kept |
| event group `core/posix/event_group.c` | eight bits, mutex, condition variable; no caller in the server | set, clear, wait for any or all with clear on exit and a timeout | no event is slept through or taken twice; a wait returns |
| cooperative scheduler `core/posix/schedule.c` | list, `running`, mutex; no caller in the server | post, run, destroy | a run drains the list in order; the unlocked test does no harm |
| return values `core/mcp/mcp_return_value.c` | owned JSON, text or image | create, convert, free | freed once |
| time, mutex, string helpers | none | | |

What is hard here: a post or a stop between the worker's test and its wait; a
condition signal that finds nobody waiting; the receive thread reading
`server->worker` while main frees the scheduler; cancellation of a thread that
may be in any call; two threads that both close a descriptor; a stream without
message boundaries, and two threads that write to it piece by piece;
registrations between the pages of a listing, or between two loads of a lookup;
a tool that got into one of two tables; an argument list whose clone failed;
commands that join a thread while they hold a mutex; processes that meet over a
pid file. `PROJECT.json` lists these hazards at their lines, each with the
properties that would notice it, or with the reason why none can: a property cannot hold
the code to what it does not promise, such as a limit on the length of a name.

## 2. Modules

| module | models | composes |
|---|---|---|
| `TaskExecutor` | abstract: a serial executor that runs what it accepts | |
| `BgSched` | the background scheduler | implements `TaskExecutor` |
| `BgSchedProofs` | theorems about `BgSched` | extends `BgSched` |
| `Hwio` | one connection, its receive thread and its writers | |
| `HwioProofs` | theorems about `Hwio` | extends `Hwio` |
| `MlinkServer` | init, message path, shutdown | `BgSched` and `Hwio`, which it extends |
| `MlinkServerProofs` | theorems about `MlinkServer` | extends it, `BgSchedProofs` and `HwioProofs` |
| `ToolRegistry` | the array and the hash table, a registration at a time | |
| `RegistryAccess` | their memory, store by store, beside a reader's loads | implements `ToolRegistry` |
| `RegistryAccessProofs` | theorems about `RegistryAccess` | extends `RegistryAccess` |
| `ToolsList` | paging, with a client that follows cursors | extends `ToolRegistry` |
| `PropertyList` | property lists over the growable array | |
| `McpDispatch` | tools and the handling of one message | extends `ToolRegistry` and `PropertyList` |
| `ProtocolProofs` | theorems about `ToolsList` and `McpDispatch` | extends both |
| `BaseMotion`, `BaseMotionProofs` | motion thread and exit of the example device, and theorems about them | |
| `PidFile`, `PidFileProofs` | the example's daemon commands and their servers, and theorems about them | |
| `BoundedFifo` | abstract: a first-in first-out store | |
| `Queue` | the blocking queue | implements `BoundedFifo` |
| `EventGroup` | the event group | |
| `Schedule` | the cooperative scheduler | |
| `PosixProofs` | theorems about these three | extends `Queue`, `EventGroup` and `Schedule` |

Each has an `MC...` module that gives its constants values; `MCPosix` is a bench
for `Queue`, `EventGroup` and `Schedule`, which share nothing: `which`, chosen in
the initial state, says which of the three a behaviour exercises. Operators whose
comment says "Faulty variant" stand beside the definition they would replace:
they are plausible mistakes in that code, belong to no specification, and show
that a property depends on the code it is about.

### BgSched

A step is a critical section (mutex taken to mutex released), or one of the
actions outside it: the callback, `pthread_join`, the final free. `wpc` is where
the worker is: `loop` (about to take the mutex), `wait` (in
`pthread_cond_wait`), `call`, `after`, `exited`; `dpc` is where the thread in
`bg_sched_destroy` is. `Wake` is signal and broadcast: there is one waiter, so
they do the same. Spurious wakeups are an action. `posted`, `done`, `discarded`
and `owed` are history: what was linked, what ran, what destroy freed, how much
had been posted when `running` was cleared. Posting during destroy is possible,
because the server does it; posting to a freed scheduler is not an action of
this module, and `MlinkServer` says when it would happen.

The refinement: `todo` is the list, `busy` the task in flight; the executor is
"open" until `running` is cleared and "closed" once the list has been drained.

### Hwio

No lock guards `struct tcp_state`, so every access that another thread can see is
a step. `rpc`, `spc[w]` and `depc` are the places in the receive loop, in
`hwio_tcp_write` of each writer and in `hwio_tcp_deinit`. `close(fd)` and
`sock = -1` are two steps (`recv_close` then `recv_clear`, and the same for a
writer), so a second thread can close in between; `fd = "reclosed"` records it.
`cancel` is acted on only where the thread is at a cancellation point. The
payload of a write is sent in 1 to `Size` pieces; each may fail, or raise
SIGPIPE (`killed`). `recv_data` returns any non-empty prefix of the waiting
messages, since a stream has no boundaries. `unix.c` is the same code.

### MlinkServer

Conjoins the two. `mpc` is the main thread in init, hello, send and destroy;
`cpc` is the receive callback, with the load of `server->worker` that decides, the
second load and the allocation in the call, and the linking as steps of their own. A request
is handled by the worker or, when posting fails, by the receive thread;
`unposted` is history: those for which `malloc` failed, so that they overtake
what waits for the worker. A second session runs without a worker, because the
flag `g_mcp_server_initialized` outlives the destroy. Only the first of several
messages that one `recv` returned is parsed; the others go to `lost`. What a
handled message does is left to `McpDispatch`; here it sends one reply.
`callback_cancelled` is the end of the receive thread inside the callback, before the
reply (in a `printf` or a log of the tool's own) or in its `send` and `close`.

### ToolRegistry and RegistryAccess

In `ToolRegistry` one registration is one step, with the outcomes of its
allocations: the array cannot grow (refused), the hash insertion fails
(registered all the same). `tools` and `tool_hash` are the two tables;
`unhashed` and `rejected` are history.

`RegistryAccess` takes that step apart. The array and each bucket are a
`table`: a pointer and a count as other threads see them, the allocation that is
live, and its slots. An insertion (`op`) allocates, in place or with a move, or
fails; then the copy, the pointer, the slot and the count become visible in any
order, because the accesses race and nothing orders them. A `reader` is the loop
of `mcp_server_find_tool_by_hash` or of `mcp_server_build_tools_list`: count,
pointer and slot are three loads. A load through a freed or NULL pointer, or of
a slot never set, is `Wild`, and the behaviour ends, as anything could follow.
That this happens while main inserts into that very table is what the code does;
`WildOnlyIfDisturbed` says that it happens in no other case. What the slot leads to, the
tool and its name, is read in the step that loads the slot: a tool is not changed or freed
while it is registered, so nobody can notice the difference. The refinement drops
the tool that is being inserted from what the tables hold.

### ToolsList, PropertyList and McpDispatch

`ToolsList` computes a page as the code does: names and descriptions plus 200
bytes for each tool, the printed sizes only when that estimate comes near the
limit, the name of the first tool left out as cursor, cut to the 63 characters
of its buffer. The client is a walk: `cursor`, `got`, and `listable`, what there
was when it began. Registrations come between its pages.

`PropertyList` is functional: an operation that allocates has a set of outcomes,
each with the blocks it added (`live`). The array starts at four and doubles;
the copy of a name or of a string default may fail unnoticed and leave `Null`; a
clone is whole or, when the array cannot grow, empty. A number is in tenths so
that truncation shows; `IntMax` scales the integers down.

`McpDispatch` registers tools as the example does (declare the properties, create, free
the list, destroy a refused tool) and handles a message in one step up to its replies or
up to the callback, and the callback's return in another: everything else it uses is
local or read only. An argument list is a sequence of keys and values (duplicates and
case differences included, as cJSON finds them). Arguments that are there and no object
(`NotObject`) are refused, absent ones are as good as none. Replies are kinds: `Missing`
for a result, a property's name for "Invalid argument" (`Null` for "unknown"), or the
fixed text. An id is a number in tenths, like any number of a document, and the reply
carries what `ValueInt` makes of it, cut and saturated; `IntOf` says the same without
computing it, and is what `OneOutcome` and `CallConforms` compare with. `heap` counts
the blocks of properties, tools, arguments and results that are allocated and not freed;
blocks of cJSON documents are not counted.

### BaseMotion

Callers are the worker and the receive thread (callbacks) and main (exit).
`pc[c]` walks through lock, join, create (the allocation and the flags), spawn
(`pthread_create`), valid or print, unlock; `holder` owns `g_base_mutex`
throughout, also during the join. The receiver may be cancelled while it waits for the
mutex, joins or prints. `motion[i]` is the life of the i-th thread,
which writes `g_base_running` without the mutex. `server` is main's way through
`mlink_server_destroy`.

### Queue

A step is a critical section, up to the unlock or the wait. `pc[t] = "lock"` is a
thread about to take the mutex, newly arrived or woken; the code tests the same
condition in both cases. A signal takes one thread from `wait` to `lock`, where it
competes with the others. `late[r]` says that the deadline which `calc_timeout`
computed has passed; a wait that is going on may then time out, one that begins
then times out at once, as POSIX says of `pthread_cond_timedwait`. `Contents`
reads the ring from `head` and is the refinement's FIFO.

### EventGroup and Schedule

`EventGroup` has the same places as `Queue` plus `timed_out`, between a timeout and
the mutex: there the code returns the bits that are set and clears none, even if
its condition has been met meanwhile. Any bits may be set or cleared in one call, and a
waiter may wait for any and clear any: `Calls` is the set of argument lists that are used,
and the proofs hold for every such set. A set wakes every waiter. `taker` is
history: who was given a bit and cleared it since it was last set.

`Schedule` takes the loop of `schedule_run` apart: the test of `running` and
of the list without the lock (`test`), the critical section that tests only
`running` (`lock`), the callback. `schedule_destroy` is its critical section,
after which `task_queue` still points to freed nodes, and the final free. `broken`
says which kind of pointer was dereferenced, and ends the behaviour; `shared` is
history: whether runners overlapped each other, or a destroy another call.

### PidFile

Each process has a command, a place and what it read from the file; a step is one system
call that another process can notice. `read_pid_file`, `probe` (`kill(pid, 0)`) and
`unlink` are shared by all commands, and `NotRunning` and `FoundRunning` say what each
does next. A child that ended is a zombie, which `kill(pid, 0)` still finds, until its
start waits for it or is gone; so does a server that has removed its record and is
`returning`. A `kill` may be refused (EPERM), as when the daemon is another user's. A
server may crash anywhere. A pid that has gone may be given to a new process. `excuse`
is history: commands overlapped, a recorded pid was reused, or the record was not
written; none of these is prevented by the code.

## 3. Runs

| run | question | instance |
|---|---|---|
| `bgsched` | Does every interleaving of posters, worker and destroyer keep order and exactly-once, lose no wakeup, and implement the executor, with and without fairness (so that every task is settled and destroy returns)? | 4 tasks |
| `hwio` | Is the descriptor closed, and closed twice only after a send error? | 3 messages, 2 writers, 2 pieces |
| `mlink` | Every received request handled, dropped or freed; its reply whole and in order; requests queued before destroy answered; the scheduler used after free only within destroy; the connection freed when nobody is inside; each request answered unless the receive callback lost it; destroy returns | 2 requests, replies of 2 pieces, failing malloc, 2 sessions, window 2 |
| `mlink_lost` | finding: a posted request that is never handled | 1 request |
| `registry` | What can a reader meet while main registers, what must it find, does any store go past its allocation, and does each registration implement a step of `ToolRegistry`? | 6 tools in one order, 1 reader, 5 names in 3 buckets |
| `registry_listed` | finding: a listed tool that cannot be called | 6 tools, two of one name |
| `list_walk` | Does a walk show each tool once and in order, and end? | 4 tools, one user-only, one long name, pages of one or two |
| `list_payload` | finding: a page above the limit | 3 tools, real sizes |
| `dispatch` | Is a request answered once, under the int its id is read as; does a callback get conforming arguments, an argument error name the right culprit; is what the schema allows accepted; does anything leak? | 3 tools, up to 2 arguments, 4-bit integers, one faulty operation |
| `motion` | One motion, no stale stop, exact flag, mutex quiet at its destruction, exit ends | 2 commands per caller, 3 motions of 2 ticks |
| `posix` | Is the ring a bounded FIFO that forgets no thread; is no event slept through or taken twice; do timed waits return; is the unlocked test of `schedule_run` harmless for one runner, and does a run drain the list? | 2 senders, 2 receivers, 2 items, ring of 2; 2 bits, 2 waiters; 3 jobs, 2 runners, 2 posters |
| `pidfile` | At most one server, recorded while it serves; no false "stopped" or "started" | 3 processes at a time |

Bounds and why they are enough. The scheduler's behaviour depends on a list of length
zero, one or more, and 4 tasks give each with posts before, during and after the stop;
its safety is proved without a bound. Two writers and the receive thread are all the
threads that ever touch a connection besides deinit; `Size = 2` puts another thread
between two pieces. Two sessions reach the mode without a worker; a third repeats it.
`Window` is how many requests the gateway leaves unanswered: 2 lets one `recv` return
two requests, of which the code drops the second, and lets one request wait for the
worker while the next arrives. Six tools outgrow the first array of four, once while the
reader is in it, and a bucket of three moves twice; the order of registration puts the
second tool of a name before and after other names of its bucket. One reader is enough
because readers do not write. `MaxListed` only stops a walk that repeats itself, and is
larger than the number of tools. `IntMax = 7` leaves values inside, at and beyond int,
for arguments and for ids; ids other than 1 go with one call, since no branch depends on
them. Three motions let a motion follow one that was stopped. A ring of two wraps at
every second item; two threads on each side let one overtake a woken one, and the queue
needs no bound on the number of calls, nor has the event group, with two waiters that
compete for the same bits. They wait for every set of the two bits, the empty one
included, and clear nothing, less than they waited for, just that, or more; `MCCalls`
leaves out only what differs from another call by the names of the bits. Setters set and
clear any set of bits. Two runners and two posters overlap in every way, and its safety
is proved without a bound, as is that of the queue and the event group. Three processes
hold a server, a command and what the command forks, or two commands and the server
between them; pids are reused without a bound. `MaxFaults = 1` lets one operation fail
at any of its allocations: a second failure meets a state that the first left behind,
which the same properties already exempt. `MaxMotions`, `MaxCommands`, `MaxSessions`,
`MaxListed` and `MaxFaults` are the bounds in guards; no state constraint is used.
Symmetry is used only in runs without liveness.

Deadlock checking is off in every configuration: each of these systems may
come to its end (destroyed, all tasks posted, walk over, a wild or freed pointer
dereferenced). That nothing hangs
before its end is what the liveness properties say.

Fairness. Weak fairness of a thread's steps stands for the kernel scheduling
it: the worker, the receive thread, main inside destroy. A callback is assumed
to return, a send to end. Nobody is obliged to post, to register, to send, to
call destroy or to wake a thread spuriously. In `BaseMotion` each caller is
weakly fair although a free mutex may go to another one: commands are bounded, so
the competition ends; with endless commands pthread mutexes guarantee nothing.
A receiver of the queue is
weakly fair at the mutex, since a critical section ends, and so is a waiter of the
event group; deadlines pass; senders, setters and all of `Schedule` owe nothing.
`RegistryAccess` and `PidFile` have no fairness: a process may be killed at any moment.
`tools_list_next` is fair because its client is by definition one that follows
cursors.

## 4. What is proved

`BgSchedProofs`, for every set `Tasks` and every `NoTask` outside it (the only
assumption):

- `SchedInvariant`: the inductive invariant `SchedInv`.
- `SchedFifo`, `SchedNoLostWakeup`: the invariants of the run `bgsched`.
- `SchedTypeCorrect`, `SchedCounters`, `SchedGraceful`: its types; `pending` and
  `active` count what they say; when the worker is joined, what was posted before
  the stop has run. (No run repeats these.)
- `SchedQuiet`: no callback begins or ends after the join.
- `SchedImplementsExecutor`: `BgSched` implements `TaskExecutor`.

`SchedInv` adds three facts to the properties themselves. `StopOrder` ties `running`,
`wpc` and `dpc` together: the destroyer is past the join only with the worker gone, the
worker gone only with `running` cleared, nothing freed before the drain. `TaskHeld`: a
worker in the callback has a task. `OwedOldest`: what is owed is within what was posted,
and once the worker is gone it has been run; this is what makes the graceful stop
inductive, as `FifoExactlyOnce` gives the lengths when the worker leaves on an empty
list. `FifoExactlyOnce` is a concatenation, so its steps rest on the lemmas
`HeadThenTail` and `ConcatLast`. The refinement needs the invariant in two places: a
post is an `Accept` only of a task the executor does not know, and draining is a
`Finish` only when all that is owed is done.

`PosixProofs`, the queue, for every `QueueSize > 0`, every finite and disjoint `Senders` and
`Receivers` and any `Items` without `Zero` (`QueueAssumption`):

- `QueueInvariant`: the inductive invariant `QueueInv`.
- `QueueTypeCorrect`: the indices stay in the ring and head, tail and count agree.
- `QueueNobodyForgotten`: one signal for each item and each slot is enough, for
  any number of threads.
- `QueueImplementsFifo`: `Queue` implements `BoundedFifo`.

`QueueInv` is the type invariant, `NobodyForgotten`, which is inductive as it
stands, and `SenderHasItem`, without which a step that puts would not be a `Put`
of one of `Items`. `NobodyForgotten` compares `count` with the number of threads
on their way: a put adds one to both when it wakes a receiver, and when it
wakes none nobody waits; a take removes one from both, for the receiver that
takes was itself on its way; a receiver goes to sleep or gives up only at
`count = 0`. (Senders and free slots are the mirror image.) The steps are in
`PutServesReceivers`, `PutServesSenders` and their twins for a take, over a
lemma about the cardinalities of such sets, `ComingFinite`. Everything about
`%` rests on `WrapIndex`: an index is less than two lengths, so it wraps at most
once. `ReadFrom` reads any ring as a sequence; `PuttingAppends` and
`TakingDropsHead` say what a put and a take do to it.

`PosixProofs`, the event group, for any `Bits`, `Waiters` and `Calls`
(`EventAssumption`: the calls are masks, a mode and whether there is a time limit):

- `EventInvariant`, `EventNoMissed`, `EventTakenOnce`: the inductive invariant
  and the two invariants of the run `posix`.

`EventInv` is the types, the two properties and `SetIsUntaken`: a bit that is set
has not been taken since, because the waiter that is given it clears it in the same
critical section. Without it `TakenOnce` is not inductive. `NoMissedEvent` rests
on two facts: a set wakes everybody (`broadcast`), and clearing never meets a
condition (`FewerBits`).

`PosixProofs`, the cooperative scheduler, for any `Jobs`, `Runners` and `Posters`
(`ScheduleAssumption`: disjoint, `NoJob` no job):

- `ScheduleInvariant`: the inductive invariant `ScheduleInv`.
- `ScheduleBroken`: NULL is dereferenced only beside another `schedule_run`, freed
  memory only beside `schedule_destroy`.
- `ScheduleDrains`: an action property; a run that returns while the scheduler is
  up has taken what was posted when it was called, in order.

`ScheduleInv` adds to `BrokenOnlyIfShared` what makes the unlocked test sound:
`OneRunner` (without overlapping runners, what the test saw is still there under the
lock, for posters only append), `NobodyInside` (without an overlapping destroy
nobody is inside once it has begun) and `InOrder` (what was accepted is what was
taken followed by the list), which rests on the lemma `MoveHead`.

`HwioProofs`, for any `Messages` and `Writers` and every `Size > 0`
(`SizeAssumption`):

- `HwioInvariant`: the inductive invariant `HwioInv`.
- `HwioFreedWhenQuiet`, `HwioNoLeak`, `HwioClosedOnce`: the invariants of the run
  `hwio`.

`HwioInv` is `ConnInv` and what the owner of `HwioSpec` promises, that nobody writes
once it destroys. `ConnInv` has four parts besides the types: `Lifetime` (the
receive thread is there from init to the join; after the join nobody else is
inside), `OpenIsKnown` (the descriptor is open exactly while `sock` says so and
nobody is between its `close(fd)` and its `sock = -1`), `WritersCloseOnError`, and
`ClosedOnceUnlessSendError` itself. The lemmas about single steps assume `ConnInv`
and of the owner only what a step needs, so that `MlinkServerProofs` uses them for
another owner.

`MlinkServerProofs`, for any `Tasks`, `Size` and number of sessions.
`ThreadsAssumption` says that main, worker and receiver are the writers of the
connection, `RequestsAssumption` that a request is not one of the values which
stand for a notification or for nothing:

- `MlinkInvariant`: the inductive invariant `MlinkInv`.
- `MlinkUsesScheduler`: `MlinkServer` implements `BgSched`, so that what
  `BgSchedProofs` shows holds in the server: its threads keep to the scheduler's
  interface.
- `MlinkFreedWhenQuiet`, `MlinkStalePost`, `MlinkRepliesIntact`,
  `MlinkRequestsAccounted`, `MlinkAnsweredBeforeClose`, `MlinkRepliesInOrder`: the
  invariants of the run `mlink`.

`MlinkInv` is `SchedInv` and `ConnInv`, and what ties them together. `MainOrder` says
what there is at each place of init and destroy; `CallbackOrder` that the callback runs
while the receive thread is in it, and handles a request itself only without a worker or
without memory; `WritersKnown` who is inside `hwio_tcp_write` and with what. `OnePlace`
puts every request that arrived in one place, in the callback, the list, the worker's
hands, or among the settled ones, with nothing twice; `AnsweredSoFar` says that in the
first session, while the connection is sound, what the worker has done has been written.
None of the three properties about requests is inductive without these. `RepliesInOrder`
needs more, `ReplyOrder`: for two requests of which the later one had its memory, if the
later one is answered the earlier one is (`RepliesSorted`), what waits for the worker
arrived before what the callback holds and is in order (`CallbackIsLast`,
`WaitingIsLater`, `ListSorted`), and what is answered has been handled or is about to
be.

`RegistryAccessProofs`, for any tools, names, hash function, readers, and any set of
`Orders` in which an application registers each tool object once (`AccessAssumption`:
the hash maps names to buckets, the array is not one, and the special values are no
tools):

- `AccessMemory`, `AccessSight`: two inductive invariants, the second over the first.
- `AccessNeverOverrun`, `AccessWild`, `AccessRegisteredIsSeen`: the invariants of
  the run `registry`.
- `AccessImplementsRegistry`: `RegistryAccess` implements `ToolRegistry`.

`MemoryInv` describes an insertion between any two of its stores: `InsertionStage`
(how `op` relates to the table), `TableSound` (which slots are set, how
long the allocation is, when the pointer is current) and `ReaderSafe` (an undisturbed reader's
pointer and index are good). A store to a table cannot hurt a reader of
it, for such a reader is disturbed by definition; the substance is that
nothing else can. `SightInv` adds that no tool is entered twice (`EntriesDistinct`,
`PlanFresh`, `ToolFresh`) and what a reader has taken and still has ahead of it
(`Sees`): slots below its index never change, and what it must find lies at
or above it. The refinement also needs `CapacityStage`, since the array
grows at the beginning of a registration and the abstract capacity
at its end, and `ReservedOnce`: one doubling is enough for one more tool, whatever
the capacity. A registration is the abstract step when it returns, or when the
array (a refusal) or the bucket (registered all the same) cannot grow; every
other store and every load is a stutter.

`BaseMotionProofs`, for any `Duration`, `MaxMotions` and `MaxCommands`
(`MotionAssumption`):

- `MotionInvariant`: the inductive invariant `MotionInv`.
- `MotionOne`, `MotionFlagExact`, `MotionNoStaleStop`, `MotionDestroyed`: the
  invariants of the run `motion`.

The first three are inductive only together, and with `Locked` (who is between lock and
unlock holds the mutex; only the cancelled receive thread can take it to its grave),
`Handle` (the handle is that of the last thread), `FlagRaised` (the flag is up before
the thread is created), `RequestIsOwned` (a stop request is up only while its command
waits in the join) and `ShutdownOrder`. `RunningFlagExact` excepts the command that has
raised the flag and not yet created its thread; nobody else can be inside the mutex
then, and the thread before has been joined.

`PidFileProofs`, for any `Pids` (`PidAssumption`: the three special values are no
pids):

- `PidInvariant`: the inductive invariant `PidInv`.
- `PidOneServer`, `PidReportsTrue`: the invariants of the run `pidfile`.

`PidInv` is the types, `KindsAgree` (commands and servers are where their kind can
be, always) and, without an excuse, `Orderly`: one command and one server
(`OneOfEach`), a command knows the only server there can be (`CommandKnows`), a
polling start has it as its child (`StartPolls`), and what the last command said is
still true (`SaidIsTrue`). Neither property is inductive: each rests on what a command that is
still running has read.

`ProtocolProofs`, tools/list, for any tools, names, sizes, cut and payload limit
(`ListAssumption`: a name of at most 63 characters is not cut, no other name
than `""` is empty):

- `ListWalk`: the inductive invariant `WalkInv`.
- `ListWalkExact`: `WalkExact`, the invariant of the run `list_walk`.

`WalkInv` is the types and, while the list is `Walkable`, `WalkStage`: what the client
got is what the loop sees first, its cursor names the tool after that, and what
there was to list when it began is still there. A page takes at least the tool
that its cursor names, since that fits an empty page (`PageTakes`, `PageContinues`); a
registration adds at the end of what is seen or nothing (`SeenGrows`); and names that
differ make the cursor unambiguous (`SeenDistinct`, `FromContinues`).

`ProtocolProofs`, dispatch, for any tools, schemas, messages and number of failed
allocations (`DispatchAssumption` and `PropertyAssumption`: a schema is a sequence of
typed properties with ranges within int; values in a document are of their type, and
nothing is assumed of values of another one; a property is not named like a fixed
error text, nor twice. The last is the application's part of the contract: the code
lets it declare a name twice, and its callback only ever sees the first of the two):

- `DispatchOutcome`: the inductive invariant `OutcomeInv` of the replies.
- `DispatchInvariant`: the inductive invariant `DispatchInv` of the rest.
- `DispatchOneOutcome`, `DispatchNothingLeaks`, `DispatchErrorNamesCulprit`,
  `DispatchCallConforms`, `DispatchAcceptsWhatItPublishes`: all invariants of the run
  `dispatch`.

What a number becomes, for an id and for an argument, is the lemma `ValueIntIsIntOf`.
`OutcomeInv` says what `OneOutcome` does not: a running callback belongs to a message
that can be answered and has not been, and a reply that comes after its callback is a
result or "Tool call failed".

`DispatchInv` follows a property from its declaration to the callback. What a tool
offers are copies of the properties that were declared, in their order, or none
(`Offered`); a copy may lose its name and a string, and nothing else (`CopyOf`), and a
copy of a copy is a copy (`CopiedTwice`). The arguments in hand are what the loop of
`mcp_server_parse_arguments` makes of such a list, property by property (`Attempt`,
from `ParsePass`, `ParseReaches`, `ParseLoop`): each was taken, or one was refused and
its name is the last that was noted. `Attempt` stays true while the message is in hand,
since a lookup finds the same tool after another registration (`FoundStays`). The
accounts hold beside it: an outcome's `live` is what its list owns (`CloneWhole`,
`DeclareWhole`, `ArgumentsParsed`), so `NothingLeaks` is inductive together with what
each side counts. The three properties about arguments then say no more about time:
`AttemptItems` reads the invariant for one property, and `RefusedWhy`, `RefusedThen`
and `ValueIntExact` say when `mcp_property_copy_from_json` refuses a value.

The proofs found a fault of an earlier model: the arms of the CASE in
`mcp_property_copy_from_json` overlapped, so that its value for a JSON value of
another type was not determined (TLC takes the first arm, as the code does).

What the loops of these two modules compute is a matter of induction over data. A loop is a
recursive function over its passes; that such a function exists, and that a
fact holds after every pass, follows from `LoopInduction`, which takes the set of
passes after which it holds where an induction rule would take a predicate, and
rests on the least element of a set of numbers (`LeastNumber`).

Model-checked only: the liveness properties and the fair refinement of
`TaskExecutor`, which are beyond the prover. Every invariant of the passing runs is
proved.

## 5. Where the code and its words disagree

1. `registry_listed`: a failed hash insertion is said to cost only search speed
   (`core/mcp/mcp_server.c:142`). The tool is listed, but calling it gives
   "Unknown tool", and another one of its name is accepted.
2. `mlink_lost`: when posting fails the receive thread handles the message
   itself, so that none is lost (`core/mcp/mcp_server.c:218`). A post after the
   worker has left succeeds, and the request is freed unhandled.
3. `list_payload`: the real size of a page is compared with the limit only near
   it (`core/mcp/mcp_server_protocol.c:22` and `:116`). The estimate leaves
   properties out, so a tool with a long property list, printed in 6000 bytes, and one of 3200
   bytes behind it share a page of 9213 bytes.

Also seen, and no run's question: a request is answered under `id->valueint`
(`core/mcp/mcp_server_protocol.c:229`), so a fraction of an id is lost and an id beyond
int, such as a time in milliseconds, comes back as `INT_MAX`; `OneOutcome` says so
rather than that the id comes back. `tcp.c:21` mentions an environment override that is
not implemented; comments speak of messages handled in parallel, by one worker.
`mcp_tool_to_json` (`core/mcp/mcp_tool.c:78`) leaks its `required` array when a property
cannot be printed, and `mcp_property_append_json` the parsed document of a property
without a name. `event_group_get_bit` refuses bit 0x80, which the other operations
accept. A wait that times out returns its bits without clearing them, even if its
condition has just been met. A notification that main sends can mix with a reply on the
stream (`core/transport/hwio/tcp.c:209`): `RepliesIntact` is about replies only.

## 6. Not modelled, and why

- The transport registry: a table of one entry, written by `mlink_server_init`
  alone.
- `event_group_get_bit`, which only reads, and `event_group_delete`, which its
  caller must keep from waiters; `list_clear` and `list_clone`, which nobody calls.
- The send callback of tests and `mlink_server_parse_message_str`: the
  application's own calls into the code that `McpDispatch` models.
- Formatting of JSON, logging, time: nothing the properties speak of; so are the
  blocks of cJSON documents.
- Failed allocations inside a page of `tools/list`, where the code leaves the tool out
  (`core/mcp/mcp_server_protocol.c:112` and `:131`): `WalkExact` would have to except every
  such page, and the client cannot tell.
- A motion that is still going when main returns: it is in the model, and no words of the
  repository say that it stops.
- A message split over several `recv` calls: the code would drop both parts.
- What follows a read of freed memory: anything may.
- `ringbuffer.h`, `storage.h`, `list_buff.h`: headers without code.

## 7. Plan

Done, in this order: `BgSched` and its executor, `Hwio`, their composition, the
registry, listing, dispatch, the example's motion thread, `Queue` and its FIFO,
the proofs of `BgSched` and of `Queue`; then `RegistryAccess`, `PropertyList` with
ownership in `McpDispatch`, replies in pieces, `EventGroup`, `Schedule`, `PidFile`,
and the proofs of `EventGroup` and `Schedule`; then the proofs of `Hwio`,
`BaseMotion`, `PidFile`, `MlinkServer`, `RegistryAccess` with its refinement of
`ToolRegistry`, `ToolsList` and `McpDispatch`.

Next models: messages split over several `recv` calls, and two daemon commands that
overlap, with what they can do to each other stated exactly.
