# notnets_shm: TLA+ models, model checks and proofs

notnets is a C++ library for RPC over System V shared memory on one machine. A
server registers under a name; clients open connections, each of which is a pair
of single-producer single-consumer queues in shared memory; both sides then push
and pop fixed-size messages. This directory models the library's own logic: the
two queues it implements, the protocol that sets connections up and tears
them down without a common lock, the semaphores that outlive the processes using
them, and the benchmark programs that put all this together.

## 1. Inventory

| Part | State | Operations | Interacts through |
|---|---|---|---|
| Polling queue (`libnotnets/src/queue.cpp`) | header `head`, `tail`, `message_offset`, sizes; message array | `queue_create`, `push`, `pop` | acquire/release accesses to `head` and `tail` by one producer and one consumer |
| Semaphore queue (`libnotnets/src/sem_queue.cpp`) | the same header plus three semaphores `sem_lock`, `sem_full`, `sem_empty` | `queue_create`, `sem_push`, `sem_pop`, `sem_peek`, `destroy_semaphores` | the semaphores; the server may remove them under both threads |
| Boost queue adapter (`boost_queue.cpp`) | a `boost::lockfree::spsc_queue` in a segment | allocator, `boost_push`, `boost_pop` | the Boost library |
| Coord region (`coord.cpp`) | `accept_slot`, a process-shared mutex, `available_slots[i].client_reserved`, `slots[i]` | `coord_create/attach/delete`, `request_slot`, `check_slot`, `service_slot`, `clear_slot`, `coord_shutdown` | written by clients, the manage-pool thread and the server thread |
| Connections (`rpc.cpp`) | the handler's `manage_pool_state`, the contexts | `register_server`, `accept`, `shutdown`, `manage_pool`, `client_open`, `client_close` | the coord region, the allocators, a pthread |
| Send and receive (`rpc.cpp`) | none of its own | `client_send_rpc`, `client_receive_buf`, `server_receive_buf`, `server_send_rpc` | the queue of the context's type |
| Shared memory (`mem.cpp`) | the kernel's keys and segments | `shm_create/attach/detach/remove` | System V IPC |
| Address hash (`coord.cpp`) | none | `hash` | its value is a client's id and the seed of all its keys |
| Semaphore sets (`sem_queue.cpp`) | the kernel's sets: key, value, last operation | key derivation, `_initsem`, `destroy_semaphores` | System V IPC; a set outlives the server that made it |
| RPC benchmark (`bench_rpc`) | `run_flag`, client list, threads | four tests over connections and queues | the library |
| Queue benchmarks (`bench_queue`, `bench_queue_boost`, `bench_boost`) | start/stop flags, threads | loops over push and pop | the polling queue; Boost's queue |
| TCP baseline, experiment harness | statistics | | sockets |

What is hard here, and what makes each part correct:

* **Queues.** Two threads share a ring with no lock (polling) or with a lock that
  they give up and retake around a wait (semaphores). Correct: no slot is copied
  from and to at once; FIFO, nothing lost, duplicated or torn; a message may be
  read in pieces and leaves only when read to its end; a blocked call returns when
  the peer goes on.
* **Connections.** Only `request_slot` and the scan inside `accept` hold the mutex;
  `manage_pool`, `client_close` and everything `accept` does after its scan do
  not. Correct: a reservation stays its client's; an open connection's segments are
  live and are the ones its row names; every `client_open` returns; what a closed
  client held is given back; every connection is accepted, once, under its own id;
  `shutdown` returns and takes the open connections down.
* **Semaphore sets.** Their keys are quotients of a hash, they are found by key, and a
  killed server leaves them behind, together with rows that are marked and no longer
  reserved. Correct: a connection's six semaphores are its own; none is lost sight of; the
  one thread that serves everybody does not block; a slot is given to one client.
* **Benchmarks.** Threads are started and stopped by flags they look at only between
  two blocking calls. Correct: one handler per connection, answers match requests, items
  keep their order, queues outlive their threads, every test ends.

`PROJECT.json` lists every hazard with its line and the properties aimed at it.

## 2. Modules

| Module | What it is |
|---|---|
| `MessageChannel` | What a queue promises: a bounded FIFO of fixed-size messages, one sender, one receiver, receives in pieces. |
| `PollQueue` | `queue.cpp`, one step per access to a shared location and per unit copied. |
| `SemQueue` | `sem_queue.cpp`: every semaphore operation, every look at the ring outside the lock, removal of the semaphores at any moment. |
| `SlotTable` | What the coord table promises: the life cycle Free, Requested, Ready, Closing of a slot. |
| `Coord` | `coord.cpp`, the connection half of `rpc.cpp`, the allocators and `mem.cpp`. |
| `RpcBench` | The four tests of `bench_rpc`, over connections and queues taken at the level of `SlotTable` and `MessageChannel`. |
| `SemSets` | `hash`, the semaphore keys, `_initsem`, the life of the semaphore sets across passes of `manage_pool` and restarts; connections cut as in `Coord`, since `SlotTable` says nothing about rows a killed server left. |
| `BenchQueue` | The three queue benchmarks: main, producer and consumer, over queues at the level of `MessageChannel`. |
| `Benchmarks` | `RpcBench` and `BenchQueue` together: the benchmark programs, of which one runs. |
| `MCPollQueue`, `MCSemQueue`, `MCCoord`, `MCSemSets` | Instances for TLC. |
| `PollQueueProofs`, `SemQueueProofs`, `CoordProofs`, `SemSetsProofs`, `RpcBenchProofs`, `BenchmarksProofs` | TLAPS proofs about the module they are named after; the last one is about the queue benchmarks in `Benchmarks`. |

### PollQueue

`head`, `tail`, `message_offset` and `slots` are the header and the array;
`ppc/pbuf/copied` and `cpc/want/rbuf` are the program counters and locals of the
thread in `push` and the one in `pop`; `push_ret` and `popped` are what the last
call gave back. `PushCall`, `PushPoll`, `PushCopy`, `PushPublish` are the call,
the polling loop, `memcpy` unit by unit, and the release store of `head` with the
return; `PushReject` is the return of -1 for an oversized buffer. `PopCall`
(with `Clamp`), `PopPoll`, `PopCopy`, `PopReturn` likewise. Steps are
sequentially consistent, which the acquire/release pairs on `head` and `tail`
justify since no other location is shared. The early return on
`stop_consumer_polling` has no action: nothing sets the flag.

### SemQueue

Each call is cut at every `sem_wait` and `sem_post` and at every reading of
`is_full`/`is_empty` outside the lock. `was_empty` and `was_full` are kept as the
locals they are: read at the first inspection and used for the wakeup at the end.
`sem_wait` and `sem_post` model `semop`: a removed semaphore (`live = FALSE`,
`DestroySemaphores`, which removes the queue's three at once) makes every operation fail at once, and a post at the limit
(`SemMax`, standing for SEMVMX) fails too; the code ignores both. `Window` bounds
how many messages the producer's caller keeps in flight.

### Coord

`region`, `mutex`, `accept_slot`, `reserved`, `row` are the coord region; `shm` is
the kernel's list of segments, a shmid being a position in it; `cl[c]` is client
c's thread in `client_open`/`client_close`; `rn` is whoever runs `manage_pool` (the
manage-pool thread, then `shutdown` itself); `sv` is the server's own thread.
A client is its `client_id`, an integer, since the allocators compute the segment
keys from it (`id`, `id + 1` for POLL and BOOST; `id / 2`, `id / 3` for SEM).
`CoordAttach` to `OpenAttach` are `client_open` in order, `CloseCall` to
`CloseDetach` are `client_close`; `RunnerLoop`, `PoolType`, `Service*`, `CleanUp`,
`Clear*` are one pass of `manage_pool`; `RegisterServer`, `Accept*`,
`Shutdown*`, `CoordDelete` are the server. `Applications` are the applications considered: which clients ever close and
which of accept and shutdown the server calls; `Init` picks one.

`RegisterServer` is one step, and clients find no region before it. This leaves out a case
that occurs: the benchmarks create their clients after `register_server`, and the SendRecv
tests hold their client back until it has returned, but `RPCTest.OpenClose` and
`RPCTest.Accept` (`test/src/rpc/RPCTest.cpp:57-120`) run `client_open` beside it. Such a client can
attach as soon as `shm_create` has made the region, and `coord.cpp:214-216` and the
initialisation of the mutex can then undo its reservation. Every result about `Coord` is
about clients that come later.

`shm_create` always succeeds: the -1 that `shmget` returns at a limit of the kernel is left out.

`SlotView` maps the rows and flags to `SlotTable`; a wiped row counts as free
although its flag is still set, since from then on nobody can use it but the
next client.

### RpcBench

`bench_run_all` is a sequence of four tests, each described by what sets it apart:
whether clients open before or after `run_flag` is set, exchange messages, close.
`cl[c]` is a client thread, `handlers` the echo threads (`pthread_server_rtt`) in
the order they were started, `mn` the main thread with the locals of `accept`,
`queue[c]` the two queues of c's connection as bounded FIFOs, `slot` the coord table.
`accept` is cut at every look at a row, since `manage_pool` and closing clients
change rows meanwhile; the scan of `request_slot` is replaced by the choice of any
free slot, which covers slots freed while it scans. `BsearchFound` is nondeterministic
where the code searches an array that is neither sorted nor initialised. In the disconnect
test a handler can be started for a connection whose segments are gone; the code crashes
when it attaches to them, the model leaves that handler waiting, and no property depends on it.

### SemSets

`sets` lists the semaphore sets ever made, a semid being a position in it: key, value,
whether it was ever operated on (`sem_otime`), whether it still exists, and the start
of the server (`boot`) that made it. `reserved` and `row` are the coord table, `rn` is
`manage_pool`, `cl[n]` the client whose address is n. An address is a sequence of
character codes; `hash` works on 32-bit words, bit by bit, and its value, a signed int,
is divided as C divides.

`RequestLock` to `RequestReserve` are `request_slot` under the mutex: the look at
`client_reserved` with the id, the other fields, the reservation. `OpenPair` and `OpenAttach`
are the rest of `client_open`, `CloseFind` and `CloseDetach` are `client_close`. `Service`,
`SemgetNew`, `Semop`, `SemgetOld`, `Wait` and `Publish` are `service_slot` with `_initsem` and the
`sem_wait` in `queue_create`, once per semaphore and queue in the order of the code; `CleanUp`
and `destroy_semaphores` remove the sets one by one; `ClearSlot`, `ClearRow` and `ClearFree` are
the look of `clear_slot` at `detach`, the `memset` and the release, none of them under the
mutex. `UseQueue` is what pushes and pops do to `sem_empty`. `KillAndRestart` kills all
processes between any two of these steps and starts the server again: sets and rows
stay, `coord_create` resets only the reservations and the mutex. Key 0 is IPC_PRIVATE and
never found.

The grain matters after a restart. A row that was marked when the server was killed is free
for `request_slot` and still marked for `clear_slot`, so that both work on it at once: the wipe
can fall between two stores of `request_slot`, and the release after its reservation. The
auxiliary variable `clashed` collects the clients this happens to: those whose row was wiped or
whose slot was freed under them, those that were given a slot another client still
has, and everybody once a close has marked a row that was not its own. `late` holds the semids
of rows that were marked between the two looks of `manage_pool` at `detach`.

Segments are left to `Coord`: a queue is known by the semids in its header, and `ClearRow`
stands for the removal of segments without following it. All clients ask for SEM queues.

### BenchQueue and Benchmarks

`prog` is the program that runs. `producer` and `consumer` are its two threads with
their counter i (client and server in `bench_boost`), `master` is main. The library's
benchmark holds its threads until `start_flag`; the comparisons start with `stop_flag`
set and hold nobody, so a thread that looks before main clears it leaves at once: both
are modelled as they are. A thread inside `push` or `pop` waits without looking at
`stop_flag`. The counters wrap at `UIntSize`, standing for 2^32.

`Benchmarks` puts the programs side by side: initially one of them is chosen and the
others have nothing left to do.

## 3. Runs

| Run | Instance | Shows |
|---|---|---|
| `poll_queue` | ring of 3, messages of 2 units over 2 values, pushes of 1 to 3, pops of 1 to 3 | `TypeOK`, `NoDataRace`, refinement of `MessageChannel`, `PushReturns`, `PopReturns` |
| `sem_safety` | ring of 2, messages of 2 units over 2 values (symmetric: nothing compares them), any producer, semaphores may be removed | `TypeOK`, `MutualExclusion`, `SlotsDisjoint`, refinement of `MessageChannel` |
| `sem_window` | ring of 3, at most 2 messages in flight | `NoLostWakeup`, `SemPushReturns`, `SemPopReturns` |
| `sem_full_ring` | the same with 3 in flight | violation: both threads end up asleep |
| `coord_slots` | 3 clients, one of each type, 2 slots | `TypeOK`, `ReservationKept`, `OpenQueuesLive`, refinement of `SlotTable` |
| `coord_live` | 2 clients, 1 slot, accept running | `ReservationKept`, `OpenQueuesLive`, `OpenReturns`, `Reclaimed` |
| `coord_server` | a POLL and a BOOST client, 2 slots, in two applications: both stay and the server accepts; or the POLL client closes, the other stays, and the server shuts down | `AcceptedIsOneClient`, `EveryoneAccepted`, `ShutdownTakesDownOpen`, `ShutdownReturns` |
| `coord_type` | a POLL and a SEM client | violation: a SEM client is given POLL queues |
| `coord_accept_hang` | a client closes while accept is between its scan and the row | violation: accept never returns |
| `sem_sets` | addresses "17" and "71", 2 slots, one restart at any moment | `TypeOK`, `ClashAfterRestart`, `OwnSemaphores`, `BlockedByLeftover`, `NoOrphans`, `Served` |
| `sem_reopen_hang` | one client that opens twice, no restart | violation: `manage_pool` blocks in `queue_create` for ever |
| `benchmarks` | RPC: 2 clients, 3 slots, 2 round trips each, all four tests in a row; queues: capacity 2, counters modulo 5 | `TypeOK`, `OneHandlerEach`, `OneInFlight`, `EchoMatches`, `StayingTestsEnd`; `QueueTypeOK`, `OrderKept`, `QueueOutlivesThreads`, `NotBeforeStart`, `JoinReturns` |

**Bounds.** A ring of three slots wraps, has a full, an empty and a middle state,
and lets the two ends be one and two slots apart; the ring of two in `sem_safety`
is full with one message, which makes every wait happen. Messages of two units are
the smallest that can be torn or read in pieces. The initial array is any content, so
what an earlier lap left behind is covered. Three clients on two slots leave one
client waiting for a slot that another gives back; a client opens once, since a
reopened id is a different hazard (below). Queue payloads do not occur in `Coord`:
the library never looks at them there.

In `benchmarks` there are more slots than clients, as in the benchmark (40 and 20), so
that the round robin of accept passes over free slots; two round trips are the fewest
in which an answer could belong to an earlier request. Queues of two are empty, half
full and full, and five counter values wrap while no two numbers in flight are equal.

In `sem_sets` one restart is enough for a set to be found again and for a
marked row to be free, and a client opens once per start; the two addresses have the same characters, so that only the rotation in `hash`
keeps their keys apart. A `sem_empty` of 0 or 1 (`SemMax`) is what decides whether
`queue_create` blocks; only requests are sent (`Used`), the response queue's `sem_empty` being
used alike. All three outcomes of finding an old set (reused, blocking, exit of
the server) are reached.

`OneInFlight` is also what justifies `Window` in `sem_window`: the request/response
loops of the benchmark never have more than one message in flight, far below the
full ring that `sem_full_ring` is about.

**Deadlock** is checked wherever the system runs for ever. It is switched off where it
stops: after `shutdown` (`coord_server`); at the end of a benchmark, or with the hang that
`coord_accept_hang` shows in its last test, or with a stranded thread (`benchmarks`); and
when all clients have opened and closed as often as they may and `manage_pool` is
blocked or has exited (`sem_sets`, `sem_reopen_hang`).

**Fairness.** Every thread that is inside the library keeps running (weak fairness
of its steps): they are OS threads that never wait for anything but what the guards
say. `FairSpec` of the queues also makes both callers call again, as the loops of
the benchmarks and tests do. A waiter for `sem_lock` gets it (strong fairness): the
kernel serves the waiters of a System V semaphore in order. A waiter for the coord
mutex gets it (strong fairness): its holders only scan the slots, and a client that
found none sleeps before it tries again. Clients that close at all close in the end
and a server that accepts goes on accepting; nothing obliges a server to shut down
or, beyond the queues' loops, a producer to push. In `SemSets` `manage_pool` and a
client waiting to be served keep running; nothing is assumed of `request_slot`, of closing, of
the use of a queue or of restarts. In `BenchQueue` all three threads run: the two workers are pinned
to processors of their own and spin, main sleeps and joins.

### What the violations say

* `sem_full_ring`: `sem_push` reads `was_empty` before it waits for space and posts
  `sem_empty` by that value after the wait (and `sem_pop` likewise with `was_full`).
  A producer that met a full ring says nothing when it enqueues into a ring that has been
  drained in the meantime; the consumer sleeps beside a message and the producer
  sleeps when the ring is full again. `sem_window` shows that a caller
  that keeps no more in flight than the ring holds is safe.
* `coord_type`: `manage_pool` chooses the allocator from `slots[i].type` before
  `service_slot` looks at `client_reserved`.
* `coord_accept_hang`: `accept` gives the mutex up and then waits for keys that
  `manage_pool` wipes when the client closes. With the row refilled by another client
  it goes on with that client's queues instead.
* `sem_reopen_hang`: `clean_up_queue_resources` and `clear_slot` each read `detach`; a
  close between the two has its segments removed and its semaphores kept. When the same
  address opens again, `_initsem` finds them and takes them as they are, `sem_empty` is 0
  already, and the `sem_wait` in `queue_create` never returns. `sem_sets` shows that this
  window (`late`) and left-overs of a killed server are the only ways to lose a set.

Facts seen while modelling that bound what the properties say:

* Started again over the region of a killed server, `request_slot` and `clear_slot` can be at
  one row. A row that was marked is no longer reserved, so a client is given it; `clear_slot`, which
  has seen `detach` just before, wipes it (`coord.cpp:281`) and frees the slot (`coord.cpp:282`).
  That client waits for `shm_created` for ever, or the next one is given the same slot, and
  both are open on the same semaphores. TLC shows this when `boot = 0` is struck from
  `ClashAfterRestart`, or `clashed` from `OwnSemaphores` or `Served`. What the run shows with them:
  it takes a restart, and clients it does not happen to keep their semaphores and are served.
* `OwnSemaphores` and `BlockedByLeftover` fail for neighbouring addresses: the ids of "16"
  and "17" are so close that their keys, quotients by up to 600, meet. The runs use
  addresses that do not meet, and the theorems are about such addresses (`SemKeysApart`).
* `AcceptedIsOneClient` and `EveryoneAccepted` are about clients that stay
  (`EveryoneStays`): a client that closes while `accept` reads its row can make it return
  the id of one client with the queues of another.
* `ShutdownReturns` is checked with POLL and BOOST clients. `shutdown` marks every row for
  detaching, one that is reserved and not served yet too; for a SEM client
  `destroy_semaphores` then attaches to segment 0 and crashes (`CleanUp`'s crash).
* In the disconnect test of `RpcBench` a client may close after `accept` has read its keys
  and before it reads `server_attached`; the wiped row reads as not attached, and the
  connection gets a second handler. `OneHandlerEach` is stated for tests whose clients stay.
* `JoinReturns` has one exception, `Stranded`: a thread that has seen `stop_flag` leaves its
  peer inside a `push` or `pop` that only it could complete. The queue benchmarks do hang in
  this case; the property says that there is no other.

## 4. Proofs

Every invariant that a run checks, and every refinement, is also a theorem, for all values
of the constants that the modules' assumptions admit. `Spec` has no fairness, so each result
also holds of the `FairSpec` of the runs.

| Module | Theorems (property) | Hypotheses beyond the module's own |
|---|---|---|
| `PollQueueProofs` | `TypeCorrect` (`TypeOK`), `DataRaceFree` (`NoDataRace`), `ImplementsChannel` (`ChannelSpec`) | none |
| `SemQueueProofs` | `TypeCorrect` (`TypeOK`), `LockCorrect` (`MutualExclusion`), `CopiesDisjoint` (`SlotsDisjoint`), `ImplementsChannel` (`ChannelSpec`) | none |
| | `WakeupNotLost` (`NoLostWakeup`) | `Window < queue_size` |
| `CoordProofs` | `TypeCorrect` (`TypeOK`), `SlotStaysReserved` (`ReservationKept`), `AcceptReadsOneClient` (`AcceptedIsOneClient`) | none |
| | `QueuesStayLive` (`OpenQueuesLive`) | `KeysApart` |
| | `ImplementsSlotTable` (`SlotTableSpec`) | `KeysApart`, `NoShutdown`, finitely many clients |
| `SemSetsProofs` | `TypeCorrect` (`TypeOK`), `NoneLost` (`NoOrphans`) | none |
| | `SlotsKept` (`ClashAfterRestart`) | `DistinctIds`, `Opens <= 1` |
| | `SemaphoresOwned` (`OwnSemaphores`), `OnlyLeftoversBlock` (`BlockedByLeftover`) | `DistinctIds`, `SemKeysApart`, `Opens <= 1` |
| `RpcBenchProofs` | `TypeCorrect` (`TypeOK`), `AnswersMatch` (`EchoMatches`), `MessageInOnePlace` (`OneInFlight`), `OneConsumerEach` (`OneHandlerEach`) | none |
| `BenchmarksProofs` | `QueueTypesCorrect` (`QueueTypeOK`), `ItemsInOrder` (`OrderKept`), `ThreadsGoneFirst` (`QueueOutlivesThreads`), `StartTogether` (`NotBeforeStart`) | none |

The hypotheses say where the code's own guarantee ends, and the instances of the runs
satisfy them. `Window < queue_size`: `sem_full_ring` loses the wakeup without it.
`KeysApart`, `DistinctIds` and `SemKeysApart` are about ids, which are hashes of addresses:
nothing in the code keeps ids or keys apart, `client_close` finds its row by id, and segments
and semaphores are found by key; with semaphore keys that meet, `OwnSemaphores` and
`BlockedByLeftover` do fail (section 3). `DistinctIds` also keeps ids from being 0, the id of a
zeroed row. `Opens <= 1`: an address that reopens before its old row is cleared is given
the old semaphores, which are removed under it (`sem_reopen_hang` is the other half of
this), and its `client_close` marks the old row again, or one that has passed to another
client; `rpc.cpp:154` asks for addresses with a nonce. `NoShutdown`: `coord_shutdown` marks rows whose client still waits, which no slot
table allows.

**PollQueue.** All rest on `RingInv = TypeOK /\ PushInv /\ PopInv`. `NoDataRace` is not
inductive: it says nothing about the moment between a poll and the copy. `PushInv` remembers
what push has seen (while it copies, the slot after `head` is not `tail`) and what it has
done (the first `copied` units of the slot are the buffer's); `PopInv` remembers that while
pop copies `head # tail`, that it never asks for more than is left of the message, and that
what it has copied is what the slot still holds. The step that needs an argument is the
release of `tail` against a push that is copying: `Advance` is injective, so two different
indices stay different when both would move. For the refinement, `ContentsInv` turns the
ring between `tail` and `head` into a sequence; `PublishAppends` and `ReleaseRemoves` show
that the two stores append and remove a message, and `StepImplementsChannel` that everything
else is invisible.

**SemQueue.** `QueueInv = TypeOK /\ SeenInv /\ MutualExclusion`. `SeenInv` is what makes the
queue correct even when the semaphores are gone and the lock locks nothing: a thread on its
way to the copy has seen room, or a message, and this stays true because each index only
moves towards the other. `WindowInv` gives the wakeup: a caller with a window smaller than
the ring never takes the path through the wait, so `was_empty` was read under the lock that
`sem_push` still holds when it enqueues. `ContentsInv` is as above.

**Coord.** `TableInv`, while the server serves: who holds the mutex; that a row with a
client id is that client's slot (`RowInv`); what each client may rely on at each of its
lines (`ClientInv`); that `clear_slot`, between wiping a row and freeing it, works on a row
nobody has (`RunnerInv`). `ReservationKept` alone is not inductive: it says nothing of a
client that has found its slot and not yet set the flag, nor of the row that is being freed.
`LiveInv` adds that linked segments have different keys, that a served row's shmids are
linked segments with its client's keys, and that a client's copies agree with its row;
`KeysApart` is used where `clean_up_queue_resources` removes segments and where `shm_create`
looks for a key. For `accept`, `StayInv` says that when nobody closes a row with queues never
changes, so that each of its looks, of which only the first is under the mutex, sees
the same row (`AcceptSees`). The refinement maps rows by `SlotView`; `SegmentBound` (at most
two segments for each client served) bounds the shmids as `SlotTable` needs it, and every
step is shown to be the step of the table it implements, or none.

**SemSets.** That `hash` yields an int is an induction over the bits of the word, which
the proof does by the least counterexample (`Least`, `HornerExists`, `HornerType`); which
int is left to TLC. `Types /\ TableInv` has the types, that semids are those of sets made so
far, that one client at a time is in `request_slot`, and where `queue_create` is. `SightInv` for
`NoOrphans`: the live sets of a row have the keys of its client (`RowKeys`), `destroy_semaphores`
has removed those of its row it no longer holds (`Destroying`), and when `clear_slot` is about to
wipe a row that has queues its sets are gone or in `late` (`LeftAtClear`), which is exactly the
window between the two looks at `detach`. Neither needs to know who has which slot.

The other three do, and clients that met in a slot after a restart must not spoil it for the
rest. `HoldInv` says of a client that is not in `clashed` that its row carries its id, is
unmarked and reserved, and names the queues it holds (`Undisturbed`), and that nobody else has
its slot (`Alone`); of the others only what is needed to keep that: whose id a reserved row can carry
(`RowOwned`), that a client comes to its own row first when it closes (`OwnFirst`), and that a
client whose id is in a row another was given is in `clashed` (`SharedClash`). `FirstBoot`
adds what holds until the first restart: a marked row is reserved, and what `clear_slot`
is about to wipe or free is marked or wiped; with it nobody clashes, which is `SlotsKept`.
`KeyInv` for `OnlyLeftoversBlock`: once a set was made for a client no row with its id waits
for queues (`ServedOnce`), a set just made is nobody else's (`FreshInHand`) and holds its
token (`TokenThere`). `OwnInv` for `SemaphoresOwned`: rows in use and `queue_create` share no
semid (`RowsApart`); those of unmarked rows are live, as long as no close has marked another's
row (`MarksKept`); and no client keeps copies of what is now a client's that did not clash
(`CopiesApart`, `HandCopies`, `RowCopies`).

**RpcBench.** `BenchInv`: where the one message of a connection is (`Flight`: asked, in one
handler's hands, answered), whose slots are (`Owned`, `Connected`), and which threads exist
in which phase (`Phases`). `OneInFlight` counts and is not inductive; `Flight` also says
which item it is, which gives `EchoMatches`. `StayInv` adds for tests whose clients stay
that a client has one slot, that the slot `accept` has taken stays as it was seen, and that
each handler's slot has `server_attached` set: the only thing that keeps a second
handler out. The theorems are about `Spec`, the benchmark alone, and about `BenchSpec`,
which the run checks.

**BenchQueue.** `QueueBenchInv`: the one-way programs' queue is the interval of numbers
between consumer and producer, modulo the counters' width (`InOrder`); the echoing
program has its item in exactly one place (`InOnePlace`); main's phases decide whether
queues and threads exist (`Phases`).

Only model-checked: all liveness (`PushReturns`, `PopReturns`, `SemPushReturns`,
`SemPopReturns`, `OpenReturns`, `Reclaimed`, `EveryoneAccepted`, `ShutdownTakesDownOpen`,
`ShutdownReturns`, `Served`, `StayingTestsEnd`, `JoinReturns`), since fairness and ENABLED
are beyond the prover; the four violations; and the values `hash` and the keys take.

## 5. Not modelled, and plan

Left out, and why:

* the TCP baseline (`bench_tcp`) and the experiment harness: they use none of the library's
  protocols; contents of messages, printing, times and sampled statistics;
* `boost_push` and `boost_pop`: they pass a fixed number of bytes to the Boost library, whose
  queue is external and taken as a bounded FIFO;
* `sem_peek` (reads only), the tests `bench_run_all` does not call, `_fake_shm_allocator`
  (used by unit tests only);
* a failing `pthread_create`, and closing a connection twice (excluded by a TODO in the
  code);
* clients that attach while `coord_create` still initialises the region, although
  `RPCTest.OpenClose` and `RPCTest.Accept` have one (section 2): it needs `coord_create` cut at
  every store, the mutex it initialises under a waiting client included;
* a `shmget` that fails at a limit of the kernel (`mem.cpp:23`);
* segments across a restart: `SemSets` restarts the server and has no segments, `Coord` has
  segments and does not restart;
* segment keys that meet (`Coord` uses ids whose keys do not); what meeting semaphore
  keys do is in `SemSets`.

Next: safety facts the liveness arguments rest on and that no run states yet, such as
that a `sem_push` asleep on `sem_full` has a slot or a wakeup under way, and theorems about
`Coord` for the time after `shutdown` was called, which `ReservationKept` and
`OpenQueuesLive` leave out.
