# Verification of hotfuzz

TLA+ specifications of [hotfuzz](../src/README.md), a C++ fuzzing library whose
isolated mode runs each call of the target in a pool of forked child processes.
TLC checks the specifications on small instances; TLAPS checks the theorems of
the `...Proofs` modules for every value of the constants.
All paths below are relative to the repository (`src/`).

## 1. Inventory

| Component | State | Operations | Hard part |
|---|---|---|---|
| **Worker slot** `include/worker/worker.hpp` | `m_state`, `m_pid`, `m_fd`, `m_current_task`, `m_task_deadline`; the child process, its socket pair, its entry in the process table | `spawn`, `send`, `receive`, `expire_if_timed_out`, `stop`, destructor; `child_loop` in the child | the child moves between any two system calls of the parent; EOF, exit status and answer become visible in any order; deadline against late answer |
| **Worker pool** `include/worker/worker_pool.hpp` | `m_state`, `m_pending`, `m_next_task_id`, `m_finished`, the slots; `m_pending_mutex`, `m_workers_mutex`, `m_pending_cv` | `submit`, `wait_one` (dispatch, expiry, poll, collect, respawn), `stop`, `stop_immediately` | two threads, two mutexes taken in different combinations, one atomic written outside both; retry budget; failures half way through a hand-over |
| **Isolated run** `include/fuzz/utils.hpp` (`run_isolated_fuzz`) | consumer thread, `consumer_exception`, the recorder | produce, stop, join, rethrow | how a run ends when either thread fails |
| **Packet transport** `include/protocol/packet_manager.hpp`, `io_utils.hpp` | bytes in the socket, a frame partly read | `send_packet`, `receive_packet`, `write_all_for`, `read_all_for` | partial frames, two deadlines for one frame, blocking descriptors |
| **Children of one pool** `worker.hpp`, `spawn()` and `shutdown_child()` of several slots | open ends of sockets per process | `fork`, `close`, `kill` | a child inherits the parent's ends of its siblings' sockets; who sees an end of file when |
| **Argument stream** `include/fuzz/utils.hpp`, `include/data/` | `m_idx`, `m_current`, grid storage | `iter`, `reset`, `zip`, `grid` | exhaustion half way through a tuple, recursion with resets, providers that come used or twice |
| **Failure recorder** `include/fuzz/failure_recorder.hpp` | `m_entries`, `m_next_record_id`, artifact files, the index file | constructor, `record_result`, `record`, `flush` | file and index fail, or the process dies, half way; the directory is used again |
| **`fuzz()`** `include/hotfuzz.hpp`, `include/fuzz/utils.hpp` | recorder, dashboard, providers | `run_in_process_fuzz`, `run_isolated_fuzz`, replay of an artifact | what is on the disk when it returns, throws or dies |
| **Serialization** `include/serialization/` | none | `to_bytes`, `from_bytes`, serializers of containers | round trip, sizes and cuts, two dispatches that must agree |
| **Dashboard** `include/verbosity/dashboard.hpp`, `scraper.hpp` | `m_failures`, `m_stopped`, `m_previous_cpu`, render thread, the terminal | `publish`, `run`, `sample`, destructor | render thread against destructor, differences of counters |
| Console formatter, generators, demo, JSON library | | | not part of the core logic |

How they interact. `fuzz()` builds a pool and a consumer thread. The main
thread takes tuples from the providers and calls `submit()`; the consumer calls
`wait_one()`, which moves tasks from the queue to idle slots (`send()`), asks
slots for expired deadlines (`expire_if_timed_out()`), polls their descriptors
and calls `receive()`; a slot that lost its child is respawned before the
result is returned. The consumer gives each result to the recorder and the
dashboard. A slot and its child share nothing but the socket pair, signals and
`waitpid()`.

What makes each component correct:

- *Slot*: the held pid is that of its own unreaped child; a task is executed at
  most once, and not at all if `send()` refused it; a status reported to the
  pool says what happened; a slot reused for the next task has nothing left of
  the previous one; every method returns, a `send()` the kernel holds excepted,
  and every task with a deadline ends.
- *Pool*: no task is forgotten or in two places; no execution is retried; a
  drained pool has returned everything it accepted; after shutdown nothing is
  revived; a shutdown cannot be held up for ever.
- *Isolated run*: a normal return means that every result was handled; a run
  ends.
- *Packet transport*: a frame is delivered whole or not at all; reading and
  writing are bounded in time.
- *Children of one pool*: a hang-up is a death, and without the parent the
  children end.
- *Argument stream*: each tuple of the grid once and in order; a stream ends.
- *Recorder*: every entry of the index names a complete artifact of its own
  run; a normal return means that all failures are on the disk.
- *Serialization*: decoding the encoding of a value gives the value, and no
  other sequence of bytes passes for it.
- *Dashboard*: one renderer at a time, the destructor returns, and the last
  frame shows the last failures.

Every hazard met while reading is listed in `PROJECT.json` at the line where it
bites, with the properties that watch it or the reason why there is none.

## 2. Modules

    WorkerContract <--- implemented by --- Worker
          ^
          | obeyed by the slots of
    WorkerPool --- implements ---> TaskLedger
          ^
          | extended by
    IsolatedRun

    ForkTree      several slots and the descriptors their children inherit

    PacketStream --- implements ---> FrameChannel
                                     (the socket as Worker takes it)

    ArgStream ----------+
                        +--- extended by ---> FuzzRun
    FailureRecorder ----+    (the pool in it is TaskLedger's promise)

    Codec         what is in a payload and in an artifact
    Dashboard     render thread, publish() and destructor

### WorkerContract: what a slot promises
Four variables: the slot is stopped, idle or busy; the task in flight; the
tasks it took; the answers it gave. A task is answered at most once, only an
`ok` or an `exception` keeps the slot usable, a refused task is not taken.

### Worker: one slot, its child and the kernel between them
The methods of `worker` are chains of steps linked by `pc`, one step per system
call whose outcome the child can influence, and the child can move between any
two of them.

| Code | Model |
|---|---|
| `m_state`, `m_pid`, `m_fd`, `m_current_task` | `state`, `pid` (number of the fork, 0 for -1), `fd`, `current` |
| `m_task_deadline` against the clock | `expired`, set at any time while a task runs (`DeadlinePasses`) |
| `spawn()` | `Spawn`; a failing `socketpair` or `fork` changes nothing |
| `send()` | `SendStart`, `SendWritten`, then `SendAccepted` or, when the copy of the arguments throws, `SendThrows`; or `SendFailed` (timeout, disconnect, I/O error), `SendUnserializable`; `SendBlocks` and `SendUnblocked` while the kernel holds the call (finding 3) |
| `expire_if_timed_out()` | `CallExpire`, `ExpirePoll` (`poll(fd,0)`), `ProbeExit` (`waitpid`), `ExpireGrace` (10 ms), `ProbeExit`, `ExpireKill` |
| `receive()` | `CallReceive`, the expiry chain if the deadline has passed, `ProbeExit`, then `RecvFrame`, `RecvGarbage`, `RecvTimeout` or `RecvEof`, and `RecvExit` for `wait_for_child_exit_result()` |
| `finish_task_from_response_packet()` | `FinishTask` |
| `make_result_from_wait_status()` | `StatusOf` |
| `stop()` with `shutdown_child()` | `Stop`, `StopWait`, `Teardown` |
| `close_fd()`, `SIGKILL`, `waitpid()`, `reset_parent_state()` | `Teardown` |
| `child_loop()` | `ChildRead`, `TargetEnds`, `BeginReply`, `EndReply`, `ReplyFails` |
| the target, signals, the kernel | `TargetExits`, `ChildSignaled`, `ChildZombie`, `StrayWrite` (external) |

Choices that matter:

- *Frames are whole.* A request partly written is `pc = "sending"`: the child
  reads nothing of it, and `SendFailed` may strike at any byte. A request larger
  than the room in the socket is `pc = "blocked"`: no timeout ends that call,
  only the child's reading or its death. An answer partly
  written is `phase = "writing"`: readable, but not complete.
- *Dying takes two steps.* The kernel closes the socket (`exiting`) before
  `waitpid()` sees the status (`zombie`), which is why the code probes both.
- *Teardown is one step.* After `SIGKILL` and a blocking `waitpid()` no
  behaviour of the child is visible any more, and no other call runs on the
  slot (the pool holds `m_workers_mutex`).
- *The pool's calls are nondeterministic*, within what the pool does: `send` on
  an idle slot with a task that was not accepted before, `receive` on a
  readable busy slot, the expiry scan at any time, `stop` at any time.
- *An exception after the delivery.* `SendThrows` leaves the slot idle while the
  child has the request (section 3, the differences no run is about). `stranded`
  remembers such a task and the child it went to; `IdleInSync` excepts that
  child, and the task's id is what keeps its answer from being credited to
  another one.
- History variables (`runs`, `accepted`, `stranded`, `ended`, `written`,
  `killedWith`, `result`, `endSeen`) are read by no action that models code, but
  for `accepted` and `stranded`, by which `SendStart` says that the pool offers a
  task again only after a refusal.

### TaskLedger: what the pool promises about a task
One fate per task: new, queued, in flight, answered, returned; or lost,
undelivered, discarded. There is no way back from in flight to queued.

### WorkerPool: queue, slots, mutexes, consumer and client thread
`cpc` is the place of the consumer in `wait_one()`, `mpc` that of the client
thread in `submit()`, `stop()` or `stop_immediately()`. The mutexes are not
variables: a thread holds one while its program counter is inside the block
that locks it (`PendingLocked`, `WorkersLocked`). A block that is left without
waiting for anything is one step; the dispatch loop is stepped slot by slot
because a failed respawn throws out of its middle. `stop_immediately()` stores
the state first (`StopImmediately`) and takes the locks later (`StopWorkers`).
Spurious wakeups are modelled. `Sending` is the consumer inside a slot's
`send()`, which may refuse, accept, throw (`SendThrows`) or never return. A slot is what `WorkerContract` says: the run
`pool` checks that every step of the pool is allowed by the contract
which `Worker` implements. `"crash"` stands for each of the statuses that cost
the slot its child; they are treated alike by the pool.

### IsolatedRun: main thread, consumer thread, pool
Extends `WorkerPool` and says who calls it when: `submit` until the providers
are exhausted or throw, `stop` or `stop_immediately`, `join`, the destructor;
the consumer calls `wait_one`, handles each result and keeps its exception. A
`record_result()` may fail, with a `runtime_error` or with something else.

### FrameChannel and PacketStream: the bytes below a frame
`Worker` takes the socket for a queue of whole frames. `FrameChannel` says just
that, and `PacketStream` models one direction of the socket pair with the two
calls that use it. `sendTimed` and `recvTimed`, chosen in the initial state, say whether a timeout
was configured: the parent receives answers with one, the child receives
requests without, and each may send either way.

| Code | Model |
|---|---|
| the kernel's socket buffer | `buf`, at most `Capacity` bytes (external) |
| `send_packet()`: one deadline for header and payload | `SendBegin`, `sLate`, `SendDeadline` |
| `write_all_for()`: deadline test and `poll(POLLOUT)` | `WriteTest` |
| `send()` on a blocking descriptor, in `write_all_for()` or `write_all()` | `WriteByte`, `WriteBroken` |
| `receive()`: one deadline for header and payload | `ReceiveBegin`, `rLate`, `RecvDeadline` |
| `read_all_for()`: deadline test and `poll(POLLIN)` | `ReadTest` |
| `read()`, in `read_all_for()` or `read_all()` | `ReadBytes`, `ReadEof` |
| `validate_header()`, `decode_packet()` | `CheckHeader`, `CheckPayload` |

Choices that matter:

- *A byte is known by its packet and its place*, which the receiver does not see.
  `validate_header()` compares three fields, magic, version and header size, with
  values that are the same in every packet (`Leading`); kinds are only held
  against each other, and flags, task id and payload size against nothing. So
  `PassesWith` lets a header that is one packet's pass with that packet's size;
  bytes out of step pass with any size if those at the first places *may* be the
  leading ones. A leading byte of some header is known to hold its value, every
  other byte, of a payload, of a task id or a foreign one, may hold what is
  needed. Payload bytes are not looked at; `decode_packet()` may accept or refuse
  them.
- *A foreign byte ends all promises but those about packets sent before it*:
  `clean` counts these, and `received` gets 0 for something that is no packet.
  Whole frames forged on the socket are the subject of `worker_stray`.
- *`send()` blocks.* `spawn()` makes blocking sockets and no `MSG_DONTWAIT` is
  passed, so after `poll()` said writable the call copies *all* that is left of
  its half (header or payload) and waits inside the kernel for room.
- *Who fails closes.* Every caller gives the channel up after an error:
  `worker` kills the child and closes the descriptor, the child leaves its loop.
- *A timeout is a flag*: zero means to wait without a limit (`packet_manager.hpp`), which
  is a different path through the code, `write_all()` and `read_all()`.

### ForkTree: the descriptors of several children
`fork()` copies every descriptor of the parent, and a child closes only the
parent's end of its own socket. So child *n* holds the parent's ends of all
older siblings that were open when it was forked, and an end of file reaches a
sibling only when the last of these copies is gone. `parentEnd[c]` and
`childEnd[c]` are the processes that hold the two ends of the socket of child
*c*; what a process held is closed with it.

| Code | Model |
|---|---|
| `spawn()`: `socketpair`, `fork`, the `close` on either side | `Spawn`, `Inherited` |
| `send()` | `Send` |
| `shutdown_child()`: stop packet or none, `close_fd()`, `SIGKILL` and `waitpid()` | `ShutDown`, `CloseEnd`, `Kill` |
| `child_loop()`: a request, a stop, the end of file | `Receive` |
| the target returns, or ends the process | `TargetEnds` |

All calls on slots are made under `m_workers_mutex`, so nothing comes between
the three steps of a shutdown but the children.

### ArgStream: where arguments come from
Providers are objects with `idx` and `cursor`; `arg` says which object is passed
for which argument, so that the same object may be passed twice. The recursion
of the grid is unrolled into the position `level`, and a zip walks the same
positions. In-process and isolated mode have the same loops; they differ in
what is done with a tuple and in the call without arguments, which
`NextTuple(single)` distinguishes. A value is the number its provider gives it.

| Code | Model |
|---|---|
| `iter()`: test, `next()`, `++m_idx` | `Exhausted`, `Following`, `Draw` |
| `reset()` of the base class and of `iterable_provider` | `Rewound`, `Reset` |
| `exhaustion_signal` caught by a zip or a level of the grid | `Exhaust` |
| the innermost level, `materialize_args()` | `NextTuple` |

`ProductTuple` and `ZipTuple` are the reference definitions: the *j*-th tuple
of the Cartesian product, last argument fastest, and of the zip.

### FailureRecorder and FuzzRun: from the first line of fuzz() to the disk
`FailureRecorder` steps through `record()` and `flush()`: the id is taken, the
artifact is opened (and truncated), written, its bytes reaching the disk now or
when the stream is closed; the entry is appended, the index truncated, dumped;
the streams are closed. Every place where the operating system may refuse, or
lose bytes without anybody looking, is an alternative counted by `MaxFaults`,
and so is the death of the process between any two steps. `lost` remembers
which files of the run a loss nobody sees has hit: the code cannot know, and
the properties except just those.

`FuzzRun` extends both and calls them as `fuzz()` does: constructor of the
recorder, zip, grid or the replay of an artifact, in process or through a
consumer thread, and the ways to leave. The providers and the directory survive
into the next call. The pool is a set of tasks that come back once each in any
order (`TaskLedger`); how it gets there is the subject of `IsolatedRun`, and so
are the errors of the pool itself. The calls of the dashboard are in
`Dashboard`. `failed` lists the failures of the current run in the order in
which they were seen, and `ever` the arguments of all runs'; only the properties
read them. `failures` counts over all runs, for the bound *MaxFailures*.

### Codec: payloads and artifacts
A cell stands for the bytes of one scalar. Types are records of a kind and its
parts; values say which sort of object they are (`Scalars`, `Flag`, `List`,
`Alternative`, `Keys`, `Entries`). The code is templates, which the compiler
instantiates from the innermost type outwards, and so is the model:

| Code | Model |
|---|---|
| `serializable_v` and the other concepts | `TypesOver(T)`: the types with parts in `T` |
| `write_value<T>()`, `read_value<T>()` with the functions of the parts of `T` | `WriteValue`, `ReadValue` with `inner`, a function from types to those functions |
| the containers of the core | `WriteArray`, `ReadVector` and so on |
| `serializer<T>` of pair, tuple, optional, variant, set, map, and the user's | `...ToBytes`, `...FromBytes` |
| `byte_reader::read_bytes()`, `empty()` | `Take`, `Whole` |
| instantiation | `Instantiate` for one type, `LevelOver` for all with given parts, `Level[MaxDepth]` |
| `to_bytes()`, `from_bytes()` | `ToBytes`, `FromBytes` |

Nothing is recursive over the type but the function `Level`, which is what the
proofs need. Reading yields a value or a kind of failure: *malformed* (a
`runtime_error` of the library), *allocation* (a container refuses the size it
was told), *undefined* (a `bool` that is neither 0 nor 1). The state machine
around it writes a value, loses some of its end or none, and reads it back, as
its own type or as another.

### Dashboard: render thread, publish, destructor
`pc["owner"]` is the thread that makes and destroys the object,
`pc["thread"]` the render thread; sections under `m_mutex` are steps. Scraper
and `std::cout` are used without a lock by both, which is why a frame takes
four steps (`Copy`, `ReadMachine`, `Sample`, `Show`). The counters of `/proc/stat`
and that of `/proc/self/stat` are read one after the other, with time between
them; the first may go back (`Tick`: the kernel gives no guarantee for iowait), and
the differences are those of `std::uint64_t` (`Minus`, with `Word` for 2^64).
A figure is kept as numerator and denominator. `publish()` may be called by any
thread; it comes before the destructor because `fuzz()` joins its consumer
first. A dashboard without a terminal is `inactive`.

### MC modules
`MCWorker`, `MCWorkerPool`, `MCIsolatedRun`, `MCPacketStream`, `MCForkTree`,
`MCFuzzRun`, `MCCodec` and `MCDashboard` are the instances; `.cfg` files
give the constants their values. Definitions marked *Mutant* in the modules are
plausible bugs, each of which makes the property it is listed with fail; they
are used by no specification.

## 3. Runs

| Run | Instance | What it shows |
|---|---|---|
| `worker_safety` | 2 tasks, 2 children, with task deadlines | pid ownership; at most one execution; refused tasks never run; truthful outcome; CRASH only for a signal; an idle slot is in step with its child; an end that was visible is not a TIMEOUT; `Worker` implements `WorkerContract`; every method returns but a `send()` inside the kernel; every task in flight leaves the slot |
| `worker_stray` | 2 tasks, 2 children, 1 stray frame | types; a task is only credited with a frame of its own id |
| `fork_tree` | 3 slots, 4 children | ends go to younger siblings only; a hang-up is a death; orphans end |
| `pool` | 2 slots, 2 tasks, 2 attempts | conservation of tasks; no respawn after shutdown; drained means returned; `WorkerPool` implements `TaskLedger`; slots keep the contract; `stop_immediately()` and notifications return unless a `send()` does not |
| `isolated_run` | 2 slots, 3 tasks, 1 attempt | types of both modules; at most one task goes unrecorded behind a normal return; no false failure; a run ends, oversleeps with all work done or hangs in a `send()` |
| `fuzz_run` | 2 calls of `fuzz()`, 5 callers, 2 failures, 1 fault | the index names complete artifacts of its own run; a normal return means all failures are on the disk; a replay uses recorded arguments; grid and zip agree with their reference; the run ends |
| `stream` | 3 packets of 3 + 0..2 bytes, room for 3, with and without timeouts, 1 foreign byte | without foreign bytes the byte stream implements `FrameChannel`; the packets sent before the first one are received whole, in order and none twice, whatever is cut off or follows; `receive()` with a timeout ends; a send that does not end is inside `send()` on a full socket |
| `codec` | 61 values of 14 types | round trip; a cut encoding is refused; nothing is skipped |
| `dashboard` | 3 failures, room for 2, 3 moves of the counters | one renderer; last frame and terminal; what CPU figures can be; the destructor returns |
| `blocked_send` | 1 packet larger than the socket's room | **violated**, see below |
| `lost_wakeup` | 1 slot, 1 task | **violated**, see below |
| `swallowed_error` | 1 slot, 1 task | **violated**, see below |

### Disagreements between code and documentation

1. **A finishing run may sleep for ever** (`lost_wakeup`, property `RunEnds`).
   `stop()` stores `m_state` and notifies without holding `m_pending_mutex`
   (`include/worker/worker_pool.hpp:416-422`). When that happens after the
   consumer has evaluated the predicate of `m_pending_cv.wait` and before it
   blocks, the notification is lost; all work is done, so nobody notifies again
   and `consumer.join()` waits for ever, unless a spurious wakeup comes.
   `isolated_run` shows that, besides the blocked `send()` of 3, this is the only
   way in which a run fails to end, and that `stop_immediately()`, which takes the
   mutex, is free of it. `lost_wakeup` assumes that every `send()` ends.
2. **An error about the last task is taken for the end** (`swallowed_error`,
   `NormalReturnMeansAllHandled`). The consumer drops every
   `std::runtime_error` if `pool.drained()` holds when it looks
   (`include/fuzz/utils.hpp:405`). A `dispatch_error` or a failed recording of
   the last task of a finishing pool meets that test, and `fuzz()` returns
   normally. `isolated_run` shows that never more than one task is hidden.
3. **A timeout does not bound a large write** (`blocked_send`, `SendEnds`).
   `write_all_for()` promises to write "before timeout expires"
   (`include/protocol/io_utils.hpp:141`), but after `poll()` it calls `send()`
   on a blocking descriptor (`:185`). If the socket has some room and not
   enough for the rest, and the peer is alive but does not read (a child stopped
   by a signal, say), the call stays in the kernel past the deadline.
   `stream` shows that this is the only place where a send can be held. `Worker`
   and `WorkerPool` have the blocked call too: it holds the consumer with both
   mutexes, so that `stop_immediately()` and the run wait for it
   (`MethodsReturn`, `ClientCallsReturn`, `RunEndsOrOversleeps`).
Differences seen in the models that no run is about:

- `send()` "either hands the task to the child and marks it in-flight, or reports
  why that hand-off never completed" (`worker.hpp:349-350`), but
  `task.args = args` (`:432`) runs after the frame was written and may throw
  (`SendThrows`): the slot stays idle and the child runs the task.
  `worker_safety` shows what remains true: no such task is executed twice or
  reported falsely.
- `finished()` is the "Number of execution results returned by wait_one()"
  (`worker_pool.hpp:94`), but a result is counted before a respawn (`:567-568`)
  that may replace it by `dispatch_error`: the tasks of `Lost` are counted and
  never returned. `Collect` counts where the code does; no property is about it.
- The recorder does not clean `bin`, so as not to delete user data silently
  (`README.md:656`), but record ids restart at 1 in each run and an artifact of
  the same kind and id is overwritten. `IndexedComplete` shows that the index is
  never about the wrong one.
- `from_bytes()` announces `std::runtime_error` for a malformed buffer
  (`serialization/api.hpp:37`); a size prefix that is too large meets
  `resize()` or `reserve()` first and leaves as `length_error` or `bad_alloc`.
- `close_fd()`: "fd ownership is parent-side only" (`worker.hpp:1137`), but
  younger siblings hold inherited copies, and the close is no end of file for
  the child while they live. The kill that follows is what ends it; when the
  parent dies a child waits for its younger siblings (`OrphansEnd`).
- A zip without arguments runs for ever in process and once in isolation; a grid
  over a random inner provider is no product, for the provider is not rewound.

### Bounds

- *Tasks*: two make one slot go through a complete task and the next one, which
  is what ids and left-over frames can confuse; in the pool one is in flight or
  waits to be redelivered while the other moves. `isolated_run` has a third.
- *MaxSpawns*: two children; pid ownership and left-over frames only relate a
  child to its successor.
- *MaxStray*: one stray frame, of any kind and id, before, after or instead of
  an answer. `HonestOutcome` is checked with none, for a target that forges the
  answer to its own id cannot be told from one that gives it.
- *MaxAttempts*: 2 gives a task that is retried and one whose budget is used up;
  `isolated_run` has 1, for the run sees no difference between the two.
- *HeaderLen, Leading, MaxPayload*: a header of 3 bytes has two leading ones, which
  differ, and one that is compared with nothing; it can be split, and so can a
  payload of 2; a payload of 0 is the path without a second half. *Capacity* is
  3, so that a packet may or may not fit and a write meets a buffer with too
  little room for it. *MaxPackets*: 3 lets one be lost between two others.
- *MaxNoise*: one foreign byte, before, inside and after a header or a payload;
  every byte behind it is out of step from then on.
- *NumWorkers*: 2, the least number for which the order of the scan matters.
- `fork_tree`: three slots give a child two older siblings, and a fourth child
  refills a slot whose first child had younger ones.
- `fuzz_run`: *MCSetups* are a call without arguments, one provider that wraps
  around, two providers, two of unequal length of which one is random, and one
  object passed twice; the longest product has 4 tuples (*MaxCalls*). Two runs
  let the second find what the first left on the disk and in the providers, two
  failures let one be lost behind another, and *MaxFaults* is one fault or death
  at any step: the code handles each by itself and keeps no count.
- `codec`: a container inside a container, empty and full, every kind of type;
  a cell that is a legal size or flag and one that is more than *AllocMax*.
  *MaxDepth* is 3, which the tuple with a user's tuple in it needs.
- `dashboard`: one failure more than there are places. Three moves of the
  counters make a figure of more than 100 per cent (two busy ticks and the
  iowait back by one), a total that wrapped, and a share of the process above the
  machine's; each was seen to happen. *Word* is 16, more than the counters reach,
  as 2^64 is.

No counter is cut off in a way that could hide a step: when `spawns` or
`nextId` reaches its bound only `Spawn` or `Submit` is no longer possible.

### Fairness

- `Worker`: weak fairness of the parent's steps (a method that was entered goes
  on, its waits are bounded by `frame_timeout` and the like), of the passing of
  the deadline, and of the expiry scan; strong fairness of `CallReceive`,
  because the pool polls every busy slot again and again, though the expiry
  scan may come in between, as long as it is not itself held in a `send()` to
  another slot. None of `SendUnblocked`: the kernel owes a blocked `send()` nothing
  while the child does not read. Nothing is assumed of the child. `worker_safety` has
  `HasDeadline = TRUE`, the default (`task_timeout` is 1000 ms); without it a
  target that does not end holds its slot, as documented.
- `WorkerPool`: weak fairness of `wait_one()` outside `send()`, and of the
  client's calls; nothing obliges a `send()` to end.
  `std::mutex` is not fair, so strong fairness would be unjustified: a thread
  that finds the mutex free only now and then may never get it. That
  `stop_immediately()` returns all the same is what storing the state before
  locking is for.
- `IsolatedRun`: weak fairness of both threads, outside `send()` again, and of
  each task's deadline; `lost_wakeup` adds that every `send()` ends.
  Spurious wakeups are possible but not promised.

- `PacketStream`: weak fairness of both calls once they were entered, and of
  the passing of their deadlines. Nobody has to call `receive()`, which is what
  makes a full buffer possible.
- `FuzzRun`: some thread of the run goes on when one can, no matter which: the
  loops are finite, so neither can hold up the other for ever. Nobody has to
  call `fuzz()` again.
- `Dashboard`: weak fairness of the render thread and of the destructor once it
  began; `fuzz()` need not end.
- `ForkTree`: weak fairness of what an idle child reads. A target may run for
  ever.

Deadlock is checked in the runs of `Worker` and `WorkerPool`. It is not in
those of `PacketStream`, which stops when both ends are closed, of `FuzzRun`,
`Dashboard` and `ForkTree`, which stop when the last run, the destructor or the
last process has ended, of `Codec`, where a value is read once, nor in
those of `IsolatedRun`, because a run is meant to stop: the last state has
`main = "done"`; that it stops nowhere else is what `isolated_run` checks.

## 4. Theorems

Every safety property the passing runs check is proved by TLAPS; so are the two
action properties and the refinements. The theorems hold for every value of the
constants, under the assumptions the modules state
of them (`WorkerAssumption` and the like: bounds are natural numbers, `NoTask`
is no task, a container is not empty). Two theorems have a hypothesis of their
own, `MaxStray = 0`, see `Worker`.

| Module | Theorem | Property |
|---|---|---|
| `WorkerProofs` | `TypeCorrect`, `PidOwned`, `RunAtMostOnce`, `NeverRunUnaccepted` | `TypeOK`, `ProcessOwned`, `AtMostOnce`, `RefusedNeverRuns` |
| | `CreditedWithOwn`, `SeenEndIsHonoured` | `OwnAnswerOnly`, `EndSeenIsNoTimeout` (action property) |
| | `ReportsAreHonest`, `IdleChildInSync` | `HonestOutcome`, `IdleInSync`, both with `MaxStray = 0` |
| | `SlotRefinesContract` | `ImplementsContract` |
| `WorkerPoolProofs` | `PoolTypes`, `PoolHomes` | the invariants `TypeInv` and `HomeInv` |
| | `TasksConserved`, `NoChildAfterShutdown`, `DrainedIsDone` | `Conservation`, `NoRespawnAfterShutdown`, `DrainedMeansReturned` |
| | `PoolKeepsLedger`, `SlotsObeyContract` | `ImplementsLedger`, `SlotsKeepContract` |
| (about `IsolatedRun`) | `RunTypesHold`, `OneSwallowedAtMost` | `RunTypeOK`, `AtMostOneSwallowed` |
| `ForkTreeProofs` | `EndsGoToYounger`, `HangUpTellsDeath` | `HeldByYounger`, `HangUpIsDeath` |
| `PacketStreamProofs` | `PacketsComeInOrder`, `StreamIsChannel` | `ReceivedInOrder`, `ImplementsChannel` |
| `FuzzRunProofs` | `IndexIsComplete`, `ReturnIsIndexed`, `ReplayOnlyFailures` | `IndexedComplete`, `ReturnMeansIndexed`, `ReplayIsFailure` |
| `ArgStreamProofs` | `ZipIsInStep`, `GridIsTheProduct` | `ZipInStep`, `GridIsProduct` |
| `DashboardProofs` | `ScraperHasOneUser`, `LastFrameIsComplete`, `FiguresAreSound` | `OneRenderer`, `LastFrame`, `PercentIsSound` |
| `CodecProofs` | `EveryRoundTrip`, `NothingIsIgnored` | `RoundTrip`, `NothingIgnored` |

The layers fit together. `StreamIsChannel` justifies the queues of whole frames
in `Worker`, `SlotRefinesContract` and `SlotsObeyContract` the slots of
`WorkerPool`, `PoolKeepsLedger` the set of tasks that stands for the pool in
`FuzzRun`; the theorems about `IsolatedRun` stand behind those about the pool
and reuse their lemmas, since every step of a run is a step of the pool or leaves the pool alone. Where
no refinement mapping joins two modules (`FrameChannel` and `Worker`,
`TaskLedger` and `FuzzRun`) that one stands for the other is a matter of reading
them side by side.

### Inductive invariants

Each was first checked by TLC on the instance of the run, except `StreamInv` and
the `Counted` part of `GridInv`, which ask for a function out of an infinite set.

**Worker.** `TypeInv` adds to the types that what is being delivered or served
*is* a task. `OwnInv` adds to `ProcessOwned` that a method under way, short of
its teardown, has a child; `ProcessOwned` alone does not exclude a state in which
`Reap` leaves a descriptor behind in the middle of a method. `OnceInv` is about
the socket: while a request for `t` is in it, `t` has not run and the parent is
past the last point where `send()` may fail, and no two requests there are for
the same task, so a request that reaches the target is the only one. `SlotInv`
says where `m_state` and the verdict stand at each `pc`; under the mapping that
shows a broken slot as still idle or busy every step is then a step of the
contract or a stutter (`ContractStep`). `WrittenInv`: what is in the socket was
put there by the child. `SeenInv`: an end that was visible when a method began
is still visible when the deadline is examined, so the later steps of
`expire_if_timed_out()` are not reached. `CrashInv` and `HonestInv` follow the
status from the child's end over the process table and the verdict to the
result. `InStep` ties the place of the parent to that of the child and to the
content of both directions, and is what makes a reused child safe: if it is alive
it reads, for an idle child may have died unseen. After a `send()` that threw the
child is one request ahead of its slot: `HeldInv` says that it holds only requests
of such sends and the open one, and answers one of the former first, whose id is
not that of the task in the slot (`ChildInv` joins the two). A target that
writes a frame with the id of its own task into the inherited descriptor cannot
be told from `child_loop()`, so `HonestInv` and `InStep` hold for `MaxStray = 0`
only; what remains with stray frames is `CreditedWithOwn`.

**WorkerPool.** `HomeInv` splits the submitted tasks over queue, slots, the hands
of `wait_one()`, answers and fates, each in one place. What the hands hold
between taking a task and passing it on (`redeliver`, `respawn`) is the point:
`Conservation` says nothing of it, and every exception that leaves the dispatch
loop leaves from there. `ShutInv` says that after `stop_immediately()` nobody is
left inside a critical section: a thread in `wait_one()` looks at the state again
before it locks. `OwnerInv` relates the contract's history of a slot to the pool's.

**IsolatedRun.** `HandledInv`: the tasks `wait_one()` is through with are those
handled, and at most one more, which is in the consumer's hands or which its
exception was about. `SwallowInv` and `BlameInv` say that a consumer that dropped
its exception left a drained pool and one that kept it left a task behind.

**ForkTree.** `HeldByYounger` is inductive with the types; `HangUpIsDeath` needs
`ChildEndInv`, that the only copy of a child's own end is the child's.

**PacketStream.** What was read of the current packet and what is in the socket
make one sequence that reading does not change. `Streaming` splits it into bytes
that stand in their places, beginning with the packet due (`Trace`), and the rest,
which is empty until a foreign byte comes and after that lies behind the packets
counted in `clean`. As long as fewer were received (`InStep`), the header
that is checked is a real one, so it is that of the packet due, and `ReadInv` says
that `body` is its size. `Ahead` keeps the distances between the places.

**FuzzRun.** `RecorderInv` says for each place of the recorder which entries are
safe, what the index on the disk holds, and by how much both lag behind the
failures seen. An index is always about files of its own run because the
constructor truncates it before the first record can overwrite an artifact
(`Making`). `UserInv`, `DoneInv` and `TodoInv` say who may be using the recorder,
why the consumer ended, and which tasks are out; `ReturnInv` collects what a
normal return rests on. `ArgsInv` bounds the arguments in every artifact, whole
or cut, by those some run saw fail.

**ArgStream.** `ZipInv`: each provider has given a value per tuple and one more
before the level, and its iterator stands where that number says. `GridInv`
gives the number of calls as a function of the places of the loops: with the
ranks `r[p]` (how many values of the arguments before `p` came before), it is
`r[l] * Combinations[l] + Got[l] * Combinations[l + 1]` at loop `l`, and the
prefixes of a tuple enclose its number (`Ranks`), so that the places are its
digits (`CountIsProduct`) and the loops end after `Combinations[1]` calls.
`Combinations` is defined by recursion over the arguments; that a function
satisfies its equation is shown for its last `k + 1` places, with a least
counterexample (`LeastNat`, `CombinationsIs`) where the induction theorems of the
library cannot be instantiated.

**Dashboard.** `PhaseInv` says which stages of the two threads go together.
`ListInv` and `FinalInv` carry the newest failures to the last frame. `ReadInv`
orders the snapshots in time (`Since`): the previous one before the one just read,
that before the counters as they stand. It needs `PhaseInv`, since a second
renderer could put its snapshot in between. `BusyCancels` is the arithmetic: with
differences that may each have wrapped, total less idle is what was busy.

**Codec.** `CodecInv` says what the cells are at each `pc` (the encoding, or a
beginning of it) and that `outcome` is what `from_bytes()` makes of them. Then
the properties are facts about `Level`, for which the lemmas go upwards. Three
statements about a writer and its reader are carried along. `Reads`: an encoding
with anything behind it gives the value and leaves the rest. `Refuses`: every
proper beginning of an encoding is *malformed*, never an allocation that fails.
`Exact`: whatever is accepted starts with the encoding of
the value it is taken for; this is the one without sets and maps. They are shown
for `n` elements one after the other (`LoopReads`,
`LoopRefuses`, `LoopExact`), from these for each kind of type given its parts
(`TypeAgrees`, `TypeExact`), and then for every level (`EveryLevelIsGood`).
Nothing here is about the order in which a set keeps its keys except that equal
sets have the same. Two inductions are needed, over the elements and over the
levels; as in `ArgStream` the induction theorems cannot be instantiated, and a
set of numbers that contains 0 and with each number the next is shown to be all
of `0..n` with a least counterexample (`CountUp`).

### Only model-checked

- Liveness under fairness, out of the prover's reach: `InFlightEnds`,
  `MethodsReturn`, `OrphansEnd`, `ClientCallsReturn`, `RunEndsOrOversleeps`,
  `RunEnds`, `ReceiveEnds`, `SendEndsOrBlocked`, `DestructorReturns`; and absence
  of deadlock.

## 5. Plan

All components that keep state are modelled, and their safety is proved. What
could follow:

1. Refinement mappings where reading side by side has to do now: from `Worker`
   with explicit channels to `FrameChannel`, and from the consumer of `FuzzRun`
   to `TaskLedger`.
2. Shorter proofs where two components need the same facts about sequences.

## 6. Not modelled

- Exhaustion of memory (`std::bad_alloc`), except where the code names it as a
  failing allocation for a payload (`RecvGarbage`).
- `EINTR`: the code retries it; in the model it is part of the wait.
- `SIGCHLD` ignored or a foreign `waitpid()` reaping the children (`ECHILD`).
- Timeouts configured as zero are modelled in `PacketStream` only; in `Worker`
  receiving a frame and sending one that fits are bounded. `remaining_timeout()` rounds down to whole milliseconds, so that the
  last part of one counts as expired; a deadline that passes early in this
  sense is one that passes.
- Windows, where the isolated mode does not exist.
- Several consumers of one pool: `fuzz()` has one.
- `respawn()` of the worker, `stop()` followed by `spawn()`, which nothing calls.
- In `FuzzRun`: the errors of the pool (they are in `IsolatedRun`), a run without
  a recorder beyond its control flow (`UseRecorder` is `TRUE` in the instance),
  `publish()` after a record, and a `next()` that throws something of its own.
- The files of the recorder are not `fsync`ed; a loss of power after the
  process has ended is not modelled.
- What a forked child inherits of locks that other threads of the parent held.
- Processes the target itself forks. They hold copies of the child's end of the
  socket, so that the child's death is no hang-up while they live: `HangUpIsDeath`
  is about hang-ups that come, not that they come.
- Whatever a header that is out of step makes of the stream beyond passing or
  failing: see `PassesWith`.
- Memory figures of the scraper; that `/proc/stat` and `/proc/self/stat` count the
  same time with different grain.
- The values of the random generators.
- Text: names, messages, layout.
