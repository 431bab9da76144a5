# OxideJS: a verification project

TLA+ models of OxideJS, a JavaScript engine in Rust: the pool of virtual
machines, the server process and its shutdown, the registration of server
processes, the Worker API, promises with their microtask queue, async
generators, the optimising compiler from emission to call windows, and the
supervisor that runs the test262 suite. TLC checks them on small instances.
TLAPS proves the safety properties of the pool, the server, the registration,
the workers, the promises, the async generators and the test262 supervisor for
every size.

`PROJECT.json` lists the components, the runs, the source lines behind every
definition, the hazards and the theorems.

## The system

| part | state | operations | what makes it hard | module |
|---|---|---|---|---|
| VM pool (`oxide_vm/src/vm_pool.rs`) | idle VMs, `total_count`, shared counters | `with_counters`, `spawn`, guard drop, `collect_idle_gc` | condition variable with a timeout, counters outside the mutex, dirty VMs | `VmPool` |
| server process (`oxide_cli/src/server/server.rs`, `workers.rs`) | connection threads, router, bounded queues, workers, files | accept, authenticate, route, execute, drain, close, join, unlink | shutdown racing requests, full queues, panics, a drain that times out | `Server`, `Dispatch` |
| registration (`sidecar.rs`, `liveness.rs`, `cleanup.rs`, `server.rs`) | sidecar file, sockets, processes | scan, claim, takeover, bind, exit, cleanup | several processes on one file system, crashes between any two system calls, reused process ids | `Registry` |
| Worker API (`oxide_vm/src/worker`) | worker registry, two channels per worker, threads | spawn, post, terminate, poll, dispatch, clean up, reset | user code between any two steps, threads that fail or unwind, joins | `JsWorker` |
| promises (`oxide_vm/src/promise`) | promise states, reactions, job queue | resolve, reject, then, executor, drain | re-entrancy, delegation to thenables, a limit on drains | `Promises` |
| async generators (`oxide_vm/src/async_generator.rs`) | phase, request queue, suspended frame, registered closures | next, return, throw, await, yield, `yield*`, loop closing, disposal | requests made while the body runs, one wake-up at a time | `AsyncGenerator`, `RequestQueue` |
| test262 runner (`oxide_test262`) | shared cursor, windows, child processes, connections, heartbeats | assign, poll, kill, resume, count | children that hang or crash between two writes, a listener shared by threads | `Shards` |
| compiler (`oxide_emit`, `oxide_cfg`, `oxide_fold`, `oxide_liveness`, `oxide_dce`, `oxide_regalloc`, `oxide_compiler`) | one function at a time | emit, fold, sweep, colour, spill, rewrite, encode | fixpoints, loops and handlers, values that share a register | `Ir`, `Emit`, `Dataflow`, `Dce`, `Fold`, `RegAlloc`, `Optimiser` |
| interpreter (`oxide_vm/src/vm_runtime.rs`, `vm_dispatch_ctrl.rs`, `vm/call.rs`) | registers, spill slots, handlers | one frame | unwinding through catch and finally, what a call saves | `Bytecode` |

The parts meet as follows. A server process registers itself (`Registry`), then
serves (`Server`). Each of its workers owns a pool (`VmPool`), and all pools
share one set of counters. A VM runs compiled scripts (`Optimiser`, `Bytecode`),
which create promises (`Promises`), async generators (`AsyncGenerator`) and
workers (`JsWorker`). When a guard is dropped its VM is reset, which ends the
VM's workers. The test262 runner (`Shards`) starts engines as child processes.

## The models

Common conventions. A thread or process is a program counter (`pc`, `main`,
`conn`, `thread`, ...), and each action is one atomic step of it: what happens
under a lock, or one system call. Timeouts are nondeterministic choices. A
panic unwinds its thread, as in the development and test profiles; the release
profile sets `panic = "abort"`, where a panic ends the process and the
behaviours of the model are those up to it. History variables, marked in the
declarations, serve the properties only. Operators that stand before the
definition they resemble are faulty variants (a missing guard, a lost update):
nothing uses them, and every property has one that violates it.

### VmPool

`available`, `total` and `owner` are the mutex-protected state of each pool,
`counters` the shared `PoolCounters`. `SpawnCall`, `SpawnPop`, `SpawnGrow`,
`SpawnWait`, `WaitTimeout` and `ForceGrow` are the paths of `spawn`;
`CountReuse`, `CountGrow`, `RecordBorrow` and `RecordPeak` its counter updates,
which are separate steps because other pools update the same atomics.
`DropClean`, `DropDirty`, `CountReturn` and `RecordReturn` are the guard's drop,
`GcBegin` and `GcEnd` `collect_idle_gc`, `WithCounters` and `Warm*` the
constructor. Idle VMs are a set: which of them is popped does not matter to the
properties.

### Server and Dispatch

The main thread (`AcceptCheck` ... `UnlinkSidecar`), one thread per connection
(`AuthPasses`, `ReadTask`, `RouteLock`, `SendOk`, `RecvReply`, `Answer`,
`ConnLeave`, ...) and the workers (`WorkerTake`, `WorkerReply`, `WorkerPanic`,
`WorkerExit`). `RouteLock` clones a sender under the router's lock and `SendOk`
uses it afterwards, so that `Close` and the end of a worker fall in between. It
starts as `run_server` or as `run_server_rm`, the variant for one client. A
request is one that a worker executes (`eval`, `forge`), a control request or
`shutdown`. What a program computes is left out.

`Dispatch` is what a connection may rely on: its request is executed at most once,
and what its client is told of it is true. A refused request has not been executed
and will not be, a result comes from an execution, and a request is lost only by
the panic of its worker, begun, or behind the one that panicked, not begun.
`Server` is checked to implement it (`ImplementsDispatch`): what has become of a
request (`Fate`) is read from where its thread stands, the reply channel and the
answer; what the client is told (`Told`) is the answer.

### Registry

Each server process and each run of the cleanup command interleave at every
system call. `Scan*`, `Zombie*` and `Rm*` are the scan at startup and the
cleanup command; `Create`, `Write`, `Chmod`, `Claim*` and `Stale*` the claim of
the sidecar; `Yield*` the takeover of a server of another version; `Bind` and
`Rollback` the listener; `Drain` and `Exit*` the end of a server, abstracted
from `Server`. `Crash` may stop any process anywhere. `Cut` deletes a socket
file from outside. Processes with the same `Pid` never live at the same time.

Startups and cleanups may overlap in any way, and two of the things the code
promises are then false (`registry_race`, `registry_scan`). What remains true is
stated with two history variables. `clean` holds the servers whose own startup
overlapped no other startup or cleanup, and found no server running that was not
clean itself; others may overlap as they like once such a server serves. `alone`
holds the server that was started when no other process ran, until one starts.
`Casts` is a bound: the sets of processes of which one may be started in one
behaviour.

### JsWorker

The main thread is in user code, in the event loop (`Turn`, `Poll`, `Dispatch`,
`Clean`), joining a worker (`SendTerminate`, `Join`) or resetting the VM
(`Shutdown`, `FullReset`). User code may do anything its API allows: `Spawn`,
`Post`, `Terminate`, or return. A worker runs its script, then takes letters one
at a time (`Take`) until it is told to stop, closes itself (`SelfClose`,
`CloseSeen`) or unwinds. Messages are numbers, so that order and loss are
visible. Structured clone, transfer lists, `importScripts` and workers of
workers are left out.

### Promises

`Settle`, `ResolvePromise`, `ResolveClosure`, `RejectClosure` and `React` are
the functions of `settlement.rs` and `reactions.rs`. User code calls them in any
order from the script, from executors (which nest), from handlers and from the
`then` of a thenable. `Popped` and the `Run*`, `Handler*`, `Then*`, `Drain*`
actions are `drain_microtasks` and `run_microtask`. A thenable is a promise, an
object with a user `then`, or an object whose `then` getter throws. `Turn` is a
later turn of the host that runs user code on the same VM and keeps the queue,
like the delivery of a worker's message; a new top-level run clears the queue
first and is not modelled. `finally`, species constructors and aggregates are
left out.

### AsyncGenerator and RequestQueue

`AsyncGenerator` is one generator object: `phase`, `queue` and `current` are its
state box, `pending`, `escape` and `dispose` the places where a suspended body
keeps what it was doing, `waiting` the closures registered on promises, `ctl`
what the native stack does for the generator. The body is any program, and a
request may come at any time, also from code the body calls. What the body yields
or awaits is left out; whether a promise is fulfilled or rejected is a choice.

An answer is a call of `resolve_promise` or `reject_promise` (`Answer`).
`resolve_promise` reads the property `then` of the result object
(`settlement.rs:215`), which may be an accessor, so that code of the program runs
between the change of phase and the settlement of the promise, and may make
requests that are served first. `frames` holds the answers in that state;
`Settle` ends the innermost one, and `Start` (`async_generator_start`) follows it,
as it follows every rejection. `Start` looks at the phase and the queue again, one
request at a time.

`RequestQueue` is what the object promises its callers: requests are answered in
the order in which they were made, each once, and once an answer has closed the
generator no later request is answered by a yielded value. `AsyncGenerator` is
checked to implement it (`ImplementsRequestQueue`): the pending requests are the
current one followed by the queue, the answers are the log. One step makes or
answers one request. The order is that of the calls that answer; the promise of a
request made by an accessor of `then` may be settled before the one it interrupts.

### Shards

A supervisor thread takes a window from the shared cursor (`Pick`), has a child
run it (`StartChild` for the file transport; `SpawnWorker`, `Accept`,
`SendAssign` for the socket), and polls (`ReadFrame`, `Exited`, `Timeout`,
`WaitError`) until the window is done. A child runs tests one by one (`RunTest`,
`Beat`, `FinishWindow`), hangs, crashes, or is killed; it may also end by itself
anywhere, for instance when its attempts to connect fail (`GiveUp`). A test
either may hang, or may crash its process, or is harmless; which ones is chosen
in `Init`. `tally` is what the results of each window count, including the test
after its end, which a child that dies after its last test has recorded. `lost`
counts the workers that ended before they connected: `accept` has no timeout, and
each of them can leave a thread waiting (`RunEnds` says that nothing else does).
A thread's deadline passes (`Overdue`) when its process is in a test that may
hang, has just left one, or could not write its heartbeat. The remote mode, the
contents of the handshake, failure lines, scene frames and reports are left out.

### The compiler

`Ir` has the instructions and the function they form; the columns of the opcode
table (definitions, uses, purity, jumps) are those of the source. `Emit` is what
the emitter makes of a small language. `Fold`, `Dataflow`, `Dce` and `RegAlloc`
are the passes as pure operators. `Bytecode` runs one frame up to the next event
the outside can observe: a call and its arguments, a return, a halt, an uncaught
exception. `Optimiser` has one action per pass, in the order of `compile_ir`; the
rounds of the allocator (`BuildGraph`, `SelectColors`, and again after spilling)
are actions too. After the sweeps, or after the last pass, the function may be
run beside the one the emitter made: both see the same parameter, and their
callees return or throw the same values (`Start`, `CallReturns`, `CallThrows`).
A register that a call did not save comes back as `Junk`.

The compiler sweeps dead code at the top level only, hence `SkipSweeps` for
nested functions. Limits are constants: register files of 7 and 12 instead of
253, pools of 5 constants instead of 65535. Left out are captured variables and
the slots they escape to, built-in register slots, storing to constants, chains
of three or more sums (which become another instruction), nested try statements
and breaks that leave one, logical operators, and the folding of anything but
sums. The variables of a script are those of a block, which have no copy in the
global object. The parameters fit the registers they are bound to. The
fixpoints iterate over all blocks at once instead of in reverse postorder.

## The runs

| run | instance | shows |
|---|---|---|
| `vm_pool` | 2 threads, 2 pools with a limit of one VM (one warmed up, one empty), 4 calls | each VM is in one place and counted once; only timeouts exceed the limit; counters do not wrap and agree with the pools when nobody is inside an operation; `spawn` returns |
| `server` | 3 connections, 2 workers, queues of 1, limit 2, 3 requests | `in_flight` is exact; a task is in one place; a graceful shutdown refuses nothing; the sidecar goes last |
| `server_live` | 2 connections, 1 worker with a queue of 1, 3 requests | `Dispatch` is implemented: a request is executed at most once and what its client is told is true; shutdown completes and routed requests are answered unless a task never ends |
| `registry` | up to 3 of 4 servers (2 versions, a Unix socket and a TCP port, a shared process id) and 1 cleanup, overlapping anywhere, 1 deleted socket | a server whose own startup overlapped no other stays the only one registered, can be found and reached, and is spared by scans; stale files stop nobody who starts alone; every startup ends |
| `registry_race` | 2 servers that start together | **violated**: two registered servers |
| `registry_scan` | 2 servers that start together | **violated**: a scan ends a server that answers |
| `js_worker` | 2 workers, 2 messages to them, 2 from them | order, delivery, no thread left behind, exact GC roots, answered joins, silence after terminate |
| `promises` | 3 promises, 5 calls of user code, drains of 3 jobs | promises settle once, reactions run once and in order, adoption follows the adopted promise and completes |
| `async_generator` | 4 requests, 3 suspensions of the body, 3 loops left at once | one closure at a time may wake the generator, no request is forgotten, `RequestQueue` is implemented, every request is answered and settled unless a native frame gave up |
| `shards` | 2 threads, 2 windows of 2 tests, 1 bad test, 1 failing call or ended process, 4 processes, both transports | no test is missed, none is counted more than twice by its window, no more threads wait for ever than workers were lost before they connected |
| `optimiser` | 508 programs, 2 register files, 2 parameters, 3 calls that return one of 2 values or throw | the passes keep the meaning of the function and leave one that lowers; the two iterative analyses compute what they are documented to |
| `optimiser_caught` | 2 scripts | **violated**: a catch block reads another value than the try body stored |

Deadlock checking is off throughout: all models have a bound on calls, messages,
requests or tests, after which nothing happens, and the systems may also rest.
What must not get stuck is stated by `SpawnReturns`, `ShutdownCompletes`,
`DispatchReturns`, `StartupEnds`, `AdoptionCompletes`, `EveryRequestAnswered`,
`RunEnds` and the invariant `JoinIsAnswered`.

`SameBehaviour` leaves out one kind of execution: after register allocation,
those in which a handler has been entered. `optimiser_caught` is why. Up to the
sweeps it covers all executions, and what the passes leave must lower in every
case. `AnalysesExact` compares the liveness computed from blocks with the
definition by paths of single instructions, before and after allocation, and the
worklist of the first sweep with repeated full scans.

### Why the bounds are enough

- `vm_pool`: with limit 1, two threads already compete for the last VM, wait,
  time out and exceed the limit. Two pools show what sharing counters does.
- `server`: more connections than the limit, more tasks than one worker's queue
  and hands can hold, so that a send blocks. Two workers give the router a turn
  to take and the join loop an order.
- `registry`: `Casts` has three casts of three. `{p1, p2, p3}` has two versions on
  the Unix socket and a third process with the process id of the first: an id is
  reused while another process acts on what it read earlier. `{p1, p3, c1}` puts a
  cleanup beside two servers of one version on different endpoints, which share an
  id. `{p3, p4, c1}` is a takeover on a TCP port, where the port is bound until the
  process is gone and nothing is left at the path. Taking all five processes at
  once multiplies the states and adds only a fourth spectator.
- `js_worker`: two workers make one worker's listener act on another's. Two
  messages have an order.
- `promises`: a chain of two adoptions needs three promises. Five calls reach
  resolve, then, nested executors and a second call of a pair. A limit of three
  is reached in the middle of a chain.
- `async_generator`: four requests are one being served, one made from inside it
  and two waiting behind them. Three suspensions and three loops let an escape
  suspend, resume and suspend again.
- `shards`: two threads share the cursor and the listener. A window of two has a
  test before and a test after the bad one. One failed call, or one process that
  ends by itself, falls at every place where one can.
- `optimiser`: all pairs of simple statements, and each compound statement before
  or after a simple one, in a function and in a script. With 7 registers there
  are spills, programs that cannot be coloured and arguments that must be moved;
  with 12 most programs fit. Three calls go round a loop twice. The pool of 5
  gets full.

### Fairness

- `VmPool`: a thread inside `spawn`, a return or a collection runs. The timeout
  is strongly fair, as a wakeup may disable it for a moment. The loop at
  `vm_pool.rs:164` starts its five seconds anew after every wakeup, so this is an
  assumption: a thread is not woken and beaten to the VM for ever at intervals
  shorter than the timeout. A guard may be held for ever.
- `Server`: the main thread, connection threads inside `dispatch` and workers
  that wait or end run. Nothing is assumed of the programs they execute, which
  need not terminate (`max_steps` is an option of the request):
  `ShutdownCompletes` and `DispatchReturns` have `TasksEnd` as their premise, that
  no worker is in the same task for ever. Without it both are false, since the
  workers are joined without a timeout. Clients may never send or read.
- `Registry`: a process that has been started takes steps until it ends; all its
  waits have deadlines. `StartupEnds` says that from some time on no startup is
  under way, which is the end of each of them as each process starts once.
- `Promises`: user code returns, and the drain is scheduled.
- `AsyncGenerator`: a running body goes on to its next suspension or its end, an
  accessor of `then` returns, and a registered closure fires, that is, awaited
  promises settle.
- `Shards`: supervisor threads and processes that are not in a test that may hang
  take steps. Calls need not fail.
- `JsWorker` and `Optimiser` have no liveness property and no fairness.

### Where code and comments disagree

Three disagreements are runs that TLC finds violated.

- Two servers that start together (`registry_race`): the sidecar exists before
  it has content, so the other startup reads a damaged one, removes it and
  claims it too. `sidecar.rs:6` says that `O_EXCL` makes the server single.
- A scan that ends a server which answers (`registry_scan`): a startup probes
  another one between its sidecar and its socket, finds nobody listening, waits
  up to ten seconds for the sidecar to go, and sends SIGTERM without probing again
  (`liveness.rs:190`). The other one serves by then. `liveness.rs:9` says that the
  scan never ends a live server.
- What a catch block reads (`optimiser_caught`): exception edges leave from the
  ends of blocks, and a call does not end a block. Between two stores to a
  variable in one block of a try body the variable counts as dead, its register
  is given to a temporary, and a call there that throws makes the catch block
  read the temporary. `oxide_cfg/src/exception.rs:3` says that such variables
  stay live throughout the body.

The others were met while reading, and no run is about them.

- For a moment in `with_counters` the shared `available` exceeds `total`
  (`vm_pool.rs:146`), which the comments at lines 19 and 218 exclude.
- The cleanup of a turn does not poll again before it removes a worker that ended
  after the poll, so its last message is dropped (`worker/mod.rs:492`; lines 47
  and 49).
- The promise functions given to a thenable (`settlement.rs:343`;
  `promise/mod.rs:51`) and an executor that throws after resolving
  (`constructor.rs:472`; `settlement.rs:226`) go past `already_resolved`.
- `async_generator.rs`: a disposal that suspends again does not clear
  `async_gen_suspended` (line 1023), an escape does (891). The `Return` step of a
  delegation ignores a rejection (1294).
- `oxide_test262`: a child that exits in the middle of a test has the test
  counted and run again (`supervise.rs:148`), which is why `CountedAtMostTwice`
  says twice. The comment at `supervise.rs:111` has a test that is run again
  recorded at most once more; the one at line 81 has a crash recovered like a
  timeout, which goes on after the test, and `main.rs:141` speaks of an order of
  writes without double counts. A
  child that ends after its last test has the test after the window recorded,
  under the name of a test of another window. With the socket transport a thread's process
  handle and its connection may belong to different workers
  (`tcp_window_transport.rs:160`; `supervise.rs:191`), and `accept` has no timeout
  (line 163): a worker that ends before it connects leaves a thread waiting.
- `return` inside a try body emits a `TRY_END` (`return_stmt.rs:58`), and the
  span of the body, matched by brackets, ends there. The edge to a finally block
  leaves only from the block that opens it (`exception.rs:7`).
  `precise_sweep.rs:50` takes `STORE_VAR` to define no register; the opcode table
  says it does.

## What is proved

Every theorem holds for all values of the constants that satisfy the named
assumption of its module: sets that are finite where they are counted, sizes and
bounds that are naturals (positive where the code clamps them). In particular the
bounds of the runs on calls, requests, messages or promises disappear: they may be
any number. The proofs are in the modules named `*_proof`, each of which begins
with its inductive invariant. Each invariant was checked by TLC on the run's
instance before it was proved.

| module | theorem | states |
|---|---|---|
| `VmPool_proof` | `TypeCorrect`, `Exclusive`, `LimitRespected`, `Conserved`, `NeverBelowZero`, `CountersAgree`, `GcAlone` | `TypeOK`, `VmExclusive`, `LimitOrForced`, `Conservation`, `NoUnderflow`, `QuietCounters`, `GcUndisturbed` |
| `Server_proof` | `TypeCorrect`, `InFlightAlwaysExact`, `AtMostOnce`, `DispatchImplemented`, `Graceful`, `NoTaskLost`, `SidecarGoneLast` | types and queue bounds, `InFlightExact`, at most one execution (`RefusedNotExecuted`), `ImplementsDispatch`, `GracefulRefusesNothing`, `TaskInOnePlace`, `TakeoverSignal` |
| `Registry_proof` | `Single`, `Reachable`, `Spared`, `StaleIsSeenThrough` | `CleanIsSingle`, `CleanIsReachable`, `ScanSparesClean`, `StaleNeverBlocks` |
| `JsWorker_proof` | `Fifo`, `OnePlace`, `NoneOutlives`, `Rooted`, `Joins`, `Silent` | `InOrder`, `ExactlyOnce`, `NoOrphanThread`, `RootsMatch`, `JoinIsAnswered`, `SilentAfterTerminate` |
| `Promises_proof` | `InTheirOrder`, `NoneForgotten`, `Adopts`, `SettlesOnce` | `ReactionsInOrder`, `NoReactionForgotten`, `AdoptsOutcome`, `SettledOnce` |
| `Shards_proof` | `NoneMissed`, `TwiceAtMost` | `NoTestMissed`, `CountedAtMostTwice` |
| `AsyncGenerator_proof` | `WokenOnce`, `NothingForgotten`, `Refinement` | `OneWakeUp`, `NoRequestForgotten`, `ImplementsRequestQueue` |

**VmPool** (`PoolAssumption`). `VmExclusive` is not inductive: a fresh VM must
differ from all others, and whoever works under the mutex must own it. `IInv` adds
`VmsCreated` (every VM in circulation has a number below `nextVm`) and
`MutexOwned` (who is between lock and unlock owns the mutex). `Conserved` is a
second induction on top of it, with the cardinality of the idle VMs and of the
borrowers changed by one element per step. The shared counters are a third one.
`Books` says what each counter is at every moment: `in_use` is the number of
threads between its two updates; `available` and `total` are the idle VMs and the
places of the pools whose warm-up has been published, corrected by the threads
that have changed a pool and not yet the counter, or the other way round.
`NeverBelowZero` then needs that each thread about to raise `available` has its VM
in a pool nobody else can take it from (`Pushed` and `MutexOwned`, an injection).
`CountersAgree` reads `Books` with all corrections zero, and `HighWater` says that
the peak lags behind only while somebody is about to raise it. A sum over the
pools is the cardinality of a set of places, one for each VM of each pool.

**Server** (`ServerAssumption`), in two modules: `ServerTasks_proof` for types,
the shutdown sequence and where tasks are, `Server_proof` for counting, refusals
and the theorems. The inductive invariant is the
conjunction of
- `Placement`: types and queue bounds, and where tasks are. `QueuedTasks` and
  `RunningTasks` say that what a worker has belongs to a thread that waits for
  it, once; `WaitingFor` says the converse; `Undelivered` says that a task not
  yet delivered has not been begun;
- `Progress`: the points of the shutdown sequence imply that the earlier ones
  are done (workers joined in order, socket removed);
- `Counting`: `in_flight` is the cardinality of the live connection threads, and
  past the drain it is zero or the drain timed out;
- `Marks`: a refusal has a cause, which stays;
- `RefusedNotExecuted`: no request is begun twice, a refused one has not been
  begun, and a result comes from one that has.

`DispatchImplemented` needs only `Placement` of it: what a worker takes, answers
or drops belongs to a thread that waits, so that a refusal finds a request not
begun, a reply one that was begun, and a panic one begun and others not begun.
There is a lemma for each kind of step; the steps of the main thread, of the
listener and of threads outside `dispatch` leave every request's fate alone.

**Registry** (`RegistryAssumption`). Nothing is assumed about how startups,
cleanups and crashes overlap. The properties depend on what a process may conclude
from a file it read some steps ago, and the invariant says, for every program
point, what that is as far as clean servers are concerned. While a clean server
starts nobody else does, and the servers that run are clean (`OneStarting`). A
clean one between creating and removing the sidecar has it, and nobody else is
between the two (`HolderOwns`, `OneHolder`). What a process read is still the only
clean server that can have the sidecar (`ReadHolds`), files are removed only when
no clean server has it (`RemovesStale`), and a startup about to kill has found no
clean server that can be reached (`NoneReached`). `Bound` and `PortHeld` are about
sockets and ports, `NotYetNamed` says that nobody meets its own name before it has
written it. `StartsAlone` is for the last theorem: who starts alone is clean,
meets nobody and finds removed what it has removed. One lemma reduces the
invariant to what a step owes the other processes and what its new point asks of
it; the actions are instances of it.

**JsWorker** (`Bounds`). The letters of a worker are in three places, and the
invariant says how they follow on each other: what was dispatched, the rest of the
batch, and the channel are consecutive runs of numbers (`Outbox`), and so are what
the worker handled and its inbox, up to a `Terminate` (`Inbox`). A worker that is
still registered has lost none of them. `Threads`, `Roots`, `Joined` and
`MainShape` tie threads, roots and the worker being joined to the registry.

**Promises** (`PromisesAssumption`). The heap invariant takes the queue and the
last reaction run as parameters, because a step pops a job, runs a function and
queues jobs. `Order` and `Whole` say that for every promise the reactions run, the
queued ones and the waiting ones are consecutive numbers; `JobOK` and `ThenOK`
that a job carries the outcome of its promise and that a delegate of an adopting
promise comes from the adopted one; `Flags` and `Settled` what the functions of a
promise may still do. There is one lemma per function of the source (`Settle`,
`ResolvePromise`, `React`, ...) and one per action. `SettlesOnce` is an action
property: every step settles one pending promise, registers a reaction or leaves
the promises alone.

**AsyncGenerator** (`BoundsAreNatural`). `Shape` says what each phase implies for
the rest of the state box, `Numbering` that the answered requests, the current one
and the queue are numbered consecutively, `Closing` that only a completed
generator has answered with anything but a yielded value. Steps fall into a few
kinds (the generator goes on running, is suspended, answers, starts on the next
request, a request arrives), with a lemma each. Each step is shown to keep the
invariant and to have one of three outcomes for the requests: none, one made, the
oldest one answered (`Outcome`). `Refinement` maps the pending requests to the
current one followed by the queue, shows that this sequence is the run of numbers
from the last answer to the last request, and so that the three outcomes are a
stutter, a `Submit` and a `Reply` of `RequestQueue`.

**Shards** (`Sizes`, `ModesKnown`). The counts alone are not inductive: how far a
thread may go on depends on what it has seen of its process, and that on what is
still on the connection. `Places` says that a window has one thread and where the
thread stands in it, `Tallied` that in the tally of its window the tests before
that place have been counted, the one at it at most once and the later ones not at
all, that a window nobody works on is complete, and that one not handed out is
empty. `Lines` says that a
connection has one reader and one that waits to be accepted has none, although
process numbers are used again and a thread may kill another thread's worker.
`Stream` says that the frames not yet read are the heartbeats after the last one
seen, without a gap, and that the end of the window comes after its last test
only. One lemma covers every way a round can end: the tests it passes over are
counted, and none beyond its new place.

**Only model-checked.**
- Liveness (`SpawnReturns`, `ShutdownCompletes`, `DispatchReturns`, `StartupEnds`,
  `AdoptionCompletes`, `EveryRequestAnswered`, `RunEnds`): the prover has neither
  fairness nor `ENABLED`.
- The compiler (`SameBehaviour`, `AnalysesExact`): its operators are recursive
  over instructions and blocks, and what a recursion computes for every input is
  an induction the prover cannot make.

## Not modelled

- Watchdog: it would need processes that start others in `Registry`.
- Promise aggregates, async functions, `Atomics.waitAsync`, sync generators: the
  mechanisms they rest on are in `Promises` and `AsyncGenerator`; their own
  counters and tables are not.
- Message and broadcast channels, events: synchronous delivery in one realm.
- Code cache: each operation holds one lock; the put that undoes a clear is
  listed as a hazard without a property.
- Shared buffers: one compare-and-swap loop over bytes whose memory model is
  outside TLA+.
- Session GC: its safety is a matter of which root tables are scanned, and a
  model would have to list them all to say anything.
- Parser, most of the emitter and of the instruction set, built-in library,
  value representation, logging, command line: sequential code whose size, not
  whose interleavings, is the difficulty. The built-in library alone is a third
  of the implementation. It is what test262 covers.
