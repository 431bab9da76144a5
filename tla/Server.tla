------------------------------- MODULE Server -------------------------------
(***************************************************************************)
(* The server process (oxide_cli/src/server/server.rs and workers.rs): the *)
(* accept loop, one thread per connection, the router with a bounded queue *)
(* per worker, the workers, and the shutdown sequence that ends them.      *)
(*                                                                         *)
(* It starts as run_server or as run_server_rm, the variant that serves    *)
(* one connection and is the one without a sidecar file.                   *)
(* The process is alive until main is "exited"; what                       *)
(* its threads were doing then simply ends.  A panic unwinds its thread    *)
(* only (the debug build: the release build aborts the process).           *)
(***************************************************************************)
EXTENDS Integers, Sequences, FiniteSets, Functions

CONSTANTS Conns,           \* client connections
          NoConn,          \* not a connection
          N,               \* workers, 1 .. N
          QueueCapacity,   \* QUEUE_CAPACITY
          MaxConnections,  \* MAX_CONCURRENT_CONNECTIONS
          MaxRequests      \* bound of the model: requests read by all connections

ASSUME ServerAssumption ==
    /\ IsFiniteSet(Conns) /\ NoConn \notin Conns
    /\ N \in Nat \ {0} /\ QueueCapacity \in Nat \ {0} /\ MaxConnections \in Nat \ {0}
    /\ MaxRequests \in Nat

Workers == 1 .. N

VARIABLES
    main,       \* where the main thread is
    joined,     \* workers joined so far
    result,     \* what the main thread will return
    shutdown,   \* the shutdown flag
    inFlight,   \* in_flight
    conn,       \* where each connection (its thread) is
    req,        \* per connection: the kind of the request being handled
    target,     \* per connection: the worker whose sender it has cloned
    reply,      \* per connection: its one-shot reply channel
    answer,     \* per connection: the response it is writing or wrote last
    open,       \* the router still has its senders
    next,       \* the router's round robin counter, modulo N
    queue,      \* per worker: its bounded channel
    worker,     \* per worker: where it is
    running,    \* per worker: the connection whose task it executes
    socket,     \* the socket file exists
    sidecar,    \* the sidecar file exists
    requests,   \* requests read so far
    started,    \* history, per connection: executions begun for the current request
    timedOut    \* history: draining was given up

connVars == <<conn, req, target, reply, answer>>
routeVars == <<open, next, queue>>
workerVars == <<worker, running>>
fileVars == <<socket, sidecar>>
vars == <<main, joined, result, shutdown, inFlight, connVars, routeVars, workerVars,
          fileVars, requests, started, timedOut>>

MainPoints == {"accept", "polling", "rm_first", "rm_serving", "drain", "close", "join",
               "drop", "unlink_socket", "unlink_sidecar", "exited"}
ConnPoints == {"new", "backlog", "refused", "auth", "reading", "route", "sending",
               "awaiting", "answering", "ending", "leaving", "closed"}

\* A connection whose thread exists, and how many those are.
Live(c) == conn[c] \in {"auth", "reading", "route", "sending", "awaiting", "answering",
                        "ending", "leaving"}
LiveConns == {c \in Conns : Live(c)}

Alive == main # "exited"
Listening == main \in {"accept", "polling", "rm_first"}

\* The listener is bound, the workers are idle.
Init ==
    /\ sidecar \in BOOLEAN
    /\ main = IF sidecar THEN "accept" ELSE "rm_first"
    /\ joined = 0
    /\ result = "ok"
    /\ shutdown = FALSE
    /\ inFlight = 0
    /\ conn = [c \in Conns |-> "new"]
    /\ req = [c \in Conns |-> "none"]
    /\ target = [c \in Conns |-> 1]
    /\ reply = [c \in Conns |-> "none"]
    /\ answer = [c \in Conns |-> "none"]
    /\ open = TRUE
    /\ next = 0
    /\ queue = [w \in Workers |-> <<>>]
    /\ worker = [w \in Workers |-> "idle"]
    /\ running = [w \in Workers |-> NoConn]
    /\ socket = TRUE
    /\ requests = 0
    /\ started = [c \in Conns |-> 0]
    /\ timedOut = FALSE

GotoConn(c, l) == conn' = [conn EXCEPT ![c] = l]

-----------------------------------------------------------------------------
\* The main thread.

\* A client connects: the connection waits in the listener's backlog.
Connect(c) ==
    /\ Listening
    /\ conn[c] = "new"
    /\ GotoConn(c, "backlog")
    /\ UNCHANGED <<main, joined, result, shutdown, inFlight, req, target, reply, answer,
                   routeVars, workerVars, fileVars, requests, started, timedOut>>

\* accept_loop looks at the shutdown flag, then polls the listener.
AcceptCheck ==
    /\ main = "accept"
    /\ main' = IF shutdown THEN "drain" ELSE "polling"
    /\ UNCHANGED <<joined, result, shutdown, inFlight, connVars, routeVars, workerVars,
                   fileVars, requests, started, timedOut>>

\* Mutant: the limit admits one connection too many.
AtLimitLate == inFlight > MaxConnections

AtLimit == inFlight >= MaxConnections

AcceptConn(c) ==
    /\ main = "polling"
    /\ conn[c] = "backlog"
    /\ \/ AtLimit /\ GotoConn(c, "refused") /\ UNCHANGED inFlight
       \/ ~AtLimit /\ GotoConn(c, "auth") /\ inFlight' = inFlight + 1
    /\ main' = "accept"
    /\ UNCHANGED <<joined, result, shutdown, req, target, reply, answer, routeVars,
                   workerVars, fileVars, requests, started, timedOut>>

\* WouldBlock.
AcceptNone ==
    /\ main = "polling"
    /\ \A c \in Conns : conn[c] # "backlog"
    /\ main' = "accept"
    /\ UNCHANGED <<joined, result, shutdown, inFlight, connVars, routeVars, workerVars,
                   fileVars, requests, started, timedOut>>

\* Another accept error: run_server still goes through finish_shutdown.
AcceptFailed ==
    /\ main = "polling"
    /\ result' = "accept_failed"
    /\ main' = "drain"
    /\ UNCHANGED <<joined, shutdown, inFlight, connVars, routeVars, workerVars, fileVars,
                   requests, started, timedOut>>

\* run_server_rm: the first connection; the listener is dropped with it, and
\* with it what else is in its backlog.
RmAccept(c) ==
    /\ main = "rm_first"
    /\ conn[c] = "backlog"
    /\ conn' = [d \in Conns |-> IF d = c THEN "auth"
                                ELSE IF conn[d] = "backlog" THEN "refused" ELSE conn[d]]
    /\ inFlight' = inFlight + 1
    /\ main' = "rm_serving"
    /\ UNCHANGED <<joined, result, shutdown, req, target, reply, answer, routeVars,
                   workerVars, fileVars, requests, started, timedOut>>

\* No connection before the idle timeout.
RmIdle ==
    /\ main = "rm_first"
    /\ main' = "drain"
    /\ UNCHANGED <<joined, result, shutdown, inFlight, connVars, routeVars, workerVars,
                   fileVars, requests, started, timedOut>>

\* Another accept error returns at once, without finish_shutdown.
RmAcceptFailed ==
    /\ main = "rm_first"
    /\ result' = "accept_failed"
    /\ main' = "exited"
    /\ UNCHANGED <<joined, shutdown, inFlight, connVars, routeVars, workerVars, fileVars,
                   requests, started, timedOut>>

RmStop ==
    /\ main = "rm_serving"
    /\ shutdown
    /\ main' = "drain"
    /\ UNCHANGED <<joined, result, shutdown, inFlight, connVars, routeVars, workerVars,
                   fileVars, requests, started, timedOut>>

\* SIGINT, SIGTERM.
Signal ==
    /\ Alive
    /\ ~shutdown
    /\ shutdown' = TRUE
    /\ UNCHANGED <<main, joined, result, inFlight, connVars, routeVars, workerVars,
                   fileVars, requests, started, timedOut>>

\* Mutant: a missing wait.
DrainedAlways == main = "drain"

Drained == main = "drain" /\ inFlight = 0

\* wait_in_flight_drained: the connections are gone, or five seconds are over.
DrainEnd ==
    /\ Drained
    /\ main' = "close"
    /\ UNCHANGED <<joined, result, shutdown, inFlight, connVars, routeVars, workerVars,
                   fileVars, requests, started, timedOut>>

DrainTimeout ==
    /\ main = "drain"
    /\ inFlight > 0
    /\ timedOut' = TRUE
    /\ main' = "close"
    /\ UNCHANGED <<joined, result, shutdown, inFlight, connVars, routeVars, workerVars,
                   fileVars, requests, started>>

\* Mutant: the senders stay in the router.
CloseForgotten ==
    /\ main = "close"
    /\ main' = "join"
    /\ UNCHANGED <<joined, result, shutdown, inFlight, connVars, routeVars, workerVars,
                   fileVars, requests, started, timedOut>>

\* WorkerRouter::close.
Close ==
    /\ main = "close"
    /\ open' = FALSE
    /\ main' = "join"
    /\ UNCHANGED <<joined, result, shutdown, inFlight, connVars, next, queue, workerVars,
                   fileVars, requests, started, timedOut>>

\* The workers are joined in order; a panic ends the sequence early, with the
\* files left where they are.
Join ==
    /\ main = "join"
    /\ joined < N
    /\ \/ /\ worker[joined + 1] = "exited"
          /\ joined' = joined + 1
          /\ UNCHANGED <<main, result>>
       \/ /\ worker[joined + 1] = "panicked"
          /\ result' = "worker_panic"
          /\ main' = "exited"
          /\ UNCHANGED joined
    /\ UNCHANGED <<shutdown, inFlight, connVars, routeVars, workerVars, fileVars, requests,
                   started, timedOut>>

JoinedAll ==
    /\ main = "join"
    /\ joined = N
    /\ main' = "drop"
    /\ UNCHANGED <<joined, result, shutdown, inFlight, connVars, routeVars, workerVars,
                   fileVars, requests, started, timedOut>>

\* Mutant: the files are removed in the other order.
DropKernelSidecarFirst ==
    /\ main = "drop"
    /\ sidecar' = FALSE
    /\ main' = "unlink_socket"
    /\ UNCHANGED <<joined, result, shutdown, inFlight, connVars, routeVars, workerVars,
                   socket, requests, started, timedOut>>

\* The main thread's handle of the kernel is dropped.
DropKernel ==
    /\ main = "drop"
    /\ main' = "unlink_socket"
    /\ UNCHANGED <<joined, result, shutdown, inFlight, connVars, routeVars, workerVars,
                   fileVars, requests, started, timedOut>>

UnlinkSocket ==
    /\ main = "unlink_socket"
    /\ socket' = FALSE
    /\ main' = "unlink_sidecar"
    /\ UNCHANGED <<joined, result, shutdown, inFlight, connVars, routeVars, workerVars,
                   sidecar, requests, started, timedOut>>

UnlinkSidecar ==
    /\ main = "unlink_sidecar"
    /\ sidecar' = FALSE
    /\ main' = "exited"
    /\ UNCHANGED <<joined, result, shutdown, inFlight, connVars, routeVars, workerVars,
                   socket, requests, started, timedOut>>

-----------------------------------------------------------------------------
\* The connection threads: handle_connection.

\* The first frame is not an Auth frame with the token, cannot be read, or its
\* AuthOk cannot be written.
AuthFails(c) ==
    /\ Alive
    /\ conn[c] = "auth"
    /\ GotoConn(c, "ending")
    /\ UNCHANGED <<main, joined, result, shutdown, inFlight, req, target, reply, answer,
                   routeVars, workerVars, fileVars, requests, started, timedOut>>

AuthPasses(c) ==
    /\ Alive
    /\ conn[c] = "auth"
    /\ GotoConn(c, "reading")
    /\ UNCHANGED <<main, joined, result, shutdown, inFlight, req, target, reply, answer,
                   routeVars, workerVars, fileVars, requests, started, timedOut>>

\* End of file, read timeout, invalid or oversized frame.
ReadEnds(c) ==
    /\ Alive
    /\ conn[c] = "reading"
    /\ GotoConn(c, "ending")
    /\ UNCHANGED <<main, joined, result, shutdown, inFlight, req, target, reply, answer,
                   routeVars, workerVars, fileVars, requests, started, timedOut>>

\* A frame for a worker.
ReadTask(c, kind) ==
    /\ Alive
    /\ conn[c] = "reading"
    /\ requests < MaxRequests
    /\ requests' = requests + 1
    /\ req' = [req EXCEPT ![c] = kind]
    /\ reply' = [reply EXCEPT ![c] = "none"]
    /\ answer' = [answer EXCEPT ![c] = "none"]
    /\ started' = [started EXCEPT ![c] = 0]
    /\ GotoConn(c, "route")
    /\ UNCHANGED <<main, joined, result, shutdown, inFlight, target, routeVars, workerVars,
                   fileVars, timedOut>>

\* A control or malformed frame is answered without a worker; Shutdown and
\* Yield set the flag.
ReadControl(c, kind) ==
    /\ Alive
    /\ conn[c] = "reading"
    /\ requests < MaxRequests
    /\ requests' = requests + 1
    /\ req' = [req EXCEPT ![c] = kind]
    /\ answer' = [answer EXCEPT ![c] = kind]
    /\ shutdown' = (shutdown \/ kind = "shutdown")
    /\ GotoConn(c, "answering")
    /\ UNCHANGED <<main, joined, result, inFlight, target, reply, routeVars, workerVars,
                   fileVars, started, timedOut>>

\* Mutant: the counter is used without the modulo.
NextIndexUnwrapped(n) == n + 1

NextIndex(n) == (n + 1) % N

\* WorkerRouter::route, the part under the lock: the sender is cloned.
RouteLock(c) ==
    /\ Alive
    /\ conn[c] = "route"
    /\ \/ /\ ~open
          /\ answer' = [answer EXCEPT ![c] = "not_accepted"]
          /\ GotoConn(c, "answering")
          /\ UNCHANGED <<target, next>>
       \/ /\ open
          /\ target' = [target EXCEPT ![c] = next + 1]
          /\ next' = NextIndex(next)
          /\ GotoConn(c, "sending")
          /\ UNCHANGED answer
    /\ UNCHANGED <<main, joined, result, shutdown, inFlight, req, reply, open, queue,
                   workerVars, fileVars, requests, started, timedOut>>

ReceiverGone(w) == worker[w] \in {"exited", "panicked"}

\* SyncSender::send, outside the lock: it blocks while the queue is full.
SendOk(c) ==
    /\ Alive
    /\ conn[c] = "sending"
    /\ ~ReceiverGone(target[c])
    /\ Len(queue[target[c]]) < QueueCapacity
    /\ queue' = [queue EXCEPT ![target[c]] = Append(@, c)]
    /\ reply' = [reply EXCEPT ![c] = "pending"]
    /\ GotoConn(c, "awaiting")
    /\ UNCHANGED <<main, joined, result, shutdown, inFlight, req, target, answer, open, next,
                   workerVars, fileVars, requests, started, timedOut>>

SendFails(c) ==
    /\ Alive
    /\ conn[c] = "sending"
    /\ ReceiverGone(target[c])
    /\ answer' = [answer EXCEPT ![c] = "not_accepted"]
    /\ GotoConn(c, "answering")
    /\ UNCHANGED <<main, joined, result, shutdown, inFlight, req, target, reply, routeVars,
                   workerVars, fileVars, requests, started, timedOut>>

\* dispatch_eval, dispatch_forge: recv on the reply channel.
RecvReply(c) ==
    /\ Alive
    /\ conn[c] = "awaiting"
    /\ reply[c] \in {"sent", "dropped"}
    /\ answer' = [answer EXCEPT ![c] = IF reply[c] = "sent" THEN "result" ELSE "worker_exited"]
    /\ GotoConn(c, "answering")
    /\ UNCHANGED <<main, joined, result, shutdown, inFlight, req, target, reply, routeVars,
                   workerVars, fileVars, requests, started, timedOut>>

\* The response is written; a confirmed Shutdown or Yield, or a failed write,
\* ends the connection.
Answer(c) ==
    /\ Alive
    /\ conn[c] = "answering"
    /\ GotoConn(c, "ending") \/ (answer[c] # "shutdown" /\ GotoConn(c, "reading"))
    /\ UNCHANGED <<main, joined, result, shutdown, inFlight, req, target, reply, answer,
                   routeVars, workerVars, fileVars, requests, started, timedOut>>

\* handle_connection has returned; in run_server_rm this sets the flag.
ConnEnd(c) ==
    /\ Alive
    /\ conn[c] = "ending"
    /\ shutdown' = (shutdown \/ ~sidecar)
    /\ GotoConn(c, "leaving")
    /\ UNCHANGED <<main, joined, result, inFlight, req, target, reply, answer, routeVars,
                   workerVars, fileVars, requests, started, timedOut>>

\* The connection thread ends.
ConnLeave(c) ==
    /\ Alive
    /\ conn[c] = "leaving"
    /\ inFlight' = inFlight - 1
    /\ GotoConn(c, "closed")
    /\ UNCHANGED <<main, joined, result, shutdown, req, target, reply, answer, routeVars,
                   workerVars, fileVars, requests, started, timedOut>>

-----------------------------------------------------------------------------
\* The workers: worker_loop.

\* Mutant: the task stays in the queue while it is executed.
WorkerTakeKeeps(w) ==
    /\ Alive
    /\ worker[w] = "idle"
    /\ queue[w] # <<>>
    /\ running' = [running EXCEPT ![w] = Head(queue[w])]
    /\ started' = [started EXCEPT ![Head(queue[w])] = @ + 1]
    /\ worker' = [worker EXCEPT ![w] = "busy"]
    /\ UNCHANGED <<main, joined, result, shutdown, inFlight, connVars, routeVars, fileVars,
                   requests, timedOut>>

\* recv.
WorkerTake(w) ==
    /\ Alive
    /\ worker[w] = "idle"
    /\ queue[w] # <<>>
    /\ running' = [running EXCEPT ![w] = Head(queue[w])]
    /\ started' = [started EXCEPT ![Head(queue[w])] = @ + 1]
    /\ queue' = [queue EXCEPT ![w] = Tail(@)]
    /\ worker' = [worker EXCEPT ![w] = "busy"]
    /\ UNCHANGED <<main, joined, result, shutdown, inFlight, connVars, open, next, fileVars,
                   requests, timedOut>>

\* The response, an error frame for a panicking eval included, is sent.
WorkerReply(w) ==
    /\ Alive
    /\ worker[w] = "busy"
    /\ reply' = [reply EXCEPT ![running[w]] = "sent"]
    /\ running' = [running EXCEPT ![w] = NoConn]
    /\ worker' = [worker EXCEPT ![w] = "idle"]
    /\ UNCHANGED <<main, joined, result, shutdown, inFlight, conn, req, target, answer,
                   routeVars, fileVars, requests, started, timedOut>>

Queued(w) == Range(queue[w])

\* Mutant: the queued tasks outlive their receiver.
DroppedTasksRunningOnly(w) == {running[w]}

\* The tasks that are dropped with worker w's receiver.
DroppedTasks(w) == {running[w]} \cup Queued(w)

\* handle_forge_query is not under catch_unwind.
WorkerPanic(w) ==
    /\ Alive
    /\ worker[w] = "busy"
    /\ req[running[w]] = "forge"
    /\ reply' = [c \in Conns |-> IF c \in DroppedTasks(w) THEN "dropped" ELSE reply[c]]
    /\ queue' = [queue EXCEPT ![w] = <<>>]
    /\ running' = [running EXCEPT ![w] = NoConn]
    /\ worker' = [worker EXCEPT ![w] = "panicked"]
    /\ UNCHANGED <<main, joined, result, shutdown, inFlight, conn, req, target, answer, open,
                   next, fileVars, requests, started, timedOut>>

\* recv reports a disconnected channel: nothing is queued and every sender,
\* the clones of threads inside route included, is gone.
Disconnected(w) ==
    /\ queue[w] = <<>>
    /\ ~open
    /\ \A c \in Conns : conn[c] = "sending" => target[c] # w

WorkerExit(w) ==
    /\ Alive
    /\ worker[w] = "idle"
    /\ Disconnected(w)
    /\ worker' = [worker EXCEPT ![w] = "exited"]
    /\ UNCHANGED <<main, joined, result, shutdown, inFlight, connVars, routeVars, running,
                   fileVars, requests, started, timedOut>>

-----------------------------------------------------------------------------
MainStep ==
    \/ AcceptCheck \/ AcceptNone \/ AcceptFailed
    \/ RmIdle \/ RmAcceptFailed \/ RmStop
    \/ DrainEnd \/ DrainTimeout \/ Close \/ Join \/ JoinedAll
    \/ DropKernel \/ UnlinkSocket \/ UnlinkSidecar

ConnStep(c) ==
    \/ Connect(c) \/ AcceptConn(c) \/ RmAccept(c)
    \/ AuthFails(c) \/ AuthPasses(c) \/ ReadEnds(c)
    \/ \E kind \in {"eval", "forge"} : ReadTask(c, kind)
    \/ \E kind \in {"control", "shutdown"} : ReadControl(c, kind)
    \/ RouteLock(c) \/ SendOk(c) \/ SendFails(c) \/ RecvReply(c)
    \/ Answer(c) \/ ConnEnd(c) \/ ConnLeave(c)

WorkerStep(w) == WorkerTake(w) \/ WorkerReply(w) \/ WorkerPanic(w) \/ WorkerExit(w)

Next ==
    \/ MainStep \/ Signal
    \/ \E c \in Conns : ConnStep(c)
    \/ \E w \in Workers : WorkerStep(w)

Spec == Init /\ [][Next]_vars

\* The main thread runs and its polling and timeouts make progress; a
\* connection thread inside dispatch runs; a worker takes tasks and exits.  A
\* task need not end: max_steps is an option of the request, and without it a
\* program may run for ever.  Nothing is assumed of clients: they may never
\* send, and never read an answer.
Fairness ==
    /\ WF_vars(AcceptCheck \/ AcceptNone \/ \E c \in Conns : AcceptConn(c))
    /\ WF_vars(RmIdle \/ RmStop \/ \E c \in Conns : RmAccept(c))
    /\ WF_vars(DrainEnd \/ DrainTimeout \/ Close \/ Join \/ JoinedAll)
    /\ WF_vars(DropKernel \/ UnlinkSocket \/ UnlinkSidecar)
    /\ \A c \in Conns :
         /\ WF_vars(RouteLock(c) \/ SendOk(c) \/ SendFails(c) \/ RecvReply(c))
         /\ WF_vars(ConnEnd(c) \/ ConnLeave(c))
    /\ \A w \in Workers : WF_vars(WorkerTake(w) \/ WorkerExit(w))

FairSpec == Spec /\ Fairness

-----------------------------------------------------------------------------
\* Every variable has its type; the threads are at program points of theirs.
TypeOK ==
    /\ main \in MainPoints
    /\ joined \in 0 .. N
    /\ result \in {"ok", "accept_failed", "worker_panic"}
    /\ shutdown \in BOOLEAN
    /\ inFlight \in Int
    /\ conn \in [Conns -> ConnPoints]
    /\ req \in [Conns -> {"none", "eval", "forge", "control", "shutdown"}]
    /\ target \in [Conns -> Workers]
    /\ reply \in [Conns -> {"none", "pending", "sent", "dropped"}]
    /\ answer \in [Conns -> {"none", "control", "shutdown", "not_accepted", "result", "worker_exited"}]
    /\ open \in BOOLEAN
    /\ next \in 0 .. N - 1
    /\ queue \in [Workers -> Seq(Conns)]
    /\ worker \in [Workers -> {"idle", "busy", "exited", "panicked"}]
    /\ running \in [Workers -> Conns \cup {NoConn}]
    /\ socket \in BOOLEAN
    /\ sidecar \in BOOLEAN
    /\ requests \in Nat
    /\ started \in [Conns -> Nat]
    /\ timedOut \in BOOLEAN

\* in_flight is the number of connection threads and stays within the limit:
\* the check and the increment are in one thread, decrements elsewhere.
InFlightExact == inFlight = Cardinality(LiveConns) /\ inFlight <= MaxConnections

\* Connection c's task is in worker w's hands (i = 0) or at position i of its
\* queue.
TaskAt(c, w, i) ==
    IF i = 0 THEN running[w] = c ELSE i \in DOMAIN queue[w] /\ queue[w][i] = c

\* A thread that waits for a reply has its task in exactly one place, the
\* queue or the hands of the worker it was routed to, so it is not waiting
\* for nothing; and a worker never holds a task nobody waits for.
TaskInOnePlace ==
    \A c \in Conns :
        /\ \A w \in Workers, i \in 0 .. QueueCapacity :
             TaskAt(c, w, i) => conn[c] = "awaiting" /\ reply[c] = "pending" /\ target[c] = w
        /\ conn[c] = "awaiting" /\ reply[c] = "pending" =>
             \E i \in 0 .. QueueCapacity :
                 /\ TaskAt(c, target[c], i)
                 /\ \A j \in 0 .. QueueCapacity : TaskAt(c, target[c], j) => j = i

\* What has become of connection c's last request, and what its client is told.
Fate(c) ==
    CASE answer[c] = "not_accepted"                                                         -> "refused"
      [] answer[c] = "result" \/ (conn[c] = "awaiting" /\ reply[c] = "sent")                -> "done"
      [] answer[c] = "worker_exited" \/ (conn[c] = "awaiting" /\ reply[c] = "dropped")      -> "lost"
      [] conn[c] \in {"route", "sending"} \/ (conn[c] = "awaiting" /\ reply[c] = "pending") -> "waiting"
      [] OTHER                                                                              -> "none"

Told(c) ==
    IF answer[c] \in {"not_accepted", "result", "worker_exited"} THEN answer[c] ELSE "nothing"

Promise == INSTANCE Dispatch WITH
    task <- [c \in Conns |-> Fate(c)], runs <- started, told <- [c \in Conns |-> Told(c)]

\* The server implements the promise of module Dispatch: a request is executed at
\* most once, one that is refused as not accepted (route returned the task) was
\* not and will not be executed, a result comes from an execution, and a request
\* is lost only by the panic of the worker that has it.
ImplementsDispatch == Promise!Spec

\* Without a drain timeout and without a worker's panic, nobody is told that
\* the server is shutting down or that a worker is gone: shutting down
\* gracefully lets every request in flight finish.
GracefulRefusesNothing ==
    (\E c \in Conns : answer[c] \in {"not_accepted", "worker_exited"})
        => timedOut \/ \E w \in Workers : worker[w] = "panicked"

\* The sidecar's disappearance is the signal for a takeover: by then the
\* socket file is removed and every worker has returned from its last task.
TakeoverSignal ==
    [][sidecar /\ ~sidecar' => ~socket /\ \A w \in Workers : worker[w] = "exited"]_vars

\* No worker executes the same task for ever.
TasksEnd == \A w \in Workers : []<>(worker[w] # "busy")

\* Once the shutdown flag is set the process exits, whatever clients do and
\* whatever else is queued or being sent: all that can hold it is a task that
\* never ends, for finish_shutdown joins its worker without a timeout.
ShutdownCompletes == TasksEnd => (shutdown ~> ~Alive)

\* dispatch hangs only behind a task that never ends: otherwise a routed task
\* is answered or the process ends.
DispatchReturns ==
    TasksEnd => \A c \in Conns : conn[c] = "route" ~> (conn[c] = "answering" \/ ~Alive)

=============================================================================
