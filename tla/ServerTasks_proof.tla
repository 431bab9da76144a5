------------------------- MODULE ServerTasks_proof --------------------------
(***************************************************************************)
(* The server process is well typed, its queues are bounded, and its main  *)
(* thread makes the steps of its shutdown in order; where a task is:       *)
(* queued at the worker it was routed to, in that worker's hands,          *)
(* answered, or never handed over.                                         *)
(***************************************************************************)
EXTENDS Server, TLAPS

\* A step is for Zenon unless it cites SMT, which it does for arithmetic and records.
USE ZenonT(30)

-----------------------------------------------------------------------------
(* Types and the order of the shutdown.                                    *)


\* A queue holds connections and never more than its capacity.
TypeInv == TypeOK /\ \A w \in Workers : Len(queue[w]) <= QueueCapacity

\* Every step keeps the state well typed and the queues bounded.
LEMMA TypePreserved == TypeInv /\ [Next]_vars => TypeInv'
<1> SUFFICES ASSUME TypeInv, [Next]_vars PROVE TypeInv'
    OBVIOUS
<1> USE ServerAssumption DEF TypeInv, TypeOK, MainPoints, ConnPoints, Workers, connVars, routeVars, workerVars, fileVars,
       GotoConn
<1>1. CASE UNCHANGED vars
    BY <1>1, SMTT(60) DEF vars
<1>2. ASSUME AcceptCheck PROVE TypeInv'
    BY <1>2 DEF AcceptCheck
<1>3. ASSUME AcceptNone PROVE TypeInv'
    BY <1>3 DEF AcceptNone
<1>4. ASSUME AcceptFailed PROVE TypeInv'
    BY <1>4 DEF AcceptFailed
<1>5. ASSUME RmIdle PROVE TypeInv'
    BY <1>5 DEF RmIdle
<1>6. ASSUME RmAcceptFailed PROVE TypeInv'
    BY <1>6 DEF RmAcceptFailed
<1>7. ASSUME RmStop PROVE TypeInv'
    BY <1>7 DEF RmStop
<1>8. ASSUME DrainEnd PROVE TypeInv'
    BY <1>8 DEF DrainEnd, Drained
<1>9. ASSUME DrainTimeout PROVE TypeInv'
    BY <1>9 DEF DrainTimeout
<1>10. ASSUME Close PROVE TypeInv'
  <2>1. main' \in MainPoints /\ open' \in BOOLEAN
    BY <1>10 DEF Close
  <2>2. UNCHANGED <<joined, result, shutdown, inFlight, conn, req, target, reply,
                    answer, next, queue, worker, running, socket, sidecar, requests,
                    started, timedOut>>
    BY <1>10 DEF Close
  <2> QED BY <2>1, <2>2
<1>11. ASSUME Join PROVE TypeInv'
    BY <1>11, SMTT(60) DEF Join
<1>12. ASSUME JoinedAll PROVE TypeInv'
    BY <1>12 DEF JoinedAll
<1>13. ASSUME DropKernel PROVE TypeInv'
    BY <1>13 DEF DropKernel
<1>14. ASSUME UnlinkSocket PROVE TypeInv'
  <2>1. main' \in MainPoints /\ socket' \in BOOLEAN
    BY <1>14 DEF UnlinkSocket
  <2>2. UNCHANGED <<joined, result, shutdown, inFlight, conn, req, target, reply,
                    answer, open, next, queue, worker, running, sidecar, requests,
                    started, timedOut>>
    BY <1>14 DEF UnlinkSocket
  <2> QED BY <2>1, <2>2
<1>15. ASSUME UnlinkSidecar PROVE TypeInv'
  <2>1. main' \in MainPoints /\ sidecar' \in BOOLEAN
    BY <1>15 DEF UnlinkSidecar
  <2>2. UNCHANGED <<joined, result, shutdown, inFlight, conn, req, target, reply,
                    answer, open, next, queue, worker, running, socket, requests,
                    started, timedOut>>
    BY <1>15 DEF UnlinkSidecar
  <2> QED BY <2>1, <2>2
<1>16. ASSUME Signal PROVE TypeInv'
    BY <1>16, SMTT(60) DEF Signal
<1>17. ASSUME NEW c \in Conns, Connect(c) PROVE TypeInv'
  <2>1. conn' \in [Conns -> ConnPoints]
    <3>1. conn' = [conn EXCEPT ![c] = "backlog"]
        BY <1>17 DEF Connect
    <3> QED BY <3>1
  <2>2. UNCHANGED <<main, joined, result, shutdown, inFlight, req, target, reply, answer, open,
                   next, queue, worker, running, socket, sidecar, requests,
                   started, timedOut>>
    BY <1>17 DEF Connect
  <2> QED BY <2>1, <2>2, SMTT(60)
<1>18. ASSUME NEW c \in Conns, AcceptConn(c) PROVE TypeInv'
  <2>1. main' \in MainPoints
    BY <1>18 DEF AcceptConn, AtLimit
  <2>2. inFlight' \in Int
    BY <1>18, SMTT(60) DEF AcceptConn, AtLimit
  <2>3. conn' \in [Conns -> ConnPoints]
    <3>1. conn' = [conn EXCEPT ![c] = "refused"] \/ conn' = [conn EXCEPT ![c] = "auth"]
        BY <1>18 DEF AcceptConn, AtLimit
    <3> QED BY <3>1, ZenonT(60)
  <2>4. UNCHANGED <<joined, result, shutdown, req, target, reply, answer, open, next, queue,
                   worker, running, socket, sidecar, requests, started,
                   timedOut>>
    BY <1>18 DEF AcceptConn, AtLimit
  <2> QED BY <2>1, <2>2, <2>3, <2>4
<1>19. ASSUME NEW c \in Conns, RmAccept(c) PROVE TypeInv'
  <2>1. conn' \in [Conns -> ConnPoints]
    BY <1>19 DEF RmAccept
  <2>2. main' \in MainPoints /\ inFlight' \in Int
    BY <1>19, SMTT(60) DEF RmAccept
  <2>3. UNCHANGED <<joined, result, shutdown, req, target, reply, answer, open, next, queue,
                   worker, running, socket, sidecar, requests, started, timedOut>>
    BY <1>19 DEF RmAccept
  <2> QED BY <2>1, <2>2, <2>3
<1>20. ASSUME NEW c \in Conns, AuthFails(c) PROVE TypeInv'
  <2>1. conn' \in [Conns -> ConnPoints]
    <3>1. conn' = [conn EXCEPT ![c] = "ending"]
        BY <1>20 DEF AuthFails
    <3> QED BY <3>1
  <2>2. UNCHANGED <<main, joined, result, shutdown, inFlight, req, target, reply, answer, open,
                   next, queue, worker, running, socket, sidecar, requests,
                   started, timedOut>>
    BY <1>20 DEF AuthFails
  <2> QED BY <2>1, <2>2, SMTT(60)
<1>21. ASSUME NEW c \in Conns, AuthPasses(c) PROVE TypeInv'
  <2>1. conn' \in [Conns -> ConnPoints]
    <3>1. conn' = [conn EXCEPT ![c] = "reading"]
        BY <1>21 DEF AuthPasses
    <3> QED BY <3>1
  <2>2. UNCHANGED <<main, joined, result, shutdown, inFlight, req, target, reply, answer, open,
                   next, queue, worker, running, socket, sidecar, requests,
                   started, timedOut>>
    BY <1>21 DEF AuthPasses
  <2> QED BY <2>1, <2>2, SMTT(60)
<1>22. ASSUME NEW c \in Conns, ReadEnds(c) PROVE TypeInv'
  <2>1. conn' \in [Conns -> ConnPoints]
    <3>1. conn' = [conn EXCEPT ![c] = "ending"]
        BY <1>22 DEF ReadEnds
    <3> QED BY <3>1
  <2>2. UNCHANGED <<main, joined, result, shutdown, inFlight, req, target, reply, answer, open,
                   next, queue, worker, running, socket, sidecar, requests,
                   started, timedOut>>
    BY <1>22 DEF ReadEnds
  <2> QED BY <2>1, <2>2, SMTT(60)
<1>23. ASSUME NEW c \in Conns, RouteLock(c) PROVE TypeInv'
  <2>0. next + 1 \in Workers /\ (next + 1) % N \in 0 .. N - 1
    BY SMTT(60)
  <2>1. conn' \in [Conns -> ConnPoints]
    <3>1. conn' = [conn EXCEPT ![c] = "answering"] \/ conn' = [conn EXCEPT ![c] = "sending"]
        BY <1>23 DEF RouteLock
    <3>2. CASE conn' = [conn EXCEPT ![c] = "answering"]
        BY <3>2
    <3>3. CASE conn' = [conn EXCEPT ![c] = "sending"]
        BY <3>3
    <3> QED BY <3>1, <3>2, <3>3
  <2>2. target' \in [Conns -> Workers]
    <3>1. target' = [target EXCEPT ![c] = next + 1] \/ target' = target
        BY <1>23 DEF RouteLock
    <3>2. CASE target' = [target EXCEPT ![c] = next + 1]
        BY <2>0, <3>2
    <3> QED BY <3>1, <3>2
  <2>3. answer' \in [Conns -> {"none", "control", "shutdown", "not_accepted", "result", "worker_exited"}]
    <3>1. answer' = [answer EXCEPT ![c] = "not_accepted"] \/ answer' = answer
        BY <1>23 DEF RouteLock
    <3>2. CASE answer' = [answer EXCEPT ![c] = "not_accepted"]
        BY <3>2
    <3> QED BY <3>1, <3>2
  <2>4. next' \in 0 .. N - 1
    BY <1>23, <2>0 DEF RouteLock, NextIndex
  <2>5. UNCHANGED <<main, joined, result, shutdown, inFlight, req, reply, open, queue, worker,
                   running, socket, sidecar, requests, started, timedOut>>
    BY <1>23 DEF RouteLock, NextIndex
  <2> QED BY <2>1, <2>2, <2>3, <2>4, <2>5, SMTT(60)
<1>24. ASSUME NEW c \in Conns, SendOk(c) PROVE TypeInv'
    BY <1>24, SMTT(60) DEF SendOk, ReceiverGone
<1>25. ASSUME NEW c \in Conns, SendFails(c) PROVE TypeInv'
    BY <1>25, SMTT(60) DEF SendFails, ReceiverGone
<1>26. ASSUME NEW c \in Conns, RecvReply(c) PROVE TypeInv'
    BY <1>26, SMTT(60) DEF RecvReply
<1>27. ASSUME NEW c \in Conns, Answer(c) PROVE TypeInv'
  <2>1. conn' \in [Conns -> ConnPoints]
    <3>1. conn' = [conn EXCEPT ![c] = "ending"] \/ conn' = [conn EXCEPT ![c] = "reading"]
        BY <1>27 DEF Answer
    <3>2. CASE conn' = [conn EXCEPT ![c] = "ending"]
        BY <3>2
    <3>3. CASE conn' = [conn EXCEPT ![c] = "reading"]
        BY <3>3
    <3> QED BY <3>1, <3>2, <3>3
  <2>2. UNCHANGED <<main, joined, result, shutdown, inFlight, req, target, reply, answer, open,
                   next, queue, worker, running, socket, sidecar, requests,
                   started, timedOut>>
    BY <1>27 DEF Answer
  <2> QED BY <2>1, <2>2, SMTT(60)
<1>28. ASSUME NEW c \in Conns, ConnEnd(c) PROVE TypeInv'
    BY <1>28, ZenonT(60) DEF ConnEnd
<1>29. ASSUME NEW c \in Conns, ConnLeave(c) PROVE TypeInv'
  <2>1. inFlight' \in Int
    BY <1>29, SMTT(60) DEF ConnLeave
  <2>2. conn' \in [Conns -> ConnPoints]
    BY <1>29 DEF ConnLeave
  <2>3. UNCHANGED <<main, joined, result, shutdown, req, target, reply, answer, open, next, queue,
                   worker, running, socket, sidecar, requests, started,
                   timedOut>>
    BY <1>29 DEF ConnLeave
  <2> QED BY <2>1, <2>2, <2>3, SMTT(60)
<1>30. ASSUME NEW c \in Conns, NEW kind \in {"eval", "forge"}, ReadTask(c, kind) PROVE TypeInv'
    BY <1>30, SMTT(60) DEF ReadTask
<1>31. ASSUME NEW c \in Conns, NEW kind \in {"control", "shutdown"}, ReadControl(c, kind) PROVE TypeInv'
    BY <1>31, SMTT(60) DEF ReadControl
<1>32. ASSUME NEW w \in Workers, WorkerTake(w) PROVE TypeInv'
  <2> DEFINE h == Head(queue[w])
  <2>1. h \in Conns /\ Tail(queue[w]) \in Seq(Conns)
    BY <1>32, SMTT(60) DEF WorkerTake
  <2>2. /\ running' = [running EXCEPT ![w] = h]
        /\ started' = [started EXCEPT ![h] = @ + 1]
        /\ queue' = [queue EXCEPT ![w] = Tail(queue[w])]
        /\ worker' = [worker EXCEPT ![w] = "busy"]
    BY <1>32 DEF WorkerTake
  <2> HIDE DEF h
  <2>3. running' \in [Workers -> Conns \cup {NoConn}]
    BY <2>1, <2>2
  <2>4. started' \in [Conns -> Nat]
    <3>1. started[h] + 1 \in Nat
        BY <2>1, SMTT(60)
    <3> QED BY <2>1, <2>2, <3>1
  <2>5. /\ queue' \in [Workers -> Seq(Conns)]
        /\ \A v \in Workers : Len(queue'[v]) <= QueueCapacity
    <3>1. Len(Tail(queue[w])) <= QueueCapacity
        BY <1>32, SMTT(60) DEF WorkerTake
    <3> QED BY <2>1, <2>2, <3>1
  <2>6. worker' \in [Workers -> {"idle", "busy", "exited", "panicked"}]
    BY <2>2
  <2>7. UNCHANGED <<main, joined, result, shutdown, inFlight, conn, req, target, reply, answer,
                   open, next, socket, sidecar, requests, timedOut>>
    BY <1>32 DEF WorkerTake
  <2> QED BY <2>3, <2>4, <2>5, <2>6, <2>7, SMTT(60)
<1>33. ASSUME NEW w \in Workers, WorkerReply(w) PROVE TypeInv'
  <2>1. reply' \in [Conns -> {"none", "pending", "sent", "dropped"}]
    BY <1>33, ZenonT(60) DEF WorkerReply
  <2>2. worker' \in [Workers -> {"idle", "busy", "exited", "panicked"}]
    BY <1>33 DEF WorkerReply
  <2>3. running' \in [Workers -> Conns \cup {NoConn}]
    BY <1>33 DEF WorkerReply
  <2>4. UNCHANGED <<main, joined, result, shutdown, inFlight, conn, req, target, answer, open,
                   next, queue, socket, sidecar, requests, started, timedOut>>
    BY <1>33 DEF WorkerReply
  <2> QED BY <2>1, <2>2, <2>3, <2>4, SMTT(60)
<1>34. ASSUME NEW w \in Workers, WorkerPanic(w) PROVE TypeInv'
    BY <1>34, SMTT(60) DEF WorkerPanic, DroppedTasks, Queued
<1>35. ASSUME NEW w \in Workers, WorkerExit(w) PROVE TypeInv'
    BY <1>35, SMTT(60) DEF WorkerExit, Disconnected
<1> HIDE ServerAssumption DEF TypeInv, TypeOK, MainPoints, ConnPoints, Workers, connVars, routeVars,
       workerVars, fileVars, GotoConn
<1>36. ASSUME MainStep PROVE TypeInv'
    BY <1>36, <1>2, <1>3, <1>4, <1>5, <1>6, <1>7, <1>8, <1>9, <1>10, <1>11, <1>12,
       <1>13, <1>14, <1>15 DEF MainStep
<1>37. ASSUME NEW c \in Conns, ConnStep(c) PROVE TypeInv'
    BY <1>37, <1>17, <1>18, <1>19, <1>20, <1>21, <1>22, <1>23, <1>24, <1>25, <1>26, <1>27,
       <1>28, <1>29, <1>30, <1>31 DEF ConnStep
<1>38. ASSUME NEW w \in Workers, WorkerStep(w) PROVE TypeInv'
    BY <1>38, <1>32, <1>33, <1>34, <1>35 DEF WorkerStep
<1> QED BY <1>1, <1>16, <1>36, <1>37, <1>38 DEF Next

\* The main thread's progress: the router is closed from "join" on, only then
\* does a worker exit, and the files go after all of them.
Progress ==
    /\ ~open => main \in {"join", "drop", "unlink_socket", "unlink_sidecar", "exited"}
    /\ \A w \in Workers : worker[w] = "exited" => ~open
    /\ \A w \in 1 .. joined : worker[w] = "exited"
    /\ main \in {"drop", "unlink_socket", "unlink_sidecar"} => joined = N
    /\ main = "unlink_sidecar" => ~socket

\* The main thread's progress is preserved.
LEMMA ProgressPreserved == TypeInv /\ Progress /\ [Next]_vars => Progress'
<1> SUFFICES ASSUME TypeInv, Progress, [Next]_vars PROVE Progress'
    OBVIOUS
<1> USE ServerAssumption DEF TypeInv, TypeOK, Progress, Workers, Alive, connVars, routeVars, workerVars, fileVars, GotoConn
<1>2. ASSUME AcceptCheck PROVE Progress'
    BY <1>2 DEF AcceptCheck
<1>3. ASSUME AcceptNone PROVE Progress'
    BY <1>3 DEF AcceptNone
<1>4. ASSUME AcceptFailed PROVE Progress'
    BY <1>4 DEF AcceptFailed
<1>5. ASSUME RmIdle PROVE Progress'
    BY <1>5 DEF RmIdle
<1>6. ASSUME RmAcceptFailed PROVE Progress'
    BY <1>6 DEF RmAcceptFailed
<1>7. ASSUME RmStop PROVE Progress'
    BY <1>7 DEF RmStop
<1>8. ASSUME DrainEnd PROVE Progress'
    BY <1>8 DEF DrainEnd, Drained
<1>9. ASSUME DrainTimeout PROVE Progress'
    BY <1>9 DEF DrainTimeout
<1>10. ASSUME Close PROVE Progress'
    BY <1>10 DEF Close
<1>11. ASSUME Join PROVE Progress'
    BY <1>11, SMTT(60) DEF Join
<1>12. ASSUME JoinedAll PROVE Progress'
    BY <1>12 DEF JoinedAll
<1>13. ASSUME DropKernel PROVE Progress'
    BY <1>13 DEF DropKernel
<1>14. ASSUME UnlinkSocket PROVE Progress'
    BY <1>14 DEF UnlinkSocket
<1>15. ASSUME UnlinkSidecar PROVE Progress'
    BY <1>15 DEF UnlinkSidecar
<1>16. ASSUME NEW c \in Conns, AcceptConn(c) PROVE Progress'
    BY <1>16 DEF AcceptConn, AtLimit
<1>17. ASSUME NEW c \in Conns, RmAccept(c) PROVE Progress'
    BY <1>17 DEF RmAccept
<1>18. ASSUME NEW w \in Workers, WorkerTake(w) PROVE Progress'
    BY <1>18, SMTT(60) DEF WorkerTake
<1>19. ASSUME NEW w \in Workers, WorkerReply(w) PROVE Progress'
    BY <1>19, SMTT(60) DEF WorkerReply
<1>20. ASSUME NEW w \in Workers, WorkerPanic(w) PROVE Progress'
    BY <1>20, SMTT(60) DEF WorkerPanic, DroppedTasks, Queued
<1>21. ASSUME NEW w \in Workers, WorkerExit(w) PROVE Progress'
    BY <1>21, SMTT(60) DEF WorkerExit, Disconnected
<1>22. ASSUME UNCHANGED <<main, joined, open, worker, fileVars>> PROVE Progress'
    BY <1>22
<1> HIDE ServerAssumption DEF TypeInv, TypeOK, Progress, Workers, Alive, connVars, fileVars
<1>23. ASSUME NEW c \in Conns, ConnStep(c) PROVE Progress'
  <2>1. CASE AcceptConn(c) \/ RmAccept(c)
    BY <2>1, <1>16, <1>17
  <2>2. CASE ~AcceptConn(c) /\ ~RmAccept(c)
    <3>1. UNCHANGED <<main, joined, open, worker, socket, sidecar>>
        BY <1>23, <2>2, ZenonT(60) DEF routeVars, workerVars, fileVars, ConnStep, Connect, AuthFails, AuthPasses, ReadEnds, RouteLock, SendOk, SendFails, RecvReply,
       Answer, ConnEnd, ConnLeave, ReadTask, ReadControl
    <3> QED BY <1>22, <3>1 DEF fileVars
  <2> QED BY <2>1, <2>2
<1>24. ASSUME MainStep PROVE Progress'
    BY <1>24, <1>2, <1>3, <1>4, <1>5, <1>6, <1>7, <1>8, <1>9, <1>10, <1>11, <1>12,
       <1>13, <1>14, <1>15 DEF MainStep
<1>25. ASSUME NEW w \in Workers, WorkerStep(w) PROVE Progress'
    BY <1>25, <1>18, <1>19, <1>20, <1>21 DEF WorkerStep
<1>26. CASE Signal \/ UNCHANGED vars
    BY <1>22, <1>26 DEF Signal, vars
<1> QED BY <1>23, <1>24, <1>25, <1>26 DEF Next

-----------------------------------------------------------------------------
(* Where a task is.                                                        *)


\* No element occurs twice.
Distinct(q) == \A i, j \in 1 .. Len(q) : q[i] = q[j] => i = j

\* What Append does to the elements of a sequence.
LEMMA AppendItems ==
    ASSUME NEW S, NEW q \in Seq(S), NEW x \in S
    PROVE  /\ Range(Append(q, x)) = Range(q) \cup {x}
           /\ Distinct(q) /\ x \notin Range(q) => Distinct(Append(q, x))
<1>1. Append(q, x) \in Seq(S) /\ Len(Append(q, x)) = Len(q) + 1
    BY SMTT(60)
<1>2. /\ \A i \in 1 .. Len(q) : Append(q, x)[i] = q[i]
      /\ Append(q, x)[Len(q) + 1] = x
    BY SMTT(60)
<1>3. DOMAIN q = 1 .. Len(q) /\ DOMAIN Append(q, x) = 1 .. Len(q) + 1 /\ Len(q) \in Nat
    BY <1>1, SMTT(60)
<1>4. Range(Append(q, x)) = Range(q) \cup {x}
    BY <1>2, <1>3, SMTT(60) DEF Range
<1>5. ASSUME Distinct(q), x \notin Range(q) PROVE Distinct(Append(q, x))
    BY <1>1, <1>2, <1>3, <1>5, SMTT(60) DEF Distinct, Range
<1> QED BY <1>4, <1>5

\* A sequence is its head and the elements of its tail.
LEMMA TailItems ==
    ASSUME NEW S, NEW q \in Seq(S), q # <<>>
    PROVE  /\ Head(q) \in S /\ Tail(q) \in Seq(S)
           /\ Range(q) = {Head(q)} \cup Range(Tail(q))
           /\ Distinct(q) => Head(q) \notin Range(Tail(q)) /\ Distinct(Tail(q))
<1>1. /\ Len(q) \in Nat /\ Len(q) # 0 /\ DOMAIN q = 1 .. Len(q)
      /\ Head(q) = q[1]
      /\ Tail(q) \in Seq(S) /\ Len(Tail(q)) = Len(q) - 1 /\ DOMAIN Tail(q) = 1 .. Len(q) - 1
    BY SMTT(60)
<1>2. \A i \in 1 .. Len(q) - 1 : Tail(q)[i] = q[i + 1]
    BY <1>1, SMTT(60)
<1>3. Head(q) \in S
    BY <1>1, SMTT(60)
<1>4. Range(q) = {Head(q)} \cup Range(Tail(q))
  <2>1. ASSUME NEW x \in Range(q) PROVE x \in {Head(q)} \cup Range(Tail(q))
    <3>1. PICK i \in 1 .. Len(q) : x = q[i]
        BY <1>1 DEF Range
    <3>2. CASE i = 1
        BY <1>1, <3>1, <3>2
    <3>3. CASE i # 1
      <4>1. i - 1 \in 1 .. Len(q) - 1 /\ Tail(q)[i - 1] = q[i]
          BY <1>1, <1>2, <3>3, SMTT(60)
      <4> QED BY <1>1, <3>1, <4>1, ZenonT(60) DEF Range
    <3> QED BY <3>2, <3>3
  <2>2. ASSUME NEW x \in Range(Tail(q)) PROVE x \in Range(q)
    <3>1. PICK i \in 1 .. Len(q) - 1 : x = q[i + 1]
        BY <1>1, <1>2 DEF Range
    <3> QED BY <1>1, <3>1, SMTT(60) DEF Range
  <2>3. Head(q) \in Range(q)
    BY <1>1, SMTT(60) DEF Range
  <2> QED BY <2>1, <2>2, <2>3
<1>5. ASSUME Distinct(q) PROVE Head(q) \notin Range(Tail(q)) /\ Distinct(Tail(q))
    BY <1>1, <1>2, <1>5, SMTT(60) DEF Distinct, Range
<1> QED BY <1>1, <1>3, <1>4, <1>5

\* The empty sequence has no elements.
LEMMA EmptyItems == Range(<<>>) = {} /\ Distinct(<<>>)
BY SMTT(60) DEF Range, Distinct

\* A queued task belongs to a thread that waits for it, has not been begun,
\* and is queued once.
QueuedTasks ==
    \A w \in Workers :
        /\ Distinct(queue[w]) /\ Queued(w) \subseteq Conns
        /\ \A c \in Queued(w) :
             conn[c] = "awaiting" /\ reply[c] = "pending" /\ target[c] = w /\ started[c] = 0

\* A running task belongs to a thread that waits for it; a worker that is gone
\* holds nothing.
RunningTasks ==
    \A w \in Workers :
        /\ worker[w] = "busy" <=> running[w] # NoConn
        /\ running[w] # NoConn =>
             /\ conn[running[w]] = "awaiting" /\ reply[running[w]] = "pending"
             /\ target[running[w]] = w /\ started[running[w]] = 1
        /\ worker[w] \in {"exited", "panicked"} => Queued(w) = {}

\* A thread that waits has its task queued or running.
WaitingFor ==
    \A c \in Conns : conn[c] = "awaiting" =>
        /\ reply[c] # "none"
        /\ reply[c] = "pending" => running[target[c]] = c \/ c \in Queued(target[c])

\* Before a task is delivered it has not been begun, and before it is answered
\* there is no answer.
Undelivered ==
    \A c \in Conns :
        /\ started[c] <= 1
        /\ conn[c] \in {"route", "sending"} => started[c] = 0 /\ answer[c] = "none"
        /\ conn[c] = "awaiting" => answer[c] = "none"
        /\ conn[c] = "awaiting" /\ reply[c] = "sent" => started[c] = 1

Placement == TypeInv /\ QueuedTasks /\ RunningTasks /\ WaitingFor /\ Undelivered

\* The main thread and the signal handler do not touch tasks.
LEMMA MainFrame ==
    MainStep \/ Signal \/ UNCHANGED vars
        => UNCHANGED <<conn, target, reply, answer, queue, worker, running, started>>
BY DEF MainStep, vars, connVars, routeVars, workerVars, AcceptCheck, AcceptNone, AcceptFailed, RmIdle,
       RmAcceptFailed, RmStop, DrainEnd, DrainTimeout, Close, Join, JoinedAll, DropKernel,
       UnlinkSocket, UnlinkSidecar, Signal

\* A task is queued once and only while its thread waits.
LEMMA QueuedPreserved == Placement /\ [Next]_vars => QueuedTasks'
<1> SUFFICES ASSUME Placement, [Next]_vars PROVE QueuedTasks'
    OBVIOUS
<1>1. ASSUME NEW c \in Conns, ConnStep(c) PROVE QueuedTasks'
  <2> USE ServerAssumption DEF Placement, TypeInv, TypeOK, Workers, QueuedTasks, RunningTasks, WaitingFor, Undelivered,
       Queued, connVars, routeVars, workerVars, fileVars, GotoConn
  <2>1. ASSUME Connect(c) PROVE QueuedTasks'
      <3>1. \A w \in Workers : c \notin Queued(w)
        BY <2>1 DEF Connect
      <3>2. /\ \A d \in Conns : d # c => conn'[d] = conn[d]
          /\ UNCHANGED <<queue, reply, target, started>>
        BY <2>1, SMTT(60) DEF Connect
      <3> QED BY <3>1, <3>2, SMTT(60)
  <2>2. ASSUME AcceptConn(c) PROVE QueuedTasks'
      <3>1. \A w \in Workers : c \notin Queued(w)
        BY <2>2 DEF AcceptConn
      <3>2. /\ \A d \in Conns : d # c => conn'[d] = conn[d]
          /\ UNCHANGED <<queue, reply, target, started>>
        BY <2>2, SMTT(60) DEF AcceptConn
      <3> QED BY <3>1, <3>2, SMTT(60)
  <2>3. ASSUME RmAccept(c) PROVE QueuedTasks'
      BY <2>3, SMTT(60) DEF RmAccept
  <2>4. ASSUME AuthFails(c) PROVE QueuedTasks'
      <3>1. \A w \in Workers : c \notin Queued(w)
        BY <2>4 DEF AuthFails
      <3>2. /\ \A d \in Conns : d # c => conn'[d] = conn[d]
          /\ UNCHANGED <<queue, reply, target, started>>
        BY <2>4, SMTT(60) DEF AuthFails
      <3> QED BY <3>1, <3>2, SMTT(60)
  <2>5. ASSUME AuthPasses(c) PROVE QueuedTasks'
      <3>1. \A w \in Workers : c \notin Queued(w)
        BY <2>5 DEF AuthPasses
      <3>2. /\ \A d \in Conns : d # c => conn'[d] = conn[d]
          /\ UNCHANGED <<queue, reply, target, started>>
        BY <2>5, SMTT(60) DEF AuthPasses
      <3> QED BY <3>1, <3>2, SMTT(60)
  <2>6. ASSUME ReadEnds(c) PROVE QueuedTasks'
      <3>1. \A w \in Workers : c \notin Queued(w)
        BY <2>6 DEF ReadEnds
      <3>2. /\ \A d \in Conns : d # c => conn'[d] = conn[d]
          /\ UNCHANGED <<queue, reply, target, started>>
        BY <2>6, SMTT(60) DEF ReadEnds
      <3> QED BY <3>1, <3>2, SMTT(60)
  <2>7. ASSUME RouteLock(c) PROVE QueuedTasks'
      <3>1. \A w \in Workers : c \notin Queued(w)
        BY <2>7 DEF RouteLock
      <3>2. /\ \A d \in Conns : d # c => conn'[d] = conn[d] /\ target'[d] = target[d]
          /\ UNCHANGED <<queue, reply, started>>
        BY <2>7, SMTT(60) DEF RouteLock
      <3> QED BY <3>1, <3>2, SMTT(60)
  <2>8. ASSUME SendOk(c) PROVE QueuedTasks'
      <3> DEFINE v == target[c]
      <3>1. v \in Workers /\ queue' = [queue EXCEPT ![v] = Append(queue[v], c)]
        BY <2>8, SMTT(60) DEF SendOk
      <3>2. c \notin Range(queue[v])
        BY <2>8, <3>1 DEF SendOk
      <3>3. Range(queue'[v]) = Range(queue[v]) \cup {c} /\ Distinct(queue'[v])
        BY <3>1, <3>2, AppendItems, SMTT(60)
      <3>4. \A u \in Workers : u # v => queue'[u] = queue[u]
        BY <3>1, SMTT(60)
      <3> QED BY <2>8, <3>1, <3>3, <3>4, SMTT(60) DEF SendOk, ReceiverGone
  <2>9. ASSUME SendFails(c) PROVE QueuedTasks'
      <3>1. \A w \in Workers : c \notin Queued(w)
        BY <2>9 DEF SendFails
      <3>2. /\ \A d \in Conns : d # c => conn'[d] = conn[d] /\ target'[d] = target[d]
          /\ UNCHANGED <<queue, reply, started>>
        BY <2>9, SMTT(60) DEF SendFails
      <3> QED BY <3>1, <3>2, SMTT(60)
  <2>10. ASSUME RecvReply(c) PROVE QueuedTasks'
      BY <2>10, SMTT(60) DEF RecvReply
  <2>11. ASSUME Answer(c) PROVE QueuedTasks'
      BY <2>11, SMTT(60) DEF Answer
  <2>12. ASSUME ConnEnd(c) PROVE QueuedTasks'
      BY <2>12, SMTT(60) DEF ConnEnd
  <2>13. ASSUME ConnLeave(c) PROVE QueuedTasks'
      BY <2>13, SMTT(60) DEF ConnLeave
  <2>14. ASSUME NEW kind \in {"eval", "forge"}, ReadTask(c, kind) PROVE QueuedTasks'
      BY <2>14, SMTT(60) DEF ReadTask
  <2>15. ASSUME NEW kind \in {"control", "shutdown"}, ReadControl(c, kind) PROVE QueuedTasks'
      BY <2>15, SMTT(60) DEF ReadControl
  <2> HIDE ServerAssumption DEF Placement, TypeInv, TypeOK, Workers, QueuedTasks, RunningTasks, WaitingFor, Undelivered,
       Queued, connVars, routeVars, workerVars, fileVars, GotoConn
  <2> QED BY <1>1, <2>1, <2>2, <2>3, <2>4, <2>5, <2>6, <2>7, <2>8, <2>9, <2>10, <2>11, <2>12, <2>13, <2>14, <2>15 DEF ConnStep
<1>2. ASSUME NEW w \in Workers, WorkerStep(w) PROVE QueuedTasks'
  <2> USE ServerAssumption DEF Placement, TypeInv, TypeOK, Workers, QueuedTasks, RunningTasks, WaitingFor, Undelivered,
       Queued, connVars, routeVars, workerVars, fileVars, GotoConn
  <2>1. ASSUME WorkerTake(w) PROVE QueuedTasks'
      <3> DEFINE h == Head(queue[w])
      <3>1. queue[w] \in Seq(Conns) /\ queue[w] # <<>> /\ queue' = [queue EXCEPT ![w] = Tail(queue[w])]
        BY <2>1, SMTT(60) DEF WorkerTake
      <3>2. /\ h \in Conns /\ Range(queue[w]) = {h} \cup Range(queue'[w])
          /\ h \notin Range(queue'[w]) /\ Distinct(queue'[w])
        BY <3>1, TailItems, SMTT(60)
      <3>3. \A u \in Workers : u # w => queue'[u] = queue[u]
        BY <3>1, SMTT(60)
      <3>4. \A u \in Workers : h \in Range(queue[u]) => u = w
        BY <3>1, <3>2, SMTT(60)
      <3>5. started[h] = 0 /\ conn[h] = "awaiting" /\ reply[h] = "pending" /\ target[h] = w
        BY <3>2, SMTT(60)
      <3>6. /\ running[w] = NoConn /\ running' = [running EXCEPT ![w] = h]
          /\ started' = [started EXCEPT ![h] = started[h] + 1]
          /\ worker' = [worker EXCEPT ![w] = "busy"]
          /\ UNCHANGED <<conn, target, reply, answer>>
        BY <2>1 DEF WorkerTake
      <3>7. ASSUME NEW u \in Workers
          PROVE  /\ Distinct(queue'[u]) /\ Range(queue'[u]) \subseteq Range(queue[u])
                 /\ h \notin Range(queue'[u])
        <4>1. CASE u = w
          BY <3>2, <4>1
        <4>2. CASE u # w
          BY <3>3, <3>4, <4>2
        <4> QED BY <4>1, <4>2
      <3> HIDE DEF h, RunningTasks, WaitingFor, Undelivered
      <3> QED BY <3>2, <3>6, <3>7, SMTT(60)
  <2>2. ASSUME WorkerReply(w) PROVE QueuedTasks'
      BY <2>2, SMTT(60) DEF WorkerReply
  <2>3. ASSUME WorkerPanic(w) PROVE QueuedTasks'
      BY <2>3, EmptyItems, SMTT(30) DEF WorkerPanic, DroppedTasks
  <2>4. ASSUME WorkerExit(w) PROVE QueuedTasks'
      <3>1. Range(queue[w]) = {}
        BY <2>4, EmptyItems DEF WorkerExit, Disconnected
      <3>2. running[w] = NoConn
        BY <2>4 DEF WorkerExit
      <3>3. /\ worker' = [worker EXCEPT ![w] = "exited"]
          /\ UNCHANGED <<conn, target, reply, answer, queue, running, started>>
        BY <2>4 DEF WorkerExit
      <3> HIDE DEF RunningTasks, WaitingFor, Undelivered
      <3> QED BY <3>1, <3>2, <3>3, SMTT(60)
  <2> HIDE ServerAssumption DEF Placement, TypeInv, TypeOK, Workers, QueuedTasks, RunningTasks, WaitingFor, Undelivered,
       Queued, connVars, routeVars, workerVars, fileVars, GotoConn
  <2> QED BY <1>2, <2>1, <2>2, <2>3, <2>4 DEF WorkerStep
<1>3. CASE MainStep \/ Signal \/ UNCHANGED vars
  <2>1. UNCHANGED <<conn, target, reply, answer, queue, worker, running, started>>
    BY <1>3, MainFrame
  <2> QED BY <2>1, SMTT(60) DEF Placement, TypeInv, TypeOK, Workers, QueuedTasks, RunningTasks, WaitingFor, Undelivered,
       Queued
<1> QED BY <1>1, <1>2, <1>3 DEF Next

\* A worker runs a task its thread waits for.
LEMMA RunningPreserved == Placement /\ [Next]_vars => RunningTasks'
<1> SUFFICES ASSUME Placement, [Next]_vars PROVE RunningTasks'
    OBVIOUS
<1>1. ASSUME NEW c \in Conns, ConnStep(c) PROVE RunningTasks'
  <2> USE ServerAssumption DEF Placement, TypeInv, TypeOK, Workers, QueuedTasks, RunningTasks, WaitingFor, Undelivered,
       Queued, connVars, routeVars, workerVars, fileVars, GotoConn
  <2>1. ASSUME Connect(c) PROVE RunningTasks'
      BY <2>1, SMTT(60) DEF Connect
  <2>2. ASSUME AcceptConn(c) PROVE RunningTasks'
      BY <2>2, SMTT(60) DEF AcceptConn, AtLimit
  <2>3. ASSUME RmAccept(c) PROVE RunningTasks'
      BY <2>3, SMTT(60) DEF RmAccept
  <2>4. ASSUME AuthFails(c) PROVE RunningTasks'
      BY <2>4, SMTT(60) DEF AuthFails
  <2>5. ASSUME AuthPasses(c) PROVE RunningTasks'
      BY <2>5, SMTT(60) DEF AuthPasses
  <2>6. ASSUME ReadEnds(c) PROVE RunningTasks'
      BY <2>6, SMTT(60) DEF ReadEnds
  <2>7. ASSUME RouteLock(c) PROVE RunningTasks'
      BY <2>7, SMTT(60) DEF RouteLock, NextIndex
  <2>8. ASSUME SendOk(c) PROVE RunningTasks'
      <3> DEFINE v == target[c]
      <3>1. v \in Workers /\ queue' = [queue EXCEPT ![v] = Append(queue[v], c)]
        BY <2>8, SMTT(60) DEF SendOk
      <3>2. c \notin Range(queue[v])
        BY <2>8, <3>1 DEF SendOk
      <3>3. Range(queue'[v]) = Range(queue[v]) \cup {c} /\ Distinct(queue'[v])
        BY <3>1, <3>2, AppendItems, SMTT(60)
      <3>4. \A u \in Workers : u # v => queue'[u] = queue[u]
        BY <3>1, SMTT(60)
      <3> QED BY <2>8, <3>1, <3>3, <3>4, SMTT(60) DEF SendOk, ReceiverGone
  <2>9. ASSUME SendFails(c) PROVE RunningTasks'
      BY <2>9, SMTT(60) DEF SendFails, ReceiverGone
  <2>10. ASSUME RecvReply(c) PROVE RunningTasks'
      BY <2>10, SMTT(60) DEF RecvReply
  <2>11. ASSUME Answer(c) PROVE RunningTasks'
      BY <2>11, SMTT(60) DEF Answer
  <2>12. ASSUME ConnEnd(c) PROVE RunningTasks'
      BY <2>12, SMTT(60) DEF ConnEnd
  <2>13. ASSUME ConnLeave(c) PROVE RunningTasks'
      BY <2>13, SMTT(60) DEF ConnLeave
  <2>14. ASSUME NEW kind \in {"eval", "forge"}, ReadTask(c, kind) PROVE RunningTasks'
      BY <2>14, SMTT(60) DEF ReadTask
  <2>15. ASSUME NEW kind \in {"control", "shutdown"}, ReadControl(c, kind) PROVE RunningTasks'
      BY <2>15, SMTT(60) DEF ReadControl
  <2> HIDE ServerAssumption DEF Placement, TypeInv, TypeOK, Workers, QueuedTasks, RunningTasks, WaitingFor, Undelivered,
       Queued, connVars, routeVars, workerVars, fileVars, GotoConn
  <2> QED BY <1>1, <2>1, <2>2, <2>3, <2>4, <2>5, <2>6, <2>7, <2>8, <2>9, <2>10, <2>11, <2>12, <2>13, <2>14, <2>15 DEF ConnStep
<1>2. ASSUME NEW w \in Workers, WorkerStep(w) PROVE RunningTasks'
  <2> USE ServerAssumption DEF Placement, TypeInv, TypeOK, Workers, QueuedTasks, RunningTasks, WaitingFor, Undelivered,
       Queued, connVars, routeVars, workerVars, fileVars, GotoConn
  <2>1. ASSUME WorkerTake(w) PROVE RunningTasks'
      <3> DEFINE h == Head(queue[w])
      <3>1. queue[w] \in Seq(Conns) /\ queue[w] # <<>> /\ queue' = [queue EXCEPT ![w] = Tail(queue[w])]
        BY <2>1, SMTT(60) DEF WorkerTake
      <3>2. /\ h \in Conns /\ Range(queue[w]) = {h} \cup Range(queue'[w])
          /\ h \notin Range(queue'[w]) /\ Distinct(queue'[w])
        BY <3>1, TailItems, SMTT(60)
      <3>3. \A u \in Workers : u # w => queue'[u] = queue[u]
        BY <3>1, SMTT(60)
      <3>4. \A u \in Workers : h \in Range(queue[u]) => u = w
        BY <3>1, <3>2, SMTT(60)
      <3>5. started[h] = 0 /\ conn[h] = "awaiting" /\ reply[h] = "pending" /\ target[h] = w
        BY <3>2, SMTT(60)
      <3>6. /\ running[w] = NoConn /\ running' = [running EXCEPT ![w] = h]
          /\ started' = [started EXCEPT ![h] = started[h] + 1]
          /\ worker' = [worker EXCEPT ![w] = "busy"]
          /\ UNCHANGED <<conn, target, reply, answer>>
        BY <2>1 DEF WorkerTake
      <3> HIDE DEF h
      <3> HIDE DEF QueuedTasks, WaitingFor, Undelivered
      <3> QED BY <3>2, <3>3, <3>4, <3>5, <3>6, SMTT(60)
  <2>2. ASSUME WorkerReply(w) PROVE RunningTasks'
      BY <2>2, SMTT(60) DEF WorkerReply
  <2>3. ASSUME WorkerPanic(w) PROVE RunningTasks'
      BY <2>3, EmptyItems, SMTT(30) DEF WorkerPanic, DroppedTasks
  <2>4. ASSUME WorkerExit(w) PROVE RunningTasks'
      <3>1. Range(queue[w]) = {}
        BY <2>4, EmptyItems DEF WorkerExit, Disconnected
      <3>2. running[w] = NoConn
        BY <2>4 DEF WorkerExit
      <3>3. /\ worker' = [worker EXCEPT ![w] = "exited"]
          /\ UNCHANGED <<conn, target, reply, answer, queue, running, started>>
        BY <2>4 DEF WorkerExit
      <3> HIDE DEF QueuedTasks, WaitingFor, Undelivered
      <3> QED BY <3>1, <3>2, <3>3, SMTT(60)
  <2> HIDE ServerAssumption DEF Placement, TypeInv, TypeOK, Workers, QueuedTasks, RunningTasks, WaitingFor, Undelivered,
       Queued, connVars, routeVars, workerVars, fileVars, GotoConn
  <2> QED BY <1>2, <2>1, <2>2, <2>3, <2>4 DEF WorkerStep
<1>3. CASE MainStep \/ Signal \/ UNCHANGED vars
  <2>1. UNCHANGED <<conn, target, reply, answer, queue, worker, running, started>>
    BY <1>3, MainFrame
  <2> QED BY <2>1 DEF Placement, TypeInv, TypeOK, Workers, QueuedTasks, RunningTasks, WaitingFor, Undelivered,
       Queued
<1> QED BY <1>1, <1>2, <1>3 DEF Next

\* A waiting thread's task is not lost.
LEMMA WaitingPreserved == Placement /\ [Next]_vars => WaitingFor'
<1> SUFFICES ASSUME Placement, [Next]_vars PROVE WaitingFor'
    OBVIOUS
<1>1. ASSUME NEW c \in Conns, ConnStep(c) PROVE WaitingFor'
  <2> USE ServerAssumption DEF Placement, TypeInv, TypeOK, Workers, QueuedTasks, RunningTasks, WaitingFor, Undelivered,
       Queued, connVars, routeVars, workerVars, fileVars, GotoConn
  <2>1. ASSUME Connect(c) PROVE WaitingFor'
      BY <2>1, SMTT(60) DEF Connect
  <2>2. ASSUME AcceptConn(c) PROVE WaitingFor'
      BY <2>2, SMTT(60) DEF AcceptConn, AtLimit
  <2>3. ASSUME RmAccept(c) PROVE WaitingFor'
      BY <2>3 DEF RmAccept
  <2>4. ASSUME AuthFails(c) PROVE WaitingFor'
      BY <2>4, SMTT(60) DEF AuthFails
  <2>5. ASSUME AuthPasses(c) PROVE WaitingFor'
      BY <2>5, SMTT(60) DEF AuthPasses
  <2>6. ASSUME ReadEnds(c) PROVE WaitingFor'
      BY <2>6, SMTT(60) DEF ReadEnds
  <2>7. ASSUME RouteLock(c) PROVE WaitingFor'
      BY <2>7, SMTT(60) DEF RouteLock, NextIndex
  <2>8. ASSUME SendOk(c) PROVE WaitingFor'
      <3> DEFINE v == target[c]
      <3>1. v \in Workers /\ queue' = [queue EXCEPT ![v] = Append(queue[v], c)]
        BY <2>8, SMTT(60) DEF SendOk
      <3>2. c \notin Range(queue[v])
        BY <2>8, <3>1 DEF SendOk
      <3>3. Range(queue'[v]) = Range(queue[v]) \cup {c} /\ Distinct(queue'[v])
        BY <3>1, <3>2, AppendItems, SMTT(60)
      <3>4. \A u \in Workers : u # v => queue'[u] = queue[u]
        BY <3>1, SMTT(60)
      <3> QED BY <2>8, <3>1, <3>3, <3>4, SMTT(60) DEF SendOk, ReceiverGone
  <2>9. ASSUME SendFails(c) PROVE WaitingFor'
      BY <2>9, SMTT(60) DEF SendFails, ReceiverGone
  <2>10. ASSUME RecvReply(c) PROVE WaitingFor'
      BY <2>10, SMTT(60) DEF RecvReply
  <2>11. ASSUME Answer(c) PROVE WaitingFor'
      BY <2>11, SMTT(60) DEF Answer
  <2>12. ASSUME ConnEnd(c) PROVE WaitingFor'
      BY <2>12, SMTT(60) DEF ConnEnd
  <2>13. ASSUME ConnLeave(c) PROVE WaitingFor'
      BY <2>13, SMTT(60) DEF ConnLeave
  <2>14. ASSUME NEW kind \in {"eval", "forge"}, ReadTask(c, kind) PROVE WaitingFor'
      BY <2>14, SMTT(60) DEF ReadTask
  <2>15. ASSUME NEW kind \in {"control", "shutdown"}, ReadControl(c, kind) PROVE WaitingFor'
      BY <2>15, SMTT(60) DEF ReadControl
  <2> HIDE ServerAssumption DEF Placement, TypeInv, TypeOK, Workers, QueuedTasks, RunningTasks, WaitingFor, Undelivered,
       Queued, connVars, routeVars, workerVars, fileVars, GotoConn
  <2> QED BY <1>1, <2>1, <2>2, <2>3, <2>4, <2>5, <2>6, <2>7, <2>8, <2>9, <2>10, <2>11, <2>12, <2>13, <2>14, <2>15 DEF ConnStep
<1>2. ASSUME NEW w \in Workers, WorkerStep(w) PROVE WaitingFor'
  <2> USE ServerAssumption DEF Placement, TypeInv, TypeOK, Workers, QueuedTasks, RunningTasks, WaitingFor, Undelivered,
       Queued, connVars, routeVars, workerVars, fileVars, GotoConn
  <2>1. ASSUME WorkerTake(w) PROVE WaitingFor'
      <3> DEFINE h == Head(queue[w])
      <3>1. queue[w] \in Seq(Conns) /\ queue[w] # <<>> /\ queue' = [queue EXCEPT ![w] = Tail(queue[w])]
        BY <2>1, SMTT(60) DEF WorkerTake
      <3>2. /\ h \in Conns /\ Range(queue[w]) = {h} \cup Range(queue'[w])
          /\ h \notin Range(queue'[w]) /\ Distinct(queue'[w])
        BY <3>1, TailItems, SMTT(60)
      <3>3. \A u \in Workers : u # w => queue'[u] = queue[u]
        BY <3>1, SMTT(60)
      <3>4. \A u \in Workers : h \in Range(queue[u]) => u = w
        BY <3>1, <3>2, SMTT(60)
      <3>5. started[h] = 0 /\ conn[h] = "awaiting" /\ reply[h] = "pending" /\ target[h] = w
        BY <3>2, SMTT(60)
      <3>6. /\ running[w] = NoConn /\ running' = [running EXCEPT ![w] = h]
          /\ started' = [started EXCEPT ![h] = started[h] + 1]
          /\ worker' = [worker EXCEPT ![w] = "busy"]
          /\ UNCHANGED <<conn, target, reply, answer>>
        BY <2>1 DEF WorkerTake
      <3> HIDE DEF h
      <3>7. ASSUME NEW d \in Conns, d \in Range(queue[target[d]])
          PROVE  running'[target[d]] = d \/ d \in Range(queue'[target[d]])
        <4>0. running'[w] = h
          BY <3>6, SMTT(60)
        <4>1. CASE target[d] = w
        <5>1. d \in Range(queue[w])
            BY <3>7, <4>1
        <5>2. d = h \/ d \in Range(queue'[w])
            BY <3>2, <5>1
        <5> QED BY <4>0, <4>1, <5>2
        <4>2. CASE target[d] # w
        <5>1. target[d] \in Workers
            BY SMTT(60)
        <5>2. queue'[target[d]] = queue[target[d]]
            BY <3>3, <4>2, <5>1
        <5> QED BY <3>7, <5>2
        <4> QED BY <4>1, <4>2
      <3>8. ASSUME NEW d \in Conns, running[target[d]] = d PROVE running'[target[d]] = d
        BY <3>6, <3>8, SMTT(60)
      <3> HIDE DEF QueuedTasks, RunningTasks, Undelivered
      <3> QED BY <3>6, <3>7, <3>8
  <2>2. ASSUME WorkerReply(w) PROVE WaitingFor'
      BY <2>2, SMTT(60) DEF WorkerReply
  <2>3. ASSUME WorkerPanic(w) PROVE WaitingFor'
      BY <2>3, EmptyItems, SMTT(30) DEF WorkerPanic, DroppedTasks
  <2>4. ASSUME WorkerExit(w) PROVE WaitingFor'
      <3>1. Range(queue[w]) = {}
        BY <2>4, EmptyItems DEF WorkerExit, Disconnected
      <3>2. running[w] = NoConn
        BY <2>4 DEF WorkerExit
      <3>3. /\ worker' = [worker EXCEPT ![w] = "exited"]
          /\ UNCHANGED <<conn, target, reply, answer, queue, running, started>>
        BY <2>4 DEF WorkerExit
      <3> HIDE DEF QueuedTasks, RunningTasks, Undelivered
      <3> QED BY <3>1, <3>2, <3>3
  <2> HIDE ServerAssumption DEF Placement, TypeInv, TypeOK, Workers, QueuedTasks, RunningTasks, WaitingFor, Undelivered,
       Queued, connVars, routeVars, workerVars, fileVars, GotoConn
  <2> QED BY <1>2, <2>1, <2>2, <2>3, <2>4 DEF WorkerStep
<1>3. CASE MainStep \/ Signal \/ UNCHANGED vars
  <2>1. UNCHANGED <<conn, target, reply, answer, queue, worker, running, started>>
    BY <1>3, MainFrame
  <2> QED BY <2>1 DEF Placement, TypeInv, TypeOK, Workers, QueuedTasks, RunningTasks, WaitingFor, Undelivered,
       Queued
<1> QED BY <1>1, <1>2, <1>3 DEF Next

\* A task is not begun before it is delivered.
LEMMA UndeliveredPreserved == Placement /\ [Next]_vars => Undelivered'
<1> SUFFICES ASSUME Placement, [Next]_vars PROVE Undelivered'
    OBVIOUS
<1>1. ASSUME NEW c \in Conns, ConnStep(c) PROVE Undelivered'
  <2> USE ServerAssumption DEF Placement, TypeInv, TypeOK, Workers, QueuedTasks, RunningTasks, WaitingFor, Undelivered,
       Queued, connVars, routeVars, workerVars, fileVars, GotoConn
  <2>1. ASSUME Connect(c) PROVE Undelivered'
      BY <2>1, SMTT(60) DEF Connect
  <2>2. ASSUME AcceptConn(c) PROVE Undelivered'
      BY <2>2, SMTT(60) DEF AcceptConn, AtLimit
  <2>3. ASSUME RmAccept(c) PROVE Undelivered'
      BY <2>3 DEF RmAccept
  <2>4. ASSUME AuthFails(c) PROVE Undelivered'
      BY <2>4, SMTT(60) DEF AuthFails
  <2>5. ASSUME AuthPasses(c) PROVE Undelivered'
      BY <2>5, SMTT(60) DEF AuthPasses
  <2>6. ASSUME ReadEnds(c) PROVE Undelivered'
      BY <2>6, SMTT(60) DEF ReadEnds
  <2>7. ASSUME RouteLock(c) PROVE Undelivered'
      BY <2>7, SMTT(60) DEF RouteLock, NextIndex
  <2>8. ASSUME SendOk(c) PROVE Undelivered'
      <3> DEFINE v == target[c]
      <3>1. v \in Workers /\ queue' = [queue EXCEPT ![v] = Append(queue[v], c)]
        BY <2>8, SMTT(60) DEF SendOk
      <3>2. c \notin Range(queue[v])
        BY <2>8, <3>1 DEF SendOk
      <3>3. Range(queue'[v]) = Range(queue[v]) \cup {c} /\ Distinct(queue'[v])
        BY <3>1, <3>2, AppendItems, SMTT(60)
      <3>4. \A u \in Workers : u # v => queue'[u] = queue[u]
        BY <3>1, SMTT(60)
      <3> QED BY <2>8, <3>1, <3>3, <3>4, SMTT(60) DEF SendOk, ReceiverGone
  <2>9. ASSUME SendFails(c) PROVE Undelivered'
      BY <2>9, SMTT(60) DEF SendFails, ReceiverGone
  <2>10. ASSUME RecvReply(c) PROVE Undelivered'
      BY <2>10, SMTT(60) DEF RecvReply
  <2>11. ASSUME Answer(c) PROVE Undelivered'
      BY <2>11, SMTT(60) DEF Answer
  <2>12. ASSUME ConnEnd(c) PROVE Undelivered'
      BY <2>12, SMTT(60) DEF ConnEnd
  <2>13. ASSUME ConnLeave(c) PROVE Undelivered'
      BY <2>13, SMTT(60) DEF ConnLeave
  <2>14. ASSUME NEW kind \in {"eval", "forge"}, ReadTask(c, kind) PROVE Undelivered'
      BY <2>14, SMTT(60) DEF ReadTask
  <2>15. ASSUME NEW kind \in {"control", "shutdown"}, ReadControl(c, kind) PROVE Undelivered'
      BY <2>15, SMTT(60) DEF ReadControl
  <2> HIDE ServerAssumption DEF Placement, TypeInv, TypeOK, Workers, QueuedTasks, RunningTasks, WaitingFor, Undelivered,
       Queued, connVars, routeVars, workerVars, fileVars, GotoConn
  <2> QED BY <1>1, <2>1, <2>2, <2>3, <2>4, <2>5, <2>6, <2>7, <2>8, <2>9, <2>10, <2>11, <2>12, <2>13, <2>14, <2>15 DEF ConnStep
<1>2. ASSUME NEW w \in Workers, WorkerStep(w) PROVE Undelivered'
  <2> USE ServerAssumption DEF Placement, TypeInv, TypeOK, Workers, QueuedTasks, RunningTasks, WaitingFor, Undelivered,
       Queued, connVars, routeVars, workerVars, fileVars, GotoConn
  <2>1. ASSUME WorkerTake(w) PROVE Undelivered'
      <3> DEFINE h == Head(queue[w])
      <3>1. queue[w] \in Seq(Conns) /\ queue[w] # <<>> /\ queue' = [queue EXCEPT ![w] = Tail(queue[w])]
        BY <2>1, SMTT(60) DEF WorkerTake
      <3>2. /\ h \in Conns /\ Range(queue[w]) = {h} \cup Range(queue'[w])
          /\ h \notin Range(queue'[w]) /\ Distinct(queue'[w])
        BY <3>1, TailItems, SMTT(60)
      <3>3. \A u \in Workers : u # w => queue'[u] = queue[u]
        BY <3>1, SMTT(60)
      <3>4. \A u \in Workers : h \in Range(queue[u]) => u = w
        BY <3>1, <3>2, SMTT(60)
      <3>5. started[h] = 0 /\ conn[h] = "awaiting" /\ reply[h] = "pending" /\ target[h] = w
        BY <3>2, SMTT(60)
      <3>6. /\ running[w] = NoConn /\ running' = [running EXCEPT ![w] = h]
          /\ started' = [started EXCEPT ![h] = started[h] + 1]
          /\ worker' = [worker EXCEPT ![w] = "busy"]
          /\ UNCHANGED <<conn, target, reply, answer>>
        BY <2>1 DEF WorkerTake
      <3> HIDE DEF h
      <3> QED BY <3>2, <3>3, <3>4, <3>5, <3>6, SMTT(60)
  <2>2. ASSUME WorkerReply(w) PROVE Undelivered'
      BY <2>2, SMTT(60) DEF WorkerReply
  <2>3. ASSUME WorkerPanic(w) PROVE Undelivered'
      BY <2>3, EmptyItems, SMTT(30) DEF WorkerPanic, DroppedTasks
  <2>4. ASSUME WorkerExit(w) PROVE Undelivered'
      <3>1. Range(queue[w]) = {}
        BY <2>4, EmptyItems DEF WorkerExit, Disconnected
      <3>2. running[w] = NoConn
        BY <2>4 DEF WorkerExit
      <3>3. /\ worker' = [worker EXCEPT ![w] = "exited"]
          /\ UNCHANGED <<conn, target, reply, answer, queue, running, started>>
        BY <2>4 DEF WorkerExit
      <3> QED BY <3>1, <3>2, <3>3
  <2> HIDE ServerAssumption DEF Placement, TypeInv, TypeOK, Workers, QueuedTasks, RunningTasks, WaitingFor, Undelivered,
       Queued, connVars, routeVars, workerVars, fileVars, GotoConn
  <2> QED BY <1>2, <2>1, <2>2, <2>3, <2>4 DEF WorkerStep
<1>3. CASE MainStep \/ Signal \/ UNCHANGED vars
  <2>1. UNCHANGED <<conn, target, reply, answer, queue, worker, running, started>>
    BY <1>3, MainFrame
  <2> QED BY <2>1 DEF Placement, TypeInv, TypeOK, Workers, QueuedTasks, RunningTasks, WaitingFor, Undelivered,
       Queued
<1> QED BY <1>1, <1>2, <1>3 DEF Next

\* A request is executed at most once, one refused as not accepted (route
\* returned the task) not at all, and a result comes from an execution.
RefusedNotExecuted ==
    \A c \in Conns :
        /\ started[c] <= 1
        /\ answer[c] = "not_accepted" => started[c] = 0
        /\ answer[c] = "result" => started[c] = 1

\* What was refused was not executed.
LEMMA RefusedPreserved == Placement /\ RefusedNotExecuted /\ [Next]_vars => RefusedNotExecuted'
<1> SUFFICES ASSUME Placement, RefusedNotExecuted, [Next]_vars PROVE RefusedNotExecuted'
    OBVIOUS
<1>1. ASSUME NEW c \in Conns, ConnStep(c) PROVE RefusedNotExecuted'
  <2> USE ServerAssumption DEF Placement, TypeInv, TypeOK, Undelivered, Workers, RefusedNotExecuted, connVars, routeVars,
       workerVars, fileVars, GotoConn
  <2>1. ASSUME Connect(c) PROVE RefusedNotExecuted'
      BY <2>1 DEF Connect
  <2>2. ASSUME AcceptConn(c) PROVE RefusedNotExecuted'
      BY <2>2 DEF AcceptConn, AtLimit
  <2>3. ASSUME RmAccept(c) PROVE RefusedNotExecuted'
      BY <2>3 DEF RmAccept
  <2>4. ASSUME AuthFails(c) PROVE RefusedNotExecuted'
      BY <2>4 DEF AuthFails
  <2>5. ASSUME AuthPasses(c) PROVE RefusedNotExecuted'
      BY <2>5 DEF AuthPasses
  <2>6. ASSUME ReadEnds(c) PROVE RefusedNotExecuted'
      BY <2>6 DEF ReadEnds
  <2>7. ASSUME RouteLock(c) PROVE RefusedNotExecuted'
      BY <2>7, SMTT(60) DEF RouteLock, NextIndex
  <2>8. ASSUME SendOk(c) PROVE RefusedNotExecuted'
      BY <2>8 DEF SendOk, ReceiverGone
  <2>9. ASSUME SendFails(c) PROVE RefusedNotExecuted'
      BY <2>9, SMTT(60) DEF SendFails, ReceiverGone
  <2>10. ASSUME RecvReply(c) PROVE RefusedNotExecuted'
      BY <2>10 DEF RecvReply
  <2>11. ASSUME Answer(c) PROVE RefusedNotExecuted'
      BY <2>11 DEF Answer
  <2>12. ASSUME ConnEnd(c) PROVE RefusedNotExecuted'
      BY <2>12 DEF ConnEnd
  <2>13. ASSUME ConnLeave(c) PROVE RefusedNotExecuted'
      BY <2>13 DEF ConnLeave
  <2>14. ASSUME NEW kind \in {"eval", "forge"}, ReadTask(c, kind) PROVE RefusedNotExecuted'
      BY <2>14, SMTT(60) DEF ReadTask
  <2>15. ASSUME NEW kind \in {"control", "shutdown"}, ReadControl(c, kind) PROVE RefusedNotExecuted'
      BY <2>15 DEF ReadControl
  <2> HIDE ServerAssumption DEF Placement, TypeInv, TypeOK, Undelivered, Workers, RefusedNotExecuted, connVars, routeVars,
       workerVars, fileVars, GotoConn
  <2> QED BY <1>1, <2>1, <2>2, <2>3, <2>4, <2>5, <2>6, <2>7, <2>8, <2>9, <2>10, <2>11, <2>12, <2>13, <2>14, <2>15 DEF ConnStep
<1>2. ASSUME NEW w \in Workers, WorkerStep(w) PROVE RefusedNotExecuted'
  <2> USE ServerAssumption DEF Placement, TypeInv, TypeOK, Undelivered, Workers, RefusedNotExecuted, connVars, routeVars,
       workerVars, fileVars, GotoConn
  <2>1. ASSUME WorkerTake(w) PROVE RefusedNotExecuted'
      <3> DEFINE h == Head(queue[w])
      <3>1. queue[w] \in Seq(Conns) /\ queue[w] # <<>>
        BY <2>1 DEF WorkerTake
      <3>2. h \in Range(queue[w])
        BY <3>1, TailItems, SMTT(60)
      <3>3. h \in Conns /\ started[h] = 0 /\ conn[h] = "awaiting" /\ answer[h] = "none"
        BY <3>2, SMTT(60) DEF QueuedTasks, Queued
      <3>4. started' = [started EXCEPT ![h] = started[h] + 1] /\ UNCHANGED answer
        BY <2>1 DEF WorkerTake
      <3> HIDE DEF h
      <3> QED BY <3>3, <3>4, SMTT(60)
  <2>2. ASSUME WorkerReply(w) PROVE RefusedNotExecuted'
      BY <2>2 DEF WorkerReply
  <2>3. ASSUME WorkerPanic(w) PROVE RefusedNotExecuted'
      BY <2>3 DEF WorkerPanic, DroppedTasks, Queued
  <2>4. ASSUME WorkerExit(w) PROVE RefusedNotExecuted'
      BY <2>4 DEF WorkerExit, Disconnected
  <2> HIDE ServerAssumption DEF Placement, TypeInv, TypeOK, Undelivered, Workers, RefusedNotExecuted, connVars, routeVars,
       workerVars, fileVars, GotoConn
  <2> QED BY <1>2, <2>1, <2>2, <2>3, <2>4 DEF WorkerStep
<1>3. CASE MainStep \/ Signal \/ UNCHANGED vars
  <2>1. UNCHANGED <<conn, target, reply, answer, queue, worker, running, started>>
    BY <1>3, MainFrame
  <2> QED BY <2>1 DEF Placement, TypeInv, TypeOK, Undelivered, Workers, RefusedNotExecuted
<1> QED BY <1>1, <1>2, <1>3 DEF Next

=============================================================================
