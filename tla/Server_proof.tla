---------------------------- MODULE Server_proof ----------------------------
(***************************************************************************)
(* Proofs about the server process, for any number of connections and      *)
(* workers, any queue capacity and any connection limit: the inductive     *)
(* invariant and the theorems that follow from it.                         *)
(***************************************************************************)
EXTENDS ServerTasks_proof, FiniteSetTheorems

\* A step is for Zenon unless it cites SMT, which it does for arithmetic and records.
USE ZenonT(30)

\* What the two counts and the drain establish.
Closing == {"close", "join", "drop", "unlink_socket", "unlink_sidecar"}
Counting ==
    /\ InFlightExact
    /\ main = "rm_first" => LiveConns = {}
    /\ main \in Closing /\ ~timedOut => LiveConns = {}

\* A thread that appears or goes changes the number of threads by one.
LEMMA CardAdd ==
    ASSUME NEW S, IsFiniteSet(S), NEW x, x \notin S, NEW T, T = S \cup {x}
    PROVE  Cardinality(T) = Cardinality(S) + 1
BY FS_AddElement

LEMMA CardRemove ==
    ASSUME NEW S, IsFiniteSet(S), NEW x \in S, NEW T, T = S \ {x}
    PROVE  Cardinality(T) = Cardinality(S) - 1
BY FS_RemoveElement

LEMMA LiveFinite == TypeOK => IsFiniteSet(LiveConns) /\ Cardinality(LiveConns) \in Nat
BY ServerAssumption, FS_Subset, FS_CardinalityType DEF LiveConns

\* in_flight counts the connection threads, and a drain that is not given up
\* ends with none of them left.
LEMMA CountingPreserved == TypeInv /\ Counting /\ [Next]_vars => Counting'
<1> SUFFICES ASSUME TypeInv, Counting, [Next]_vars PROVE Counting'
    OBVIOUS
<1>0. TypeOK /\ IsFiniteSet(LiveConns) /\ Cardinality(LiveConns) \in Nat
    BY LiveFinite DEF TypeInv
<1>1. ASSUME LiveConns' = LiveConns, UNCHANGED <<main, inFlight, timedOut>> PROVE Counting'
    BY <1>1 DEF Counting, InFlightExact
<1>2. ASSUME NEW c \in Conns, Connect(c) PROVE Counting'
  <2>1. LiveConns' = LiveConns
    BY <1>2, <1>0 DEF LiveConns, Live, Connect, GotoConn, TypeOK
  <2> QED BY <1>1, <1>2, <2>1 DEF Connect
<1>3. ASSUME NEW c \in Conns, AuthFails(c) PROVE Counting'
  <2>1. LiveConns' = LiveConns
    BY <1>3, <1>0 DEF LiveConns, Live, AuthFails, GotoConn, TypeOK
  <2> QED BY <1>1, <1>3, <2>1 DEF AuthFails
<1>4. ASSUME NEW c \in Conns, AuthPasses(c) PROVE Counting'
  <2>1. LiveConns' = LiveConns
    BY <1>4, <1>0 DEF LiveConns, Live, AuthPasses, GotoConn, TypeOK
  <2> QED BY <1>1, <1>4, <2>1 DEF AuthPasses
<1>5. ASSUME NEW c \in Conns, ReadEnds(c) PROVE Counting'
  <2>1. LiveConns' = LiveConns
    BY <1>5, <1>0 DEF LiveConns, Live, ReadEnds, GotoConn, TypeOK
  <2> QED BY <1>1, <1>5, <2>1 DEF ReadEnds
<1>6. ASSUME NEW c \in Conns, RouteLock(c) PROVE Counting'
  <2>1. LiveConns' = LiveConns
    BY <1>6, <1>0, SMTT(60) DEF LiveConns, Live, RouteLock, NextIndex, GotoConn, TypeOK
  <2> QED BY <1>1, <1>6, <2>1 DEF RouteLock
<1>7. ASSUME NEW c \in Conns, SendOk(c) PROVE Counting'
  <2>1. LiveConns' = LiveConns
    BY <1>7, <1>0 DEF LiveConns, Live, SendOk, ReceiverGone, GotoConn, TypeOK
  <2> QED BY <1>1, <1>7, <2>1 DEF SendOk
<1>8. ASSUME NEW c \in Conns, SendFails(c) PROVE Counting'
  <2>1. LiveConns' = LiveConns
    BY <1>8, <1>0 DEF LiveConns, Live, SendFails, ReceiverGone, GotoConn, TypeOK
  <2> QED BY <1>1, <1>8, <2>1 DEF SendFails
<1>9. ASSUME NEW c \in Conns, RecvReply(c) PROVE Counting'
  <2>1. LiveConns' = LiveConns
    BY <1>9, <1>0 DEF LiveConns, Live, RecvReply, GotoConn, TypeOK
  <2> QED BY <1>1, <1>9, <2>1 DEF RecvReply
<1>10. ASSUME NEW c \in Conns, Answer(c) PROVE Counting'
  <2>1. LiveConns' = LiveConns
    BY <1>10, <1>0, SMTT(60) DEF LiveConns, Live, Answer, GotoConn, TypeOK
  <2> QED BY <1>1, <1>10, <2>1 DEF Answer
<1>11. ASSUME NEW c \in Conns, ConnEnd(c) PROVE Counting'
  <2>1. LiveConns' = LiveConns
    BY <1>11, <1>0 DEF LiveConns, Live, ConnEnd, GotoConn, TypeOK
  <2> QED BY <1>1, <1>11, <2>1 DEF ConnEnd
<1>12. ASSUME NEW c \in Conns, NEW kind \in {"eval", "forge"}, ReadTask(c, kind) PROVE Counting'
  <2>1. LiveConns' = LiveConns
    BY <1>12, <1>0 DEF LiveConns, Live, ReadTask, GotoConn, TypeOK
  <2> QED BY <1>1, <1>12, <2>1 DEF ReadTask
<1>13. ASSUME NEW c \in Conns, NEW kind \in {"control", "shutdown"}, ReadControl(c, kind) PROVE Counting'
  <2>1. LiveConns' = LiveConns
    BY <1>13, <1>0 DEF LiveConns, Live, ReadControl, GotoConn, TypeOK
  <2> QED BY <1>1, <1>13, <2>1 DEF ReadControl
<1>14. ASSUME NEW w \in Workers, WorkerTake(w) PROVE Counting'
  <2>1. LiveConns' = LiveConns
    BY <1>14 DEF LiveConns, Live, WorkerTake, connVars
  <2> QED BY <1>1, <1>14, <2>1 DEF WorkerTake
<1>15. ASSUME NEW w \in Workers, WorkerReply(w) PROVE Counting'
  <2>1. LiveConns' = LiveConns
    BY <1>15 DEF LiveConns, Live, WorkerReply, connVars
  <2> QED BY <1>1, <1>15, <2>1 DEF WorkerReply
<1>16. ASSUME NEW w \in Workers, WorkerPanic(w) PROVE Counting'
  <2>1. LiveConns' = LiveConns
    BY <1>16 DEF LiveConns, Live, WorkerPanic, connVars
  <2> QED BY <1>1, <1>16, <2>1 DEF WorkerPanic
<1>17. ASSUME NEW w \in Workers, WorkerExit(w) PROVE Counting'
  <2>1. LiveConns' = LiveConns
    BY <1>17 DEF LiveConns, Live, WorkerExit, connVars
  <2> QED BY <1>1, <1>17, <2>1 DEF WorkerExit
<1>18. ASSUME NEW c \in Conns, AcceptConn(c) PROVE Counting'
  <2>1. CASE AtLimit
    <3>1. LiveConns' = LiveConns
        BY <1>18, <1>0, <2>1, SMTT(60) DEF LiveConns, Live, AcceptConn, GotoConn, TypeOK
    <3>2. main' = "accept" /\ UNCHANGED <<inFlight, timedOut>>
        BY <1>18, <2>1 DEF AcceptConn
    <3> QED BY <3>1, <3>2 DEF Counting, InFlightExact, Closing
  <2>2. CASE ~AtLimit
    <3>1. c \notin LiveConns /\ LiveConns' = LiveConns \cup {c}
        BY <1>18, <1>0, <2>2, SMTT(60) DEF LiveConns, Live, AcceptConn, GotoConn, TypeOK
    <3>2. main' = "accept" /\ inFlight' = inFlight + 1 /\ inFlight < MaxConnections
        BY <1>18, <1>0, <2>2, ServerAssumption, SMTT(60) DEF AcceptConn, AtLimit, TypeOK
    <3>3. Cardinality(LiveConns') = Cardinality(LiveConns) + 1
        BY <1>0, <3>1, CardAdd
    <3> QED BY <1>0, <3>2, <3>3, ServerAssumption, SMTT(60) DEF Counting, InFlightExact, Closing
  <2> QED BY <2>1, <2>2
<1>19. ASSUME NEW c \in Conns, RmAccept(c) PROVE Counting'
  <2>1. LiveConns = {}
    BY <1>19 DEF RmAccept, Counting
  <2>2. c \notin LiveConns /\ LiveConns' = LiveConns \cup {c}
    BY <1>19, <1>0, <2>1 DEF LiveConns, Live, RmAccept, TypeOK
  <2>3. Cardinality(LiveConns') = Cardinality(LiveConns) + 1
    BY <1>0, <2>2, CardAdd
  <2>4. Cardinality(LiveConns) = 0
    BY <2>1, FS_EmptySet
  <2>5. main' = "rm_serving" /\ inFlight' = inFlight + 1
    BY <1>19 DEF RmAccept
  <2> QED BY <2>3, <2>4, <2>5, ServerAssumption, SMTT(60) DEF Counting, InFlightExact, Closing
<1>20. ASSUME NEW c \in Conns, ConnLeave(c) PROVE Counting'
  <2>1. c \in LiveConns /\ LiveConns' = LiveConns \ {c}
    BY <1>20, <1>0 DEF LiveConns, Live, ConnLeave, GotoConn, TypeOK
  <2>2. Cardinality(LiveConns') = Cardinality(LiveConns) - 1
    BY <1>0, <2>1, CardRemove
  <2>3. inFlight' = inFlight - 1 /\ UNCHANGED <<main, timedOut>>
    BY <1>20 DEF ConnLeave
  <2> QED BY <1>0, <2>1, <2>2, <2>3, ServerAssumption, SMTT(60) DEF Counting, InFlightExact, Closing
<1>21. ASSUME MainStep \/ Signal \/ UNCHANGED vars PROVE Counting'
  <2>1. UNCHANGED <<conn, inFlight>>
    BY <1>21, ZenonT(60) DEF MainStep, vars, connVars, AcceptCheck, AcceptNone, AcceptFailed, RmIdle, RmAcceptFailed, RmStop, DrainEnd, DrainTimeout,
       Close, Join, JoinedAll, DropKernel, UnlinkSocket, UnlinkSidecar, Signal
  <2>2. LiveConns' = LiveConns
    BY <2>1 DEF LiveConns, Live
  <2>3. CASE DrainEnd
    <3>0. Cardinality(LiveConns) = 0
        BY <2>3 DEF DrainEnd, Drained, Counting, InFlightExact
    <3>1. LiveConns = {}
        BY <1>0, <3>0, FS_EmptySet
    <3> QED BY <2>1, <2>2, <3>1 DEF Counting, InFlightExact
  <2>4. CASE DrainTimeout
    BY <2>1, <2>2, <2>4 DEF DrainTimeout, Counting, InFlightExact
  <2>5. CASE ~DrainEnd /\ ~DrainTimeout
    <3>1. /\ main' = "rm_first" => main = "rm_first"
          /\ main' \in Closing => main \in Closing
          /\ UNCHANGED timedOut
        BY <1>21, <2>5 DEF MainStep, vars, Closing, AcceptCheck, AcceptNone, AcceptFailed, RmIdle, RmAcceptFailed, RmStop, Close, Join, JoinedAll,
       DropKernel, UnlinkSocket, UnlinkSidecar, Signal
    <3> QED BY <2>1, <2>2, <3>1 DEF Counting, InFlightExact
  <2> QED BY <2>3, <2>4, <2>5
<1> QED BY <1>2, <1>3, <1>4, <1>5, <1>6, <1>7, <1>8, <1>9, <1>10, <1>11, <1>12, <1>13, <1>14, <1>15,
       <1>16, <1>17, <1>18, <1>19, <1>20, <1>21 DEF Next, ConnStep, WorkerStep

\* A dropped reply, like an answer that says so, is the mark of a panic or of
\* a drain that was given up.
Panicked == \E w \in Workers : worker[w] = "panicked"
Marks ==
    /\ \A c \in Conns : reply[c] = "dropped" => Panicked
    /\ GracefulRefusesNothing

\* A connection thread touches neither the workers nor the files.
LEMMA ConnFrame ==
    ASSUME NEW c \in Conns, ConnStep(c)
    PROVE  UNCHANGED <<timedOut, worker, socket, sidecar>>
<1> USE DEF workerVars, fileVars
<1>1. CASE Connect(c) \/ AcceptConn(c) \/ RmAccept(c)
    BY <1>1 DEF Connect, AcceptConn, RmAccept
<1>2. CASE AuthFails(c) \/ AuthPasses(c) \/ ReadEnds(c)
    BY <1>2 DEF AuthFails, AuthPasses, ReadEnds
<1>3. CASE \/ \E kind \in {"eval", "forge"} : ReadTask(c, kind)
           \/ \E kind \in {"control", "shutdown"} : ReadControl(c, kind)
    BY <1>3 DEF ReadTask, ReadControl
<1>4. CASE RouteLock(c) \/ SendOk(c) \/ SendFails(c)
    BY <1>4 DEF RouteLock, SendOk, SendFails
<1>5. CASE RecvReply(c) \/ Answer(c) \/ ConnEnd(c) \/ ConnLeave(c)
    BY <1>5 DEF RecvReply, Answer, ConnEnd, ConnLeave
<1> QED BY <1>1, <1>2, <1>3, <1>4, <1>5 DEF ConnStep

\* Nor does a worker touch the files or the drain.
LEMMA WorkerFrame ==
    ASSUME NEW w \in Workers, WorkerStep(w)
    PROVE  UNCHANGED <<timedOut, socket, sidecar>>
BY DEF WorkerStep, WorkerTake, WorkerReply, WorkerPanic, WorkerExit, fileVars

\* A worker's panic is final.
LEMMA PanicStays == TypeInv /\ [Next]_vars /\ Panicked => Panicked'
<1> SUFFICES ASSUME TypeInv, [Next]_vars, NEW v \in Workers, worker[v] = "panicked" PROVE Panicked'
    BY DEF Panicked
<1>1. worker'[v] = "panicked"
  <2>1. ASSUME NEW w \in Workers, WorkerStep(w) PROVE worker'[v] = "panicked"
    BY <2>1, SMTT(60) DEF WorkerStep, WorkerTake, WorkerReply, WorkerPanic, WorkerExit, TypeInv, TypeOK
  <2>2. ASSUME NEW c \in Conns, ConnStep(c) PROVE worker'[v] = "panicked"
    BY <2>2, ConnFrame
  <2>3. CASE MainStep \/ Signal \/ UNCHANGED vars
    BY <2>3, MainFrame
  <2> QED BY <2>1, <2>2, <2>3 DEF Next
<1> QED BY <1>1 DEF Panicked, Workers

\* A request is refused only after a drain timeout or a panic.
LEMMA MarksPreserved ==
    Placement /\ Progress /\ Counting /\ Marks /\ [Next]_vars => Marks'
<1> SUFFICES ASSUME Placement, Progress, Counting, Marks, [Next]_vars PROVE Marks'
    OBVIOUS
<1> USE DEF Placement, TypeInv, Marks, GracefulRefusesNothing
<1>0. (Panicked => Panicked') /\ (timedOut => timedOut')
  <2>1. timedOut => timedOut'
    <3>1. CASE MainStep \/ Signal \/ UNCHANGED vars
        BY <3>1, ZenonT(60) DEF MainStep, vars, AcceptCheck, AcceptNone, AcceptFailed, RmIdle, RmAcceptFailed, RmStop,
           DrainEnd, DrainTimeout, Close, Join, JoinedAll, DropKernel, UnlinkSocket, UnlinkSidecar, Signal
    <3> QED BY <3>1, ConnFrame, WorkerFrame DEF Next
  <2> QED BY <2>1, PanicStays
<1>1. ASSUME \A c \in Conns : reply'[c] = "dropped" => reply[c] = "dropped" \/ Panicked',
             \A c \in Conns : answer'[c] \in {"not_accepted", "worker_exited"} =>
                 answer[c] \in {"not_accepted", "worker_exited"} \/ Panicked' \/ timedOut'
      PROVE  Marks'
    BY <1>0, <1>1 DEF Panicked
\* The senders are gone and the process is alive: the drain was given up.
<1>2. ASSUME NEW c \in Conns, Alive, Live(c), ~open PROVE timedOut
    BY <1>2 DEF Counting, Closing, LiveConns, Progress, Alive
<1>3. ASSUME NEW c \in Conns, Connect(c) \/ AcceptConn(c) \/ RmAccept(c) \/ AuthFails(c) \/ AuthPasses(c) \/ ReadEnds(c) \/ Answer(c) \/ ConnEnd(c) \/ ConnLeave(c) PROVE Marks'
  <2>1. UNCHANGED <<reply, answer>>
    BY <1>3, ZenonT(60) DEF Connect, AcceptConn, RmAccept, AuthFails, AuthPasses, ReadEnds, Answer, ConnEnd, ConnLeave
  <2> QED BY <1>1, <2>1
<1>4. ASSUME NEW c \in Conns, \E kind \in {"eval", "forge"} : ReadTask(c, kind) PROVE Marks'
  <2>1. /\ reply' = [reply EXCEPT ![c] = "none"] /\ answer' = [answer EXCEPT ![c] = "none"]
    BY <1>4 DEF ReadTask
  <2> QED BY <1>1, <2>1 DEF TypeOK
<1>5. ASSUME NEW c \in Conns, NEW kind \in {"control", "shutdown"}, ReadControl(c, kind) PROVE Marks'
  <2>1. answer' = [answer EXCEPT ![c] = kind] /\ UNCHANGED reply
    BY <1>5, ZenonT(60) DEF ReadControl
  <2> QED BY <1>1, <2>1 DEF TypeOK
<1>6. ASSUME NEW c \in Conns, RouteLock(c) PROVE Marks'
  <2>1. CASE open
    BY <1>1, <1>6, <2>1 DEF RouteLock
  <2>2. CASE ~open
    <3>1. timedOut
        BY <1>2, <1>6, <2>2 DEF RouteLock, Live
    <3> QED BY <1>0, <1>1, <1>6, <3>1 DEF RouteLock
  <2> QED BY <2>1, <2>2
<1>7. ASSUME NEW c \in Conns, SendOk(c) PROVE Marks'
  <2>1. reply' = [reply EXCEPT ![c] = "pending"] /\ UNCHANGED answer
    BY <1>7 DEF SendOk
  <2> QED BY <1>1, <2>1 DEF TypeOK
<1>8. ASSUME NEW c \in Conns, SendFails(c) PROVE Marks'
  <2>1. target[c] \in Workers /\ worker[target[c]] \in {"exited", "panicked"}
    BY <1>8 DEF SendFails, ReceiverGone, TypeOK
  <2>2. Panicked \/ ~open
    BY <2>1 DEF Panicked, Progress
  <2>3. Panicked' \/ timedOut'
    BY <1>0, <1>2, <1>8, <2>2 DEF SendFails, Live
  <2> QED BY <1>1, <1>8, <2>3 DEF SendFails
<1>9. ASSUME NEW c \in Conns, RecvReply(c) PROVE Marks'
  <2>1. CASE reply[c] = "sent"
    <3>1. answer' = [answer EXCEPT ![c] = "result"] /\ UNCHANGED reply
        BY <1>9, <2>1 DEF RecvReply
    <3> QED BY <1>1, <3>1 DEF TypeOK
  <2>2. CASE reply[c] = "dropped"
    <3>1. Panicked'
        BY <1>0, <2>2
    <3> QED BY <1>1, <3>1, <1>9 DEF RecvReply
  <2> QED BY <2>1, <2>2, <1>9 DEF RecvReply
<1>10. ASSUME NEW w \in Workers, WorkerTake(w) \/ WorkerExit(w) PROVE Marks'
  <2>1. UNCHANGED <<reply, answer>>
    BY <1>10 DEF WorkerTake, WorkerExit, connVars
  <2> QED BY <1>1, <2>1
<1>11. ASSUME NEW w \in Workers, WorkerReply(w) PROVE Marks'
  <2>1. reply' = [reply EXCEPT ![running[w]] = "sent"] /\ UNCHANGED answer
    BY <1>11 DEF WorkerReply
  <2> QED BY <1>1, <2>1 DEF TypeOK
<1>12. ASSUME NEW w \in Workers, WorkerPanic(w) PROVE Marks'
  <2>1. worker'[w] = "panicked" /\ UNCHANGED answer
    BY <1>12 DEF WorkerPanic, TypeOK
  <2>2. Panicked'
    BY <2>1 DEF Panicked, Workers
  <2> QED BY <1>1, <2>1, <2>2
<1>13. ASSUME MainStep \/ Signal \/ UNCHANGED vars PROVE Marks'
  <2>1. UNCHANGED <<reply, answer>>
    BY <1>13, MainFrame
  <2> QED BY <1>1, <2>1
<1> HIDE DEF Placement, TypeInv, Marks, GracefulRefusesNothing
<1>14. ASSUME NEW c \in Conns, ConnStep(c) PROVE Marks'
    BY <1>3, <1>4, <1>5, <1>6, <1>7, <1>8, <1>9, <1>14 DEF ConnStep
<1>15. ASSUME NEW w \in Workers, WorkerStep(w) PROVE Marks'
    BY <1>10, <1>11, <1>12, <1>15 DEF WorkerStep
<1> QED BY <1>13, <1>14, <1>15 DEF Next

-----------------------------------------------------------------------------
IInv == Placement /\ Progress /\ Counting /\ Marks /\ RefusedNotExecuted

\* The server starts with nothing in flight.
LEMMA InitIInv == Init => IInv
<1> SUFFICES ASSUME Init PROVE IInv
    OBVIOUS
<1> USE ServerAssumption
<1>1. TypeInv
  <2>1. queue \in [Workers -> Seq(Conns)] /\ \A w \in Workers : Len(queue[w]) = 0
    BY SMTT(60) DEF Init
  <2>2. sidecar \in BOOLEAN /\ socket \in BOOLEAN /\ shutdown \in BOOLEAN /\ open \in BOOLEAN
    BY DEF Init
  <2>3. timedOut \in BOOLEAN /\ main \in MainPoints
    BY ZenonT(60) DEF Init, MainPoints
  <2>4. TypeOK
    BY <2>1, <2>2, <2>3, SMTT(60) DEF Init, TypeOK, ConnPoints, Workers
  <2> QED BY <2>1, <2>4, SMTT(60) DEF TypeInv
<1>2. \A w \in Workers : Queued(w) = {} /\ Distinct(queue[w])
    BY EmptyItems DEF Init, Queued
<1>3. QueuedTasks /\ RunningTasks /\ WaitingFor /\ Undelivered
  <2>1. QueuedTasks
    BY <1>2 DEF QueuedTasks
  <2>2. RunningTasks
    BY <1>2 DEF Init, RunningTasks
  <2>3. WaitingFor /\ Undelivered
    BY SMTT(60) DEF Init, WaitingFor, Undelivered
  <2> QED BY <2>1, <2>2, <2>3
<1>4. Progress
  <2>1. open
    BY DEF Init
  <2>2. main \in {"accept", "rm_first"} /\ joined = 0 /\ \A w \in Workers : worker[w] = "idle"
    BY DEF Init
  <2> QED BY <2>1, <2>2, SMTT(60) DEF Progress, Workers
<1>5. LiveConns = {}
    BY DEF Init, LiveConns, Live
<1>6. Counting
    BY <1>5, FS_EmptySet, SMTT(60) DEF Init, Counting, InFlightExact, Closing
<1>7. Marks /\ RefusedNotExecuted
    BY SMTT(60) DEF Init, Marks, GracefulRefusesNothing, RefusedNotExecuted
<1> QED BY <1>1, <1>3, <1>4, <1>6, <1>7 DEF IInv, Placement

\* The inductive invariant holds in every reachable state.
THEOREM Inductive == Spec => []IInv
<1>1. IInv /\ [Next]_vars => IInv'
    BY TypePreserved, ProgressPreserved, QueuedPreserved, RunningPreserved, WaitingPreserved,
       UndeliveredPreserved, CountingPreserved, MarksPreserved, RefusedPreserved DEF IInv, Placement
<1> QED BY <1>1, InitIInv, PTL DEF Spec

\* Every reachable state is well typed, and no worker's queue ever holds more
\* than QUEUE_CAPACITY tasks.
THEOREM TypeCorrect == Spec => [](TypeOK /\ \A w \in Workers : Len(queue[w]) <= QueueCapacity)
BY Inductive, PTL DEF IInv, Placement, TypeInv

\* in_flight is exactly the number of connection threads and never exceeds
\* MAX_CONCURRENT_CONNECTIONS, whatever the accept loop and the threads do.
THEOREM InFlightAlwaysExact == Spec => []InFlightExact
BY Inductive, PTL DEF IInv, Counting

\* A request is executed at most once; refused as not accepted, never.
THEOREM AtMostOnce == Spec => []RefusedNotExecuted
BY Inductive, PTL DEF IInv

\* Only a drain timeout or a panic makes the server refuse a request.
THEOREM Graceful == Spec => []GracefulRefusesNothing
BY Inductive, PTL DEF IInv, Marks

\* When the sidecar goes, the socket and every worker's last task are gone.
THEOREM SidecarGoneLast == Spec => TakeoverSignal
<1>1. ASSUME IInv, [Next]_vars
      PROVE  [sidecar /\ ~sidecar' => ~socket /\ \A w \in Workers : worker[w] = "exited"]_vars
  <2>1. UnlinkSidecar \/ sidecar' = sidecar
    <3>1. CASE MainStep \/ Signal \/ UNCHANGED vars
        BY <3>1 DEF MainStep, vars, fileVars, AcceptCheck, AcceptNone, AcceptFailed, RmIdle, RmAcceptFailed, RmStop,
           DrainEnd, DrainTimeout, Close, Join, JoinedAll, DropKernel, UnlinkSocket, Signal
    <3> QED BY <1>1, <3>1, ConnFrame, WorkerFrame DEF Next
  <2>2. CASE UnlinkSidecar
    BY <1>1, <2>2 DEF UnlinkSidecar, IInv, Progress, Workers
  <2>3. CASE sidecar' = sidecar
    BY <2>3
  <2> QED BY <2>1, <2>2, <2>3
<1> QED BY <1>1, Inductive, PTL DEF Spec, TakeoverSignal

\* A waiting thread's task is in exactly one place, and a worker holds no
\* task nobody waits for.
THEOREM NoTaskLost == Spec => []TaskInOnePlace
<1>1. IInv => TaskInOnePlace
  <2> SUFFICES ASSUME IInv, NEW c \in Conns
      PROVE  /\ \A w \in Workers, i \in 0 .. QueueCapacity :
                  TaskAt(c, w, i) => conn[c] = "awaiting" /\ reply[c] = "pending" /\ target[c] = w
             /\ conn[c] = "awaiting" /\ reply[c] = "pending" =>
                  \E i \in 0 .. QueueCapacity :
                      /\ TaskAt(c, target[c], i)
                      /\ \A j \in 0 .. QueueCapacity : TaskAt(c, target[c], j) => j = i
    BY DEF TaskInOnePlace
  <2> USE ServerAssumption DEF IInv, Placement, TypeInv, TypeOK
  <2>1. ASSUME NEW w \in Workers, NEW i \in 0 .. QueueCapacity, TaskAt(c, w, i)
        PROVE  /\ conn[c] = "awaiting" /\ reply[c] = "pending" /\ target[c] = w
               /\ i = 0 <=> started[c] = 1
    <3>1. CASE i = 0
      <4>1. running[w] = c
          BY <2>1, <3>1 DEF TaskAt
      <4> QED BY <3>1, <4>1, SMTT(60) DEF RunningTasks
    <3>2. CASE i # 0
      <4>1. c \in Queued(w)
          BY <2>1, <3>2 DEF TaskAt, Queued, Range
      <4> QED BY <3>2, <4>1, SMTT(60) DEF QueuedTasks
    <3> QED BY <3>1, <3>2
  <2>2. ASSUME conn[c] = "awaiting", reply[c] = "pending"
        PROVE  \E i \in 0 .. QueueCapacity :
                   /\ TaskAt(c, target[c], i)
                   /\ \A j \in 0 .. QueueCapacity : TaskAt(c, target[c], j) => j = i
    <3> DEFINE w == target[c]
    <3>0. w \in Workers /\ 0 \in 0 .. QueueCapacity
        BY SMTT(60)
    <3>1. CASE running[w] = c
      <4>1. TaskAt(c, w, 0)
          BY <3>1 DEF TaskAt
      <4>2. \A j \in 0 .. QueueCapacity : TaskAt(c, w, j) => j = 0
          BY <2>1, <3>0, <4>1
      <4> QED BY <3>0, <4>1, <4>2
    <3>2. CASE running[w] # c
      <4>1. c \in Queued(w) /\ queue[w] \in Seq(Conns) /\ Distinct(queue[w])
          BY <2>2, <3>0, <3>2 DEF WaitingFor, QueuedTasks
      <4>2. Len(queue[w]) <= QueueCapacity
          BY <3>0
      <4>3. Len(queue[w]) \in Nat /\ DOMAIN queue[w] = 1 .. Len(queue[w])
          BY <4>1, SMTT(60)
      <4>4. \E i \in DOMAIN queue[w] : queue[w][i] = c
          BY <4>1 DEF Queued, Range
      <4>5. PICK i \in 1 .. Len(queue[w]) : queue[w][i] = c
          BY <4>3, <4>4
      <4>6. i \in 0 .. QueueCapacity /\ i # 0
          BY <4>2, <4>3, SMTT(60)
      <4>7. TaskAt(c, w, i)
          BY <4>3, <4>5, <4>6 DEF TaskAt
      <4>8. ASSUME NEW j \in 0 .. QueueCapacity, TaskAt(c, w, j) PROVE j = i
        <5>1. j \in 1 .. Len(queue[w]) /\ queue[w][j] = c
            BY <3>2, <4>3, <4>8 DEF TaskAt
        <5> QED BY <4>1, <4>5, <5>1 DEF Distinct
      <4> HIDE DEF w
      <4> QED BY <4>6, <4>7, <4>8 DEF w
    <3> QED BY <3>1, <3>2
  <2> QED BY <2>1, <2>2
<1> QED BY <1>1, Inductive, PTL

-----------------------------------------------------------------------------
(* The promise of module Dispatch.                                         *)

\* A connection thread inside dispatch.
Inside == {"route", "sending", "awaiting"}

\* The abstract step a step of the server makes, or none.
Promised ==
    Promise!Next \/ UNCHANGED <<[c \in Conns |-> Fate(c)], started, [c \in Conns |-> Told(c)]>>

\* Nothing is different for connection d.
Kept(d) == Fate(d)' = Fate(d) /\ Told(d)' = Told(d)

\* A thread that stays outside dispatch, with the same answer, is not told anything.
LEMMA SameFate ==
    ASSUME NEW d \in Conns, reply'[d] = reply[d], answer'[d] = answer[d],
           conn'[d] = conn[d] \/ (conn[d] \notin Inside /\ conn'[d] \notin Inside)
    PROVE  Kept(d)
BY DEF Kept, Fate, Told, Inside

LEMMA NothingMoves ==
    ASSUME \A d \in Conns : Kept(d), started' = started
    PROVE  Promised
<1>1. [c \in Conns |-> Fate(c)]' = [c \in Conns |-> Fate(c)]
    BY DEF Kept
<1>2. [c \in Conns |-> Told(c)]' = [c \in Conns |-> Told(c)]
    BY DEF Kept
<1> QED BY <1>1, <1>2 DEF Promised

\* One connection moves.
LEMMA OneMoves ==
    ASSUME NEW c \in Conns, NEW x, NEW y, \A d \in Conns \ {c} : Kept(d), Fate(c)' = x, Told(c)' = y
    PROVE  /\ [d \in Conns |-> Fate(d)]' = [[d \in Conns |-> Fate(d)] EXCEPT ![c] = x]
           /\ [d \in Conns |-> Told(d)]' = [[d \in Conns |-> Told(d)] EXCEPT ![c] = y]
BY DEF Kept

\* The threads outside dispatch, and the listener.
LEMMA OutsideKeeps ==
    ASSUME TypeOK, NEW c \in Conns,
           \/ Connect(c) \/ AcceptConn(c) \/ RmAccept(c) \/ AuthFails(c) \/ AuthPasses(c)
           \/ ReadEnds(c) \/ Answer(c) \/ ConnEnd(c) \/ ConnLeave(c)
    PROVE  Promised
<1>1. UNCHANGED <<reply, answer, started>>
    BY ZenonT(60) DEF Connect, AcceptConn, RmAccept, AuthFails, AuthPasses, ReadEnds, Answer, ConnEnd, ConnLeave
<1>2. ASSUME NEW d \in Conns
      PROVE  conn'[d] = conn[d] \/ (conn[d] \notin Inside /\ conn'[d] \notin Inside)
  <2>1. CASE RmAccept(c)
    BY <2>1 DEF RmAccept, Inside
  <2>2. CASE ~RmAccept(c)
    <3>1. PICK l \in ConnPoints \ Inside : conn' = [conn EXCEPT ![c] = l] /\ conn[c] \notin Inside
        BY <2>2, ZenonT(60) DEF Connect, AcceptConn, AuthFails, AuthPasses, ReadEnds, Answer, ConnEnd, ConnLeave,
           GotoConn, Inside, ConnPoints
    <3> QED BY <3>1 DEF TypeOK
  <2> QED BY <2>1, <2>2
<1>3. \A d \in Conns : Kept(d)
    BY <1>1, <1>2, SameFate
<1> QED BY <1>1, <1>3, NothingMoves

\* A thread that reads has no request or has answered it.
LEMMA ReadingIsOver ==
    ASSUME NEW c \in Conns, conn[c] = "reading"
    PROVE  Promise!Over(c)
BY DEF Promise!Over, Fate, Told

\* A request for a worker is asked.
LEMMA ReadTaskAsks ==
    ASSUME TypeOK, NEW c \in Conns, NEW kind \in {"eval", "forge"}, ReadTask(c, kind)
    PROVE  Promised
<1>1. /\ conn[c] = "reading" /\ conn' = [conn EXCEPT ![c] = "route"]
      /\ reply' = [reply EXCEPT ![c] = "none"] /\ answer' = [answer EXCEPT ![c] = "none"]
      /\ started' = [started EXCEPT ![c] = 0]
    BY DEF ReadTask, GotoConn
<1>2. \A d \in Conns \ {c} : Kept(d)
    BY <1>1, SameFate DEF TypeOK
<1>3. conn'[c] = "route" /\ answer'[c] = "none"
    BY <1>1 DEF TypeOK
<1>4. Fate(c)' = "waiting" /\ Told(c)' = "nothing"
    BY <1>3 DEF Fate, Told
<1>5. Promise!Ask(c)
    BY <1>1, <1>2, <1>4, OneMoves, ReadingIsOver DEF Promise!Ask
<1> QED BY <1>5 DEF Promised, Promise!Next

LEMMA ReadControlAsksNothing ==
    ASSUME TypeOK, NEW c \in Conns, NEW kind \in {"control", "shutdown"}, ReadControl(c, kind)
    PROVE  Promised
<1>1. /\ conn[c] = "reading" /\ conn' = [conn EXCEPT ![c] = "answering"]
      /\ answer' = [answer EXCEPT ![c] = kind]
      /\ reply' = reply /\ started' = started
    BY DEF ReadControl, GotoConn
<1>2. \A d \in Conns \ {c} : Kept(d)
    BY <1>1, SameFate DEF TypeOK
<1>3. conn'[c] = "answering" /\ answer'[c] \in {"control", "shutdown"}
    BY <1>1 DEF TypeOK
<1>4. Fate(c)' = "none" /\ Told(c)' = "nothing"
    BY <1>3 DEF Fate, Told
<1>5. Promise!Control(c)
    BY <1>1, <1>2, <1>4, OneMoves, ReadingIsOver DEF Promise!Control
<1> QED BY <1>5 DEF Promised, Promise!Next

\* The router is closed, or the receiver is gone: the task comes back unexecuted.
LEMMA Refuses ==
    ASSUME Placement, NEW c \in Conns, conn[c] \in {"route", "sending"},
           conn' = [conn EXCEPT ![c] = "answering"], answer' = [answer EXCEPT ![c] = "not_accepted"],
           reply' = reply, started' = started
    PROVE  Promised
<1>1. TypeOK /\ started[c] = 0 /\ answer[c] = "none"
    BY DEF Placement, TypeInv, Undelivered
<1>2. \A d \in Conns \ {c} : Kept(d)
    BY <1>1, SameFate DEF TypeOK
<1>3. answer'[c] = "not_accepted" /\ conn'[c] = "answering"
    BY <1>1 DEF TypeOK
<1>4. Fate(c)' = "refused" /\ Told(c)' = "not_accepted"
    BY <1>3 DEF Fate, Told
<1>5. Fate(c) = "waiting"
    BY <1>1 DEF Fate
<1>6. Promise!Refuse(c)
    BY <1>1, <1>2, <1>4, <1>5, OneMoves DEF Promise!Refuse
<1> QED BY <1>6 DEF Promised, Promise!Next

\* The task goes from the thread to the router and on to the queue, and waits all the while.
LEMMA WaitsOn ==
    ASSUME Placement, NEW c \in Conns, conn[c] \in {"route", "sending"}, NEW l \in {"sending", "awaiting"},
           conn' = [conn EXCEPT ![c] = l], answer' = answer, started' = started,
           \A d \in Conns \ {c} : reply'[d] = reply[d], l = "awaiting" => reply'[c] = "pending"
    PROVE  Promised
<1>1. TypeOK /\ answer[c] = "none"
    BY DEF Placement, TypeInv, Undelivered
<1>2. \A d \in Conns \ {c} : Kept(d)
    BY <1>1, SameFate DEF TypeOK
<1>3. conn'[c] = l
    BY <1>1 DEF TypeOK
<1>4. Fate(c)' = "waiting" /\ Fate(c) = "waiting" /\ Told(c)' = Told(c)
    BY <1>1, <1>3 DEF Fate, Told
<1>5. \A d \in Conns : Kept(d)
    BY <1>2, <1>4 DEF Kept
<1> QED BY <1>5, NothingMoves

LEMMA RouteLockPromised ==
    ASSUME Placement, NEW c \in Conns, RouteLock(c)
    PROVE  Promised
<1>1. CASE ~open
  <2>1. /\ conn[c] = "route" /\ conn' = [conn EXCEPT ![c] = "answering"]
        /\ answer' = [answer EXCEPT ![c] = "not_accepted"] /\ reply' = reply /\ started' = started
    BY <1>1 DEF RouteLock, GotoConn
  <2> QED BY <2>1, Refuses
<1>2. CASE open
  <2>1. /\ conn[c] = "route" /\ conn' = [conn EXCEPT ![c] = "sending"]
        /\ answer' = answer /\ reply' = reply /\ started' = started
    BY <1>2 DEF RouteLock, GotoConn
  <2> QED BY <2>1, WaitsOn
<1> QED BY <1>1, <1>2

LEMMA SendPromised ==
    ASSUME Placement, NEW c \in Conns, SendOk(c) \/ SendFails(c)
    PROVE  Promised
<1>1. CASE SendOk(c)
  <2>1. /\ conn[c] = "sending" /\ conn' = [conn EXCEPT ![c] = "awaiting"]
        /\ answer' = answer /\ started' = started /\ reply' = [reply EXCEPT ![c] = "pending"]
    BY <1>1 DEF SendOk, GotoConn
  <2>2. reply'[c] = "pending" /\ \A d \in Conns \ {c} : reply'[d] = reply[d]
    BY <2>1 DEF Placement, TypeInv, TypeOK
  <2> QED BY <2>1, <2>2, WaitsOn
<1>2. CASE SendFails(c)
  <2>1. /\ conn[c] = "sending" /\ conn' = [conn EXCEPT ![c] = "answering"]
        /\ answer' = [answer EXCEPT ![c] = "not_accepted"] /\ reply' = reply /\ started' = started
    BY <1>2 DEF SendFails, GotoConn
  <2> QED BY <2>1, Refuses
<1> QED BY <1>1, <1>2

\* The reply is passed on.
LEMMA RecvReplyTells ==
    ASSUME Placement, NEW c \in Conns, RecvReply(c)
    PROVE  Promised
<1>1. TypeOK /\ conn[c] = "awaiting" /\ answer[c] = "none" /\ reply[c] \in {"sent", "dropped"}
    BY DEF Placement, TypeInv, Undelivered, RecvReply
<1> DEFINE a == IF reply[c] = "sent" THEN "result" ELSE "worker_exited"
<1>2. /\ conn' = [conn EXCEPT ![c] = "answering"] /\ answer' = [answer EXCEPT ![c] = a]
      /\ reply' = reply /\ started' = started
    BY DEF RecvReply, GotoConn
<1>3. \A d \in Conns \ {c} : Kept(d)
    BY <1>1, <1>2, SameFate DEF TypeOK
<1>4. answer'[c] = a /\ conn'[c] = "answering"
    BY <1>1, <1>2 DEF TypeOK
<1>5. Told(c) = "nothing" /\ Told(c)' = a
    BY <1>1, <1>4 DEF Told
<1>6. /\ reply[c] = "sent" => Fate(c) = "done" /\ Fate(c)' = "done"
      /\ reply[c] = "dropped" => Fate(c) = "lost" /\ Fate(c)' = "lost"
    BY <1>1, <1>4 DEF Fate
<1>7. /\ [d \in Conns |-> Fate(d)]' = [[d \in Conns |-> Fate(d)] EXCEPT ![c] = Fate(c)']
      /\ [d \in Conns |-> Told(d)]' = [[d \in Conns |-> Told(d)] EXCEPT ![c] = Told(c)']
    BY <1>3, OneMoves
<1>8. Fate(c)' = Fate(c)
    BY <1>1, <1>6
<1>9. [d \in Conns |-> Fate(d)]' = [d \in Conns |-> Fate(d)]
    BY <1>7, <1>8
<1>10. Promise!Tell(c)
    BY <1>1, <1>2, <1>5, <1>6, <1>7, <1>9 DEF Promise!Tell
<1> QED BY <1>10 DEF Promised, Promise!Next

\* A worker takes the oldest task of its queue: it was waiting and not begun.
LEMMA WorkerTakeBegins ==
    ASSUME Placement, NEW w \in Workers, WorkerTake(w)
    PROVE  Promised
<1> DEFINE c == Head(queue[w])
<1>1. TypeOK /\ queue[w] \in Seq(Conns) /\ queue[w] # <<>>
    BY DEF Placement, TypeInv, TypeOK, WorkerTake
<1>2. c \in Conns /\ c \in Queued(w)
    BY <1>1, SMTT(60) DEF Queued, Range
<1>3. UNCHANGED <<conn, reply, answer>> /\ started' = [started EXCEPT ![c] = @ + 1]
    BY DEF WorkerTake, connVars
<1> HIDE DEF c
<1>4. conn[c] = "awaiting" /\ reply[c] = "pending" /\ started[c] = 0
    BY <1>2 DEF Placement, QueuedTasks
<1>5. answer[c] = "none"
    BY <1>2, <1>4 DEF Placement, Undelivered
<1>6. started' = [started EXCEPT ![c] = 1]
    BY <1>4, <1>3, SMTT(60)
<1>7. \A d \in Conns : Kept(d)
    BY <1>3, SameFate
<1>8. [d \in Conns |-> Fate(d)]' = [d \in Conns |-> Fate(d)] /\ [d \in Conns |-> Told(d)]' = [d \in Conns |-> Told(d)]
    BY <1>7 DEF Kept
<1>9. Fate(c) = "waiting"
    BY <1>4, <1>5 DEF Fate
<1>10. Promise!Begin(c)
    BY <1>2, <1>4, <1>6, <1>8, <1>9 DEF Promise!Begin
<1> QED BY <1>2, <1>10 DEF Promised, Promise!Next

\* The task a busy worker has was waiting and is begun.
LEMMA BusyTask ==
    ASSUME Placement, NEW w \in Workers, worker[w] = "busy"
    PROVE  /\ running[w] \in Conns /\ conn[running[w]] = "awaiting" /\ reply[running[w]] = "pending"
           /\ started[running[w]] = 1 /\ answer[running[w]] = "none"
<1>1. running[w] \in Conns \cup {NoConn} /\ running[w] # NoConn
    BY DEF Placement, TypeInv, TypeOK, RunningTasks
<1>2. running[w] \in Conns /\ conn[running[w]] = "awaiting"
    BY <1>1 DEF Placement, RunningTasks
<1>3. answer[running[w]] = "none"
    BY <1>2 DEF Placement, Undelivered
<1> QED BY <1>1, <1>2, <1>3 DEF Placement, RunningTasks

\* The worker answers the task it has begun.
LEMMA WorkerReplyFinishes ==
    ASSUME Placement, NEW w \in Workers, WorkerReply(w)
    PROVE  Promised
<1>0. PICK c \in Conns : c = running[w]
    BY BusyTask DEF WorkerReply
<1>1. /\ conn[c] = "awaiting" /\ reply[c] = "pending"
      /\ started[c] = 1 /\ answer[c] = "none"
    BY <1>0, BusyTask DEF WorkerReply
<1>2. UNCHANGED <<conn, answer, started>> /\ reply' = [reply EXCEPT ![c] = "sent"]
    BY <1>0 DEF WorkerReply
<1>3. reply'[c] = "sent" /\ \A d \in Conns \ {c} : reply'[d] = reply[d]
    BY <1>1, <1>2 DEF Placement, TypeInv, TypeOK
<1>4. \A d \in Conns \ {c} : Kept(d)
    BY <1>2, <1>3, SameFate
<1>5. Fate(c) = "waiting" /\ Told(c) = "nothing"
    BY <1>1 DEF Fate, Told
<1>6. conn'[c] = "awaiting" /\ answer'[c] = "none"
    BY <1>1, <1>2
<1>7. Fate(c)' = "done" /\ Told(c)' = "nothing"
    BY <1>3, <1>6 DEF Fate, Told
<1>8. [d \in Conns |-> Fate(d)]' = [[d \in Conns |-> Fate(d)] EXCEPT ![c] = "done"]
    BY <1>1, <1>4, <1>7, OneMoves
<1>9. [d \in Conns |-> Told(d)]' = [d \in Conns |-> Told(d)]
    BY <1>4, <1>5, <1>7 DEF Kept
<1>10. Promise!Finish(c)
    BY <1>1, <1>2, <1>5, <1>8, <1>9 DEF Promise!Finish
<1> QED BY <1>1, <1>10 DEF Promised, Promise!Next

\* A panic drops the reply channel of the task that panicked and of those queued
\* behind it, none of them begun.
LEMMA WorkerPanicLoses ==
    ASSUME Placement, NEW w \in Workers, WorkerPanic(w)
    PROVE  Promised
<1> DEFINE c == running[w]
           F == [d \in Conns |-> Fate(d)]
           C == Queued(w)
<1>1. /\ c \in Conns /\ conn[c] = "awaiting" /\ reply[c] = "pending"
      /\ started[c] = 1 /\ answer[c] = "none"
    BY BusyTask DEF WorkerPanic
<1>2. /\ UNCHANGED <<conn, answer, started>>
      /\ reply' = [d \in Conns |-> IF d \in C \cup {c} THEN "dropped" ELSE reply[d]]
    BY DEF WorkerPanic, DroppedTasks
<1>3. C \subseteq Conns /\ \A d \in C : conn[d] = "awaiting" /\ reply[d] = "pending" /\ started[d] = 0
    BY DEF Placement, QueuedTasks
<1>4. \A d \in C : answer[d] = "none"
    BY <1>3 DEF Placement, Undelivered
<1> HIDE DEF c, C
<1>5. ASSUME NEW d \in C \cup {c}
      PROVE  Fate(d) = "waiting" /\ Fate(d)' = "lost" /\ Told(d)' = Told(d)
  <2>1. d \in Conns /\ conn[d] = "awaiting" /\ reply[d] = "pending" /\ answer[d] = "none"
      BY <1>1, <1>3, <1>4
  <2>2. conn'[d] = "awaiting" /\ reply'[d] = "dropped" /\ answer'[d] = "none"
      BY <1>2, <2>1
  <2>3. Fate(d) = "waiting" /\ Told(d) = "nothing"
      BY <2>1 DEF Fate, Told
  <2>4. Fate(d)' = "lost" /\ Told(d)' = "nothing"
      BY <2>2 DEF Fate, Told
  <2> QED BY <2>3, <2>4
<1>6. ASSUME NEW d \in Conns, d \notin C \cup {c}
      PROVE  Kept(d)
    BY <1>2, <1>6, SameFate
<1>7. F' = [d \in Conns |-> IF d \in C \cup {c} THEN "lost" ELSE F[d]]
    BY <1>5, <1>6 DEF Kept
<1>8. [d \in Conns |-> Told(d)]' = [d \in Conns |-> Told(d)]
    BY <1>5, <1>6 DEF Kept
<1>9. C \in SUBSET {d \in Conns : F[d] = "waiting" /\ started[d] = 0}
    BY <1>3, <1>5
<1>10. F[c] = "waiting"
    BY <1>1, <1>5
<1>11. Promise!Lose(c)
    BY <1>1, <1>2, <1>7, <1>8, <1>9, <1>10 DEF Promise!Lose
<1> QED BY <1>1, <1>11 DEF Promised, Promise!Next

LEMMA WorkerExitKeeps ==
    ASSUME NEW w \in Workers, WorkerExit(w)
    PROVE  Promised
<1>1. UNCHANGED <<conn, reply, answer, started>>
    BY DEF WorkerExit, connVars
<1>2. \A d \in Conns : Kept(d)
    BY <1>1, SameFate
<1> QED BY <1>1, <1>2, NothingMoves

\* The server implements the promise of module Dispatch, whatever the number of
\* connections, workers and queue places: what dispatch tells a client of its
\* request is what has become of it, through refusals, panics and the shutdown.
THEOREM DispatchImplemented == Spec => ImplementsDispatch
<1>1. Init => Promise!Init
  <2> SUFFICES ASSUME Init PROVE Promise!Init
    OBVIOUS
  <2>1. started = [c \in Conns |-> 0]
    BY DEF Init
  <2>2. \A c \in Conns : conn[c] \notin Inside /\ answer[c] = "none"
    BY DEF Init, Inside
  <2>3. \A c \in Conns : Fate(c) = "none" /\ Told(c) = "nothing"
    BY <2>2 DEF Fate, Told, Inside
  <2> QED BY <2>1, <2>3 DEF Promise!Init
<1>2. IInv /\ [Next]_vars => [Promise!Next]_<<[c \in Conns |-> Fate(c)], started, [c \in Conns |-> Told(c)]>>
  <2> SUFFICES ASSUME IInv, [Next]_vars PROVE Promised
    BY DEF Promised
  <2>1. Placement /\ TypeOK
    BY DEF IInv, Placement, TypeInv
  <2>2. CASE MainStep \/ Signal \/ UNCHANGED vars
    <3>1. UNCHANGED <<conn, reply, answer, started>>
      BY <2>2, MainFrame
    <3>2. \A d \in Conns : Kept(d)
      BY <3>1, SameFate
    <3> QED BY <3>1, <3>2, NothingMoves
  <2>3. ASSUME NEW c \in Conns, ConnStep(c) PROVE Promised
    BY <2>1, <2>3, OutsideKeeps, ReadTaskAsks, ReadControlAsksNothing, RouteLockPromised, SendPromised,
       RecvReplyTells DEF ConnStep
  <2>4. ASSUME NEW w \in Workers, WorkerStep(w) PROVE Promised
    BY <2>1, <2>4, WorkerTakeBegins, WorkerReplyFinishes, WorkerPanicLoses, WorkerExitKeeps DEF WorkerStep
  <2> QED BY <2>2, <2>3, <2>4 DEF Next
<1> QED BY <1>1, <1>2, Inductive, PTL DEF Spec, ImplementsDispatch, Promise!Spec

=============================================================================
