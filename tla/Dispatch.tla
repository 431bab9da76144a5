------------------------------ MODULE Dispatch ------------------------------
(***************************************************************************)
(* What a connection of the server may rely on when it hands a request to  *)
(* the workers: the request is executed at most once, what the client is   *)
(* told of it is true, and it is told before the next request is taken.    *)
(* A request that is refused has not been executed and never will be, a    *)
(* result is that of an execution, and only a panic loses a request: the   *)
(* one that panicked, begun, and those that waited behind it, not begun.   *)
(*                                                                         *)
(* Routing, the queues, the workers and the shutdown are not mentioned:    *)
(* module Server implements this specification.                            *)
(***************************************************************************)
EXTENDS Naturals

CONSTANT Conns

VARIABLES task,   \* per connection: what has become of its last request
          runs,   \* per connection: executions begun for its last request
          told    \* per connection: what the client is told of it

Init ==
    /\ task = [c \in Conns |-> "none"]
    /\ runs = [c \in Conns |-> 0]
    /\ told = [c \in Conns |-> "nothing"]

(* The connection has no request, or has answered it. *)
Over(c) == task[c] = "none" \/ told[c] # "nothing"

Ask(c) ==
    /\ Over(c)
    /\ task' = [task EXCEPT ![c] = "waiting"]
    /\ runs' = [runs EXCEPT ![c] = 0]
    /\ told' = [told EXCEPT ![c] = "nothing"]

(* A request that needs no worker. *)
Control(c) ==
    /\ Over(c)
    /\ task' = [task EXCEPT ![c] = "none"]
    /\ told' = [told EXCEPT ![c] = "nothing"]
    /\ UNCHANGED runs

Refuse(c) ==
    /\ task[c] = "waiting" /\ runs[c] = 0
    /\ task' = [task EXCEPT ![c] = "refused"]
    /\ told' = [told EXCEPT ![c] = "not_accepted"]
    /\ UNCHANGED runs

Begin(c) ==
    /\ task[c] = "waiting" /\ runs[c] = 0
    /\ runs' = [runs EXCEPT ![c] = 1]
    /\ UNCHANGED <<task, told>>

Finish(c) ==
    /\ task[c] = "waiting" /\ runs[c] = 1
    /\ task' = [task EXCEPT ![c] = "done"]
    /\ UNCHANGED <<runs, told>>

(* The execution of c's request panics; some requests waited behind it. *)
Lose(c) ==
    /\ task[c] = "waiting" /\ runs[c] = 1
    /\ \E C \in SUBSET {d \in Conns : task[d] = "waiting" /\ runs[d] = 0} :
          task' = [d \in Conns |-> IF d \in C \cup {c} THEN "lost" ELSE task[d]]
    /\ UNCHANGED <<runs, told>>

Tell(c) ==
    /\ told[c] = "nothing"
    /\ \/ task[c] = "done" /\ told' = [told EXCEPT ![c] = "result"]
       \/ task[c] = "lost" /\ told' = [told EXCEPT ![c] = "worker_exited"]
    /\ UNCHANGED <<task, runs>>

Next ==
    \E c \in Conns :
        \/ Ask(c) \/ Control(c) \/ Refuse(c) \/ Begin(c) \/ Finish(c) \/ Lose(c) \/ Tell(c)

Spec == Init /\ [][Next]_<<task, runs, told>>
=============================================================================
