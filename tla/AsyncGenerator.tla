--------------------------- MODULE AsyncGenerator ---------------------------
(***************************************************************************)
(* One async generator object of the virtual machine: the queue of         *)
(* requests made by next(), return() and throw(), the state box that holds *)
(* the suspended body, and the closures registered on promises that wake   *)
(* it up (crates/oxide_vm/src/async_generator.rs).                         *)
(*                                                                         *)
(* The body is any program: where it runs it may yield, await, delegate    *)
(* with yield*, leave for-await loops whose iterators must be closed,      *)
(* dispose of resources, return or throw.  Code outside it, or code that   *)
(* it calls, may make further requests at any time, and a registered       *)
(* closure may fire at any time after its registration.                    *)
(*                                                                         *)
(* A request is answered by resolve_promise or reject_promise on its       *)
(* promise.  The first one reads the property then of the result object,   *)
(* which may be an accessor: code of the program runs after the generator  *)
(* changed its phase and before the promise is settled, and may make       *)
(* requests.  frames holds the answers given whose promise is not settled  *)
(* yet, the innermost last.                                                *)
(*                                                                         *)
(* Bounds: MaxRequests requests are made; the body suspends at most        *)
(* MaxAwaits times by itself (a yield is not counted: it uses up a         *)
(* request); a completion leaves at most MaxRemaining + 1 loops at once.   *)
(***************************************************************************)
EXTENDS Integers, Sequences, FiniteSets

CONSTANTS MaxRequests, MaxAwaits, MaxRemaining

ASSUME BoundsAreNatural == {MaxRequests, MaxAwaits, MaxRemaining} \subseteq Nat

VARIABLES
    phase,      \* AsyncGenPhase of the state box
    queue,      \* requests not taken up yet, oldest first
    current,    \* the request being served; its mode is what a resume injects
    delegated,  \* whether the frame holds the inner iterator of a yield*
    pending,    \* delegate_pending: the yield* step whose promise is awaited
    escape,     \* pending_async_escape: loops still to close, or NoEscape
    dispose,    \* pending_async_dispose: "none", or the merged error so far
    waiting,    \* closures registered on promises that have not fired
    ctl,        \* what the native stack is doing for this generator
    fuel,       \* suspensions the body may still make by itself
    issued,     \* number of requests made
    frames,     \* requests whose promise is being resolved, innermost last
    log         \* answers given, in the order of the calls that give them

vars == <<phase, queue, current, delegated, pending, escape, dispose, waiting,
          ctl, fuel, issued, frames, log>>

Modes == {"next", "return", "throw"}
Steps == {"Inner", "Return", "Close", "ReturnAwait"}
NoRequest == [id |-> 0, mode |-> "none"]
NoEscape == -1

(* The object a program can hold: created, its parameters bound, suspended *)
(* before the first statement of the body.                                 *)
Init ==
    /\ phase = "YieldSuspended"
    /\ queue = <<>>
    /\ current = NoRequest
    /\ delegated = FALSE
    /\ pending = "none"
    /\ escape = NoEscape
    /\ dispose = "none"
    /\ waiting = {}
    /\ ctl = "idle"
    /\ fuel = MaxAwaits
    /\ issued = 0
    /\ frames = <<>>
    /\ log = <<>>

(* resolve_promise or reject_promise on the promise of request id: the     *)
(* second one runs no code of the program and async_generator_start        *)
(* follows, the first one does and it follows when that code returns.      *)
Answer(id, kind) ==
    /\ log' = Append(log, [id |-> id, kind |-> kind])
    /\ IF kind = "rejected"
       THEN ctl' = "start" /\ UNCHANGED frames
       ELSE ctl' = "idle" /\ frames' = Append(frames, id)

(* The closures of one registration: fulfilled or rejected, one of them    *)
(* runs, once.                                                             *)
Closure(kind, tag) == [kind |-> kind, tag |-> tag]

-----------------------------------------------------------------------------
(* resume_async_generator up to the point where code outside the state box *)
(* runs: a delegating frame forwards the request, any other one injects    *)
(* its mode.                                                               *)
Resume(req, del) ==
    /\ phase' = "Running"
    /\ current' = req
    /\ delegated' = del
    /\ ctl' = IF del THEN "forward"
              ELSE IF req.mode \in {"next", "none"} THEN "body" ELSE req.mode

(* A completed generator answers a request by its mode alone. *)
KindCompleted(mode) == IF mode = "throw" THEN "rejected" ELSE "done"

(* async_generator_start: it does nothing while the generator runs or      *)
(* awaits or when no request is queued, answers the oldest request of a    *)
(* completed generator and starts again, and resumes a suspended body with *)
(* the oldest request.                                                     *)
Start ==
    /\ ctl = "start"
    /\ \/ /\ phase \in {"Running", "AwaitSuspended"} \/ queue = <<>>
          /\ ctl' = "idle"
          /\ UNCHANGED <<phase, queue, current, delegated, frames, log>>
       \/ /\ phase = "Completed" /\ queue # <<>>
          /\ queue' = Tail(queue)
          /\ Answer(Head(queue).id, KindCompleted(Head(queue).mode))
          /\ UNCHANGED <<phase, current, delegated>>
       \/ /\ phase = "YieldSuspended" /\ queue # <<>>
          /\ queue' = Tail(queue)
          /\ Resume(Head(queue), delegated)
          /\ UNCHANGED <<frames, log>>
    /\ UNCHANGED <<pending, escape, dispose, waiting, fuel, issued>>

(* The code that read then returns: the innermost promise is settled and   *)
(* the queue is looked at.                                                 *)
Settle ==
    /\ ctl = "idle" /\ frames # <<>>
    /\ frames' = SubSeq(frames, 1, Len(frames) - 1)
    /\ ctl' = "start"
    /\ UNCHANGED <<phase, queue, current, delegated, pending, escape, dispose,
                   waiting, fuel, issued, log>>

(* async_generator_enqueue: a call of next(), return() or throw(), made by *)
(* any code, the running body and the iterators it uses included.          *)
Enqueue(mode) ==
    /\ ctl # "start"
    /\ issued < MaxRequests
    /\ issued' = issued + 1
    /\ queue' = Append(queue, [id |-> issued + 1, mode |-> mode])
    /\ ctl' = IF phase \in {"YieldSuspended", "Completed"} THEN "start" ELSE ctl
    /\ UNCHANGED <<phase, current, delegated, pending, escape, dispose, waiting,
                   fuel, frames, log>>

(* Mutant of Finish: the queue is not looked at after a failure. *)
FinishKeepsQueue(kind) ==
    /\ phase' = "Completed"
    /\ current' = NoRequest
    /\ delegated' = FALSE
    /\ log' = Append(log, [id |-> current.id, kind |-> kind])
    /\ ctl' = "idle"
    /\ escape' = NoEscape
    /\ dispose' = "none"
    /\ UNCHANGED <<queue, pending, waiting, fuel, issued, frames>>

(* finish_async_gen_ok and finish_async_gen_exc: the generator is          *)
(* completed, then the current request answered.                           *)
Finish(kind) ==
    /\ phase' = "Completed"
    /\ current' = NoRequest
    /\ delegated' = FALSE
    /\ Answer(current.id, kind)
    /\ escape' = NoEscape
    /\ dispose' = "none"
    /\ UNCHANGED <<queue, pending, waiting, fuel, issued>>

(* The native frame returns with the generator awaiting closure c. *)
Suspend(c) ==
    /\ phase' = "AwaitSuspended"
    /\ waiting' = waiting \cup {c}
    /\ ctl' = "idle"

UseFuel ==
    /\ fuel > 0
    /\ fuel' = fuel - 1

-----------------------------------------------------------------------------
(* Steps of the running body, nested dispatch and post_dispatch_async_gen. *)

(* Mutant of Yield: the generator counts as suspended at the yield before  *)
(* the yielded value is unwrapped.                                         *)
YieldTooEarly ==
    /\ ctl = "body"
    /\ phase' = "YieldSuspended"
    /\ waiting' = waiting \cup {Closure("yield", current.id)}
    /\ ctl' = "idle"
    /\ current' = NoRequest
    /\ UNCHANGED <<queue, delegated, pending, escape, dispose, fuel, issued, frames, log>>

(* YIELD: the request leaves the state box and is held by the closures     *)
(* that unwrap the yielded value.                                          *)
Yield ==
    /\ ctl = "body"
    /\ Suspend(Closure("yield", current.id))
    /\ current' = NoRequest
    /\ UNCHANGED <<queue, delegated, pending, escape, dispose, fuel, issued, frames, log>>

Await ==
    /\ ctl = "body"
    /\ UseFuel
    /\ Suspend(Closure("await", "none"))
    /\ UNCHANGED <<queue, current, delegated, pending, escape, dispose, issued, frames, log>>

(* YIELD_STAR whose inner next() returned: its promise is step Inner. *)
YieldStar ==
    /\ ctl = "body"
    /\ UseFuel
    /\ Suspend(Closure("step", "Inner"))
    /\ delegated' = TRUE
    /\ pending' = "Inner"
    /\ UNCHANGED <<queue, current, escape, dispose, issued, frames, log>>

(* register_async_escape_close has called return() on the first of n + 1   *)
(* iterators to close.                                                     *)
AwaitClose(n) ==
    /\ Suspend(Closure("escape", "none"))
    /\ escape' = n
    /\ UNCHANGED <<queue, current, delegated, pending, dispose, issued, frames, log>>

(* dispose_above_core has called the first async dispose method. *)
AwaitDispose(err) ==
    /\ Suspend(Closure("dispose", "none"))
    /\ dispose' = err
    /\ UNCHANGED <<queue, current, delegated, pending, escape, issued, frames, log>>

LeaveLoops == ctl = "body" /\ UseFuel /\ \E n \in 0..MaxRemaining : AwaitClose(n)

DisposeResources ==
    ctl = "body" /\ UseFuel /\ \E err \in {"clean", "error"} : AwaitDispose(err)

BodyReturns == ctl = "body" /\ Finish("done")
BodyThrows == ctl = "body" /\ Finish("rejected")

(* Dispatch goes on inside the body. *)
EnterBody ==
    /\ ctl' = "body"
    /\ UNCHANGED <<phase, queue, current, pending, waiting, fuel, issued, frames, log>>

(* A ? leaves the native frame: neither the phase nor the current request  *)
(* is touched.                                                             *)
Abandon ==
    /\ ctl' = "idle"
    /\ escape' = NoEscape
    /\ UNCHANGED <<phase, queue, current, delegated, pending, dispose, waiting,
                   fuel, issued, frames, log>>

(* throw(e) at the suspension point: a handler of the body, or none. *)
InjectThrow ==
    /\ ctl = "throw"
    /\ \/ EnterBody /\ UNCHANGED <<delegated, escape, dispose>>
       \/ Finish("rejected")

(* return(v) at the suspension point, complete_generator_return: a finally *)
(* block or a handler takes over, or the loops are left and the resources  *)
(* disposed of, at once or through a promise; a close that throws is       *)
(* returned by ?.                                                          *)
InjectReturn ==
    /\ ctl = "return"
    /\ \/ EnterBody /\ UNCHANGED <<delegated, escape, dispose>>
       \/ Finish("done")
       \/ UNCHANGED fuel /\ \E n \in 0..MaxRemaining : AwaitClose(n)
       \/ UNCHANGED fuel /\ \E err \in {"clean", "error"} : AwaitDispose(err)
       \/ Abandon

-----------------------------------------------------------------------------
(* delegate_forward_async: the request goes to the inner iterator. *)

(* The step whose promise is awaited once the inner iterator was called. *)
ForwardStep(mode) ==
    CASE mode = "throw" -> {"Inner", "Close"}
      [] mode = "return" -> {"Return", "ReturnAwait"}
      [] OTHER -> {"Inner"}

ForwardAwaits ==
    /\ ctl = "forward"
    /\ \E step \in ForwardStep(current.mode) :
          /\ pending' = step
          /\ Suspend(Closure("step", step))
    /\ UNCHANGED <<queue, current, delegated, escape, dispose, fuel, issued, frames, log>>

(* The call of the inner iterator throws. *)
ForwardFails == ctl = "forward" /\ Finish("rejected")

(* The inner iterator has neither throw nor return: TypeError in the body. *)
ForwardUnwinds ==
    /\ ctl = "forward"
    /\ current.mode = "throw"
    /\ \/ EnterBody /\ delegated' = FALSE /\ UNCHANGED <<escape, dispose>>
       \/ Finish("rejected")

-----------------------------------------------------------------------------
(* Closures, run by drain_microtasks: between two pieces of code, or from  *)
(* code that evaluates a module and drains the queue itself.  Each one     *)
(* leaves waiting when it fires.                                           *)

Fired(c) ==
    /\ ctl = "idle"
    /\ c \in waiting
    /\ waiting' = waiting \ {c}

(* async_gen_await_resume_closure *)
FireAwait ==
    /\ Fired(Closure("await", "none"))
    /\ \E mode \in {"next", "throw"} :
          Resume(IF current = NoRequest THEN current ELSE [current EXCEPT !.mode = mode],
                 delegated)
    /\ UNCHANGED <<queue, pending, escape, dispose, fuel, issued, frames, log>>

(* Mutant of FireYield: the queue is not driven on after a rejection. *)
FireYieldOnly(id) ==
    /\ Fired(Closure("yield", id))
    /\ phase' \in {"YieldSuspended", "Completed"}
    /\ log' = Append(log, [id |-> id,
                 kind |-> IF phase' = "Completed" THEN "rejected" ELSE "yielded"])
    /\ UNCHANGED <<queue, current, delegated, pending, escape, dispose, ctl, fuel,
                   issued, frames>>

(* The phase an awaiting generator goes to; any other phase stays. *)
Awaited(ph) == IF phase = "AwaitSuspended" THEN ph ELSE phase

(* async_gen_yield_unwrap_closure: the unwrapped value answers the request *)
(* of a generator that may be resumed again, its rejection closes it.      *)
FireYield(id) ==
    /\ Fired(Closure("yield", id))
    /\ \/ phase' = Awaited("YieldSuspended") /\ Answer(id, "yielded")
       \/ phase' = Awaited("Completed") /\ Answer(id, "rejected")
    /\ UNCHANGED <<queue, current, delegated, pending, escape, dispose, fuel, issued>>

(* A delegate step ends: the request goes back to the body in mode. *)
ResumeBody(mode) ==
    /\ pending' = "none"
    /\ Resume([current EXCEPT !.mode = mode], FALSE)
    /\ UNCHANGED <<frames, log>>

(* Mutant of DelegateYieldRaw: the step is not cleared. *)
DelegateYieldKeepsStep ==
    /\ phase' = Awaited("YieldSuspended")
    /\ current' = NoRequest
    /\ Answer(current.id, "yielded")
    /\ UNCHANGED <<delegated, pending>>

(* delegate_yield_raw: the inner value answers the request as it is. *)
DelegateYieldRaw ==
    /\ pending' = "none"
    /\ phase' = Awaited("YieldSuspended")
    /\ current' = NoRequest
    /\ Answer(current.id, "yielded")
    /\ UNCHANGED delegated

(* async_gen_delegate_step_closure and async_gen_delegate_return_await_    *)
(* closure.  Nothing happens when the state box waits for another step.    *)
(* The reason of a rejected Return step is read like a result: it may look *)
(* like a failure, an end or a value.                                      *)
FireStep(step) ==
    /\ Fired(Closure("step", step))
    /\ \/ /\ pending # step
          /\ UNCHANGED <<phase, current, delegated, pending, ctl, frames, log>>
       \/ /\ pending = step
          /\ \/ ResumeBody("throw")
             \/ step = "Inner" /\ ResumeBody("next")
             \/ step \in {"Return", "ReturnAwait"} /\ ResumeBody("return")
             \/ step \in {"Inner", "Return"} /\ DelegateYieldRaw
    /\ UNCHANGED <<queue, escape, dispose, fuel, issued>>

(* async_gen_escape_closure: the promise of a loop's return() settled. *)
FireEscape ==
    /\ Fired(Closure("escape", "none"))
    /\ IF escape = NoEscape
       THEN UNCHANGED <<phase, ctl>>
       ELSE phase' = "Running" /\ ctl' \in {"close", "closeRejected"}
    /\ UNCHANGED <<queue, current, delegated, pending, escape, dispose, fuel, issued, frames, log>>

(* The next loop: its return() gives a promise, it has none, or it throws. *)
CloseNext ==
    /\ ctl \in {"close", "closeRejected"}
    /\ escape > 0
    /\ \/ UNCHANGED fuel /\ AwaitClose(escape - 1)
       \/ /\ escape' = escape - 1
          /\ UNCHANGED <<phase, queue, current, delegated, pending, dispose,
                         waiting, ctl, fuel, issued, frames, log>>
       \/ Abandon

(* All loops are closed: the completion, or the rejection in its place. *)
CloseDone ==
    /\ ctl \in {"close", "closeRejected"}
    /\ escape = 0
    /\ \/ EnterBody /\ escape' = NoEscape /\ UNCHANGED <<delegated, dispose>>
       \/ Finish(IF ctl = "closeRejected" THEN "rejected" ELSE "done")

(* async_gen_dispose_closure: the promise of a dispose method settled. *)
FireDispose ==
    /\ Fired(Closure("dispose", "none"))
    /\ IF dispose = "none"
       THEN UNCHANGED <<phase, ctl, dispose>>
       ELSE /\ phase' = "Running"
            /\ ctl' = "dispose"
            /\ dispose' \in {dispose, "error"}
    /\ UNCHANGED <<queue, current, delegated, pending, escape, fuel, issued, frames, log>>

(* The remaining resources: one more promise to await, or the end. *)
DisposeNext ==
    /\ ctl = "dispose"
    /\ \/ UseFuel /\ \E err \in {dispose, "error"} : AwaitDispose(err)
       \/ EnterBody /\ dispose' = "none" /\ UNCHANGED <<delegated, escape>>
       \/ Finish("rejected")
       \/ dispose = "clean" /\ Finish("done")

-----------------------------------------------------------------------------
Body == \/ Yield \/ Await \/ YieldStar \/ LeaveLoops \/ DisposeResources
        \/ BodyReturns \/ BodyThrows \/ InjectThrow \/ InjectReturn
        \/ ForwardAwaits \/ ForwardFails \/ ForwardUnwinds
        \/ CloseNext \/ CloseDone \/ DisposeNext

Fire == \/ FireAwait
        \/ \E id \in 1..MaxRequests : FireYield(id)
        \/ \E step \in Steps : FireStep(step)
        \/ FireEscape \/ FireDispose

(* The native stack goes on. *)
Native == Body \/ Start \/ Settle

Next == (\E mode \in Modes : Enqueue(mode)) \/ Native \/ Fire

Spec == Init /\ [][Next]_vars

(* The interpreter goes on with the code it is in, an accessor of then     *)
(* returns, and every awaited promise settles and its job is run; nobody   *)
(* has to make a request.                                                  *)
FairSpec == Spec /\ WF_vars(Native) /\ WF_vars(Fire)

-----------------------------------------------------------------------------

(* The generator was left in phase Running by a native frame that returned *)
(* early: no code will ever go on with it.                                 *)
Stuck == phase = "Running" /\ ctl = "idle"

(* A generator that awaits is woken by exactly one registered closure, the *)
(* one its state box names, and no closure is registered in any other      *)
(* phase: a resume never finds a delegate step still pending (what         *)
(* resume_async_generator asserts), and no closure ever wakes a body that  *)
(* is running, suspended at a yield or completed.                          *)
OneWakeUp ==
    /\ phase = "AwaitSuspended" <=> waiting # {}
    /\ \A c, d \in waiting : c = d
    /\ \A c \in waiting :
          /\ pending = IF c.kind = "step" THEN c.tag ELSE "none"
          /\ c.kind = "escape" <=> escape # NoEscape
          /\ c.kind = "dispose" <=> dispose # "none"
          /\ c.kind = "yield" <=> current = NoRequest
          /\ c.kind = "step" => delegated
    /\ waiting = {} => pending = "none"

(* No request waits in the queue of a generator that could serve it: when  *)
(* the generator is suspended at a yield or completed, no request is half  *)
(* served, and once the native stack has unwound nothing is queued, also   *)
(* when requests were made by an accessor of then in the middle of an      *)
(* answer.                                                                 *)
NoRequestForgotten ==
    phase \in {"YieldSuspended", "Completed"} =>
        /\ current = NoRequest
        /\ ctl = "idle" /\ frames = <<>> => queue = <<>>

(* The requests not answered, oldest first: the one held by the closures   *)
(* of a yield or by the state box, then the queue.                         *)
Unanswered ==
    LET held == {c.tag : c \in {w \in waiting : w.kind = "yield"}}
                  \cup ({current.id} \ {0})
        first == IF held = {} THEN <<>> ELSE <<CHOOSE id \in held : TRUE>>
    IN  first \o [i \in DOMAIN queue |-> queue[i].id]

Abstract == INSTANCE RequestQueue WITH pending <- Unanswered, answers <- log

(* The generator implements the request queue it promises: requests are    *)
(* answered once, in order, and never by a yielded value after the         *)
(* generator was closed, whatever the body, the inner iterators, the       *)
(* accessors of then and the order in which closures fire.  The order is   *)
(* that of the calls of resolve_promise and reject_promise; a request made *)
(* by an accessor of then may be settled before the answer it interrupts.  *)
ImplementsRequestQueue == Abstract!Spec

(* Request id is answered and its promise is no longer being resolved. *)
Settled(id) ==
    /\ \E i \in DOMAIN log : log[i].id = id
    /\ \A i \in DOMAIN frames : frames[i] # id

(* Every request is answered and its promise resolved in the end, unless   *)
(* the generator was left Running by an early return.                      *)
EveryRequestAnswered ==
    \A id \in 1..MaxRequests : (issued >= id) ~> (Stuck \/ Settled(id))

=============================================================================
