------------------------------ MODULE Promises ------------------------------
(***************************************************************************)
(* Promises and the microtask queue (oxide_vm/src/promise): the resolve    *)
(* and reject functions, thenable delegation, reactions and the drain.     *)
(*                                                                         *)
(* A JavaScript value is a number: 1 .. made are the promises, Value is    *)
(* anything without a then, Error a thrown value, Broken an object whose   *)
(* then getter throws, Thenable an object whose then is user code.  User   *)
(* code does anything it has the functions for, at most MaxOps times.      *)
(***************************************************************************)
EXTENDS Integers, Sequences, Functions

CONSTANTS MaxPromises,  \* bound: promises that user code can get hold of
          MaxOps,       \* bound: calls made by user code
          MaxDrain      \* MAX_DRAIN_JOBS

ASSUME PromisesAssumption ==
    MaxPromises \in Nat /\ MaxOps \in Nat /\ MaxDrain \in Nat

Value == 0
Thenable == -1
Error == -2
Broken == -3
Promises == 1 .. MaxPromises

VARIABLES
    made,       \* promises created
    own,        \* promises whose resolve and reject functions user code has
    state,      \* PromiseState.state
    result,     \* PromiseState.result
    already,    \* PromiseState.already_resolved
    reactions,  \* PromiseState.reactions, the two of a then as one
    queue,      \* job_queue
    executors,  \* promises whose executor is being run, innermost first
    phase,      \* what runs: "script", "drain", "handler", "then", "idle"
    settles,    \* the promise settled by the handler or the then that runs, or 0
    count,      \* jobs popped in this drain
    ops,        \* calls made by user code
    held,       \* promises for which user code has a delegated pair
    lock,       \* history: the promise that p was first resolved with, or 0
    thens,      \* history: reactions ever registered on p
    ran,        \* history: the last reaction of p that was run
    threw,      \* history: promises whose executor threw
    lost        \* history: jobs dropped when a drain reached its limit

boxes == <<state, result, reactions>>
past == <<lock, thens, ran, threw, lost>>
run == <<executors, phase, settles, count>>
vars == <<made, own, boxes, already, queue, run, ops, held, past>>

\* What a then registers: its two handlers, its number and the promise that
\* they settle.  A handler is "user" for a user callback, "none" for none, and
\* "delegate" for a delegated function, which settles its own promise; nobody
\* can see the one derived by such a then, and it is left out.
Then(f, r, n, to) == [onFulfilled |-> f, onRejected |-> r, n |-> n, to |-> to]

\* The job of the n-th then of p, once p is settled.
Reaction(p, then, fulfill, v) ==
    [kind |-> IF fulfill THEN then.onFulfilled ELSE then.onRejected, fulfill |-> fulfill,
     of |-> p, n |-> then.n, arg |-> v, to |-> then.to]

\* The job that calls the then of x with a delegated pair of p.  All the pairs
\* of a promise do the same.
ThenableJob(p, x) ==
    [kind |-> "thenable", fulfill |-> TRUE, of |-> 0, n |-> 0, arg |-> x, to |-> p]

Init ==
    /\ made = 0 /\ own = {}
    /\ state = [p \in Promises |-> "pending"]
    /\ result = [p \in Promises |-> Value]
    /\ already = [p \in Promises |-> FALSE]
    /\ reactions = [p \in Promises |-> <<>>]
    /\ queue = <<>>
    /\ phase = "script" /\ settles = 0 /\ count = 0 /\ ops = 0
    /\ held = {}
    /\ lock = [p \in Promises |-> 0]
    /\ thens = [p \in Promises |-> 0]
    /\ ran = [p \in Promises |-> 0]
    /\ executors = <<>> /\ threw = {} /\ lost = 0

-----------------------------------------------------------------------------
\* Settlement.

JobsOfFirst(p, fulfill, v) ==
    IF reactions[p] = <<>> THEN <<>> ELSE <<Reaction(p, reactions[p][1], fulfill, v)>>

\* The jobs of the reactions of p to being settled that way.
Jobs(p, fulfill, v) ==
    [i \in 1 .. Len(reactions[p]) |-> Reaction(p, reactions[p][i], fulfill, v)]

SettleAlways(p, s, v, pending) ==
    /\ state' = [state EXCEPT ![p] = s]
    /\ result' = [result EXCEPT ![p] = v]
    /\ reactions' = [reactions EXCEPT ![p] = <<>>]
    /\ queue' = pending \o Jobs(p, s = "fulfilled", v)

\* fulfill_promise and reject_promise; pending is the queue as it is.
Settle(p, s, v, pending) ==
    IF state[p] # "pending" THEN queue' = pending /\ UNCHANGED boxes
    ELSE /\ state' = [state EXCEPT ![p] = s]
         /\ result' = [result EXCEPT ![p] = v]
         /\ reactions' = [reactions EXCEPT ![p] = <<>>]
         /\ queue' = pending \o Jobs(p, s = "fulfilled", v)

\* resolve_promise.  A thenable is delegated to.
ResolvePromise(p, x, pending) ==
    IF x = p \/ x = Broken THEN Settle(p, "rejected", Error, pending)
    ELSE IF x = Thenable \/ x \in Promises
    THEN queue' = Append(pending, ThenableJob(p, x)) /\ UNCHANGED boxes
    ELSE Settle(p, "fulfilled", x, pending)

ResolveClosureUnguarded(p, x, pending) ==
    /\ already' = [already EXCEPT ![p] = TRUE]
    /\ ResolvePromise(p, x, pending)
    /\ lock' = [lock EXCEPT ![p] = IF ~already[p] /\ x \in Promises \ {p} THEN x ELSE @]

\* promise_resolve_closure of a capability.
ResolveClosure(p, x, pending) ==
    IF already[p]
    THEN queue' = pending /\ UNCHANGED <<boxes, already, lock>>
    ELSE /\ already' = [already EXCEPT ![p] = TRUE]
         /\ ResolvePromise(p, x, pending)
         /\ lock' = [lock EXCEPT ![p] = IF x \in Promises \ {p} THEN x ELSE 0]

\* promise_reject_closure of a capability.
RejectClosure(p, pending) ==
    IF already[p]
    THEN queue' = pending /\ UNCHANGED <<boxes, already, lock>>
    ELSE /\ already' = [already EXCEPT ![p] = TRUE]
         /\ Settle(p, "rejected", Error, pending)
         /\ UNCHANGED lock

-----------------------------------------------------------------------------
ReactFront(p, then, pending) ==
    IF state[p] = "pending"
    THEN reactions' = [reactions EXCEPT ![p] = <<then>> \o @] /\ queue' = pending
    ELSE /\ queue' = Append(pending, Reaction(p, then, state[p] = "fulfilled", result[p]))
         /\ UNCHANGED reactions

\* perform_promise_then_cap: both reactions wait, or the one that applies is
\* queued at once.
React(p, then, pending) ==
    IF state[p] = "pending"
    THEN reactions' = [reactions EXCEPT ![p] = Append(@, then)] /\ queue' = pending
    ELSE /\ queue' = Append(pending, Reaction(p, then, state[p] = "fulfilled", result[p]))
         /\ UNCHANGED reactions

-----------------------------------------------------------------------------
\* User code.

Running == phase \in {"script", "handler", "then"}

UserCall ==
    /\ Running /\ ops < MaxOps
    /\ ops' = ops + 1
    /\ UNCHANGED <<phase, settles, count, ran, lost>>

Arguments == {Value, Thenable, Broken} \cup 1 .. made

\* The constructor calls its executor with the functions of the new promise.
NewPromise ==
    /\ UserCall /\ made < MaxPromises
    /\ made' = made + 1
    /\ own' = own \cup {made + 1}
    /\ executors' = <<made + 1>> \o executors
    /\ UNCHANGED <<boxes, already, queue, held, lock, thens, threw>>

ExecutorReturns ==
    /\ executors # <<>>
    /\ executors' = Tail(executors)
    /\ UNCHANGED <<made, own, boxes, already, queue, phase, settles, count, ops, held, past>>

\* An executor that throws rejects its promise, whatever it called before.
ExecutorThrows ==
    /\ executors # <<>>
    /\ executors' = Tail(executors)
    /\ Settle(Head(executors), "rejected", Error, queue)
    /\ threw' = threw \cup {Head(executors)}
    /\ UNCHANGED <<made, own, already, phase, settles, count, ops, held, lock, thens, ran, lost>>

CallResolve(p, x) ==
    /\ UserCall /\ p \in own /\ x \in Arguments
    /\ ResolveClosure(p, x, queue)
    /\ UNCHANGED <<made, own, held, thens, executors, threw>>

CallReject(p) ==
    /\ UserCall /\ p \in own
    /\ RejectClosure(p, queue)
    /\ UNCHANGED <<made, own, held, thens, executors, threw>>

\* A delegated pair checks no flag.
CallDelegatedResolve(p, x) ==
    /\ UserCall /\ p \in held /\ x \in Arguments
    /\ ResolvePromise(p, x, queue)
    /\ UNCHANGED <<made, own, already, held, lock, thens, executors, threw>>

CallDelegatedReject(p) ==
    /\ UserCall /\ p \in held
    /\ Settle(p, "rejected", Error, queue)
    /\ UNCHANGED <<made, own, already, held, lock, thens, executors, threw>>

\* Promise.prototype.then with the handlers that are callable.
CallThen(p, f, r) ==
    /\ UserCall /\ p <= made /\ made < MaxPromises
    /\ made' = made + 1
    /\ thens' = [thens EXCEPT ![p] = @ + 1]
    /\ React(p, Then(f, r, thens[p] + 1, made + 1), queue)
    /\ UNCHANGED <<own, state, result, already, held, lock, executors, threw>>

-----------------------------------------------------------------------------
\* drain_microtasks and run_microtask.

ScriptEnds ==
    /\ phase = "script" /\ executors = <<>>
    /\ phase' = "drain" /\ count' = 0
    /\ UNCHANGED <<made, own, boxes, already, queue, settles, ops, held, past, executors>>

DrainEnds ==
    /\ phase = "drain" /\ queue = <<>>
    /\ phase' = "idle"
    /\ UNCHANGED <<made, own, boxes, already, queue, settles, count, ops, held, past, executors>>

\* The limit is looked at when a job has already been popped.
DrainAborts ==
    /\ phase = "drain" /\ queue # <<>> /\ count + 1 > MaxDrain
    /\ queue' = Tail(queue)
    /\ phase' = "idle"
    /\ lost' = lost + 1
    /\ UNCHANGED <<made, own, boxes, already, settles, count, ops, held, lock, thens, ran, executors, threw>>

Popped(kinds) ==
    /\ phase = "drain" /\ queue # <<>> /\ count < MaxDrain
    /\ Head(queue).kind \in kinds
    /\ count' = count + 1

\* The reaction that is run.
Ran(j) == ran' = IF j.of = 0 THEN ran ELSE [ran EXCEPT ![j.of] = j.n]

\* A user handler is called with the job's argument.
RunHandler ==
    /\ Popped({"user"})
    /\ settles' = Head(queue).to
    /\ queue' = Tail(queue)
    /\ phase' = "handler"
    /\ Ran(Head(queue))
    /\ UNCHANGED <<made, own, boxes, already, ops, held, lock, thens, lost, executors, threw>>

HandlerReturns(x) ==
    /\ phase = "handler" /\ executors = <<>> /\ x \in Arguments
    /\ ResolveClosure(settles, x, queue)
    /\ phase' = "drain" /\ settles' = 0
    /\ UNCHANGED <<made, own, count, ops, held, thens, ran, lost, executors, threw>>

HandlerThrows ==
    /\ phase = "handler" /\ executors = <<>>
    /\ RejectClosure(settles, queue)
    /\ phase' = "drain" /\ settles' = 0
    /\ UNCHANGED <<made, own, count, ops, held, thens, ran, lost, executors, threw>>

\* Without a handler the outcome is passed on as it is.
PassThrough ==
    /\ Popped({"none"})
    /\ LET j == Head(queue) IN
        /\ IF j.fulfill THEN ResolveClosure(j.to, j.arg, Tail(queue))
                        ELSE RejectClosure(j.to, Tail(queue))
        /\ Ran(j)
    /\ UNCHANGED <<made, own, phase, settles, ops, held, thens, lost, executors, threw>>

RunDelegateGuarded ==
    /\ Popped({"delegate"})
    /\ LET j == Head(queue) IN
        /\ IF j.fulfill THEN ResolveClosure(j.to, j.arg, Tail(queue))
                        ELSE RejectClosure(j.to, Tail(queue))
        /\ Ran(j)
    /\ UNCHANGED <<made, own, phase, settles, ops, held, thens, lost, executors, threw>>

\* The handler is a delegated function: it settles its target.
RunDelegate ==
    /\ Popped({"delegate"})
    /\ LET j == Head(queue) IN
        /\ IF j.fulfill THEN ResolvePromise(j.to, j.arg, Tail(queue))
                        ELSE Settle(j.to, "rejected", j.arg, Tail(queue))
        /\ Ran(j)
    /\ UNCHANGED <<made, own, already, phase, settles, ops, held, lock, thens, lost, executors, threw>>

\* A thenable job whose thenable is a promise calls Promise.prototype.then.
RunPromiseThen ==
    /\ Popped({"thenable"}) /\ Head(queue).arg \in Promises
    /\ LET j == Head(queue)
           q == j.arg
       IN  /\ React(q, Then("delegate", "delegate", thens[q] + 1, j.to), Tail(queue))
           /\ thens' = [thens EXCEPT ![q] = @ + 1]
    /\ UNCHANGED <<made, own, state, result, already, phase, settles, ops, held, lock, ran, lost, executors, threw>>

\* Any other thenable's then is user code, called with the pair.
RunUserThen ==
    /\ Popped({"thenable"}) /\ Head(queue).arg = Thenable
    /\ settles' = Head(queue).to
    /\ queue' = Tail(queue)
    /\ phase' = "then"
    /\ held' = held \cup {Head(queue).to}
    /\ UNCHANGED <<made, own, boxes, already, ops, past, executors>>

ThenReturns ==
    /\ phase = "then" /\ executors = <<>>
    /\ phase' = "drain" /\ settles' = 0
    /\ UNCHANGED <<made, own, boxes, already, queue, count, ops, held, past, executors>>

ThenThrows ==
    /\ phase = "then" /\ executors = <<>>
    /\ Settle(settles, "rejected", Error, queue)
    /\ phase' = "drain" /\ settles' = 0
    /\ UNCHANGED <<made, own, already, count, ops, held, past, executors>>

\* A later turn of the event loop runs user code again.
Turn ==
    /\ phase = "idle" /\ ops < MaxOps
    /\ phase' = "script"
    /\ UNCHANGED <<made, own, boxes, already, queue, settles, count, ops, held, past, executors>>

-----------------------------------------------------------------------------
UserStep ==
    \/ NewPromise
    \/ \E p \in Promises :
        \/ CallReject(p)
        \/ \E x \in Arguments : CallResolve(p, x)
        \/ \E f, r \in {"user", "none"} : CallThen(p, f, r)
        \/ CallDelegatedReject(p)
        \/ \E x \in Arguments : CallDelegatedResolve(p, x)

UserReturns ==
    \/ ExecutorReturns \/ ExecutorThrows \/ ScriptEnds \/ HandlerThrows \/ ThenReturns \/ ThenThrows
    \/ \E x \in Arguments : HandlerReturns(x)

DrainStep ==
    \/ DrainEnds \/ DrainAborts \/ RunHandler \/ PassThrough \/ RunDelegate
    \/ RunPromiseThen \/ RunUserThen

Next == UserStep \/ UserReturns \/ DrainStep \/ Turn

Spec == Init /\ [][Next]_vars

\* User code returns, and the thread that drains is scheduled.
FairSpec == Spec /\ WF_vars(UserReturns) /\ WF_vars(DrainStep)

-----------------------------------------------------------------------------

\* A promise is settled once: its state and its result never change again.
SettledOnce ==
    [][\A p \in Promises : state[p] # "pending" =>
          state'[p] = state[p] /\ result'[p] = result[p] /\ reactions'[p] = <<>>]_vars

\* The numbers of the reactions of p among jobs, and of those that wait.
Queued(jobs, p) == {j.n : j \in {k \in Range(jobs) : k.of = p}}
Waiting(p) == {t.n : t \in Range(reactions[p])}

\* Jobs of p come in the order of its thens.
Ordered(jobs, p) ==
    \A i, j \in DOMAIN jobs : i < j /\ jobs[i].of = p /\ jobs[j].of = p => jobs[i].n < jobs[j].n

\* Each then of a promise leads to one job at most, and those jobs run in the
\* order of the calls of then: what is left of them is in order and after
\* every one that ran.
ReactionsInOrder ==
    \A p \in Promises :
        /\ Ordered(queue, p)
        /\ \A i, j \in DOMAIN reactions[p] : i < j => reactions[p][i].n < reactions[p][j].n
        /\ \A m \in Queued(queue, p) : ran[p] < m /\ \A n \in Waiting(p) : m < n
        /\ \A n \in Waiting(p) : ran[p] < n

\* No reaction is forgotten: those that have not run are queued or wait for
\* their promise, unless a drain dropped a job at its limit.
NoReactionForgotten ==
    lost = 0 => \A p \in Promises : Queued(queue, p) \cup Waiting(p) = ran[p] + 1 .. thens[p]

\* A promise resolved with another promise by its own functions ends as that
\* one does: nothing else can settle it meanwhile, unless its executor throws.
AdoptsOutcome ==
    \A p \in Promises \ threw : lock[p] # 0 /\ state[p] # "pending" =>
        state[lock[p]] = state[p] /\ result[lock[p]] = result[p]

\* ... and it does end, once the other is settled, if no job is dropped.
AdoptionCompletes ==
    \A p, q \in Promises :
        (lock[p] = q /\ state[q] # "pending") ~> (state[p] # "pending" \/ lost > 0)

=============================================================================
