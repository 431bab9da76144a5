------------------------------ MODULE JsWorker ------------------------------
(***************************************************************************)
(* The Worker API (oxide_vm/src/worker): a main thread that runs user code *)
(* and an event loop over the registry of its workers, and one thread per  *)
(* worker, joined by two channels.  A worker's letters to the main thread  *)
(* are numbered: 0 is the failure of its script, k > 0 its k-th message.   *)
(* In a worker's inbox 0 is Terminate and k > 0 the k-th message posted.   *)
(* What user code may do is everything its API lets it do.                 *)
(***************************************************************************)
EXTENDS Naturals, Sequences, FiniteSetsExt, Functions

CONSTANTS MaxWorkers,   \* bound: workers ever spawned
          MaxPost,      \* bound: messages posted to workers in all
          MaxSend       \* bound: messages sent by workers in all

ASSUME Bounds == MaxWorkers \in Nat /\ MaxPost \in Nat /\ MaxSend \in Nat

Ids == 0 .. MaxWorkers - 1

VARIABLES
    main,       \* where the main thread is
    back,       \* where the main thread goes when user code returns
    ret,        \* where it goes when a join returns
    joining,    \* the worker it joins
    ids,        \* ids left in the loop it is in
    cur,        \* the worker whose batch is being dispatched
    batch,      \* letters polled from cur and not yet dispatched
    registry,   \* worker_registry: ids with a handle
    objects,    \* worker_objects: ids whose Worker object is a root
    nextId,     \* worker_next_id
    inbox,      \* id -> letters to the worker
    outbox,     \* id -> letters to the main thread
    thread,     \* id -> where the worker thread is
    closing,    \* id -> WORKER_CLOSE_REQUESTED
    panicked,   \* id -> did the thread unwind
    posted,     \* id -> number of messages posted with success
    handled,    \* id -> messages its onmessage was given
    sent,       \* id -> number of messages it sent
    failed,     \* id -> did its script fail
    got         \* id -> letters dispatched to its Worker object

loop == <<main, back, ret, joining, ids, cur, batch>>
tables == <<registry, objects, nextId>>
worker == <<thread, closing, panicked>>
history == <<posted, handled, sent, failed, got>>
vars == <<loop, tables, inbox, outbox, worker, history>>

Init ==
    /\ main = "user" /\ back = "turn" /\ ret = "user"
    /\ joining = 0 /\ ids = {} /\ cur = 0 /\ batch = <<>>
    /\ registry = {} /\ objects = {} /\ nextId = 0
    /\ inbox = [w \in Ids |-> <<>>]
    /\ outbox = [w \in Ids |-> <<>>]
    /\ thread = [w \in Ids |-> "none"]
    /\ closing = [w \in Ids |-> FALSE]
    /\ panicked = [w \in Ids |-> FALSE]
    /\ posted = [w \in Ids |-> 0]
    /\ handled = [w \in Ids |-> <<>>]
    /\ sent = [w \in Ids |-> 0]
    /\ failed = [w \in Ids |-> FALSE]
    /\ got = [w \in Ids |-> <<>>]

Total(count) == FoldFunction(LAMBDA a, b : a + b, 0, count)

-----------------------------------------------------------------------------
\* The channels.  The worker's receiver is dropped when worker_event_loop
\* returns, its second sender with the thread's locals.

ReceiverAlive(w) == thread[w] \in {"script", "loop", "handler", "leaving"}
IsDisconnected(w) == thread[w] = "gone"

-----------------------------------------------------------------------------
\* User code on the main thread, in the script or in a listener.

Spawn ==
    /\ main = "user" /\ nextId < MaxWorkers
    /\ nextId' = nextId + 1
    /\ registry' = registry \cup {nextId}
    /\ objects' = objects \cup {nextId}
    /\ thread' = [thread EXCEPT ![nextId] = "script"]
    /\ UNCHANGED <<loop, inbox, outbox, closing, panicked, history>>

\* A post to a worker whose receiver is gone throws and changes nothing.
Post(w) ==
    /\ main = "user" /\ w \in registry /\ ReceiverAlive(w)
    /\ Total(posted) < MaxPost
    /\ posted' = [posted EXCEPT ![w] = @ + 1]
    /\ inbox' = [inbox EXCEPT ![w] = Append(@, posted[w] + 1)]
    /\ UNCHANGED <<loop, tables, outbox, worker, handled, sent, failed, got>>

\* The first half of worker_terminate: everything before the join.
TerminateNoMail(w, to) ==
    /\ registry' = registry \ {w}
    /\ main' = "join" /\ joining' = w /\ ret' = to
    /\ UNCHANGED inbox

SendTerminate(w, to) ==
    /\ inbox' = IF ReceiverAlive(w) THEN [inbox EXCEPT ![w] = Append(@, 0)] ELSE inbox
    /\ registry' = registry \ {w}
    /\ main' = "join" /\ joining' = w /\ ret' = to

Terminate(w) ==
    /\ main = "user" /\ w \in registry
    /\ SendTerminate(w, "user")
    /\ UNCHANGED <<back, ids, cur, batch, objects, nextId, outbox, worker, history>>

\* The handle, and with it the main thread's ends of the channels, is dropped.
JoinReturnsTo ==
    /\ main' = ret /\ ret' = "user" /\ joining' = 0
    /\ inbox' = [inbox EXCEPT ![joining] = <<>>]
    /\ outbox' = [outbox EXCEPT ![joining] = <<>>]
    /\ UNCHANGED <<back, ids, cur, batch, registry, nextId, worker, history>>

JoinSkipped ==
    /\ main = "join"
    /\ objects' = objects \ {joining}
    /\ JoinReturnsTo

JoinKeepsObject ==
    /\ main = "join" /\ IsDisconnected(joining)
    /\ objects' = objects
    /\ JoinReturnsTo

\* The second half: a thread that unwound makes it return before the Worker
\* object's entry is removed.
Join ==
    /\ main = "join" /\ IsDisconnected(joining)
    /\ objects' = IF panicked[joining] THEN objects ELSE objects \ {joining}
    /\ JoinReturnsTo

\* User code returns: to the event loop after the script, to the rest of the
\* batch after a listener.
UserReturns ==
    /\ main = "user"
    /\ main' = back
    /\ UNCHANGED <<back, ret, joining, ids, cur, batch, tables, inbox, outbox, worker, history>>

\* The script failed, or the VM's owner runs no event loop: the VM is reset.
ResetStarts ==
    /\ main = "user" /\ back = "turn"
    /\ main' = "reset" /\ ids' = registry
    /\ UNCHANGED <<back, ret, joining, cur, batch, tables, inbox, outbox, worker, history>>

-----------------------------------------------------------------------------
\* The event loop.

Turn ==
    /\ main = "turn"
    /\ ids' = registry
    /\ main' = IF registry = {} THEN "reset" ELSE "poll"
    /\ UNCHANGED <<back, ret, joining, cur, batch, tables, inbox, outbox, worker, history>>

LastLetter(letters) == Len(letters)

\* What was polled has two faces: the errors are dispatched before the
\* messages, each face in order.
NextLetter(letters) ==
    IF 0 \in Range(letters) THEN CHOOSE i \in DOMAIN letters : letters[i] = 0 ELSE 1

Without(letters, n) ==
    [i \in 1 .. Len(letters) - 1 |-> letters[IF i < n THEN i ELSE i + 1]]

PollPeeks ==
    /\ main = "poll" /\ ids # {}
    /\ LET w == Min(ids) IN
        /\ ids' = ids \ {w}
        /\ IF outbox[w] # <<>> /\ w \in registry \cap objects
           THEN main' = "dispatch" /\ cur' = w /\ batch' = outbox[w]
           ELSE UNCHANGED <<main, cur, batch>>
    /\ UNCHANGED <<back, ret, joining, tables, inbox, outbox, worker, history>>

\* poll_worker_messages drains the channel; without a Worker object what was
\* drained is dropped.
Poll ==
    /\ main = "poll" /\ ids # {}
    /\ LET w == Min(ids) IN
        /\ ids' = ids \ {w}
        /\ IF w \in registry
           THEN /\ outbox' = [outbox EXCEPT ![w] = <<>>]
                /\ IF outbox[w] # <<>> /\ w \in objects
                   THEN main' = "dispatch" /\ cur' = w /\ batch' = outbox[w]
                   ELSE UNCHANGED <<main, cur, batch>>
           ELSE UNCHANGED <<main, cur, batch, outbox>>
    /\ UNCHANGED <<back, ret, joining, tables, inbox, worker, history>>

PollEnds ==
    /\ main = "poll" /\ ids = {}
    /\ main' = "clean" /\ ids' = registry
    /\ UNCHANGED <<back, ret, joining, cur, batch, tables, inbox, outbox, worker, history>>

DispatchUnchecked ==
    /\ main = "dispatch" /\ batch # <<>>
    /\ LET next == NextLetter(batch) IN
        /\ got' = [got EXCEPT ![cur] = Append(@, batch[next])]
        /\ batch' = Without(batch, next)
    /\ main' = "user" /\ back' = "dispatch"
    /\ UNCHANGED <<ret, joining, ids, cur, tables, inbox, outbox, worker,
                   posted, handled, sent, failed>>

\* One event: its listeners are user code.
Dispatch ==
    /\ main = "dispatch" /\ batch # <<>> /\ cur \in objects
    /\ LET next == NextLetter(batch) IN
        /\ got' = [got EXCEPT ![cur] = Append(@, batch[next])]
        /\ batch' = Without(batch, next)
    /\ main' = "user" /\ back' = "dispatch"
    /\ UNCHANGED <<ret, joining, ids, cur, tables, inbox, outbox, worker,
                   posted, handled, sent, failed>>

\* The batch is done, or its worker was terminated by a listener.
DispatchEnds ==
    /\ main = "dispatch" /\ (batch = <<>> \/ cur \notin objects)
    /\ batch' = <<>> /\ cur' = 0
    /\ main' = "poll" /\ back' = "turn"
    /\ UNCHANGED <<ret, joining, ids, tables, inbox, outbox, worker, history>>

\* cleanup_disconnected_workers, one worker.
Clean ==
    /\ main = "clean" /\ ids # {}
    /\ LET w == Min(ids) IN
        /\ ids' = ids \ {w}
        /\ IF IsDisconnected(w)
           THEN SendTerminate(w, "clean")
           ELSE UNCHANGED <<main, ret, joining, registry, inbox>>
    /\ UNCHANGED <<back, cur, batch, objects, nextId, outbox, worker, history>>

CleanEnds ==
    /\ main = "clean" /\ ids = {}
    /\ main' = "turn"
    /\ UNCHANGED <<back, ret, joining, ids, cur, batch, tables, inbox, outbox, worker, history>>

-----------------------------------------------------------------------------
\* full_reset: shutdown_workers, then the tables are cleared; the VM runs
\* the next script.

Shutdown ==
    /\ main = "reset" /\ ids # {}
    /\ LET w == Min(ids) IN ids' = ids \ {w} /\ SendTerminate(w, "reset")
    /\ UNCHANGED <<back, cur, batch, objects, nextId, outbox, worker, history>>

FullReset ==
    /\ main = "reset" /\ ids = {}
    /\ objects' = {}
    /\ main' = "user" /\ back' = "turn"
    /\ UNCHANGED <<ret, joining, ids, cur, batch, registry, nextId,
                   inbox, outbox, worker, history>>

-----------------------------------------------------------------------------
\* The worker thread: compile and run the script, then the event loop.

Goto(w, at) == thread' = [thread EXCEPT ![w] = at]

InUserCode(w) == thread[w] \in {"script", "handler"}

SelfPostMessage(w) ==
    /\ InUserCode(w) /\ Total(sent) < MaxSend
    /\ sent' = [sent EXCEPT ![w] = @ + 1]
    /\ outbox' = [outbox EXCEPT ![w] = Append(@, sent[w] + 1)]
    /\ UNCHANGED <<loop, tables, inbox, worker, posted, handled, failed, got>>

SelfClose(w) ==
    /\ InUserCode(w) /\ ~closing[w]
    /\ closing' = [closing EXCEPT ![w] = TRUE]
    /\ UNCHANGED <<loop, tables, inbox, outbox, thread, panicked, history>>

\* The script does not compile, or ends with an uncaught exception.
ScriptFails(w) ==
    /\ thread[w] = "script"
    /\ outbox' = [outbox EXCEPT ![w] = Append(@, 0)]
    /\ failed' = [failed EXCEPT ![w] = TRUE]
    /\ Goto(w, "loop")
    /\ UNCHANGED <<loop, tables, inbox, closing, panicked, posted, handled, sent, got>>

UserCodeEnds(w) ==
    /\ InUserCode(w)
    /\ Goto(w, "loop")
    /\ UNCHANGED <<loop, tables, inbox, outbox, closing, panicked, history>>

UserCodePanics(w) ==
    /\ InUserCode(w)
    /\ Goto(w, "gone")
    /\ panicked' = [panicked EXCEPT ![w] = TRUE]
    /\ UNCHANGED <<loop, tables, inbox, outbox, closing, history>>

\* self.close() is seen before the next letter is taken.
CloseSeen(w) ==
    /\ thread[w] = "loop" /\ closing[w]
    /\ Goto(w, "leaving")
    /\ UNCHANGED <<loop, tables, inbox, outbox, closing, panicked, history>>

\* A letter is taken.  A timeout takes none; the sender of this channel
\* lives in the handle and outlives the thread, so it never disconnects.
Take(w) ==
    /\ thread[w] = "loop" /\ ~closing[w] /\ inbox[w] # <<>>
    /\ inbox' = [inbox EXCEPT ![w] = Tail(@)]
    /\ IF Head(inbox[w]) = 0
       THEN Goto(w, "leaving") /\ UNCHANGED handled
       ELSE /\ Goto(w, "handler")
            /\ handled' = [handled EXCEPT ![w] = Append(@, Head(inbox[w]))]
    /\ UNCHANGED <<loop, tables, outbox, closing, panicked, posted, sent, failed, got>>

\* The VM is dropped, then the receiver, then the thread's locals.
Leave(w) ==
    /\ thread[w] \in {"leaving", "left"}
    /\ Goto(w, IF thread[w] = "leaving" THEN "left" ELSE "gone")
    /\ UNCHANGED <<loop, tables, inbox, outbox, closing, panicked, history>>

-----------------------------------------------------------------------------
UserStep == Spawn \/ UserReturns \/ ResetStarts \/ \E w \in Ids : Post(w) \/ Terminate(w)

LoopStep ==
    \/ Join \/ Turn \/ Poll \/ PollEnds \/ Dispatch \/ DispatchEnds
    \/ Clean \/ CleanEnds \/ Shutdown \/ FullReset

WorkerStep(w) ==
    \/ ScriptFails(w) \/ SelfPostMessage(w) \/ SelfClose(w) \/ UserCodeEnds(w) \/ UserCodePanics(w)
    \/ CloseSeen(w) \/ Take(w) \/ Leave(w)

Next == UserStep \/ LoopStep \/ \E w \in Ids : WorkerStep(w)

Spec == Init /\ [][Next]_vars

-----------------------------------------------------------------------------

\* The messages among letters are the first of the n that were sent, in
\* order and without gaps.
FirstSent(letters, n) ==
    \A i \in DOMAIN letters :
        /\ letters[i] <= n
        /\ \A j \in 1 .. i - 1 : letters[j] > 0 /\ letters[i] > 0 => letters[j] < letters[i]
        /\ \A k \in 1 .. letters[i] : \E j \in 1 .. i : letters[j] = k

\* Both channels are FIFO end to end: a worker's listeners see the messages
\* posted to it in order and without gaps, and so does the Worker object,
\* whatever was polled in one batch.
InOrder ==
    \A w \in Ids : FirstSent(handled[w], posted[w]) /\ FirstSent(got[w], sent[w])

\* While a worker is registered, each of its letters is in exactly one place:
\* in the channel, in the batch being dispatched, or dispatched.
ExactlyOnce ==
    \A w \in registry :
        Len(outbox[w]) + Len(got[w]) + (IF cur = w THEN Len(batch) ELSE 0)
            = sent[w] + (IF failed[w] THEN 1 ELSE 0)

\* A worker out of the registry has no thread any more, except the one being
\* joined: no thread outlives the VM or touches its kernel after it.
NoOrphanThread ==
    \A w \in 0 .. nextId - 1 :
        w \notin registry /\ ~(main = "join" /\ joining = w) => thread[w] = "gone"

\* The roots are exactly the Worker objects of registered workers, and of
\* terminated ones whose thread had unwound, until the next reset.
RootsMatch ==
    main # "join" => registry \subseteq objects /\ \A w \in objects \ registry : panicked[w]

\* An event is never dispatched to the object of a worker that is out of the
\* registry, unless its thread had unwound.
SilentAfterTerminate ==
    [][\A w \in 0 .. nextId - 1 : w \notin registry /\ ~panicked[w] => got'[w] = got[w]]_vars

\* The main thread never joins in vain: the thread it waits for has ended or
\* is about to, or has a Terminate before it.
JoinIsAnswered ==
    main = "join" => ~ReceiverAlive(joining) \/ closing[joining] \/ thread[joining] = "leaving"
                     \/ 0 \in Range(inbox[joining])
=============================================================================
