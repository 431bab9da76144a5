------------------------ MODULE AsyncGenerator_proof ------------------------
(***************************************************************************)
(* Proofs about the async generator: that exactly one closure wakes one    *)
(* that awaits, that no request is forgotten, and that it implements the   *)
(* request queue it promises.                                              *)
(***************************************************************************)
EXTENDS AsyncGenerator, SequenceTheorems, TLAPS

\* A step is for Zenon unless it cites SMT, which it does for arithmetic and records.
USE ZenonT(30)

Phases == {"YieldSuspended", "Running", "AwaitSuspended", "Completed"}
Controls == {"idle", "body", "forward", "return", "throw", "close", "closeRejected", "dispose",
             "start"}
Requests == [id : Nat, mode : Modes]
Replies == [id : Nat, kind : Abstract!Kinds]
Closures ==
    {Closure(kind, "none") : kind \in {"await", "escape", "dispose"}}
      \cup {Closure("step", step) : step \in Steps}
      \cup {Closure("yield", id) : id \in Nat}

TypeOK ==
    /\ phase \in Phases
    /\ queue \in Seq(Requests)
    /\ current \in [id : Nat, mode : Modes \cup {"none"}]
    /\ delegated \in BOOLEAN
    /\ pending \in Steps \cup {"none"}
    /\ escape \in Int
    /\ dispose \in {"none", "clean", "error"}
    /\ waiting \subseteq Closures
    /\ ctl \in Controls
    /\ fuel \in Nat
    /\ issued \in Nat
    /\ frames \in Seq(Nat)
    /\ log \in Seq(Replies)

\* What the state box holds while it awaits closure c.
Awaits(c) ==
    /\ waiting = {c}
    /\ pending = (IF c.kind = "step" THEN c.tag ELSE "none")
    /\ c.kind = "escape" <=> escape # NoEscape
    /\ c.kind = "dispose" <=> dispose # "none"
    /\ c.kind = "yield" <=> current = NoRequest
    /\ c.kind = "step" => delegated

\* No code of the generator is in the middle of anything.
Outside == ctl \in {"idle", "start"}

\* What the phase says of the rest of the state box.
Shape ==
    /\ phase = "AwaitSuspended" => Outside /\ \E c \in Closures : Awaits(c)
    /\ phase # "AwaitSuspended" => waiting = {} /\ pending = "none"
    /\ phase = "Running" =>
          /\ current # NoRequest
          /\ escape # NoEscape <=> ctl \in {"close", "closeRejected"}
          /\ dispose # "none" <=> ctl = "dispose"
          /\ ctl = "forward" => delegated
    /\ phase \in {"YieldSuspended", "Completed"} =>
          /\ Outside /\ current = NoRequest
          /\ escape = NoEscape /\ dispose = "none"
          /\ ctl = "idle" /\ frames = <<>> => queue = <<>>

\* A request is being served.
Serving == phase \in {"Running", "AwaitSuspended"}

\* Requests are numbered as they are made; the answered ones come first, then
\* the one being served, then the queue.
Numbering ==
    /\ issued = Len(log) + Len(queue) + (IF Serving THEN 1 ELSE 0)
    /\ \A i \in DOMAIN log : log[i].id = i
    /\ \A i \in DOMAIN queue : queue[i].id = issued - Len(queue) + i
    /\ current = NoRequest \/ current.id = Len(log) + 1
    /\ \A c \in waiting : c.kind = "yield" => c.tag = Len(log) + 1

\* Until the generator is completed every answer is a yielded value, and
\* afterwards none is.
Closing ==
    /\ phase # "Completed" => \A i \in DOMAIN log : log[i].kind = "yielded"
    /\ Abstract!ClosesForGood(log)

IInv == TypeOK /\ Shape /\ Numbering /\ Closing

\* The answer to the oldest request not answered.
Served(kind) == [id |-> Len(log) + 1, kind |-> kind]

\* What a step does to the requests: nothing, one is made, or the oldest one
\* is answered.
Outcome ==
    \/ UNCHANGED <<issued, log>>
    \/ issued' = issued + 1 /\ UNCHANGED log
    \/ UNCHANGED issued /\ \E kind \in Abstract!Kinds : log' = Append(log, Served(kind))

USE DEF Abstract!Kinds, Phases, Controls, Modes, Steps, NoRequest, NoEscape, Serving, Closure, Outside

\* A step that neither makes nor answers a request.
Silent == UNCHANGED <<queue, issued, frames, log>>

\* The generator goes on running, in the control state it is given.
LEMMA GoesOn ==
    ASSUME IInv, Serving, Silent, phase' = "Running", waiting' = {}, pending' = "none",
           current' \in [id : Nat, mode : Modes \cup {"none"}],
           current'.id = Len(log) + 1,
           escape' \in Int, dispose' \in {"none", "clean", "error"},
           ctl' \in Controls, fuel' \in Nat, delegated' \in BOOLEAN,
           escape' # NoEscape <=> ctl' \in {"close", "closeRejected"},
           dispose' # "none" <=> ctl' = "dispose",
           ctl' = "forward" => delegated'
    PROVE  IInv'
<1>1. TypeOK'
    BY DEF IInv, TypeOK, Silent
<1>2. Shape'
    BY SMTT(60) DEF IInv, TypeOK, Shape, Silent
<1>3. Numbering'
    BY DEF IInv, TypeOK, Numbering, Silent
<1>4. Closing'
    BY DEF IInv, TypeOK, Closing, Silent, Abstract!ClosesForGood
<1> QED BY <1>1, <1>2, <1>3, <1>4 DEF IInv

\* The generator is suspended on closure c.
LEMMA Suspends ==
    ASSUME IInv, Serving, Silent, phase' = "AwaitSuspended", ctl' = "idle",
           NEW c \in Closures, Awaits(c)',
           current' \in [id : Nat, mode : Modes \cup {"none"}],
           current' = NoRequest \/ current'.id = Len(log) + 1,
           c.kind = "yield" => c.tag = Len(log) + 1,
           escape' \in Int, dispose' \in {"none", "clean", "error"},
           fuel' \in Nat, delegated' \in BOOLEAN
    PROVE  IInv'
<1>1. TypeOK'
    BY SMTT(60) DEF IInv, TypeOK, Silent, Awaits, Closures
<1>2. Shape'
    BY DEF IInv, TypeOK, Shape, Silent, Awaits
<1>3. Numbering'
    BY DEF IInv, TypeOK, Numbering, Silent, Awaits
<1>4. Closing'
    BY DEF IInv, TypeOK, Closing, Silent, Abstract!ClosesForGood
<1> QED BY <1>1, <1>2, <1>3, <1>4 DEF IInv

\* A step after which nothing is registered and nothing half done.
Rests == waiting' = {} /\ pending' = "none" /\ escape' = NoEscape /\ dispose' = "none"

\* One more answer, after which the generator looks at its queue or code of
\* the program runs.
LEMMA OneMore ==
    ASSUME IInv, NEW kind \in Abstract!Kinds, NEW id, id = Len(log) + 1, Answer(id, kind)
    PROVE  /\ log' = Append(log, Served(kind)) /\ log' \in Seq(Replies)
           /\ Len(log') = Len(log) + 1 /\ DOMAIN log' = 1 .. Len(log) + 1
           /\ \A i \in 1 .. Len(log) : log'[i] = log[i]
           /\ log'[Len(log) + 1].id = Len(log) + 1 /\ log'[Len(log) + 1].kind = kind
           /\ frames' \in Seq(Nat) /\ ctl' \in {"idle", "start"}
           /\ ctl' = "idle" => frames' # <<>>
<1>1. log \in Seq(Replies) /\ Served(kind) \in Replies /\ frames \in Seq(Nat) /\ id \in Nat
    BY SMTT(60) DEF IInv, TypeOK, Replies, Served
<1>2. log' = Append(log, Served(kind))
    BY DEF Answer, Served
<1>3. /\ log' \in Seq(Replies) /\ Len(log') = Len(log) + 1
      /\ \A i \in 1 .. Len(log) : log'[i] = log[i]
      /\ log'[Len(log) + 1] = Served(kind)
    BY <1>1, <1>2, AppendProperties, SMTT(60)
<1>4. DOMAIN log' = 1 .. Len(log) + 1
    BY <1>1, <1>3, SMTT(60)
<1>5. log'[Len(log) + 1].id = Len(log) + 1 /\ log'[Len(log) + 1].kind = kind
    BY <1>3, SMTT(60) DEF Served
<1>6. frames' \in Seq(Nat) /\ ctl' \in {"idle", "start"} /\ (ctl' = "idle" => frames' # <<>>)
  <2>1. Append(frames, id) \in Seq(Nat) /\ Append(frames, id) # <<>>
    BY <1>1, SMTT(60)
  <2> QED BY <1>1, <2>1 DEF Answer
<1> QED BY <1>2, <1>3, <1>4, <1>5, <1>6

\* The numbers and kinds of the answers after one more.
LEMMA LogGrows ==
    ASSUME IInv, NEW kind \in Abstract!Kinds, NEW id, id = Len(log) + 1, Answer(id, kind),
           phase' = "Completed" <=> kind # "yielded",
           phase = "Completed" => phase' = "Completed"
    PROVE  (\A i \in DOMAIN log' : log'[i].id = i) /\ Closing'
<1>0. Len(log) \in Nat /\ DOMAIN log = 1 .. Len(log)
    BY SMTT(60) DEF IInv, TypeOK
<1>1. /\ Len(log') = Len(log) + 1 /\ DOMAIN log' = 1 .. Len(log) + 1
      /\ \A i \in 1 .. Len(log) : log'[i] = log[i]
      /\ log'[Len(log) + 1].id = Len(log) + 1 /\ log'[Len(log) + 1].kind = kind
    BY OneMore
<1>2. \A i \in 1 .. Len(log) : log[i].id = i
    BY <1>0 DEF IInv, Numbering
<1>3. \A i \in DOMAIN log' : log'[i].id = i
    BY <1>0, <1>1, <1>2, SMTT(60)
<1>4. Closing'
    BY <1>0, <1>1, SMTT(60) DEF IInv, Closing, Abstract!ClosesForGood
<1> QED BY <1>3, <1>4

\* The request being served is answered.
LEMMA Answered ==
    ASSUME NEW ph \in {"YieldSuspended", "Completed"}, NEW kind \in Abstract!Kinds,
           kind = "yielded" <=> ph = "YieldSuspended",
           IInv, Serving, Rests, UNCHANGED <<issued, queue>>, fuel' \in Nat,
           delegated' \in BOOLEAN, phase' = ph, current' = NoRequest,
           NEW id, id = Len(log) + 1, Answer(id, kind)
    PROVE  IInv' /\ Outcome
<1>0. Len(log) \in Nat /\ issued \in Nat /\ Len(queue) \in Nat
    BY SMTT(60) DEF IInv, TypeOK
<1>1. /\ log' = Append(log, Served(kind)) /\ log' \in Seq(Replies) /\ Len(log') = Len(log) + 1
      /\ frames' \in Seq(Nat) /\ ctl' \in {"idle", "start"} /\ (ctl' = "idle" => frames' # <<>>)
    BY OneMore
<1>2. (\A i \in DOMAIN log' : log'[i].id = i) /\ Closing'
  <2>1. phase' = "Completed" <=> kind # "yielded"
    OBVIOUS
  <2> QED BY <2>1, LogGrows
<1>3. TypeOK'
  <2>1. NoRequest \in [id : Nat, mode : Modes \cup {"none"}] /\ NoEscape \in Int
    BY SMTT(60)
  <2> QED BY <1>1, <2>1, SMTT(60) DEF IInv, TypeOK, Rests
<1>4. Shape'
    BY <1>1 DEF Shape, Rests
<1>5. Numbering'
  <2>1. issued' = Len(log') + Len(queue') + 0
    BY <1>0, <1>1, SMTT(60) DEF IInv, Numbering
  <2>2. \A i \in DOMAIN queue' : queue'[i].id = issued' - Len(queue') + i
    BY DEF IInv, Numbering
  <2> QED BY <1>2, <2>1, <2>2 DEF Numbering, Rests
<1> QED BY <1>1, <1>2, <1>3, <1>4, <1>5 DEF IInv, Outcome

\* The oldest request of the queue, and the queue without it.
LEMMA Oldest ==
    ASSUME IInv, queue # <<>>
    PROVE  /\ Head(queue) \in Requests /\ Head(queue).id = issued - Len(queue) + 1
           /\ Tail(queue) \in Seq(Requests) /\ Len(Tail(queue)) = Len(queue) - 1
           /\ \A i \in DOMAIN Tail(queue) : Tail(queue)[i].id = issued - Len(Tail(queue)) + i
<1>0. issued \in Nat /\ Len(queue) \in Nat
    BY SMTT(60) DEF IInv, TypeOK
<1>1. /\ Head(queue) \in Requests /\ Head(queue) = queue[1] /\ 1 \in DOMAIN queue
      /\ Tail(queue) \in Seq(Requests) /\ Len(Tail(queue)) = Len(queue) - 1
      /\ \A i \in DOMAIN Tail(queue) :
            i \in Nat /\ Tail(queue)[i] = queue[i + 1] /\ i + 1 \in DOMAIN queue
    BY SMTT(60) DEF IInv, TypeOK
<1>2. \A i \in DOMAIN queue : queue[i].id = issued - Len(queue) + i
    BY DEF IInv, Numbering
<1>3. ASSUME NEW i \in DOMAIN Tail(queue) PROVE Tail(queue)[i].id = issued - Len(Tail(queue)) + i
  <2>1. Tail(queue)[i].id = issued - Len(queue) + (i + 1)
    BY <1>1, <1>2
  <2> QED BY <1>0, <1>1, <2>1, SMTT(60)
<1> QED BY <1>1, <1>2, <1>3

\* async_generator_start has nothing to do.
LEMMA StartIdle ==
    ASSUME IInv, ctl = "start", phase \in {"Running", "AwaitSuspended"} \/ queue = <<>>,
           ctl' = "idle",
           UNCHANGED <<phase, queue, current, delegated, pending, escape, dispose, waiting,
                       fuel, issued, frames, log>>
    PROVE  IInv' /\ Outcome
<1>1. TypeOK'
    BY DEF IInv, TypeOK
<1>2. Shape'
    BY DEF IInv, Shape, Awaits
<1>3. Numbering' /\ Closing'
    BY DEF IInv, Numbering, Closing, Abstract!ClosesForGood
<1> QED BY <1>1, <1>2, <1>3 DEF IInv, Outcome

\* A completed generator answers its oldest request.
LEMMA StartCompleted ==
    ASSUME IInv, phase = "Completed", queue # <<>>, queue' = Tail(queue),
           Answer(Head(queue).id, KindCompleted(Head(queue).mode)),
           UNCHANGED <<phase, current, delegated, pending, escape, dispose, waiting, fuel, issued>>
    PROVE  IInv' /\ Outcome
<1> DEFINE kind == KindCompleted(Head(queue).mode)
<1>0. Len(log) \in Nat /\ issued \in Nat /\ Len(queue) \in Nat
    BY SMTT(60) DEF IInv, TypeOK
<1>1. kind \in Abstract!Kinds /\ kind # "yielded"
    BY DEF KindCompleted
<1> HIDE DEF kind
<1>2. issued = Len(log) + Len(queue)
    BY <1>0, SMTT(60) DEF IInv, Numbering
<1>3. Head(queue).id = Len(log) + 1
    BY <1>0, <1>2, Oldest, SMTT(60)
<1>4. Answer(Head(queue).id, kind)
    BY DEF kind
<1>5. /\ log' = Append(log, Served(kind)) /\ log' \in Seq(Replies) /\ Len(log') = Len(log) + 1
      /\ frames' \in Seq(Nat) /\ ctl' \in {"idle", "start"} /\ (ctl' = "idle" => frames' # <<>>)
    BY <1>1, <1>3, <1>4, OneMore
<1>6. (\A i \in DOMAIN log' : log'[i].id = i) /\ Closing'
    BY <1>1, <1>3, <1>4, LogGrows
<1>7. queue' \in Seq(Requests) /\ Len(queue') = Len(queue) - 1
      /\ \A i \in DOMAIN queue' : queue'[i].id = issued' - Len(queue') + i
    BY Oldest
<1>8. TypeOK'
    BY <1>5, <1>7 DEF IInv, TypeOK
<1>9. Shape'
    BY <1>5 DEF IInv, Shape
<1>10. Numbering'
  <2>1. issued' = Len(log') + Len(queue') + 0
    BY <1>0, <1>2, <1>5, <1>7, SMTT(60)
  <2>2. current' = NoRequest /\ waiting' = {}
    BY DEF IInv, Shape
  <2> QED BY <1>6, <1>7, <2>1, <2>2 DEF Numbering
<1> QED BY <1>1, <1>5, <1>6, <1>8, <1>9, <1>10 DEF IInv, Outcome

\* A suspended body is resumed with the oldest request.
LEMMA StartSuspended ==
    ASSUME IInv, phase = "YieldSuspended", queue # <<>>, queue' = Tail(queue),
           Resume(Head(queue), delegated),
           UNCHANGED <<pending, escape, dispose, waiting, fuel, issued, frames, log>>
    PROVE  IInv' /\ Outcome
<1>0. Len(log) \in Nat /\ issued \in Nat /\ Len(queue) \in Nat /\ delegated \in BOOLEAN
    BY SMTT(60) DEF IInv, TypeOK
<1>1. /\ phase' = "Running" /\ current' = Head(queue) /\ delegated' = delegated
      /\ ctl' = IF delegated THEN "forward"
                ELSE IF Head(queue).mode \in {"next", "none"} THEN "body" ELSE Head(queue).mode
    BY DEF Resume
<1>2. Head(queue) \in Requests /\ Head(queue).id = Len(log) + 1
  <2>1. issued = Len(log) + Len(queue)
    BY <1>0, SMTT(60) DEF IInv, Numbering
  <2>2. Head(queue) \in Requests /\ Head(queue).id = issued - Len(queue) + 1
    BY Oldest
  <2> QED BY <1>0, <2>1, <2>2, SMTT(60)
<1>3. queue' \in Seq(Requests) /\ Len(queue') = Len(queue) - 1
      /\ \A i \in DOMAIN queue' : queue'[i].id = issued' - Len(queue') + i
    BY Oldest
<1>4. current' # NoRequest /\ current' \in Requests
  <2>1. Len(log) + 1 # 0
    BY <1>0, SMTT(60)
  <2>2. current'.id # NoRequest.id /\ current' \in Requests
    BY <1>1, <1>2, <2>1
  <2> QED BY <2>2
<1>5. ctl' \in {"forward", "body", "throw", "return"} /\ (ctl' = "forward" => delegated')
    BY <1>1, <1>2 DEF Requests
<1>6. TypeOK'
    BY <1>0, <1>1, <1>3, <1>4, <1>5 DEF IInv, TypeOK, Requests
<1>7. Shape'
    BY <1>1, <1>4, <1>5 DEF IInv, Shape
<1>8. Numbering'
  <2>1. issued' = Len(log') + Len(queue') + 1
    BY <1>0, <1>3, SMTT(60) DEF IInv, Numbering
  <2> QED BY <1>1, <1>2, <1>3, <2>1 DEF IInv, Shape, Numbering
<1>9. Closing'
    BY <1>1 DEF IInv, Closing, Abstract!ClosesForGood
<1> QED BY <1>6, <1>7, <1>8, <1>9 DEF IInv, Outcome

\* async_generator_start.
LEMMA StartOK == ASSUME IInv, Start PROVE IInv' /\ Outcome
<1>u. ctl = "start" /\ UNCHANGED <<pending, escape, dispose, waiting, fuel, issued>>
    BY DEF Start
<1>1. CASE /\ phase \in {"Running", "AwaitSuspended"} \/ queue = <<>>
           /\ ctl' = "idle"
           /\ UNCHANGED <<phase, queue, current, delegated, frames, log>>
    BY <1>u, <1>1, StartIdle
<1>2. CASE /\ phase = "Completed" /\ queue # <<>>
           /\ queue' = Tail(queue)
           /\ Answer(Head(queue).id, KindCompleted(Head(queue).mode))
           /\ UNCHANGED <<phase, current, delegated>>
    BY <1>u, <1>2, StartCompleted
<1>3. CASE /\ phase = "YieldSuspended" /\ queue # <<>>
           /\ queue' = Tail(queue)
           /\ Resume(Head(queue), delegated)
           /\ UNCHANGED <<frames, log>>
    BY <1>u, <1>3, StartSuspended
<1> QED BY <1>1, <1>2, <1>3 DEF Start

\* A promise is settled when the code that read then returns.
LEMMA SettleOK == ASSUME IInv, Settle PROVE IInv' /\ Outcome
<1>1. frames' \in Seq(Nat)
  <2>1. frames \in Seq(Nat) /\ Len(frames) \in Nat
    BY SMTT(60) DEF IInv, TypeOK
  <2> QED BY <2>1, SMTT(60) DEF Settle
<1>2. TypeOK'
    BY <1>1 DEF Settle, IInv, TypeOK
<1>3. Shape'
    BY DEF Settle, IInv, Shape, Awaits
<1>4. Numbering' /\ Closing'
    BY DEF Settle, IInv, Numbering, Closing, Abstract!ClosesForGood
<1> QED BY <1>2, <1>3, <1>4 DEF Settle, IInv, Outcome

\* A request is queued behind the others.
LEMMA Queued ==
    ASSUME IInv, NEW mode \in Modes
    PROVE  LET q == Append(queue, [id |-> issued + 1, mode |-> mode]) IN
           /\ q \in Seq(Requests) /\ q # <<>> /\ Len(q) = Len(queue) + 1
           /\ DOMAIN q = 1 .. Len(queue) + 1
           /\ \A i \in DOMAIN q : q[i].id = issued - Len(queue) + i
<1> DEFINE r == [id |-> issued + 1, mode |-> mode]
           q == Append(queue, r)
<1>1. queue \in Seq(Requests) /\ issued \in Nat /\ r \in Requests
    BY SMTT(60) DEF IInv, TypeOK, Requests
<1>2. r.id = issued + 1
    OBVIOUS
<1> HIDE DEF r
<1>3. /\ q \in Seq(Requests) /\ Len(q) = Len(queue) + 1
      /\ \A i \in 1 .. Len(queue) : q[i] = queue[i]
      /\ q[Len(queue) + 1] = r
    BY <1>1, AppendProperties, SMTT(60)
<1> HIDE DEF q
<1>4. Len(queue) \in Nat /\ DOMAIN q = 1 .. Len(queue) + 1 /\ DOMAIN queue = 1 .. Len(queue) /\ q # <<>>
    BY <1>1, <1>3, SMTT(60)
<1>5. ASSUME NEW i \in 1 .. Len(queue) + 1 PROVE q[i].id = issued - Len(queue) + i
  <2>1. CASE i \in 1 .. Len(queue)
    <3>1. queue[i].id = issued - Len(queue) + i
        BY <1>4, <2>1 DEF IInv, Numbering
    <3> QED BY <1>3, <2>1, <3>1
  <2>2. CASE i = Len(queue) + 1
    <3>1. issued + 1 = issued - Len(queue) + i
        BY <1>1, <1>4, <2>2, SMTT(60)
    <3> QED BY <1>2, <1>3, <2>2, <3>1
  <2> QED BY <1>4, <2>1, <2>2, SMTT(60)
<1> QED BY <1>3, <1>4, <1>5 DEF q, r

\* async_generator_enqueue.
LEMMA EnqueueOK == ASSUME IInv, NEW mode \in Modes, Enqueue(mode) PROVE IInv' /\ Outcome
<1>q. /\ queue' \in Seq(Requests) /\ Len(queue') = Len(queue) + 1
      /\ \A i \in DOMAIN queue' : queue'[i].id = issued - Len(queue) + i
    BY Queued DEF Enqueue
<1>u. /\ issued' = issued + 1
      /\ UNCHANGED <<phase, current, delegated, pending, escape, dispose, waiting, fuel, frames, log>>
      /\ ctl' = IF phase \in {"YieldSuspended", "Completed"} THEN "start" ELSE ctl
    BY DEF Enqueue
<1>t. Len(log) \in Nat /\ Len(queue) \in Nat /\ issued \in Nat
    BY SMTT(60) DEF IInv, TypeOK
<1>1. TypeOK'
  <2>1. issued' \in Nat
    BY <1>t, <1>u, SMTT(60)
  <2> QED BY <1>q, <1>u, <2>1 DEF IInv, TypeOK
<1>2. Shape'
    BY <1>u DEF IInv, Shape, Awaits
<1>3. Numbering'
  <2>1. issued' = Len(log') + Len(queue') + (IF Serving' THEN 1 ELSE 0)
    <3>1. issued = Len(log) + Len(queue) + (IF Serving THEN 1 ELSE 0) /\ (Serving' <=> Serving)
        BY <1>u DEF IInv, Numbering
    <3> QED BY <1>q, <1>t, <1>u, <3>1, SMTT(60)
  <2>2. issued - Len(queue) = issued' - Len(queue')
    BY <1>q, <1>t, <1>u, SMTT(60)
  <2> QED BY <1>q, <1>u, <2>1, <2>2 DEF IInv, Numbering
<1>4. Closing'
    BY <1>u DEF IInv, Closing, Abstract!ClosesForGood
<1> QED BY <1>u, <1>1, <1>2, <1>3, <1>4 DEF IInv, Outcome

-----------------------------------------------------------------------------
\* Completion.

\* finish_async_gen_ok and finish_async_gen_exc.
LEMMA FinishOK ==
    ASSUME IInv, phase = "Running", NEW kind \in {"done", "rejected"}, Finish(kind)
    PROVE  IInv' /\ Outcome
<1>1. current.id = Len(log) + 1
    BY DEF IInv, Shape, Numbering
<1>2. Answer(current.id, kind) /\ phase' = "Completed" /\ current' = NoRequest
    BY DEF Finish
<1>3. Rests /\ UNCHANGED <<issued, queue>> /\ fuel' \in Nat
    BY DEF Finish, Rests, IInv, Shape, TypeOK
<1>4. delegated' \in BOOLEAN
    BY DEF Finish
<1> QED BY <1>1, <1>2, <1>3, <1>4, Answered

-----------------------------------------------------------------------------
\* The running body.

\* Every step of native code that runs for the generator is taken in phase
\* Running.
LEMMA BodyRuns == ASSUME IInv, ctl \notin {"idle", "start"} PROVE phase = "Running"
BY DEF IInv, TypeOK, Shape

LEMMA YieldOK == ASSUME IInv, Yield PROVE IInv' /\ Outcome
<1>0. phase = "Running"
    BY BodyRuns DEF Yield
<1>1. current.id = Len(log) + 1
    BY <1>0 DEF IInv, Shape, Numbering
<1>2. PICK c \in Closures : c.kind = "yield" /\ c.tag = Len(log) + 1 /\ waiting' = {c}
  <2>1. Closure("yield", current.id) \in Closures
    BY DEF Closures, IInv, TypeOK
  <2>2. waiting = {}
    BY <1>0 DEF IInv, Shape
  <2> QED BY <1>1, <2>1, <2>2 DEF Yield, Suspend
<1>3. Awaits(c)'
    BY <1>0, <1>2 DEF Yield, Suspend, Awaits, IInv, Shape
<1>4. IInv'
    BY <1>0, <1>2, <1>3, Suspends DEF Yield, Suspend, Silent, IInv, TypeOK
<1> QED BY <1>4 DEF Yield, Outcome

\* Await, AwaitClose, AwaitDispose and a delegated step: the request stays in
\* the state box.
LEMMA AwaitsOK ==
    ASSUME IInv, phase = "Running", NEW c \in Closures, Suspend(c), c.kind # "yield",
           fuel' \in Nat, UNCHANGED <<queue, current, issued, frames, log>>,
           escape' \in Int, dispose' \in {"none", "clean", "error"}, delegated' \in BOOLEAN,
           pending' = (IF c.kind = "step" THEN c.tag ELSE "none"),
           c.kind = "escape" <=> escape' # NoEscape,
           c.kind = "dispose" <=> dispose' # "none",
           c.kind = "step" => delegated'
    PROVE  IInv' /\ Outcome
<1>1. waiting' = {c} /\ current # NoRequest /\ current.id = Len(log) + 1
    BY DEF Suspend, IInv, Shape, Numbering
<1>2. Awaits(c)'
    BY <1>1 DEF Awaits
<1>3. IInv'
    BY <1>1, <1>2, Suspends DEF Suspend, Silent, IInv, TypeOK
<1> QED BY <1>3 DEF Outcome

\* The control state of a running generator that is in the body.
InBody == escape = NoEscape /\ dispose = "none" /\ pending = "none" /\ phase = "Running"

LEMMA AwaitOK == ASSUME IInv, Await PROVE IInv' /\ Outcome
<1>1. InBody
    BY BodyRuns DEF Await, InBody, IInv, Shape
<1>2. Closure("await", "none") \in Closures
    BY DEF Closures
<1> QED BY <1>1, <1>2, AwaitsOK, SMTT(60) DEF Await, UseFuel, InBody, IInv, TypeOK

LEMMA YieldStarOK == ASSUME IInv, YieldStar PROVE IInv' /\ Outcome
<1>1. InBody
    BY BodyRuns DEF YieldStar, InBody, IInv, Shape
<1>2. Closure("step", "Inner") \in Closures
    BY DEF Closures
<1> QED BY <1>1, <1>2, AwaitsOK, SMTT(60) DEF YieldStar, UseFuel, InBody, IInv, TypeOK

LEMMA AwaitCloseOK ==
    ASSUME IInv, phase = "Running", dispose = "none", fuel' \in Nat,
           NEW n \in Nat, AwaitClose(n)
    PROVE  IInv' /\ Outcome
<1>1. Closure("escape", "none") \in Closures
    BY DEF Closures
<1> QED BY <1>1, AwaitsOK, SMTT(60) DEF AwaitClose, IInv, TypeOK, Shape

LEMMA AwaitDisposeOK ==
    ASSUME IInv, phase = "Running", escape = NoEscape, fuel' \in Nat,
           NEW err \in {"clean", "error"}, AwaitDispose(err)
    PROVE  IInv' /\ Outcome
<1>1. Closure("dispose", "none") \in Closures
    BY DEF Closures
<1> QED BY <1>1, AwaitsOK DEF AwaitDispose, IInv, TypeOK, Shape

LEMMA LeaveLoopsOK == ASSUME IInv, LeaveLoops PROVE IInv' /\ Outcome
<1>1. InBody /\ fuel' \in Nat
    BY BodyRuns, SMTT(60) DEF LeaveLoops, UseFuel, InBody, IInv, Shape, TypeOK
<1>2. PICK n \in 0 .. MaxRemaining : AwaitClose(n)
    BY DEF LeaveLoops
<1> QED BY <1>1, <1>2, AwaitCloseOK, BoundsAreNatural, SMTT(60) DEF InBody

LEMMA DisposeResourcesOK == ASSUME IInv, DisposeResources PROVE IInv' /\ Outcome
<1>1. InBody /\ fuel' \in Nat
    BY BodyRuns, SMTT(60) DEF DisposeResources, UseFuel, InBody, IInv, Shape, TypeOK
<1>2. PICK err \in {"clean", "error"} : AwaitDispose(err)
    BY DEF DisposeResources
<1> QED BY <1>1, <1>2, AwaitDisposeOK DEF InBody

\* A running generator goes on running with its request.
LEMMA RunsOn ==
    ASSUME IInv, phase = "Running", phase' = "Running",
           UNCHANGED <<queue, current, pending, waiting, issued, frames, log>>,
           escape' \in Int, dispose' \in {"none", "clean", "error"}, delegated' \in BOOLEAN,
           ctl' \in Controls, fuel' \in Nat,
           escape' # NoEscape <=> ctl' \in {"close", "closeRejected"},
           dispose' # "none" <=> ctl' = "dispose",
           ctl' # "forward"
    PROVE  IInv' /\ Outcome
<1>1. /\ current \in [id : Nat, mode : Modes \cup {"none"}] /\ current.id = Len(log) + 1
      /\ waiting = {} /\ pending = "none" /\ Serving
    BY DEF IInv, TypeOK, Shape, Numbering
<1>2. IInv'
    BY <1>1, GoesOn DEF Silent
<1> QED BY <1>2 DEF Outcome

LEMMA EnterBodyOK ==
    ASSUME IInv, phase = "Running", EnterBody, delegated' \in BOOLEAN,
           escape' = NoEscape, dispose' = "none"
    PROVE  IInv' /\ Outcome
BY RunsOn, SMTT(60) DEF EnterBody, IInv, TypeOK

LEMMA AbandonOK == ASSUME IInv, phase = "Running", dispose = "none", Abandon PROVE IInv' /\ Outcome
BY RunsOn, SMTT(60) DEF Abandon, IInv, TypeOK

LEMMA BodyReturnsOK == ASSUME IInv, BodyReturns \/ BodyThrows PROVE IInv' /\ Outcome
<1>1. phase = "Running"
    BY BodyRuns DEF BodyReturns, BodyThrows
<1> QED BY <1>1, FinishOK DEF BodyReturns, BodyThrows

LEMMA InjectThrowOK == ASSUME IInv, InjectThrow PROVE IInv' /\ Outcome
<1>1. InBody
    BY BodyRuns DEF InjectThrow, InBody, IInv, Shape
<1>2. CASE EnterBody /\ UNCHANGED <<delegated, escape, dispose>>
    BY <1>1, <1>2, EnterBodyOK DEF InBody, IInv, TypeOK
<1>3. CASE Finish("rejected")
    BY <1>1, <1>3, FinishOK DEF InBody
<1> QED BY <1>2, <1>3 DEF InjectThrow

LEMMA InjectReturnOK == ASSUME IInv, InjectReturn PROVE IInv' /\ Outcome
<1>1. InBody /\ fuel \in Nat
    BY BodyRuns DEF InjectReturn, InBody, IInv, Shape, TypeOK
<1>2. CASE EnterBody /\ UNCHANGED <<delegated, escape, dispose>>
    BY <1>1, <1>2, EnterBodyOK DEF InBody, IInv, TypeOK
<1>3. CASE Finish("done")
    BY <1>1, <1>3, FinishOK DEF InBody
<1>4. ASSUME UNCHANGED fuel, NEW n \in 0 .. MaxRemaining, AwaitClose(n) PROVE IInv' /\ Outcome
    BY <1>1, <1>4, AwaitCloseOK, BoundsAreNatural, SMTT(60) DEF InBody
<1>5. ASSUME UNCHANGED fuel, NEW err \in {"clean", "error"}, AwaitDispose(err) PROVE IInv' /\ Outcome
    BY <1>1, <1>5, AwaitDisposeOK DEF InBody
<1>6. CASE Abandon
    BY <1>1, <1>6, AbandonOK DEF InBody
<1> QED BY <1>2, <1>3, <1>4, <1>5, <1>6 DEF InjectReturn

-----------------------------------------------------------------------------
\* Delegation.

LEMMA ForwardAwaitsOK == ASSUME IInv, ForwardAwaits PROVE IInv' /\ Outcome
<1>1. InBody /\ delegated
    BY BodyRuns DEF ForwardAwaits, InBody, IInv, Shape
<1>2. PICK step \in ForwardStep(current.mode) : pending' = step /\ Suspend(Closure("step", step))
    BY DEF ForwardAwaits
<1>3. step \in Steps
    BY DEF ForwardStep
<1>4. Closure("step", step) \in Closures
    BY <1>3 DEF Closures
<1> QED BY <1>1, <1>2, <1>4, AwaitsOK DEF ForwardAwaits, InBody, IInv, TypeOK

LEMMA ForwardFailsOK == ASSUME IInv, ForwardFails PROVE IInv' /\ Outcome
<1>1. phase = "Running"
    BY BodyRuns DEF ForwardFails
<1> QED BY <1>1, FinishOK DEF ForwardFails

LEMMA ForwardUnwindsOK == ASSUME IInv, ForwardUnwinds PROVE IInv' /\ Outcome
<1>1. InBody
    BY BodyRuns DEF ForwardUnwinds, InBody, IInv, Shape
<1>2. CASE EnterBody /\ delegated' = FALSE /\ UNCHANGED <<escape, dispose>>
  <2>1. delegated' \in BOOLEAN /\ escape' = NoEscape /\ dispose' = "none"
    BY <1>1, <1>2 DEF InBody
  <2> QED BY <1>1, <1>2, <2>1, EnterBodyOK DEF InBody
<1>3. CASE Finish("rejected")
    BY <1>1, <1>3, FinishOK DEF InBody
<1> QED BY <1>2, <1>3 DEF ForwardUnwinds

-----------------------------------------------------------------------------
\* Loops that are left and resources that are disposed of.

LEMMA CloseNextOK == ASSUME IInv, CloseNext PROVE IInv' /\ Outcome
<1>1. phase = "Running" /\ dispose = "none" /\ fuel \in Nat /\ escape \in Nat /\ escape - 1 \in Nat
    BY BodyRuns, SMTT(60) DEF CloseNext, IInv, Shape, TypeOK
<1>2. CASE UNCHANGED fuel /\ AwaitClose(escape - 1)
    BY <1>1, <1>2, AwaitCloseOK
<1>3. CASE /\ escape' = escape - 1
           /\ UNCHANGED <<phase, queue, current, delegated, pending, dispose,
                          waiting, ctl, fuel, issued, frames, log>>
    BY <1>1, <1>3, RunsOn, SMTT(60) DEF CloseNext, IInv, TypeOK
<1>4. CASE Abandon
    BY <1>1, <1>4, AbandonOK
<1> QED BY <1>2, <1>3, <1>4 DEF CloseNext

LEMMA CloseDoneOK == ASSUME IInv, CloseDone PROVE IInv' /\ Outcome
<1>1. phase = "Running" /\ dispose = "none"
    BY BodyRuns DEF CloseDone, IInv, Shape
<1>2. CASE EnterBody /\ escape' = NoEscape /\ UNCHANGED <<delegated, dispose>>
    BY <1>1, <1>2, EnterBodyOK DEF IInv, TypeOK
<1>3. CASE Finish(IF ctl = "closeRejected" THEN "rejected" ELSE "done")
    BY <1>1, <1>3, FinishOK
<1> QED BY <1>2, <1>3 DEF CloseDone

LEMMA DisposeNextOK == ASSUME IInv, DisposeNext PROVE IInv' /\ Outcome
<1>1. phase = "Running" /\ escape = NoEscape /\ dispose \in {"clean", "error"} /\ fuel \in Nat
    BY BodyRuns DEF DisposeNext, IInv, Shape, TypeOK
<1>2. ASSUME UseFuel, NEW err \in {dispose, "error"}, AwaitDispose(err) PROVE IInv' /\ Outcome
    BY <1>1, <1>2, AwaitDisposeOK, SMTT(60) DEF UseFuel
<1>3. CASE EnterBody /\ dispose' = "none" /\ UNCHANGED <<delegated, escape>>
    BY <1>1, <1>3, EnterBodyOK DEF IInv, TypeOK
<1>4. CASE Finish("rejected") \/ Finish("done")
    BY <1>1, <1>4, FinishOK
<1> QED BY <1>2, <1>3, <1>4 DEF DisposeNext

-----------------------------------------------------------------------------
\* Closures.

\* A closure that fires was the one that was registered, and the generator
\* was waiting for it.
LEMMA FiredAwaited ==
    ASSUME IInv, NEW c, Fired(c)
    PROVE  /\ phase = "AwaitSuspended" /\ Serving /\ ctl = "idle" /\ waiting' = {}
           /\ c \in Closures /\ Awaits(c)
<1>1. waiting # {} /\ c \in waiting
    BY DEF Fired
<1>2. phase = "AwaitSuspended"
    BY <1>1 DEF IInv, Shape
<1>3. ctl = "idle" /\ \E d \in Closures : Awaits(d)
    BY <1>2 DEF Fired, IInv, Shape
<1>4. Awaits(c) /\ c \in Closures /\ waiting = {c}
    BY <1>1, <1>3 DEF Awaits
<1> QED BY <1>2, <1>3, <1>4 DEF Fired

LEMMA FireAwaitOK == ASSUME IInv, FireAwait PROVE IInv' /\ Outcome
<1> DEFINE c == Closure("await", "none")
<1>1. /\ phase = "AwaitSuspended" /\ waiting' = {} /\ Awaits(c)
    BY FiredAwaited DEF FireAwait
<1>2. /\ pending = "none" /\ escape = NoEscape /\ dispose = "none" /\ current # NoRequest
      /\ current.id = Len(log) + 1
    BY <1>1 DEF Awaits, IInv, Numbering
<1>3. PICK mode \in {"next", "throw"} : Resume([current EXCEPT !.mode = mode], delegated)
    BY <1>2 DEF FireAwait
<1>4. /\ phase' = "Running" /\ delegated' = delegated
      /\ current' \in [id : Nat, mode : Modes \cup {"none"}] /\ current'.id = Len(log) + 1
      /\ ctl' \in {"forward", "body", "throw"} /\ (ctl' = "forward" => delegated)
    BY <1>2, <1>3 DEF Resume, IInv, TypeOK
<1>5. IInv'
    BY <1>1, <1>2, <1>4, GoesOn DEF FireAwait, Silent, IInv, TypeOK
<1> QED BY <1>5 DEF FireAwait, Outcome

LEMMA FireYieldOK == ASSUME IInv, NEW id \in 1 .. MaxRequests, FireYield(id) PROVE IInv' /\ Outcome
<1> DEFINE c == Closure("yield", id)
<1>1. /\ phase = "AwaitSuspended" /\ Serving /\ waiting' = {} /\ Awaits(c) /\ c \in waiting
    BY FiredAwaited DEF FireYield, Fired
<1>2. /\ pending = "none" /\ escape = NoEscape /\ dispose = "none" /\ current = NoRequest
      /\ id = Len(log) + 1
    BY <1>1 DEF Awaits, IInv, Numbering
<1>3. Rests /\ UNCHANGED <<issued, queue, current>> /\ fuel' \in Nat
    BY <1>1, <1>2 DEF FireYield, Rests, IInv, TypeOK
<1>4. delegated' \in BOOLEAN
    BY DEF FireYield, IInv, TypeOK
<1>5. \/ phase' = "YieldSuspended" /\ Answer(id, "yielded")
      \/ phase' = "Completed" /\ Answer(id, "rejected")
    BY <1>1 DEF FireYield, Awaited
<1> QED BY <1>1, <1>2, <1>3, <1>4, <1>5, Answered

LEMMA ResumeBodyOK ==
    ASSUME IInv, NEW step \in Steps, Fired(Closure("step", step)),
           NEW mode \in Modes, ResumeBody(mode), UNCHANGED <<queue, escape, dispose, fuel, issued>>
    PROVE  IInv' /\ Outcome
<1>1. /\ phase = "AwaitSuspended" /\ waiting' = {} /\ Awaits(Closure("step", step))
    BY FiredAwaited
<1>2. /\ escape = NoEscape /\ dispose = "none" /\ current # NoRequest
      /\ current.id = Len(log) + 1
    BY <1>1 DEF Awaits, IInv, Numbering
<1>3. delegated' \in BOOLEAN
    BY DEF ResumeBody, Resume
<1>4. /\ phase' = "Running"
      /\ current' \in [id : Nat, mode : Modes \cup {"none"}] /\ current'.id = Len(log) + 1
      /\ ctl' \in {"body", "throw", "return"}
    BY <1>2 DEF ResumeBody, Resume, IInv, TypeOK
<1>5. IInv'
    BY <1>1, <1>2, <1>3, <1>4, GoesOn DEF ResumeBody, Silent, IInv, TypeOK
<1> QED BY <1>5 DEF ResumeBody, Outcome

LEMMA FireStepOK == ASSUME IInv, NEW step \in Steps, FireStep(step) PROVE IInv' /\ Outcome
<1>f. Fired(Closure("step", step)) /\ UNCHANGED <<queue, escape, dispose, fuel, issued>>
    BY DEF FireStep
<1>1. /\ phase = "AwaitSuspended" /\ Serving /\ waiting' = {} /\ Awaits(Closure("step", step))
    BY <1>f, FiredAwaited
<1>2. /\ pending = step /\ escape = NoEscape /\ dispose = "none" /\ current # NoRequest
      /\ current.id = Len(log) + 1
    BY <1>1 DEF Awaits, IInv, Numbering
<1>3. (\E mode \in Modes : ResumeBody(mode)) \/ DelegateYieldRaw
    BY <1>2 DEF FireStep
<1>4. ASSUME NEW mode \in Modes, ResumeBody(mode) PROVE IInv' /\ Outcome
    BY <1>f, <1>4, ResumeBodyOK
<1>5. CASE DelegateYieldRaw
  <2>1. Answer(current.id, "yielded") /\ phase' = "YieldSuspended" /\ current' = NoRequest
    BY <1>1, <1>5 DEF DelegateYieldRaw, Awaited
  <2>2. Rests /\ UNCHANGED <<issued, queue>> /\ fuel' \in Nat
    BY <1>1, <1>2, <1>5, <1>f DEF DelegateYieldRaw, Rests, IInv, TypeOK
  <2>3. delegated' \in BOOLEAN
    BY <1>5 DEF DelegateYieldRaw, IInv, TypeOK
  <2> QED BY <1>1, <1>2, <2>1, <2>2, <2>3, Answered
<1> QED BY <1>3, <1>4, <1>5

LEMMA FireEscapeOK == ASSUME IInv, FireEscape PROVE IInv' /\ Outcome
<1> DEFINE c == Closure("escape", "none")
<1>1. /\ phase = "AwaitSuspended" /\ Serving /\ waiting' = {} /\ Awaits(c)
    BY FiredAwaited DEF FireEscape
<1>2. /\ pending = "none" /\ escape # NoEscape /\ dispose = "none" /\ current # NoRequest
      /\ current.id = Len(log) + 1
    BY <1>1 DEF Awaits, IInv, Numbering
<1>3. IInv'
    BY <1>1, <1>2, GoesOn DEF FireEscape, Silent, IInv, TypeOK
<1> QED BY <1>3 DEF FireEscape, Outcome

LEMMA FireDisposeOK == ASSUME IInv, FireDispose PROVE IInv' /\ Outcome
<1> DEFINE c == Closure("dispose", "none")
<1>1. /\ phase = "AwaitSuspended" /\ Serving /\ waiting' = {} /\ Awaits(c)
    BY FiredAwaited DEF FireDispose
<1>2. /\ pending = "none" /\ escape = NoEscape /\ dispose # "none" /\ current # NoRequest
      /\ current.id = Len(log) + 1
    BY <1>1 DEF Awaits, IInv, Numbering
<1>3. dispose' \in {"clean", "error"}
    BY <1>2 DEF FireDispose, IInv, TypeOK
<1>4. IInv'
    BY <1>1, <1>2, <1>3, GoesOn DEF FireDispose, Silent, IInv, TypeOK
<1> QED BY <1>4 DEF FireDispose, Outcome

-----------------------------------------------------------------------------
\* The inductive invariant.

LEMMA InitOK == Init => IInv
<1> SUFFICES ASSUME Init PROVE IInv
    OBVIOUS
<1>1. log = <<>> /\ queue = <<>> /\ log \in Seq(Replies) /\ queue \in Seq(Requests)
    BY SMTT(60) DEF Init
<1>2. delegated \in BOOLEAN /\ frames \in Seq(Nat)
  <2>1. <<>> \in Seq(Nat)
    BY SMTT(60)
  <2> QED BY <2>1 DEF Init
<1>3. TypeOK
    BY <1>1, <1>2, BoundsAreNatural, SMTT(60) DEF Init, TypeOK
<1>4. Shape /\ Numbering /\ Closing
    BY <1>1, SMTT(60) DEF Init, Shape, Numbering, Closing, Abstract!ClosesForGood
<1> QED BY <1>3, <1>4 DEF IInv

LEMMA BodyOK == ASSUME IInv, Body PROVE IInv' /\ Outcome
<1> QED
    BY YieldOK, AwaitOK, YieldStarOK, LeaveLoopsOK, DisposeResourcesOK, BodyReturnsOK,
       InjectThrowOK, InjectReturnOK, ForwardAwaitsOK, ForwardFailsOK, ForwardUnwindsOK,
       CloseNextOK, CloseDoneOK, DisposeNextOK
    DEF Body

LEMMA FireOK == ASSUME IInv, Fire PROVE IInv' /\ Outcome
<1> QED BY FireAwaitOK, FireYieldOK, FireStepOK, FireEscapeOK, FireDisposeOK DEF Fire

LEMMA NextOK == ASSUME IInv, [Next]_vars PROVE IInv' /\ Outcome
<1>1. CASE Next
    BY <1>1, EnqueueOK, StartOK, SettleOK, BodyOK, FireOK DEF Next, Native
<1>2. CASE UNCHANGED vars
  <2>1. /\ UNCHANGED <<phase, queue, current, delegated, pending>>
        /\ UNCHANGED <<escape, dispose, waiting, ctl, fuel, issued, frames, log>>
    BY <1>2 DEF vars
  <2>2. TypeOK'
    BY <2>1, ZenonT(60) DEF IInv, TypeOK
  <2>3. Shape' /\ Numbering' /\ Closing'
    BY <2>1, SMTT(60) DEF IInv, TypeOK, Shape, Awaits, Numbering, Closing, Abstract!ClosesForGood
  <2> QED BY <2>1, <2>2, <2>3 DEF IInv, Outcome
<1> QED BY <1>1, <1>2

LEMMA Inductive == Spec => []IInv
<1> QED BY InitOK, NextOK, PTL DEF Spec

\* A generator that awaits is woken by exactly one registered closure, the one
\* its state box names, and no closure is registered in any other phase: the
\* assertion of resume_async_generator never fails.
THEOREM WokenOnce == Spec => []OneWakeUp
<1>1. ASSUME IInv PROVE OneWakeUp
  <2>1. CASE phase = "AwaitSuspended"
    <3>1. PICK c \in Closures : Awaits(c)
      BY <1>1, <2>1 DEF IInv, Shape
    <3> QED BY <2>1, <3>1 DEF Awaits, OneWakeUp
  <2>2. CASE phase # "AwaitSuspended"
    BY <1>1, <2>2 DEF IInv, Shape, OneWakeUp
  <2> QED BY <2>1, <2>2
<1> QED BY <1>1, Inductive, PTL

\* async_generator_start leaves no request in the queue of a generator that
\* could serve it.
THEOREM NothingForgotten == Spec => []NoRequestForgotten
<1>1. IInv => NoRequestForgotten
    BY DEF IInv, Shape, NoRequestForgotten
<1> QED BY <1>1, Inductive, PTL

-----------------------------------------------------------------------------
\* The refinement.

\* The sequence u counts from a + 1 to b.
Counts(u, a, b) ==
    /\ u \in Seq(Nat)
    /\ Len(u) = b - a
    /\ \A i \in 1 .. Len(u) : u[i] = a + i

\* The ids of the queue.
LEMMA QueuedIds ==
    ASSUME IInv
    PROVE  LET ids == [i \in DOMAIN queue |-> queue[i].id]
           IN  Counts(ids, issued - Len(queue), issued)
<1>1. queue \in Seq(Requests) /\ issued \in Nat /\ Len(queue) \in Nat
      /\ DOMAIN queue = 1 .. Len(queue)
    BY SMTT(60) DEF IInv, TypeOK
<1>2. \A i \in 1 .. Len(queue) : queue[i].id \in Nat /\ queue[i].id = issued - Len(queue) + i
    BY <1>1, SMTT(60) DEF IInv, Numbering, Requests
<1> QED BY <1>1, <1>2, SMTT(60) DEF Counts

LEMMA UnansweredCounts ==
    ASSUME IInv
    PROVE  Counts(Unanswered, Len(log), issued)
<1> DEFINE held == {c.tag : c \in {w \in waiting : w.kind = "yield"}}
                      \cup ({current.id} \ {0})
           first == IF held = {} THEN <<>> ELSE <<CHOOSE id \in held : TRUE>>
           ids == [i \in DOMAIN queue |-> queue[i].id]
<1>0. /\ issued \in Nat /\ Len(log) \in Nat /\ Len(queue) \in Nat
      /\ issued = Len(log) + Len(queue) + (IF Serving THEN 1 ELSE 0)
    BY SMTT(60) DEF IInv, TypeOK, Numbering
<1>1. Counts(ids, issued - Len(queue), issued)
    BY QueuedIds
<1>2. Unanswered = first \o ids
    BY DEF Unanswered
<1>3. CASE Serving
  <2>1. held = {Len(log) + 1}
    <3>1. CASE phase = "Running"
        BY <3>1, <1>0, SMTT(60) DEF IInv, TypeOK, Shape, Numbering
    <3>2. CASE phase = "AwaitSuspended"
      <4>1. PICK c \in Closures : Awaits(c)
        BY <3>2 DEF IInv, Shape
      <4>2. ASSUME c.kind = "yield" PROVE held = {Len(log) + 1}
        BY <4>1, <4>2, <1>0, SMTT(60) DEF IInv, Numbering, Awaits
      <4>3. ASSUME c.kind # "yield" PROVE held = {Len(log) + 1}
        BY <4>1, <4>3, <1>0, SMTT(60) DEF IInv, Numbering, Awaits
      <4> QED BY <4>2, <4>3
    <3> QED BY <1>3, <3>1, <3>2 DEF Serving
  <2> HIDE DEF held
  <2>2. first = <<Len(log) + 1>>
    BY <2>1
  <2> HIDE DEF first, ids
  <2>3. Counts(<<Len(log) + 1>>, Len(log), Len(log) + 1)
    BY <1>0, SMTT(60) DEF Counts
  <2>4. Counts(<<Len(log) + 1>> \o ids, Len(log), issued)
    <3>1. <<Len(log) + 1>> \in Seq(Nat) /\ ids \in Seq(Nat)
      BY <1>1, <2>3 DEF Counts
    <3> DEFINE one == <<Len(log) + 1>>
    <3>2. one \in Seq(Nat) /\ Len(one) = 1 /\ one[1] = Len(log) + 1
      BY <1>0, SMTT(60)
    <3> HIDE DEF one
    <3>3. /\ one \o ids \in Seq(Nat)
          /\ Len(one \o ids) = Len(one) + Len(ids)
          /\ \A i \in 1 .. Len(one) + Len(ids) :
                (one \o ids)[i] = IF i <= Len(one) THEN one[i] ELSE ids[i - Len(one)]
      BY <3>1, <3>2, ConcatProperties
    <3>4. Len(ids) = Len(queue) /\ issued - Len(queue) = Len(log) + 1
          /\ \A i \in 1 .. Len(ids) : ids[i] = Len(log) + 1 + i
      BY <1>0, <1>1, <1>3, SMTT(60) DEF Counts
    <3>5. Len(one \o ids) = issued - Len(log)
      BY <1>0, <1>3, <3>2, <3>3, <3>4, SMTT(60)
    <3>6. ASSUME NEW i \in 1 .. Len(one \o ids) PROVE (one \o ids)[i] = Len(log) + i
      <4>1. i \in 1 .. Len(one) + Len(ids)
        BY <3>3
      <4>2. CASE i = 1
        <5>1. (one \o ids)[i] = one[1]
          BY <3>2, <3>3, <4>1, <4>2, SMTT(60)
        <5> QED BY <3>2, <4>2, <5>1
      <4>3. CASE i # 1
        <5>1. i - 1 \in 1 .. Len(ids) /\ ~(i <= 1)
          BY <3>2, <3>4, <1>0, <4>1, <4>3, SMTT(60)
        <5>2. (one \o ids)[i] = ids[i - 1]
          BY <3>2, <3>3, <4>1, <5>1
        <5>3. ids[i - 1] = Len(log) + 1 + (i - 1)
          BY <3>4, <5>1
        <5>4. Len(log) + 1 + (i - 1) = Len(log) + i
          BY <1>0, SMTT(60)
        <5> QED BY <5>2, <5>3, <5>4
      <4> QED BY <4>2, <4>3
    <3> QED BY <3>3, <3>5, <3>6 DEF Counts, one
  <2> QED BY <1>2, <2>2, <2>4
<1>4. CASE ~Serving
  <2>1. held = {}
    BY <1>4, SMTT(60) DEF IInv, TypeOK, Shape
  <2>2. first = <<>>
    BY <2>1
  <2>3. ids \in Seq(Nat)
    BY <1>1 DEF Counts
  <2> HIDE DEF ids, first
  <2>4. <<>> \o ids = ids
    BY <2>3, ConcatEmptySeq
  <2>5. Unanswered = ids
    BY <1>2, <2>2, <2>4
  <2>6. issued - Len(queue) = Len(log)
    BY <1>0, <1>4, SMTT(60)
  <2> QED BY <1>1, <2>5, <2>6
<1> QED BY <1>3, <1>4

\* Two sequences that count between the same bounds are the same.
LEMMA CountsOnce ==
    ASSUME NEW u, NEW v, NEW a \in Nat, NEW b \in Nat, Counts(u, a, b), Counts(v, a, b)
    PROVE  u = v
<1>1. u \in Seq(Nat) /\ v \in Seq(Nat) /\ Len(u) = Len(v)
    BY DEF Counts
<1>2. \A i \in 1 .. Len(u) : u[i] = v[i]
    BY <1>1 DEF Counts
<1> QED BY <1>1, <1>2, SeqEqual

\* One request more.
LEMMA CountsMore ==
    ASSUME NEW u, NEW a \in Nat, NEW b \in Nat, a <= b, Counts(u, a, b)
    PROVE  Counts(Append(u, a + Len(u) + 1), a, b + 1)
<1> DEFINE p == Append(u, a + Len(u) + 1)
<1>1. u \in Seq(Nat) /\ Len(u) = b - a /\ \A i \in 1 .. Len(u) : u[i] = a + i
    BY DEF Counts
<1>2. a + Len(u) + 1 \in Nat /\ Len(u) \in Nat
    BY <1>1, SMTT(60)
<1>3. p \in Seq(Nat) /\ Len(p) = Len(u) + 1
      /\ (\A i \in 1 .. Len(u) : p[i] = u[i]) /\ p[Len(u) + 1] = a + Len(u) + 1
    BY <1>1, <1>2, AppendProperties, SMTT(60)
<1> HIDE DEF p
<1>4. Len(p) = b + 1 - a
    BY <1>1, <1>2, <1>3, SMTT(60)
<1>5. ASSUME NEW i \in 1 .. Len(p) PROVE p[i] = a + i
  <2>1. CASE i \in 1 .. Len(u)
    BY <1>1, <1>3, <2>1
  <2>2. CASE i = Len(u) + 1
    <3>1. p[i] = a + Len(u) + 1
      BY <1>3, <2>2
    <3> QED BY <1>2, <2>2, <3>1, SMTT(60)
  <2> QED BY <1>2, <1>3, <2>1, <2>2, SMTT(60)
<1>6. Counts(p, a, b + 1)
    BY <1>3, <1>4, <1>5, SMTT(60) DEF Counts
<1> QED BY <1>6 DEF p

\* The oldest request less.
LEMMA CountsLess ==
    ASSUME NEW u, NEW a \in Nat, NEW b \in Nat, a < b, Counts(u, a, b)
    PROVE  u # <<>> /\ Head(u) = a + 1 /\ Counts(Tail(u), a + 1, b)
<1>1. u \in Seq(Nat) /\ Len(u) = b - a /\ \A i \in 1 .. Len(u) : u[i] = a + i
    BY DEF Counts
<1>2. u # <<>> /\ Head(u) = a + 1
    BY <1>1, SMTT(60)
<1>3. /\ Tail(u) \in Seq(Nat) /\ Len(Tail(u)) = Len(u) - 1
      /\ \A i \in 1 .. Len(Tail(u)) : i \in Nat /\ i + 1 \in 1 .. Len(u) /\ Tail(u)[i] = u[i + 1]
    BY <1>1, <1>2, SMTT(60)
<1>4. Len(Tail(u)) = b - (a + 1)
    BY <1>1, <1>3, SMTT(60)
<1>5. ASSUME NEW i \in 1 .. Len(Tail(u)) PROVE Tail(u)[i] = a + 1 + i
  <2>1. Tail(u)[i] = a + (i + 1) /\ i \in Nat
    BY <1>1, <1>3
  <2> QED BY <2>1, SMTT(60)
<1> QED BY <1>2, <1>3, <1>4, <1>5 DEF Counts

LEMMA InitRefined == Init => Abstract!Init
<1> SUFFICES ASSUME Init PROVE Abstract!Init
    OBVIOUS
<1>1. log = <<>> /\ issued = 0 /\ Len(log) = 0
    BY DEF Init
<1>2. Unanswered \in Seq(Nat) /\ Len(Unanswered) = 0
    BY <1>1, InitOK, UnansweredCounts, SMTT(60) DEF Counts
<1>3. Unanswered = <<>>
    BY <1>2, SMTT(60)
<1> QED BY <1>1, <1>3 DEF Abstract!Init

LEMMA StepRefined ==
    ASSUME IInv, IInv', Outcome
    PROVE  Abstract!Next \/ UNCHANGED <<Unanswered, log>>
<1>0. issued \in Nat /\ Len(log) \in Nat /\ Len(log) <= issued /\ issued' \in Nat /\ Len(log') <= issued'
    BY SMTT(60) DEF IInv, TypeOK, Numbering
<1>1. Counts(Unanswered, Len(log), issued)
    BY UnansweredCounts
<1>2. Counts(Unanswered', Len(log'), issued')
  <2>1. Counts(Unanswered, Len(log), issued)'
    BY UnansweredCounts, PTL
  <2> QED BY <2>1 DEF Counts
<1>3. CASE UNCHANGED <<issued, log>>
  <2>1. Counts(Unanswered', Len(log), issued)
    BY <1>2, <1>3
  <2>2. Unanswered' = Unanswered
    BY <1>0, <1>1, <2>1, CountsOnce
  <2> QED BY <1>3, <2>2
<1>4. CASE issued' = issued + 1 /\ UNCHANGED log
  <2> DEFINE p == Append(Unanswered, Len(log) + Len(Unanswered) + 1)
  <2>1. Counts(p, Len(log), issued + 1)
    BY <1>0, <1>1, CountsMore
  <2>2. Counts(Unanswered', Len(log), issued + 1)
    BY <1>2, <1>4
  <2>3. issued + 1 \in Nat
    BY <1>0, <1>4
  <2> HIDE DEF p
  <2>4. Unanswered' = p
    BY <1>0, <2>1, <2>2, <2>3, CountsOnce
  <2>5. Abstract!Submit
    BY <1>4, <2>4 DEF p, Abstract!Submit, Abstract!Submitted
  <2> QED BY <2>5 DEF Abstract!Next
<1>5. ASSUME UNCHANGED issued, NEW kind \in Abstract!Kinds, log' = Append(log, Served(kind))
      PROVE  Abstract!Next
  <2>1. Len(log') = Len(log) + 1 /\ Len(log) < issued /\ Len(log) + 1 \in Nat
    <3>1. Len(log') = Len(log) + 1
        BY <1>5, SMTT(60) DEF IInv, TypeOK
    <3> QED BY <1>0, <1>5, <3>1, SMTT(60)
  <2>2. Unanswered # <<>> /\ Head(Unanswered) = Len(log) + 1 /\ Counts(Tail(Unanswered), Len(log) + 1, issued)
    BY <1>0, <1>1, <2>1, CountsLess
  <2>3. Counts(Unanswered', Len(log) + 1, issued)
    BY <1>2, <1>5, <2>1
  <2>4. Unanswered' = Tail(Unanswered)
    BY <1>0, <2>1, <2>2, <2>3, CountsOnce
  <2>5. Abstract!ClosesForGood(log')
    BY DEF IInv, Closing, Abstract!ClosesForGood
  <2>6. Abstract!Reply(kind)
    BY <1>5, <2>2, <2>4, <2>5 DEF Abstract!Reply, Served
  <2> QED BY <2>6 DEF Abstract!Next
<1> QED BY <1>3, <1>4, <1>5 DEF Outcome

\* The generator of async_generator.rs implements the request queue that its
\* next(), return() and throw() promise: requests are answered once, in the
\* order in which they were made, and never by a yielded value after the
\* generator was closed, also when accessors of then make requests in the
\* middle of an answer.
THEOREM Refinement == Spec => ImplementsRequestQueue
<1>1. ASSUME IInv, IInv', [Next]_vars PROVE Abstract!Next \/ UNCHANGED <<Unanswered, log>>
    BY <1>1, NextOK, StepRefined
<1> QED BY <1>1, InitRefined, Inductive, PTL DEF Spec, ImplementsRequestQueue, Abstract!Spec
=============================================================================
