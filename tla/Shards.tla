------------------------------- MODULE Shards -------------------------------
(***************************************************************************)
(* The supervised test262 runner (oxide_test262): supervisor threads take  *)
(* windows of tests from a shared cursor and have a child process run each *)
(* window (supervise_window).  A child that hangs is killed, one that      *)
(* exits early is replaced, and the window goes on.  Two of the three      *)
(* transports are modelled:                                                *)
(*                                                                         *)
(*   local  LocalFileWindowTransport: one child process per round, which   *)
(*          writes its heartbeat to a file of the window;                  *)
(*   safe   TcpWindowTransport with a spawn hook: workers connect to one   *)
(*          listening socket shared by the threads, a connection serves    *)
(*          several windows, heartbeats are frames on it.                  *)
(*                                                                         *)
(* A test is a number.  What a test does to its process is fixed for the   *)
(* run: tests of hangs may never end, tests of crashes may end the process.*)
(* A process may also end by itself anywhere: a worker that cannot connect *)
(* or whose handshake fails gives up, a child cannot load.                 *)
(* Of the results only how often a window counted a test is kept.          *)
(***************************************************************************)
EXTENDS Integers, Sequences, FiniteSets

CONSTANTS Threads,      \* the supervisor threads
          MaxProcs,     \* processes 1 .. MaxProcs; a number is free again once
                        \* its process is dead and nobody refers to it
          NTests, Window, \* tests 0 .. NTests - 1, windows of Window tests
          MaxBad,       \* how many tests hang or crash, at most
          MaxFaults,    \* how many calls fail and processes end by themselves, at most
          Modes         \* the transports to consider

ASSUME Sizes == /\ NTests \in Nat /\ Window \in Nat \ {0} /\ MaxProcs \in Nat
                /\ MaxBad \in Nat /\ MaxFaults \in Nat
ASSUME ModesKnown == Modes \subseteq {"local", "safe"}

VARIABLES mode, hangs, crashes,
          next,         \* the shared cursor: windows handed out so far
          sup,          \* the state of each supervisor thread
          proc,         \* the state of each process
          backlog,      \* connections not accepted yet, in order
          faults,       \* failed calls and ended processes so far
          lost,         \* history: workers that ended before they connected
          tally         \* per window: how often its results count each test

vars == <<mode, hangs, crashes, next, sup, proc, backlog, faults, lost, tally>>
world == <<mode, hangs, crashes>>

Procs == 1 .. MaxProcs
Nobody == 0
Tests == 0 .. NTests - 1
NWindows == (NTests + Window - 1) \div Window
Windows == 1 .. NWindows
First(w) == (w - 1) * Window
End(w) == IF w * Window < NTests THEN w * Window ELSE NTests

\* No heartbeat of this round has been seen.
NoBeat == [done |-> FALSE, index |-> -1]

Idle == [pc |-> "pick", win |-> 0, cur |-> 0, conn |-> Nobody, child |-> Nobody,
         beat |-> NoBeat]
Dead == [st |-> "dead", pos |-> 0, lim |-> 0, out |-> <<>>, told |-> FALSE]

Init ==
  /\ mode \in Modes
  /\ hangs \in SUBSET Tests /\ crashes \in SUBSET Tests
  /\ hangs \cap crashes = {}
  /\ Cardinality(hangs \cup crashes) <= MaxBad
  /\ next = 0
  /\ sup = [s \in Threads |-> Idle]
  /\ proc = [p \in Procs |-> Dead]
  /\ backlog = <<>>
  /\ faults = 0
  /\ lost = 0
  /\ tally = [w \in Windows |-> [t \in 0 .. NTests |-> 0]]

-----------------------------------------------------------------------------
(* Helpers.                                                                *)

Alive(p) == p \in Procs /\ proc[p].st # "dead"
Serves(p, s) == sup[s].conn = p
Free(p) ==
  /\ proc[p].st = "dead"
  /\ \A s \in Threads : sup[s].conn # p /\ sup[s].child # p
  /\ \A i \in 1 .. Len(backlog) : backlog[i] # p

\* The process a new child or worker becomes.
Fresh(p) == Free(p) /\ \A q \in Procs : Free(q) => p <= q

\* One more failed call.
Fault == faults < MaxFaults /\ faults' = faults + 1

\* The window s works on counts the tests in T once more.  The culprit of a
\* child that ended after its last test is the test after the window.
Count(s, T) ==
  tally' = [tally EXCEPT ![sup[s].win] =
              [t \in 0 .. NTests |-> @[t] + (IF t \in T THEN 1 ELSE 0)]]

\* merge_heartbeat: the heartbeat's counters cover every test of the round up
\* to its index.
Covered(s) == {t \in sup[s].cur .. End(sup[s].win) - 1 : t <= sup[s].beat.index}

\* The test the supervisor holds responsible.
Culprit(s) == IF sup[s].beat = NoBeat THEN sup[s].cur ELSE sup[s].beat.index + 1

-----------------------------------------------------------------------------
(* A supervisor thread.                                                    *)

\* The thread loop: take the next window or stop.
Pick(s) ==
  /\ sup[s].pc = "pick"
  /\ IF next < NWindows
     THEN /\ next' = next + 1
          /\ sup' = [sup EXCEPT ![s].pc = "round", ![s].win = next + 1, ![s].cur = First(next + 1)]
     ELSE /\ sup' = [sup EXCEPT ![s].pc = "done", ![s].conn = Nobody, ![s].child = Nobody]
          /\ UNCHANGED next
  /\ UNCHANGED <<world, faults, lost, proc, backlog, tally>>

\* MUTANT of NextRound: the heartbeat of the round before is kept.
NextRoundKeepsBeat(s) ==
  /\ sup[s].pc = "round"
  /\ IF sup[s].cur < End(sup[s].win)
     THEN sup' = [sup EXCEPT ![s].pc = "assign"]
     ELSE sup' = [sup EXCEPT ![s].pc = "pick"]
  /\ UNCHANGED <<world, faults, lost, next, proc, backlog, tally>>

\* The head of the round loop: reset_round, or archive_window at the end.
NextRound(s) ==
  /\ sup[s].pc = "round"
  /\ IF sup[s].cur < End(sup[s].win)
     THEN sup' = [sup EXCEPT ![s].pc = "assign", ![s].beat = NoBeat]
     ELSE sup' = [sup EXCEPT ![s].pc = "pick"]
  /\ UNCHANGED <<world, faults, lost, next, proc, backlog, tally>>

\* assign failed: the test is recorded as a crash and passed over.
AssignFailed(s) ==
  /\ Count(s, {sup[s].cur})
  /\ sup' = [sup EXCEPT ![s].pc = "round", ![s].cur = sup[s].cur + 1]

\* LocalFileWindowTransport::assign.
StartChild(s, p) ==
  /\ mode = "local" /\ sup[s].pc = "assign" /\ Fresh(p)
  /\ proc' = [proc EXCEPT ![p] = [st |-> "running", pos |-> sup[s].cur,
                lim |-> End(sup[s].win), out |-> <<>>, told |-> FALSE]]
  /\ sup' = [sup EXCEPT ![s].pc = "poll", ![s].conn = p, ![s].child = p]
  /\ UNCHANGED <<world, faults, lost, next, backlog, tally>>

\* TcpWindowTransport::assign without a connection: a worker is spawned ...
SpawnWorker(s, p) ==
  /\ mode = "safe" /\ sup[s].pc = "assign" /\ sup[s].conn = Nobody /\ Fresh(p)
  /\ proc' = [proc EXCEPT ![p] = [Dead EXCEPT !.st = "starting"]]
  /\ sup' = [sup EXCEPT ![s].pc = "accept", ![s].child = p]
  /\ UNCHANGED <<world, faults, lost, next, backlog, tally>>

\* ... or cannot be.
SpawnFails(s) ==
  /\ sup[s].pc = "assign" /\ (mode = "safe" => sup[s].conn = Nobody)
  /\ Fault
  /\ AssignFailed(s)
  /\ UNCHANGED <<world, lost, next, proc, backlog>>

\* ... and the next connection is accepted, whichever worker's it is.  The
\* handshake with a worker that has been killed meanwhile fails.
Accept(s) ==
  /\ sup[s].pc = "accept" /\ backlog # <<>>
  /\ backlog' = Tail(backlog)
  /\ IF Alive(Head(backlog))
     THEN /\ sup' = [sup EXCEPT ![s].pc = "assign", ![s].conn = Head(backlog)]
          /\ proc' = [proc EXCEPT ![Head(backlog)].st = "idle"]
          /\ UNCHANGED tally
     ELSE AssignFailed(s) /\ UNCHANGED proc
  /\ UNCHANGED <<world, faults, lost, next>>

\* The assign frame.  When the worker is gone the write fails, and the broken
\* connection stays in place for the next call.
SendAssign(s) ==
  /\ mode = "safe" /\ sup[s].pc = "assign" /\ sup[s].conn # Nobody
  /\ IF Alive(sup[s].conn)
     THEN /\ proc' = [proc EXCEPT ![sup[s].conn].st = "running", ![sup[s].conn].pos = sup[s].cur,
                                  ![sup[s].conn].lim = End(sup[s].win)]
          /\ sup' = [sup EXCEPT ![s].pc = "poll"]
          /\ UNCHANGED tally
     ELSE AssignFailed(s) /\ UNCHANGED proc
  /\ UNCHANGED <<world, faults, lost, next, backlog>>

\* What supervise_window does with PollResult::Exited.
Exited(s, beat, conn) ==
  LET seen == {t \in sup[s].cur .. End(sup[s].win) - 1 : t <= beat.index} IN
  CASE beat.done ->
         /\ Count(s, seen)
         /\ sup' = [sup EXCEPT ![s].pc = "round", ![s].cur = End(sup[s].win), ![s].conn = conn,
                                ![s].beat = beat]
    [] ~beat.done /\ beat # NoBeat ->
         /\ Count(s, seen \cup {beat.index + 1})
         /\ sup' = [sup EXCEPT ![s].pc = "round", ![s].cur = beat.index + 1, ![s].conn = conn]
    [] beat = NoBeat ->
         /\ Count(s, {sup[s].cur})
         /\ sup' = [sup EXCEPT ![s].pc = "round", ![s].cur = sup[s].cur + 1, ![s].conn = conn]

\* MUTANT of ExitSeen: a child that dies before its first heartbeat is tried
\* again from the same test.
ExitSeenRetries(s) ==
  /\ sup[s].pc = "poll" /\ ~Alive(sup[s].conn)
  /\ proc[sup[s].conn].out = <<>>
  /\ IF sup[s].beat = NoBeat
     THEN /\ Count(s, {sup[s].cur})
          /\ sup' = [sup EXCEPT ![s].pc = "round", ![s].conn = Nobody]
     ELSE Exited(s, sup[s].beat, Nobody)
  /\ UNCHANGED <<world, faults, lost, next, proc, backlog>>

\* poll: the child has exited (local), or the connection is at its end (safe)
\* once every frame on it has been read.
ExitSeen(s) ==
  /\ sup[s].pc = "poll" /\ ~Alive(sup[s].conn)
  /\ proc[sup[s].conn].out = <<>>
  /\ Exited(s, sup[s].beat, Nobody)
  /\ UNCHANGED <<world, faults, lost, next, proc, backlog>>

\* poll: one frame of the worker, a heartbeat or (-1) the end of the window;
\* the connection is kept for the next window (mark_done).
ReadFrame(s) ==
  LET p == sup[s].conn IN
  /\ sup[s].pc = "poll" /\ p # Nobody /\ proc[p].out # <<>>
  /\ proc' = [proc EXCEPT ![p].out = Tail(proc[p].out)]
  /\ IF Head(proc[p].out) = -1
     THEN Exited(s, [sup[s].beat EXCEPT !.done = TRUE], p)
     ELSE /\ sup' = [sup EXCEPT ![s].beat = [done |-> FALSE, index |-> Head(proc[p].out)]]
          /\ UNCHANGED tally
  /\ UNCHANGED <<world, faults, lost, next, backlog>>

\* kill: the connection is dropped, what was on it is lost, and the process
\* behind the handle dies; in safe mode the worker at the other end has also
\* been sent a kill frame.  The process may be a worker that another thread
\* waits for.
AfterKill(s, p) ==
  IF p = sup[s].child
  THEN [Dead EXCEPT !.out = IF p = sup[s].conn THEN <<>> ELSE proc[p].out]
  ELSE IF p = sup[s].conn THEN [proc[p] EXCEPT !.told = TRUE, !.out = <<>>]
  ELSE proc[p]

Starting(p) == p \in Procs /\ proc[p].st = "starting"

Kill(s) ==
  /\ proc' = [p \in Procs |-> AfterKill(s, p)]
  /\ lost' = IF Starting(sup[s].child) THEN lost + 1 ELSE lost

\* try_wait fails: the child is killed, its heartbeat ignored, one test passed
\* over (local only: the socket transport never reports it).
WaitError(s) ==
  /\ mode = "local" /\ sup[s].pc = "poll"
  /\ Fault
  /\ Kill(s)
  /\ Count(s, {sup[s].cur})
  /\ sup' = [sup EXCEPT ![s].pc = "round", ![s].cur = sup[s].cur + 1, ![s].conn = Nobody,
                         ![s].child = Nobody]
  /\ UNCHANGED <<world, next, backlog>>

\* No new heartbeat for the time allowed: the process is in a test that hangs
\* and its frames have been read, it has just left a slow one, or it could not
\* write its heartbeat.
Overdue(s) ==
  LET p == sup[s].conn IN
  /\ Alive(p) /\ proc[p].st = "running"
  /\ \/ proc[p].pos \in hangs /\ proc[p].out = <<>>
     \/ /\ proc[p].pos - 1 \in hangs /\ proc[p].pos > sup[s].cur
        /\ Len(proc[p].out) <= 1
     \/ mode = "local" /\ proc[p].pos > sup[s].cur /\ sup[s].beat.index # proc[p].pos - 1

\* MUTANT of Timeout: no deadline before the first heartbeat.
TimeoutAfterBeat(s) ==
  /\ sup[s].pc = "poll" /\ Overdue(s) /\ sup[s].beat # NoBeat
  /\ Kill(s)
  /\ Count(s, Covered(s) \cup {Culprit(s)})
  /\ sup' = [sup EXCEPT ![s].pc = "round", ![s].cur = Culprit(s) + 1, ![s].conn = Nobody,
                         ![s].child = Nobody]
  /\ UNCHANGED <<world, faults, next, backlog>>

\* The deadline passes: kill first, then merge the last heartbeat, record the
\* culprit and go on after it.
Timeout(s) ==
  /\ sup[s].pc = "poll" /\ Overdue(s)
  /\ Kill(s)
  /\ Count(s, Covered(s) \cup {Culprit(s)})
  /\ sup' = [sup EXCEPT ![s].pc = "round", ![s].cur = Culprit(s) + 1, ![s].conn = Nobody,
                         ![s].child = Nobody]
  /\ UNCHANGED <<world, faults, next, backlog>>

-----------------------------------------------------------------------------
(* A worker or child process.                                              *)

\* connect_with_retry, after which run_worker waits for the handshake.
Connect(p) ==
  /\ proc[p].st = "starting"
  /\ proc' = [proc EXCEPT ![p].st = "queued"]
  /\ backlog' = Append(backlog, p)
  /\ UNCHANGED <<world, faults, lost, next, sup, tally>>

Connected(p) == \E s \in Threads : Serves(p, s)

\* A heartbeat: into the window's file, where a write may fail, or a frame.
Beat(p, done, index) ==
  \/ /\ mode = "local"
     /\ sup' = [s \in Threads |-> IF Serves(p, s)
                  THEN [sup[s] EXCEPT !.beat = [done |-> done, index |-> index]]
                  ELSE sup[s]]
     /\ UNCHANGED faults
  \/ mode = "local" /\ Fault /\ UNCHANGED sup
  \/ mode = "safe" /\ UNCHANGED <<sup, faults>>

\* What goes out on the connection of p, if it has one.
Frames(p, frame) ==
  IF mode = "safe" /\ Connected(p) THEN Append(proc[p].out, frame) ELSE <<>>

\* One test of the window is run and its heartbeat sent.
RunTest(p) ==
  /\ proc[p].st = "running" /\ proc[p].pos < proc[p].lim /\ ~proc[p].told
  /\ Beat(p, FALSE, proc[p].pos)
  /\ proc' = [proc EXCEPT ![p].pos = proc[p].pos + 1, ![p].out = Frames(p, proc[p].pos)]
  /\ UNCHANGED <<world, lost, next, backlog, tally>>

\* The window is done: DONE is written, and a child started for it exits.
FinishWindow(p) ==
  /\ proc[p].st = "running" /\ proc[p].pos = proc[p].lim
  /\ Beat(p, TRUE, proc[p].lim)
  /\ proc' = [proc EXCEPT ![p] = [st |-> IF mode = "local" THEN "dead" ELSE "idle",
                 pos |-> 0, lim |-> 0, out |-> Frames(p, -1), told |-> proc[p].told]]
  /\ UNCHANGED <<world, lost, next, backlog, tally>>

\* A test takes the whole process down.
Crash(p) ==
  /\ proc[p].st = "running" /\ proc[p].pos < proc[p].lim
  /\ proc[p].pos \in crashes
  /\ proc' = [proc EXCEPT ![p] = [Dead EXCEPT !.out = proc[p].out]]
  /\ UNCHANGED <<world, faults, lost, next, sup, backlog, tally>>

\* A process ends by itself: a worker whose connection attempts or whose
\* handshake fail, a process that cannot go on.  What it wrote can be read.
GiveUp(p) ==
  /\ Alive(p)
  /\ Fault
  /\ proc' = [proc EXCEPT ![p] = [Dead EXCEPT !.out = proc[p].out]]
  /\ lost' = IF Starting(p) THEN lost + 1 ELSE lost
  /\ UNCHANGED <<world, next, sup, backlog, tally>>

\* A worker told to stop does so between two tests; one whose connection is
\* closed does when it waits for a window.
Leave(p) ==
  /\ \/ proc[p].st = "running" /\ proc[p].told
     \/ proc[p].st = "idle" /\ ~Connected(p)
  /\ proc' = [proc EXCEPT ![p] = Dead]
  /\ UNCHANGED <<world, faults, lost, next, sup, backlog, tally>>

-----------------------------------------------------------------------------
ThreadStep(s) ==
  \/ Pick(s) \/ NextRound(s) \/ Accept(s) \/ SendAssign(s)
  \/ ExitSeen(s) \/ ReadFrame(s) \/ Timeout(s)
  \/ \E p \in Procs : StartChild(s, p) \/ SpawnWorker(s, p)

ThreadFault(s) == SpawnFails(s) \/ WaitError(s)

\* The process is in a test that need not end.
Hanging(p) == proc[p].st = "running" /\ proc[p].pos < proc[p].lim /\ proc[p].pos \in hangs

ProcStep(p) == Connect(p) \/ RunTest(p) \/ FinishWindow(p) \/ Leave(p)

Next ==
  \/ \E s \in Threads : ThreadStep(s) \/ ThreadFault(s)
  \/ \E p \in Procs : ProcStep(p) \/ Crash(p) \/ GiveUp(p)

Spec == Init /\ [][Next]_vars

\* The operating system runs every thread and process; a test that hangs is
\* the one thing that need not end.
FairSpec ==
  /\ Spec
  /\ \A s \in Threads : WF_vars(ThreadStep(s))
  /\ \A p \in Procs : WF_vars(ProcStep(p) /\ ~Hanging(p))

-----------------------------------------------------------------------------
(* Properties.                                                             *)

\* Every test of a window that has been left is counted at least once by that
\* window, whatever its children did: "recovery goes by the last completed
\* index, no test is missed" (supervise_window).
NoTestMissed ==
  \A w \in 1 .. next :
    (\A s \in Threads : sup[s].win = w => sup[s].pc \in {"pick", "done"}) =>
       \A t \in First(w) .. End(w) - 1 : tally[w][t] >= 1

\* A window counts each of its tests at most twice (a test that is run again is
\* recorded at most once more, says supervise_window: the test a child died in
\* is recorded and run a second time, which is the last), the test after its
\* end at most once (the culprit of a child that ended after its last
\* test), and no other test.
CountedAtMostTwice ==
  \A w \in Windows : \A t \in 0 .. NTests :
    tally[w][t] <= (IF t \in First(w) .. End(w) - 1 THEN 2 ELSE IF t = End(w) THEN 1 ELSE 0)

\* Every window is worked off and every thread stops, although tests hang,
\* processes die and spawning fails: all that can hold a thread is accept, which
\* has no timeout, and no more threads than workers were lost before they
\* connected.
RunEnds == <>[](Cardinality({s \in Threads : sup[s].pc # "done"}) <= lost)

=============================================================================
