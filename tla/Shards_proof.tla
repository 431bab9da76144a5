---------------------------- MODULE Shards_proof ----------------------------
(***************************************************************************)
(* Every test of a window is counted, and none more than twice, for any    *)
(* number of supervisor threads, processes, tests and failed calls, with   *)
(* both transports of Shards.                                              *)
(***************************************************************************)
EXTENDS Shards, SequenceTheorems, TLAPS

\* A step is for Zenon unless it cites SMT, which it does for arithmetic and records.
USE ZenonT(30)

-----------------------------------------------------------------------------
(* The inductive invariant.                                                *)

Sup == [pc : {"pick", "round", "assign", "accept", "poll", "done"}, win : Nat, cur : Int,
        conn : 0 .. MaxProcs, child : 0 .. MaxProcs, beat : [done : BOOLEAN, index : Int]]
States == {"dead", "starting", "queued", "idle", "running"}
Outputs == Seq(Int)
Proc == [st : States, pos : Int, lim : Int, out : Outputs, told : BOOLEAN]
Tallies == [Windows -> [0 .. NTests -> Nat]]

TypeOK ==
    /\ mode \in {"local", "safe"}
    /\ next \in Nat /\ next <= NWindows
    /\ sup \in [Threads -> Sup]
    /\ proc \in [Procs -> Proc]
    /\ backlog \in Seq(Procs)
    /\ tally \in Tallies

\* A window belongs to one thread; a thread at work stands inside its window,
\* one that has left a window has passed its end.
Place(s) ==
    /\ sup[s].win <= next
    /\ sup[s].win = 0 => sup[s].pc \in {"pick", "done"}
    /\ sup[s].win # 0 => First(sup[s].win) <= sup[s].cur
    /\ sup[s].win # 0 /\ sup[s].pc \in {"pick", "done"} => End(sup[s].win) <= sup[s].cur
    /\ sup[s].pc \in {"assign", "accept", "poll"} => sup[s].cur < End(sup[s].win)
Owner == \A s, u \in Threads : sup[s].win = sup[u].win /\ sup[s].win # 0 => s = u
Places == Owner /\ \A s \in Threads : Place(s)

\* In the window of a thread the tests before its position have been counted,
\* the ones after it not yet, and the one it stands on at most once; the test
\* after the window goes with them.
Progress(s) ==
    \A t \in First(sup[s].win) .. End(sup[s].win) :
        /\ t < sup[s].cur /\ t < End(sup[s].win) => tally[sup[s].win][t] >= 1
        /\ t = sup[s].cur => tally[sup[s].win][t] <= 1
        /\ t > sup[s].cur => tally[sup[s].win][t] = 0
Complete(w) == \A t \in First(w) .. End(w) - 1 : tally[w][t] >= 1
Tallied ==
    /\ \A s \in Threads : sup[s].win # 0 => Progress(s)
    /\ \A w \in 1 .. next : (\E s \in Threads : sup[s].win = w) \/ Complete(w)
    /\ CountedAtMostTwice
    /\ \A w \in Windows : w > next => \A t \in 0 .. NTests : tally[w][t] = 0

\* A connection has one reader, and one not accepted yet has none.
Reader == \A s, u \in Threads : sup[s].conn = sup[u].conn /\ sup[s].conn # Nobody => s = u
Waiting ==
    /\ \A i, j \in 1 .. Len(backlog) : backlog[i] = backlog[j] => i = j
    /\ \A i \in 1 .. Len(backlog) :
         /\ proc[backlog[i]].st \in {"queued", "dead"}
         /\ \A s \in Threads : sup[s].conn # backlog[i]
Unheard ==
    \A p \in Procs :
        /\ proc[p].st = "starting" => \A s \in Threads : sup[s].conn # p
        /\ proc[p].st \in {"starting", "queued"} => proc[p].out = <<>>
Lines == Reader /\ Waiting /\ Unheard

\* The last test a thread has seen the heartbeat of in this round.
Seen(s) == IF sup[s].beat = NoBeat THEN sup[s].cur - 1 ELSE sup[s].beat.index

\* What is still on the connection p of s: the heartbeats after the last one
\* seen, without a gap, and the end of the window after its last test only.
InOrder(s, p) ==
    \A i \in 1 .. Len(proc[p].out) :
        \/ proc[p].out[i] = Seen(s) + i /\ Seen(s) + i < End(sup[s].win)
        \/ i = Len(proc[p].out) /\ proc[p].out[i] = -1 /\ Seen(s) + i = End(sup[s].win)

\* A process that runs the window of s.
Runs(s, p) ==
    proc[p].st = "running" =>
        /\ proc[p].lim = End(sup[s].win) /\ sup[s].cur <= proc[p].pos
        /\ proc[p].pos <= proc[p].lim /\ ~sup[s].beat.done
        /\ mode = "safe" => /\ Seen(s) + Len(proc[p].out) = proc[p].pos - 1
                            /\ \A i \in 1 .. Len(proc[p].out) : proc[p].out[i] # -1

Stream(s, p) ==
    /\ p \in Procs
    /\ sup[s].beat = NoBeat \/ sup[s].cur <= sup[s].beat.index
    /\ sup[s].beat.done => mode = "local" /\ End(sup[s].win) - 1 <= sup[s].beat.index
    /\ ~sup[s].beat.done => sup[s].beat.index < End(sup[s].win)
    /\ proc[p].st \in {"running", "idle", "dead"}
    /\ mode = "local" => proc[p].out = <<>>
    /\ InOrder(s, p)
    /\ Runs(s, p)

\* Between two rounds nothing is left on the connection.
Line(s) ==
    /\ sup[s].pc \in {"assign", "accept"} => sup[s].beat = NoBeat
    /\ sup[s].pc # "poll" /\ sup[s].conn # Nobody =>
         proc[sup[s].conn].out = <<>> /\ proc[sup[s].conn].st \in {"idle", "dead"}
    /\ sup[s].pc = "poll" => Stream(s, sup[s].conn)

IInv == TypeOK /\ Places /\ Tallied /\ Lines /\ \A s \in Threads : Line(s)

-----------------------------------------------------------------------------
(* Windows.                                                                *)

\* The tests of a window, and the one after it, have a count.
LEMMA Bounds ==
    \A w \in Nat \ {0} : /\ First(w) \in Nat /\ End(w) \in Nat /\ End(w) <= NTests
                         /\ \A t \in First(w) .. End(w) : t \in 0 .. NTests
<1> TAKE w \in Nat \ {0}
<1>1. Window \in Nat /\ Window > 0 /\ NTests \in Nat
    BY Sizes, SMTT(60)
<1>2. (w - 1) * Window \in Nat /\ w * Window \in Nat
    BY <1>1, SMTT(60)
<1>3. First(w) \in Nat /\ End(w) \in Nat /\ End(w) <= NTests
    BY <1>1, <1>2, SMTT(60) DEF First, End
<1> QED BY <1>1, <1>3, SMTT(60)

\* A window that has been handed out is one, and the next one as well.
LEMMA Handed ==
    /\ \A n \in Nat : n <= NWindows => \A w \in 1 .. n : w \in Windows
    /\ \A n \in Nat : n < NWindows => n + 1 \in Windows /\ n + 1 <= NWindows
    /\ \A w \in Windows : w \in Nat \ {0}
<1>1. NWindows \in Int
    BY Sizes, SMTT(60) DEF NWindows
<1> QED BY <1>1, SMTT(60) DEF Windows

-----------------------------------------------------------------------------
(* Positions and counts.                                                   *)

\* A step that counts nothing and moves no thread.
LEMMA Still ==
    ASSUME IInv, next' = next, tally' = tally, sup' \in [Threads -> Sup],
           \A u \in Threads :
               /\ sup'[u].win = sup[u].win /\ sup'[u].cur = sup[u].cur
               /\ \/ sup'[u].pc = sup[u].pc
                  \/ sup[u].win # 0 /\ sup'[u].pc = "round"
                  \/ sup[u].win # 0 /\ sup'[u].pc \in {"assign", "accept", "poll"}
                     /\ sup[u].cur < End(sup[u].win)
                  \/ sup'[u].pc \in {"pick", "done"}
                     /\ (sup[u].win # 0 => End(sup[u].win) <= sup[u].cur)
    PROVE  Places' /\ Tallied'
<1>1. \A s \in Threads : Place(s) /\ (sup[s].win # 0 => Progress(s)) /\ sup[s] \in Sup
    BY DEF IInv, Places, Tallied, TypeOK
<1>2. Owner'
    BY SMTT(60) DEF IInv, Places, Owner
<1>3. \A s \in Threads : Place(s)'
    BY <1>1 DEF Place, First, End
<1>4. \A s \in Threads : (sup[s].win # 0 => Progress(s))'
    BY <1>1 DEF Progress, First, End
<1>5. \A w \in 1 .. next : (\E s \in Threads : sup'[s].win = w) \/ Complete(w)'
    BY DEF IInv, Tallied, Complete, First, End
<1>6. CountedAtMostTwice'
    BY DEF IInv, Tallied, CountedAtMostTwice, First, End
<1> QED BY <1>2, <1>3, <1>4, <1>5, <1>6 DEF IInv, Places, Tallied

\* A thread leaves a round: it counts the tests of T and goes on at c.  The
\* tests it passes are in T, none after c or beyond the window's end is, and c
\* only if it is new.
LEMMA Onward ==
    ASSUME IInv, NEW s \in Threads, sup[s].pc \in {"assign", "accept", "poll"},
           NEW c \in Int, sup[s].cur <= c, NEW T, Count(s, T),
           \A t \in T : t \in Int /\ sup[s].cur <= t /\ t <= c /\ t <= End(sup[s].win),
           \A t \in sup[s].cur .. End(sup[s].win) - 1 : t < c => t \in T,
           c \in T => sup[s].cur < c,
           next' = next, sup' \in [Threads -> Sup],
           \A u \in Threads : sup'[u].win = sup[u].win,
           \A u \in Threads : u # s => sup'[u].cur = sup[u].cur /\ sup'[u].pc = sup[u].pc,
           sup'[s].cur = c, sup'[s].pc = "round"
    PROVE  Places' /\ Tallied' /\ tally' \in Tallies
<1>0. PICK w, b : w = sup[s].win /\ b = sup[s].cur
    OBVIOUS
<1>1. /\ w \in Nat \ {0} /\ b \in Int /\ b < End(w) /\ First(w) <= b
      /\ tally \in Tallies /\ next \in Nat /\ w <= next /\ next <= NWindows
  <2>1. sup[s] \in Sup /\ tally \in Tallies /\ next \in Nat /\ next <= NWindows /\ Place(s)
    BY DEF IInv, Places, TypeOK
  <2>2. w \in Nat /\ b \in Int
    BY <1>0, <2>1 DEF Sup
  <2>3. w # 0 /\ w <= next /\ b < End(w)
    BY <1>0, <2>1 DEF Place
  <2>4. First(w) <= b
    BY <1>0, <2>1, <2>3 DEF Place
  <2> QED BY <2>1, <2>2, <2>3, <2>4
<1>2. \A u \in Threads : Place(u) /\ (sup[u].win # 0 => Progress(u)) /\ sup[u] \in Sup
    BY DEF IInv, Places, Tallied, TypeOK
<1>3. /\ First(w) \in Nat /\ End(w) \in Nat /\ w \in Windows
      /\ \A t \in First(w) .. End(w) : t \in 0 .. NTests
  <2>1. w \in 1 .. next
    BY <1>1, SMTT(60)
  <2> QED BY <1>1, <2>1, Bounds, Handed
<1>4. /\ tally' \in Tallies
      /\ \A v \in Windows : v # w => tally'[v] = tally[v]
      /\ \A t \in 0 .. NTests : /\ tally[w][t] \in Nat
                                /\ t \in T => tally'[w][t] = tally[w][t] + 1
                                /\ t \notin T => tally'[w][t] = tally[w][t]
  <2>1. tally' = [tally EXCEPT ![w] = [t \in 0 .. NTests |-> tally[w][t] + (IF t \in T THEN 1 ELSE 0)]]
    BY <1>0 DEF Count
  <2>2. \A t \in 0 .. NTests : tally[w][t] \in Nat
    BY <1>1, <1>3 DEF Tallies
  <2>3. PICK f : f = [t \in 0 .. NTests |-> tally[w][t] + (IF t \in T THEN 1 ELSE 0)]
    OBVIOUS
  <2>4. /\ f \in [0 .. NTests -> Nat]
        /\ \A t \in 0 .. NTests : /\ t \in T => f[t] = tally[w][t] + 1
                                  /\ t \notin T => f[t] = tally[w][t]
    BY <2>2, <2>3, SMTT(60)
  <2>5. tally' = [tally EXCEPT ![w] = f]
    BY <2>1, <2>3
  <2>6. /\ tally' \in Tallies /\ tally'[w] = f
        /\ \A v \in Windows : v # w => tally'[v] = tally[v]
    BY <1>1, <1>3, <2>4, <2>5 DEF Tallies
  <2> QED BY <2>2, <2>4, <2>6
<1>5. \A t \in First(w) .. End(w) : /\ t < b /\ t < End(w) => tally[w][t] >= 1
                                    /\ t = b => tally[w][t] <= 1
                                    /\ t > b => tally[w][t] = 0
    BY <1>0, <1>1, <1>2 DEF Progress
<1>6. Owner'
    BY SMTT(60) DEF IInv, Places, Owner
<1>7. ASSUME NEW u \in Threads PROVE Place(u)'
  <2>1. CASE u = s
    BY <1>0, <1>1, <1>3, <2>1, SMTT(60) DEF Place, First, End
  <2>2. CASE u # s
    BY <1>2, <2>2 DEF Place, First, End
  <2> QED BY <2>1, <2>2
<1>8. ASSUME NEW u \in Threads, sup[u].win # 0 PROVE Progress(u)'
  <2>1. CASE u = s
    <3> SUFFICES ASSUME NEW t \in First(w) .. End(w)
                 PROVE  /\ t < c /\ t < End(w) => tally'[w][t] >= 1
                        /\ t = c => tally'[w][t] <= 1
                        /\ t > c => tally'[w][t] = 0
      BY <1>0, <2>1 DEF Progress, First, End
    <3>1. t \in 0 .. NTests /\ t \in Int
      BY <1>3, SMTT(60)
    <3>2. t \in T => b <= t /\ t <= c
      BY <1>0
    <3>3. b <= t /\ t < c /\ t < End(w) => t \in T
      BY <1>0, <1>1, <1>3, <3>1, SMTT(60)
    <3>4. t = c /\ t \in T => b < t
      BY <1>0
    <3>5. b <= c
      BY <1>0
    <3>6. /\ tally[w][t] \in Nat
          /\ t \in T => tally'[w][t] = tally[w][t] + 1
          /\ t \notin T => tally'[w][t] = tally[w][t]
      BY <1>4, <3>1
    <3>7. /\ t < b /\ t < End(w) => tally[w][t] >= 1
          /\ t = b => tally[w][t] <= 1
          /\ t > b => tally[w][t] = 0
      BY <1>5
    <3> QED BY <1>1, <1>3, <3>1, <3>2, <3>3, <3>4, <3>5, <3>6, <3>7, SMTT(60)
  <2>2. CASE u # s
    <3>1. sup[u].win # w
      BY <1>0, <1>8, <2>2 DEF IInv, Places, Owner
    <3>2. sup[u].win \in Windows
      <4>1. sup[u].win \in Nat /\ sup[u].win <= next
        BY <1>2 DEF Place, Sup
      <4>2. sup[u].win \in 1 .. next
        BY <1>1, <1>8, <4>1, SMTT(60)
      <4> QED BY <1>1, <4>2, Handed
    <3>3. tally'[sup[u].win] = tally[sup[u].win]
      BY <1>4, <3>1, <3>2
    <3> QED BY <1>2, <1>8, <2>2, <3>3 DEF Progress, First, End
  <2> QED BY <2>1, <2>2
<1>9. ASSUME NEW v \in 1 .. next PROVE (\E u \in Threads : sup'[u].win = v) \/ Complete(v)'
  <2>1. CASE \E u \in Threads : sup[u].win = v
    BY <2>1
  <2>2. CASE ~\E u \in Threads : sup[u].win = v
    <3>1. Complete(v)
      BY <2>2 DEF IInv, Tallied
    <3>2. v # w
      BY <1>0, <2>2
    <3>3. v \in Windows
      BY <1>1, Handed
    <3>4. tally'[v] = tally[v]
      BY <1>4, <3>2, <3>3
    <3> QED BY <3>1, <3>4 DEF Complete, First, End
  <2> QED BY <2>1, <2>2
<1>10. ASSUME NEW v \in Windows, NEW t \in 0 .. NTests
       PROVE  tally'[v][t] <= (IF t \in First(v) .. End(v) - 1 THEN 2
                               ELSE IF t = End(v) THEN 1 ELSE 0)
  <2>1. tally[v][t] <= (IF t \in First(v) .. End(v) - 1 THEN 2 ELSE IF t = End(v) THEN 1 ELSE 0)
    BY DEF IInv, Tallied, CountedAtMostTwice
  <2>2. CASE v # w \/ t \notin T
    <3>1. tally'[v][t] = tally[v][t]
      BY <1>4, <2>2
    <3> QED BY <2>1, <3>1
  <2>3. CASE v = w /\ t \in T
    <3>1. t \in Int /\ b <= t /\ t <= End(w)
      BY <1>0, <2>3
    <3>2. t \in First(w) .. End(w)
      BY <1>1, <1>3, <3>1, SMTT(60)
    <3>3. /\ t = b => tally[w][t] <= 1
          /\ t > b => tally[w][t] = 0
      BY <1>5, <3>2
    <3>4. tally[w][t] \in Nat /\ tally'[w][t] = tally[w][t] + 1
      BY <1>4, <2>3
    <3>5. CASE t < End(w)
      <4>1. t \in First(w) .. End(w) - 1
        BY <1>3, <3>2, <3>5, SMTT(60)
      <4>2. tally'[w][t] <= 2
        BY <1>1, <3>1, <3>3, <3>4, SMTT(60)
      <4> QED BY <2>3, <4>1, <4>2
    <3>6. CASE t = End(w)
      <4>1. t \notin First(w) .. End(w) - 1
        BY <1>3, <3>1, <3>6, SMTT(60)
      <4>2. tally'[w][t] <= 1
        BY <1>1, <1>3, <3>1, <3>3, <3>4, <3>6, SMTT(60)
      <4> QED BY <2>3, <3>6, <4>1, <4>2
    <3> QED BY <1>3, <3>1, <3>5, <3>6, SMTT(60)
  <2> QED BY <2>2, <2>3
<1>11. ASSUME NEW v \in Windows, v > next, NEW t \in 0 .. NTests PROVE tally'[v][t] = 0
  <2>1. v # w
    BY <1>1, <1>11, Handed, SMTT(60)
  <2>2. tally[v][t] = 0
    BY <1>11 DEF IInv, Tallied
  <2> QED BY <1>4, <2>1, <2>2
<1> QED
  <2>1. \A u \in Threads : (sup[u].win # 0 => Progress(u))'
    BY <1>8
  <2>2. CountedAtMostTwice'
    BY <1>10 DEF CountedAtMostTwice, First, End
  <2>3. Tallied'
    BY <1>9, <1>11, <2>1, <2>2 DEF Tallied
  <2> QED BY <1>4, <1>6, <1>7, <2>3 DEF Places

-----------------------------------------------------------------------------
(* Connections.                                                            *)

LEMMA Types ==
    ASSUME TypeOK
    PROVE  /\ \A s \in Threads : sup[s] \in Sup
           /\ \A p \in Procs : proc[p] \in Proc
           /\ \A i \in 1 .. Len(backlog) : backlog[i] \in Procs
           /\ \A p \in Procs : p # Nobody
           /\ \A s \in Threads : sup[s].conn # Nobody => sup[s].conn \in Procs
           /\ \A s \in Threads : sup[s].child # Nobody => sup[s].child \in Procs
BY Sizes, SMTT(60) DEF TypeOK, Sup, Procs, Nobody

\* One field of a thread is set.
LEMMA SetField ==
    ASSUME NEW f \in [Threads -> Sup], NEW s \in Threads
    PROVE  /\ \A x \in {"pick", "round", "assign", "accept", "poll", "done"} :
                [f EXCEPT ![s].pc = x] \in [Threads -> Sup]
           /\ \A x \in Nat : [f EXCEPT ![s].win = x] \in [Threads -> Sup]
           /\ \A x \in Int : [f EXCEPT ![s].cur = x] \in [Threads -> Sup]
           /\ \A x \in 0 .. MaxProcs : [f EXCEPT ![s].conn = x] \in [Threads -> Sup]
           /\ \A x \in 0 .. MaxProcs : [f EXCEPT ![s].child = x] \in [Threads -> Sup]
           /\ \A x \in [done : BOOLEAN, index : Int] : [f EXCEPT ![s].beat = x] \in [Threads -> Sup]
<1>1. \A x \in {"pick", "round", "assign", "accept", "poll", "done"} :
        [f EXCEPT ![s].pc = x] \in [Threads -> Sup]
    BY SMTT(60) DEF Sup
<1>2. \A x \in Nat : [f EXCEPT ![s].win = x] \in [Threads -> Sup]
    BY SMTT(60) DEF Sup
<1>3. \A x \in Int : [f EXCEPT ![s].cur = x] \in [Threads -> Sup]
    BY SMTT(60) DEF Sup
<1>4. \A x \in 0 .. MaxProcs : [f EXCEPT ![s].conn = x] \in [Threads -> Sup]
    BY SMTT(60) DEF Sup
<1>5. \A x \in 0 .. MaxProcs : [f EXCEPT ![s].child = x] \in [Threads -> Sup]
    BY SMTT(60) DEF Sup
<1>6. \A x \in [done : BOOLEAN, index : Int] : [f EXCEPT ![s].beat = x] \in [Threads -> Sup]
    BY SMTT(60) DEF Sup
<1> QED BY <1>1, <1>2, <1>3, <1>4, <1>5, <1>6

\* A thread keeps its connection as it is when it does nothing and the process
\* at the other end does nothing, or dies, whether what it had sent is left or
\* lost.
LEMMA LineSame ==
    ASSUME NEW u \in Threads, Line(u), mode' = mode, sup'[u] = sup[u],
           sup[u].conn # Nobody =>
               \/ proc'[sup[u].conn] = proc[sup[u].conn]
               \/ /\ proc'[sup[u].conn].st = "dead"
                  /\ proc'[sup[u].conn].out \in {proc[sup[u].conn].out, <<>>}
    PROVE  Line(u)'
<1>1. CASE sup[u].pc # "poll"
    BY <1>1 DEF Line
<1>2. CASE sup[u].pc = "poll"
  <2>0. PICK p : p = sup[u].conn
    OBVIOUS
  <2>1. Stream(u, p) /\ p # Nobody
    BY <1>2, <2>0, Sizes, SMTT(60) DEF Line, Stream, Procs, Nobody
  <2>2. /\ proc'[p].out \in {proc[p].out, <<>>}
        /\ proc'[p] = proc[p] \/ proc'[p].st = "dead"
    BY <2>0, <2>1
  <2>3. Seen(u)' = Seen(u)
    BY DEF Seen, NoBeat
  <2>4. InOrder(u, p)'
    <3>1. CASE proc'[p].out = proc[p].out
      BY <2>1, <2>3, <3>1 DEF Stream, InOrder, End
    <3>2. CASE proc'[p].out = <<>>
      <4>1. Len(proc'[p].out) = 0
        BY <3>2, SMTT(60)
      <4> QED BY <4>1, SMTT(60) DEF InOrder
    <3> QED BY <2>2, <3>1, <3>2
  <2>6. Runs(u, p)'
    BY <2>1, <2>2, <2>3 DEF Stream, Runs, End
  <2>5. Stream(u, p)'
    BY <2>1, <2>2, <2>4, <2>6 DEF Stream, NoBeat, End
  <2> QED BY <1>2, <2>0, <2>5 DEF Line
<1> QED BY <1>1, <1>2

\* Nothing new is connected, and the processes stay as they are or die.
LEMMA LinesSame ==
    ASSUME IInv, backlog' = backlog,
           \A u \in Threads : sup'[u].conn \in {sup[u].conn, Nobody},
           \A p \in Procs : \/ proc'[p].st = proc[p].st /\ proc'[p].out = proc[p].out
                            \/ proc'[p].st = "dead"
                            \/ /\ proc[p].st \in {"idle", "running"}
                               /\ proc'[p].st \in {"idle", "running"}
    PROVE  Lines'
<1>1. Reader /\ Waiting /\ Unheard /\ \A i \in 1 .. Len(backlog) : backlog[i] \in Procs
    BY Types DEF IInv, Lines
<1>2. \A p \in Procs : p # Nobody
    BY Types DEF IInv
<1>3. Reader'
    BY <1>1 DEF Reader, Nobody
<1>4. Waiting'
  <2>1. \A i, j \in 1 .. Len(backlog) : backlog[i] = backlog[j] => i = j
    BY <1>1 DEF Waiting
  <2>2. ASSUME NEW i \in 1 .. Len(backlog)
        PROVE  /\ proc'[backlog[i]].st \in {"queued", "dead"}
               /\ \A s \in Threads : sup'[s].conn # backlog[i]
    BY <1>1, <1>2, SMTT(60) DEF Waiting
  <2> QED BY <2>1, <2>2, SMTT(60) DEF Waiting
<1>5. Unheard'
    BY <1>1, <1>2 DEF Unheard
<1> QED BY <1>3, <1>4, <1>5 DEF Lines

-----------------------------------------------------------------------------
(* The steps of a supervisor thread.                                       *)

LEMMA PickKeeps ==
    ASSUME IInv, NEW s \in Threads, Pick(s)
    PROVE  IInv'
<1>1. /\ TypeOK /\ \A u \in Threads : sup[u] \in Sup
      /\ \A u \in Threads : Place(u) /\ Line(u) /\ (sup[u].win # 0 => Progress(u))
    BY Types DEF IInv, Places, Tallied
<1>2. /\ mode' = mode /\ proc' = proc /\ backlog' = backlog /\ tally' = tally /\ sup[s].pc = "pick"
      /\ \A u \in Threads : u # s => sup'[u] = sup[u]
      /\ sup'[s].pc \in {"round", "done"} /\ sup'[s].conn \in {sup[s].conn, Nobody}
    BY <1>1, SMTT(60) DEF Pick, world, TypeOK, Sup
<1>3. CASE next < NWindows
  <2>1. /\ next' = next + 1 /\ next \in Nat /\ next + 1 \in Nat \ {0} /\ next' \in Nat
        /\ next <= NWindows
        /\ sup' = [sup EXCEPT ![s].pc = "round", ![s].win = next + 1, ![s].cur = First(next + 1)]
    BY <1>1, <1>3, SMTT(60) DEF Pick, TypeOK
  <2>2. /\ First(next + 1) \in Nat /\ First(next + 1) \in Int /\ End(next + 1) \in Nat
        /\ \A t \in First(next + 1) .. End(next + 1) : t \in 0 .. NTests
        /\ next + 1 \in Windows /\ next + 1 <= NWindows
    BY <1>3, <2>1, Bounds, Handed, SMTT(60)
  <2>3. /\ sup'[s].pc = "round" /\ sup'[s].win = next + 1 /\ sup'[s].cur = First(next + 1)
        /\ sup'[s].conn = sup[s].conn
    BY <1>1, <2>1, <2>2 DEF TypeOK, Sup
  <2>0. sup' \in [Threads -> Sup]
    BY <1>1, <2>1, <2>2, SetField DEF TypeOK
  <2>4. TypeOK'
    BY <1>1, <1>2, <2>0, <2>1, <2>2 DEF TypeOK
  <2>5. Places'
    <3>1. Owner'
      <4>1. \A u \in Threads : sup[u].win <= next /\ sup[u].win \in Nat
        BY <1>1 DEF Place, Sup
      <4>2. \A u \in Threads : u # s => sup'[u].win = sup[u].win /\ sup'[s].win # sup[u].win
        <5>1. next \in Nat /\ sup'[s].win = next + 1
          BY <2>1, <2>3
        <5>2. \A u \in Threads : sup'[s].win # sup[u].win
          BY <4>1, <5>1, SMTT(60)
        <5> QED BY <1>2, <5>2
      <4>3. Owner
        BY DEF IInv, Places
      <4> QED BY <4>2, <4>3 DEF Owner
    <3>2. Place(s)'
      BY <2>1, <2>2, <2>3, SMTT(60) DEF Place, First, End
    <3>3. ASSUME NEW u \in Threads, u # s PROVE Place(u)'
      <4>1. sup[u].win <= next + 1
        BY <1>1, <2>1, SMTT(60) DEF Place, Sup
      <4>2. Place(u) /\ sup'[u] = sup[u]
        BY <1>1, <1>2, <3>3
      <4> QED BY <2>1, <4>1, <4>2 DEF Place
    <3> QED BY <3>1, <3>2, <3>3 DEF Places
  <2>6. Tallied'
    <3>1. \A t \in 0 .. NTests : tally[next + 1][t] = 0
      <4>1. next + 1 > next
        BY <2>1, SMTT(60)
      <4> QED BY <2>2, <4>1 DEF IInv, Tallied
    <3>2. Progress(s)'
      <4> SUFFICES ASSUME NEW t \in First(next + 1) .. End(next + 1)
                   PROVE  /\ t < First(next + 1) /\ t < End(next + 1) => tally[next + 1][t] >= 1
                          /\ t = First(next + 1) => tally[next + 1][t] <= 1
                          /\ t > First(next + 1) => tally[next + 1][t] = 0
        BY <1>2, <2>3 DEF Progress, First, End
      <4>1. tally[next + 1][t] = 0
        BY <2>2, <3>1
      <4> QED BY <2>2, <4>1, SMTT(60)
    <3>3. ASSUME NEW u \in Threads, u # s, sup[u].win # 0 PROVE Progress(u)'
      BY <1>1, <1>2, <3>3, SMTT(60) DEF Progress, First, End
    <3>4. ASSUME NEW w \in 1 .. next + 1
          PROVE  (\E u \in Threads : sup'[u].win = w) \/ Complete(w)'
      <4>1. CASE w = next + 1
        BY <2>3, <4>1
      <4>2. CASE w # next + 1
        <5>1. w \in 1 .. next
          BY <2>1, <4>2, SMTT(60)
        <5>2. Complete(w) => Complete(w)'
          BY <1>2 DEF Complete, First, End
        <5>3. CASE \E u \in Threads : u # s /\ sup[u].win = w
          BY <1>2, <5>3
        <5>4. CASE sup[s].win = w
          <6>1. Progress(s) /\ End(w) <= sup[s].cur /\ w \in Nat \ {0}
            BY <1>1, <1>2, <5>1, <5>4, SMTT(60) DEF Place
          <6>2. ASSUME NEW t \in First(w) .. End(w) - 1 PROVE tally[w][t] >= 1
            <7>1. First(w) \in Nat /\ End(w) \in Nat /\ sup[s].cur \in Int
              BY <1>1, <6>1, Bounds DEF Sup
            <7>2. t < sup[s].cur /\ t < End(w) /\ t \in First(w) .. End(w)
              BY <6>1, <7>1, SMTT(60)
            <7> QED BY <5>4, <6>1, <7>2 DEF Progress
          <6> QED BY <5>2, <6>2 DEF Complete
        <5> QED BY <5>1, <5>2, <5>3, <5>4 DEF IInv, Tallied
      <4> QED BY <4>1, <4>2
    <3>5. ASSUME NEW v \in Windows, v > next + 1, NEW t \in 0 .. NTests PROVE tally'[v][t] = 0
      <4>1. v > next
        BY <2>1, <3>5, Handed, SMTT(60)
      <4> QED BY <1>2, <4>1 DEF IInv, Tallied
    <3>6. \A u \in Threads : (sup[u].win # 0 => Progress(u))'
      BY <1>2, <3>2, <3>3
    <3>7. CountedAtMostTwice'
      BY <1>2 DEF IInv, Tallied, CountedAtMostTwice, First, End
    <3>8. \A w \in 1 .. next' : (\E u \in Threads : sup'[u].win = w) \/ Complete(w)'
      BY <2>1, <3>4
    <3> QED BY <2>1, <3>5, <3>6, <3>7, <3>8 DEF Tallied
  <2>7. Line(s)'
    BY <1>1, <1>2, <2>3 DEF Line
  <2>8. ASSUME NEW u \in Threads, u # s PROVE Line(u)'
    BY <1>1, <1>2, <2>8, LineSame
  <2>9. Lines'
    <3>1. \A u \in Threads : sup'[u].conn \in {sup[u].conn, Nobody}
      BY <1>2
    <3> QED BY <1>2, <3>1, LinesSame
  <2> QED BY <2>4, <2>5, <2>6, <2>7, <2>8, <2>9 DEF IInv
<1>4. CASE ~(next < NWindows)
  <2>1. /\ next' = next
        /\ sup' = [sup EXCEPT ![s].pc = "done", ![s].conn = Nobody, ![s].child = Nobody]
    BY <1>1, <1>4 DEF Pick
  <2>2. /\ sup'[s].pc = "done" /\ sup'[s].win = sup[s].win /\ sup'[s].cur = sup[s].cur
        /\ sup'[s].conn = Nobody
    BY <1>1, <2>1 DEF TypeOK, Sup
  <2>0. sup' \in [Threads -> Sup]
    <3>1. Nobody \in 0 .. MaxProcs
      BY Sizes, SMTT(60) DEF Nobody
    <3> QED BY <1>1, <2>1, <3>1, SetField DEF TypeOK
  <2>3. TypeOK'
    BY <1>1, <1>2, <2>0, <2>1 DEF TypeOK
  <2>4. Places' /\ Tallied'
    <3>1. sup[s].win # 0 => End(sup[s].win) <= sup[s].cur
      BY <1>1, <1>2 DEF Place
    <3> QED BY <1>2, <2>0, <2>1, <2>2, <3>1, Still
  <2>5. Line(s)'
    BY <1>1, <1>2, <2>2 DEF Line, Nobody
  <2>6. ASSUME NEW u \in Threads, u # s PROVE Line(u)'
    BY <1>1, <1>2, <2>6, LineSame
  <2>7. Lines'
    <3>1. \A u \in Threads : sup'[u].conn \in {sup[u].conn, Nobody}
      BY <1>2
    <3> QED BY <1>2, <3>1, LinesSame
  <2> QED BY <2>3, <2>4, <2>5, <2>6, <2>7 DEF IInv
<1> QED BY <1>3, <1>4

LEMMA NextRoundKeeps ==
    ASSUME IInv, NEW s \in Threads, NextRound(s)
    PROVE  IInv'
<1>1. /\ TypeOK /\ \A u \in Threads : sup[u] \in Sup
      /\ \A u \in Threads : Place(u) /\ Line(u)
    BY Types DEF IInv, Places
<1>2. /\ mode' = mode /\ proc' = proc /\ backlog' = backlog /\ tally' = tally /\ next' = next
      /\ sup[s].pc = "round"
    BY DEF NextRound, world
<1> DEFINE on == sup[s].cur < End(sup[s].win)
<1>a. IF on THEN sup' = [sup EXCEPT ![s].pc = "assign", ![s].beat = NoBeat]
      ELSE sup' = [sup EXCEPT ![s].pc = "pick"]
    BY DEF NextRound
<1>b. sup' \in [Threads -> Sup]
  <2>1. NoBeat \in [done : BOOLEAN, index : Int]
    BY SMTT(60) DEF NoBeat
  <2> HIDE DEF on
  <2>2. CASE on
    <3>1. sup' = [sup EXCEPT ![s].pc = "assign", ![s].beat = NoBeat]
      BY <1>a, <2>2
    <3> QED BY <1>1, <2>1, <3>1, SetField DEF TypeOK
  <2>3. CASE ~on
    <3>1. sup' = [sup EXCEPT ![s].pc = "pick"]
      BY <1>a, <2>3
    <3> QED BY <1>1, <3>1, SetField DEF TypeOK
  <2> QED BY <2>2, <2>3
<1>c. /\ \A u \in Threads : u # s => sup'[u] = sup[u]
      /\ sup'[s].win = sup[s].win /\ sup'[s].cur = sup[s].cur /\ sup'[s].conn = sup[s].conn
      /\ \/ on /\ sup'[s].pc = "assign" /\ sup'[s].beat = NoBeat
         \/ ~on /\ sup'[s].pc = "pick"
  <2> HIDE DEF on
  <2> QED BY <1>1, <1>a, SMTT(60) DEF TypeOK, Sup
<1>3. TypeOK'
    BY <1>1, <1>2, <1>b DEF TypeOK
<1>4. Places' /\ Tallied'
  <2>1. sup[s].win # 0 /\ sup[s].win \in Nat /\ sup[s].cur \in Int
    BY <1>1, <1>2 DEF Place, Sup
  <2>2. End(sup[s].win) \in Nat
    BY <2>1, Bounds
  <2>3. ~(sup[s].cur < End(sup[s].win)) => End(sup[s].win) <= sup[s].cur
    BY <2>1, <2>2, SMTT(60)
  <2> QED BY <1>2, <1>b, <1>c, <2>1, <2>3, Still
<1>5. Line(s)'
    BY <1>1, <1>2, <1>c DEF Line, NoBeat
<1>6. ASSUME NEW u \in Threads, u # s PROVE Line(u)'
    BY <1>1, <1>2, <1>6, <1>c, LineSame
<1>7. Lines'
  <2>1. \A u \in Threads : sup'[u].conn \in {sup[u].conn, Nobody}
    BY <1>c
  <2> QED BY <1>2, <2>1, LinesSame
<1> QED BY <1>3, <1>4, <1>5, <1>6, <1>7 DEF IInv

\* One field of a process is set.
LEMMA SetProc ==
    \A f \in [Procs -> Proc], p \in Procs :
        /\ \A x \in States : [f EXCEPT ![p].st = x] \in [Procs -> Proc]
        /\ \A x \in Int : [f EXCEPT ![p].pos = x] \in [Procs -> Proc]
        /\ \A x \in Int : [f EXCEPT ![p].lim = x] \in [Procs -> Proc]
        /\ \A x \in Outputs : [f EXCEPT ![p].out = x] \in [Procs -> Proc]
        /\ \A x \in Proc : [f EXCEPT ![p] = x] \in [Procs -> Proc]
<1> TAKE f \in [Procs -> Proc], p \in Procs
<1>1. \A x \in States : [f EXCEPT ![p].st = x] \in [Procs -> Proc]
    BY DEF Proc
<1>2. \A x \in Int : [f EXCEPT ![p].pos = x] \in [Procs -> Proc]
    BY DEF Proc
<1>3. \A x \in Int : [f EXCEPT ![p].lim = x] \in [Procs -> Proc]
    BY DEF Proc
<1>4. \A x \in Outputs : [f EXCEPT ![p].out = x] \in [Procs -> Proc]
    BY DEF Proc
<1>5. \A x \in Proc : [f EXCEPT ![p] = x] \in [Procs -> Proc]
    OBVIOUS
<1> QED BY <1>1, <1>2, <1>3, <1>4, <1>5

\* The records of processes that are not at work.
LEMMA DeadProc ==
    /\ Dead \in Proc /\ Dead.st = "dead" /\ Dead.out = <<>>
    /\ LET r == [Dead EXCEPT !.st = "starting"] IN r \in Proc /\ r.st = "starting" /\ r.out = <<>>
    /\ \A o \in Outputs : LET r == [Dead EXCEPT !.out = o]
                          IN  r \in Proc /\ r.st = "dead" /\ r.out = o
<1>1. Dead \in Proc /\ Dead.st = "dead" /\ Dead.out = <<>> /\ "starting" \in States
    BY SMTT(60) DEF Proc, States, Outputs, Dead
<1>2. \A d \in Proc : \A x \in States :
        /\ [d EXCEPT !.st = x] \in Proc /\ [d EXCEPT !.st = x].st = x
        /\ [d EXCEPT !.st = x].out = d.out
    BY DEF Proc
<1>3. \A d \in Proc : \A x \in Outputs :
        /\ [d EXCEPT !.out = x] \in Proc /\ [d EXCEPT !.out = x].out = x
        /\ [d EXCEPT !.out = x].st = d.st
    BY DEF Proc
<1> QED BY <1>1, <1>2, <1>3

\* The backlog without its first connection.
LEMMA Shorter ==
    ASSUME TypeOK, backlog # <<>>
    PROVE  /\ Tail(backlog) \in Seq(Procs) /\ Head(backlog) = backlog[1]
           /\ 1 \in 1 .. Len(backlog) /\ backlog[1] \in Procs
           /\ \A i \in 1 .. Len(Tail(backlog)) :
                Tail(backlog)[i] = backlog[i + 1] /\ i + 1 \in 1 .. Len(backlog) /\ i + 1 # 1
<1>1. backlog \in Seq(Procs)
    BY DEF TypeOK
<1>2. Len(backlog) \in Nat /\ Len(backlog) # 0
    BY <1>1, SMTT(60)
<1>3. Tail(backlog) \in Seq(Procs) /\ Len(Tail(backlog)) = Len(backlog) - 1
    BY <1>1, SMTT(60)
<1>4. \A i \in 1 .. Len(Tail(backlog)) : Tail(backlog)[i] = backlog[i + 1]
    BY <1>1, HeadTailProperties
<1>5. 1 \in 1 .. Len(backlog) /\ backlog[1] \in Procs /\ Head(backlog) = backlog[1]
    BY <1>1, <1>2, SMTT(60)
<1> QED BY <1>2, <1>3, <1>4, <1>5, SMTT(60)

\* A connection is taken off the backlog and given up.
LEMMA LinesShorter ==
    ASSUME IInv, backlog # <<>>, backlog' = Tail(backlog), proc' = proc,
           \A u \in Threads : sup'[u].conn = sup[u].conn
    PROVE  Lines'
<1>1. Reader /\ Waiting /\ Unheard /\ TypeOK
    BY DEF IInv, Lines
<1>2. /\ \A i \in 1 .. Len(backlog') :
            backlog'[i] = backlog[i + 1] /\ i + 1 \in 1 .. Len(backlog)
    BY <1>1, Shorter
<1>3. Reader' /\ Unheard'
    BY <1>1 DEF Reader, Unheard, Nobody
<1>4. \A i, j \in 1 .. Len(backlog') : backlog'[i] = backlog'[j] => i = j
  <2> SUFFICES ASSUME NEW i \in 1 .. Len(backlog'), NEW j \in 1 .. Len(backlog'),
                      backlog'[i] = backlog'[j]
               PROVE  i = j
    OBVIOUS
  <2>1. i + 1 = j + 1
    BY <1>1, <1>2, SMTT(60) DEF Waiting
  <2> QED BY <2>1, SMTT(60)
<1>5. Waiting'
    BY <1>1, <1>2, <1>4, SMTT(60) DEF Waiting
<1> QED BY <1>3, <1>5 DEF Lines

\* The assignment of a window fails.
LEMMA Failed ==
    ASSUME IInv, NEW s \in Threads, sup[s].pc \in {"assign", "accept"}, AssignFailed(s),
           next' = next, mode' = mode, proc' = proc
    PROVE  /\ sup' \in [Threads -> Sup] /\ tally' \in Tallies
           /\ Places' /\ Tallied' /\ \A u \in Threads : Line(u)'
           /\ \A u \in Threads : sup'[u].conn = sup[u].conn
<1>1. TypeOK /\ sup[s] \in Sup /\ \A u \in Threads : Line(u)
    BY Types DEF IInv
<1>2. sup[s].cur \in Int /\ sup[s].cur + 1 \in Int
    BY <1>1, SMTT(60) DEF Sup
<1>e. End(sup[s].win) \in Nat /\ sup[s].cur <= End(sup[s].win)
  <2>1. Place(s) /\ sup[s].win \in Nat
    BY <1>1 DEF IInv, Places, Sup
  <2>2. sup[s].cur < End(sup[s].win) /\ sup[s].win # 0
    BY <2>1 DEF Place
  <2>3. End(sup[s].win) \in Nat
    BY <2>1, <2>2, Bounds
  <2> QED BY <1>2, <2>2, <2>3, SMTT(60)
<1>3. sup' = [sup EXCEPT ![s].pc = "round", ![s].cur = sup[s].cur + 1]
    BY DEF AssignFailed
<1>4. sup' \in [Threads -> Sup]
    BY <1>1, <1>2, <1>3, SetField DEF TypeOK
<1>5. /\ \A u \in Threads : u # s => sup'[u] = sup[u]
      /\ sup'[s].pc = "round" /\ sup'[s].cur = sup[s].cur + 1
      /\ sup'[s].win = sup[s].win /\ sup'[s].conn = sup[s].conn
    BY <1>1, <1>3 DEF TypeOK, Sup
<1>6. Places' /\ Tallied' /\ tally' \in Tallies
  <2> DEFINE T == {sup[s].cur}
             c == sup[s].cur + 1
  <2>1. Count(s, T)
    BY DEF AssignFailed
  <2>2. \A t \in T : t \in Int /\ sup[s].cur <= t /\ t <= c /\ t <= End(sup[s].win)
    BY <1>2, <1>e, SMTT(60)
  <2>3. \A t \in sup[s].cur .. End(sup[s].win) - 1 : t < c => t \in T
    BY <1>2, SMTT(60)
  <2>4. c \notin T /\ c \in Int /\ sup[s].cur <= c
    BY <1>2, SMTT(60)
  <2>5. sup'[s].cur = c
    BY <1>5
  <2>6. \A u \in Threads : sup'[u].win = sup[u].win
    BY <1>5
  <2> HIDE DEF T, c
  <2> QED BY <1>4, <1>5, <2>1, <2>2, <2>3, <2>4, <2>5, <2>6, Onward
<1>7. Line(s)'
    BY <1>1, <1>5 DEF Line
<1>8. ASSUME NEW u \in Threads, u # s PROVE Line(u)'
    BY <1>1, <1>5, <1>8, LineSame
<1> QED BY <1>4, <1>5, <1>6, <1>7, <1>8

LEMMA SpawnFailsKeeps ==
    ASSUME IInv, NEW s \in Threads, SpawnFails(s)
    PROVE  IInv'
<1>1. /\ sup[s].pc = "assign" /\ AssignFailed(s)
      /\ next' = next /\ mode' = mode /\ proc' = proc /\ backlog' = backlog
    BY DEF SpawnFails, world
<1>2. /\ sup' \in [Threads -> Sup] /\ tally' \in Tallies
      /\ Places' /\ Tallied' /\ \A u \in Threads : Line(u)'
      /\ \A u \in Threads : sup'[u].conn = sup[u].conn
    BY <1>1, Failed
<1>3. Lines'
    BY <1>1, <1>2, LinesSame
<1>4. TypeOK'
    BY <1>1, <1>2 DEF IInv, TypeOK
<1> QED BY <1>2, <1>3, <1>4 DEF IInv

\* A process gets the thread s as its reader.
LEMMA LinesJoin ==
    ASSUME IInv, NEW s \in Threads, NEW p \in Procs,
           \A u \in Threads : sup[u].conn # p,
           sup'[s].conn = p, \A u \in Threads : u # s => sup'[u].conn = sup[u].conn,
           \A q \in Procs : q # p => proc'[q] = proc[q],
           proc'[p].st \in {"idle", "running"},
           \A i \in 1 .. Len(backlog') : backlog'[i] \in Procs /\ backlog'[i] # p,
           \A i \in 1 .. Len(backlog') : \E k \in 1 .. Len(backlog) : backlog'[i] = backlog[k],
           \A i, j \in 1 .. Len(backlog') : backlog'[i] = backlog'[j] => i = j
    PROVE  Lines'
<1>1. Reader /\ Waiting /\ Unheard
    BY DEF IInv, Lines
<1>2. Reader'
    BY <1>1, SMTT(60) DEF Reader, Nobody
<1>3. Waiting'
  <2>1. ASSUME NEW i \in 1 .. Len(backlog')
        PROVE  /\ proc'[backlog'[i]].st \in {"queued", "dead"}
               /\ \A u \in Threads : sup'[u].conn # backlog'[i]
    <3>1. PICK k \in 1 .. Len(backlog) : backlog'[i] = backlog[k]
      OBVIOUS
    <3>2. /\ proc[backlog[k]].st \in {"queued", "dead"}
          /\ \A u \in Threads : sup[u].conn # backlog[k]
      BY <1>1 DEF Waiting
    <3> QED BY <3>1, <3>2, SMTT(60)
  <2> QED BY <2>1 DEF Waiting
<1>4. Unheard'
    BY <1>1, SMTT(60) DEF Unheard
<1> QED BY <1>2, <1>3, <1>4 DEF Lines

LEMMA StartChildKeeps ==
    ASSUME IInv, NEW s \in Threads, NEW p \in Procs, StartChild(s, p)
    PROVE  IInv'
<1>1. TypeOK /\ sup[s] \in Sup /\ (\A u \in Threads : Line(u) /\ Place(u)) /\ p # Nobody
    BY Types DEF IInv, Places
<1> DEFINE r == [st |-> "running", pos |-> sup[s].cur, lim |-> End(sup[s].win), out |-> <<>>,
                 told |-> FALSE]
<1>2. /\ next' = next /\ mode' = mode /\ tally' = tally /\ backlog' = backlog
      /\ mode = "local" /\ sup[s].pc = "assign"
      /\ \A u \in Threads : sup[u].conn # p
      /\ \A i \in 1 .. Len(backlog) : backlog[i] # p
    BY DEF StartChild, Fresh, Free, world
<1>a. /\ proc' = [proc EXCEPT ![p] = r]
      /\ sup' = [sup EXCEPT ![s].pc = "poll", ![s].conn = p, ![s].child = p]
    BY DEF StartChild
<1>3. /\ sup[s].cur \in Int /\ sup[s].win \in Nat \ {0} /\ End(sup[s].win) \in Int
      /\ sup[s].cur < End(sup[s].win) /\ sup[s].beat = NoBeat
  <2>1. sup[s].cur \in Int /\ sup[s].win \in Nat
    BY <1>1 DEF Sup
  <2>2. sup[s].win # 0 /\ sup[s].cur < End(sup[s].win) /\ sup[s].beat = NoBeat
    BY <1>1, <1>2 DEF Place, Line
  <2> QED BY <2>1, <2>2, Bounds, SMTT(60)
<1>4. r \in Proc
    BY <1>3, SMTT(60) DEF Proc, States, Outputs
<1>5. /\ r.st = "running" /\ r.pos = sup[s].cur /\ r.lim = End(sup[s].win) /\ r.out = <<>>
    OBVIOUS
<1> HIDE DEF r
<1>6. proc' \in [Procs -> Proc] /\ proc'[p] = r /\ \A q \in Procs : q # p => proc'[q] = proc[q]
    BY <1>1, <1>4, <1>a DEF TypeOK
<1>7. sup' \in [Threads -> Sup]
  <2>1. p \in 0 .. MaxProcs
    BY Sizes, SMTT(60) DEF Procs
  <2> QED BY <1>1, <1>a, <2>1, SetField DEF TypeOK
<1>8. /\ \A u \in Threads : u # s => sup'[u] = sup[u]
      /\ sup'[s].pc = "poll" /\ sup'[s].cur = sup[s].cur /\ sup'[s].win = sup[s].win
      /\ sup'[s].conn = p /\ sup'[s].beat = NoBeat
    BY <1>1, <1>3, <1>a DEF TypeOK, Sup
<1>9. TypeOK'
    BY <1>1, <1>2, <1>6, <1>7 DEF TypeOK
<1>10. Places' /\ Tallied'
  <2>1. sup[s].win # 0
    BY <1>3
  <2> QED BY <1>2, <1>3, <1>7, <1>8, <2>1, Still
<1>11. Lines'
  <2>1. \A i \in 1 .. Len(backlog) : backlog[i] \in Procs
    BY <1>1, Types
  <2>2. \A i, j \in 1 .. Len(backlog) : backlog[i] = backlog[j] => i = j
    BY DEF IInv, Lines, Waiting
  <2>3. \A u \in Threads : u # s => sup'[u].conn = sup[u].conn
    BY <1>8
  <2>4. proc'[p].st \in {"idle", "running"}
    BY <1>5, <1>6
  <2> QED BY <1>2, <1>6, <1>8, <2>1, <2>2, <2>3, <2>4, LinesJoin, SMTT(60)
<1>12. Line(s)'
  <2>1. proc'[p].out = <<>> /\ proc'[p].st = "running" /\ Len(<<>>) = 0
        /\ proc'[p].lim = End(sup[s].win) /\ proc'[p].pos = sup[s].cur
    BY <1>5, <1>6
  <2>2. InOrder(s, p)'
    BY <2>1, SMTT(60) DEF InOrder
  <2>a. ~NoBeat.done /\ NoBeat.index < End(sup[s].win) /\ sup[s].cur <= End(sup[s].win)
    BY <1>3, Bounds, SMTT(60) DEF NoBeat
  <2>b. ~sup'[s].beat.done /\ sup'[s].beat.index < End(sup[s].win) /\ sup'[s].beat = NoBeat'
    BY <1>8, <2>a DEF NoBeat
  <2>c. sup[s].cur <= sup[s].cur
    BY <1>3, SMTT(60)
  <2>3. Runs(s, p)'
    BY <1>2, <1>8, <2>1, <2>a, <2>b, <2>c DEF Runs, End
  <2>4. Stream(s, p)'
    BY <1>2, <1>8, <2>1, <2>2, <2>3, <2>b DEF Stream, End
  <2> QED BY <1>8, <2>4 DEF Line
<1>13. ASSUME NEW u \in Threads, u # s PROVE Line(u)'
  <2>1. sup[u].conn # Nobody => proc'[sup[u].conn] = proc[sup[u].conn]
    BY <1>1, <1>2, <1>6, Types
  <2>2. Line(u) /\ mode' = mode /\ sup'[u] = sup[u]
    BY <1>1, <1>2, <1>8, <1>13
  <2> QED BY <2>1, <2>2, LineSame
<1> QED BY <1>9, <1>10, <1>11, <1>12, <1>13 DEF IInv

LEMMA SpawnWorkerKeeps ==
    ASSUME IInv, NEW s \in Threads, NEW p \in Procs, SpawnWorker(s, p)
    PROVE  IInv'
<1>1. TypeOK /\ sup[s] \in Sup /\ (\A u \in Threads : Line(u) /\ Place(u)) /\ p # Nobody
    BY Types DEF IInv, Places
<1> DEFINE r == [Dead EXCEPT !.st = "starting"]
<1>2. /\ next' = next /\ mode' = mode /\ tally' = tally /\ backlog' = backlog
      /\ sup[s].pc = "assign" /\ sup[s].conn = Nobody
      /\ \A u \in Threads : sup[u].conn # p
      /\ \A i \in 1 .. Len(backlog) : backlog[i] # p
    BY DEF SpawnWorker, Fresh, Free, world
<1>3. /\ proc' = [proc EXCEPT ![p] = r]
      /\ sup' = [sup EXCEPT ![s].pc = "accept", ![s].child = p]
    BY DEF SpawnWorker
<1>4. r \in Proc /\ r.st = "starting" /\ r.out = <<>>
    BY DeadProc
<1> HIDE DEF r
<1>5. proc' \in [Procs -> Proc] /\ proc'[p] = r /\ \A q \in Procs : q # p => proc'[q] = proc[q]
    BY <1>1, <1>3, <1>4 DEF TypeOK
<1>6. sup' \in [Threads -> Sup]
  <2>1. p \in 0 .. MaxProcs
    BY Sizes, SMTT(60) DEF Procs
  <2> QED BY <1>1, <1>3, <2>1, SetField DEF TypeOK
<1>7. /\ \A u \in Threads : u # s => sup'[u] = sup[u]
      /\ sup'[s].pc = "accept" /\ sup'[s].cur = sup[s].cur /\ sup'[s].win = sup[s].win
      /\ sup'[s].conn = sup[s].conn /\ sup'[s].beat = sup[s].beat
    BY <1>1, <1>3 DEF TypeOK, Sup
<1>8. TypeOK'
    BY <1>1, <1>2, <1>5, <1>6 DEF TypeOK
<1>9. Places' /\ Tallied'
  <2>1. sup[s].win # 0 /\ sup[s].cur < End(sup[s].win)
    BY <1>1, <1>2 DEF Place
  <2> QED BY <1>2, <1>6, <1>7, <2>1, Still
<1>10. Lines'
  <2>1. Reader /\ Waiting /\ Unheard /\ \A i \in 1 .. Len(backlog) : backlog[i] \in Procs
    BY Types DEF IInv, Lines
  <2>2. \A u \in Threads : sup'[u].conn = sup[u].conn
    BY <1>7
  <2>3. Reader'
    BY <2>1, <2>2 DEF Reader, Nobody
  <2>4. Waiting'
    BY <1>2, <1>5, <2>1, <2>2, SMTT(60) DEF Waiting
  <2>5. Unheard'
    BY <1>2, <1>4, <1>5, <2>1, <2>2, SMTT(60) DEF Unheard
  <2> QED BY <2>3, <2>4, <2>5 DEF Lines
<1>11. Line(s)'
    BY <1>1, <1>2, <1>7 DEF Line, Nobody, NoBeat
<1>12. ASSUME NEW u \in Threads, u # s PROVE Line(u)'
  <2>1. sup[u].conn # Nobody => proc'[sup[u].conn] = proc[sup[u].conn]
    BY <1>1, <1>2, <1>5, Types
  <2>2. Line(u) /\ mode' = mode /\ sup'[u] = sup[u]
    BY <1>1, <1>2, <1>7, <1>12
  <2> QED BY <2>1, <2>2, LineSame
<1> QED BY <1>8, <1>9, <1>10, <1>11, <1>12 DEF IInv

LEMMA AcceptKeeps ==
    ASSUME IInv, NEW s \in Threads, Accept(s)
    PROVE  IInv'
<1>1. TypeOK /\ sup[s] \in Sup /\ (\A u \in Threads : Line(u) /\ Place(u))
    BY Types DEF IInv, Places
<1> DEFINE p == Head(backlog)
<1>2. /\ next' = next /\ mode' = mode /\ backlog' = Tail(backlog)
      /\ sup[s].pc = "accept" /\ backlog # <<>>
    BY DEF Accept, world
<1>3. /\ Tail(backlog) \in Seq(Procs) /\ p = backlog[1]
      /\ 1 \in 1 .. Len(backlog) /\ p \in Procs
      /\ \A i \in 1 .. Len(Tail(backlog)) :
           Tail(backlog)[i] = backlog[i + 1] /\ i + 1 \in 1 .. Len(backlog) /\ i + 1 # 1
    BY <1>1, <1>2, Shorter
<1>4. CASE Alive(p)
  <2>1. /\ sup' = [sup EXCEPT ![s].pc = "assign", ![s].conn = p]
        /\ proc' = [proc EXCEPT ![p].st = "idle"]
        /\ tally' = tally
    BY <1>4 DEF Accept
  <2>2. /\ proc[p].st \in {"queued", "dead"} /\ proc[p].st # "dead"
        /\ \A u \in Threads : sup[u].conn # p
    BY <1>3, <1>4, SMTT(60) DEF IInv, Lines, Waiting, Alive
  <2>3. proc[p].st = "queued" /\ proc[p].out = <<>>
    BY <1>3, <2>2 DEF IInv, Lines, Unheard
  <2> HIDE DEF p
  <2>4. proc' \in [Procs -> Proc]
    <3>1. "idle" \in States
      BY DEF States
    <3> QED BY <1>1, <1>3, <2>1, <3>1, SetProc DEF TypeOK
  <2>5. /\ proc'[p].st = "idle" /\ proc'[p].out = <<>>
        /\ \A q \in Procs : q # p => proc'[q] = proc[q]
    BY <1>1, <1>3, <2>1, <2>3 DEF TypeOK, Proc
  <2>6. sup' \in [Threads -> Sup]
    <3>1. p \in 0 .. MaxProcs
      BY <1>3, Sizes, SMTT(60) DEF Procs
    <3> QED BY <1>1, <2>1, <3>1, SetField DEF TypeOK
  <2>7. /\ \A u \in Threads : u # s => sup'[u] = sup[u]
        /\ sup'[s].pc = "assign" /\ sup'[s].cur = sup[s].cur /\ sup'[s].win = sup[s].win
        /\ sup'[s].conn = p /\ sup'[s].beat = sup[s].beat
    BY <1>1, <2>1 DEF TypeOK, Sup
  <2>8. tally' = tally
    BY <2>1
  <2>9. TypeOK'
    BY <1>1, <1>2, <1>3, <2>4, <2>6, <2>8 DEF TypeOK
  <2>10. Places' /\ Tallied'
    <3>1. sup[s].win # 0 /\ sup[s].cur < End(sup[s].win)
      BY <1>1, <1>2 DEF Place
    <3> QED BY <1>2, <2>6, <2>7, <2>8, <3>1, Still
  <2>11. Lines'
    <3>1. \A i, j \in 1 .. Len(backlog) : backlog[i] = backlog[j] => i = j
      BY DEF IInv, Lines, Waiting
    <3>2. \A i \in 1 .. Len(backlog) : backlog[i] \in Procs
      BY <1>1, Types
    <3>3. ASSUME NEW i \in 1 .. Len(backlog')
          PROVE  /\ backlog'[i] \in Procs /\ backlog'[i] # p
                 /\ \E k \in 1 .. Len(backlog) : backlog'[i] = backlog[k]
      <4>1. backlog'[i] = backlog[i + 1] /\ i + 1 \in 1 .. Len(backlog) /\ i + 1 # 1
        BY <1>2, <1>3
      <4> QED BY <1>3, <3>1, <3>2, <4>1
    <3>4. ASSUME NEW i \in 1 .. Len(backlog'), NEW j \in 1 .. Len(backlog'),
                 backlog'[i] = backlog'[j]
          PROVE  i = j
      <4>1. i + 1 = j + 1
        BY <1>2, <1>3, <3>1, <3>4
      <4> QED BY <4>1, SMTT(60)
    <3>5. \A u \in Threads : u # s => sup'[u].conn = sup[u].conn
      BY <2>7
    <3>6. proc'[p].st \in {"idle", "running"}
      BY <2>5
    <3> QED BY <1>3, <2>2, <2>5, <2>7, <3>3, <3>4, <3>5, <3>6, LinesJoin, SMTT(60)
  <2>12. Line(s)'
    BY <1>1, <1>2, <2>5, <2>7 DEF Line, NoBeat
  <2>13. ASSUME NEW u \in Threads, u # s PROVE Line(u)'
    <3>1. sup[u].conn # Nobody => proc'[sup[u].conn] = proc[sup[u].conn]
      BY <1>1, <2>2, <2>5, Types
    <3>2. Line(u) /\ mode' = mode /\ sup'[u] = sup[u]
      BY <1>1, <1>2, <2>7, <2>13
    <3> QED BY <3>1, <3>2, LineSame
  <2> QED BY <2>9, <2>10, <2>11, <2>12, <2>13 DEF IInv
<1>5. CASE ~Alive(p)
  <2>1. AssignFailed(s) /\ proc' = proc
    BY <1>5 DEF Accept
  <2>2. /\ sup' \in [Threads -> Sup] /\ tally' \in Tallies
        /\ Places' /\ Tallied' /\ \A u \in Threads : Line(u)'
        /\ \A u \in Threads : sup'[u].conn = sup[u].conn
    BY <1>2, <2>1, Failed
  <2>3. Lines'
    BY <1>2, <2>1, <2>2, LinesShorter
  <2>4. TypeOK'
    BY <1>1, <1>2, <1>3, <2>1, <2>2 DEF TypeOK
  <2> QED BY <2>2, <2>3, <2>4 DEF IInv
<1> QED BY <1>4, <1>5

LEMMA SendAssignKeeps ==
    ASSUME IInv, NEW s \in Threads, SendAssign(s)
    PROVE  IInv'
<1>1. TypeOK /\ sup[s] \in Sup /\ (\A u \in Threads : Line(u) /\ Place(u))
    BY Types DEF IInv, Places
<1>0. PICK p : p = sup[s].conn
    OBVIOUS
<1>2. /\ next' = next /\ mode' = mode /\ backlog' = backlog
      /\ sup[s].pc = "assign" /\ p # Nobody
    BY <1>0 DEF SendAssign, world
<1>3. p \in Procs /\ proc[p].out = <<>> /\ proc[p].st \in {"idle", "dead"} /\ sup[s].beat = NoBeat
    BY <1>0, <1>1, <1>2, Types DEF Line
<1>4. CASE Alive(p)
  <2>1. /\ sup' = [sup EXCEPT ![s].pc = "poll"]
        /\ proc' = [proc EXCEPT ![p].st = "running", ![p].pos = sup[s].cur,
                                ![p].lim = End(sup[s].win)]
        /\ tally' = tally
    BY <1>0, <1>4 DEF SendAssign
  <2>2. proc[p].st = "idle"
    BY <1>3, <1>4 DEF Alive
  <2>3. /\ sup[s].cur \in Int /\ sup[s].win \in Nat \ {0} /\ End(sup[s].win) \in Int
        /\ sup[s].cur < End(sup[s].win)
    <3>1. sup[s].cur \in Int /\ sup[s].win \in Nat
      BY <1>1 DEF Sup
    <3>2. sup[s].win # 0 /\ sup[s].cur < End(sup[s].win)
      BY <1>1, <1>2 DEF Place
    <3> QED BY <3>1, <3>2, Bounds, SMTT(60)
  <2>4. proc' \in [Procs -> Proc]
    <3>1. "running" \in States
      BY DEF States
    <3> QED BY <1>1, <1>3, <2>1, <2>3, <3>1, SetProc DEF TypeOK
  <2>5. /\ proc'[p].st = "running" /\ proc'[p].out = <<>> /\ proc'[p].pos = sup[s].cur
        /\ proc'[p].lim = End(sup[s].win)
        /\ \A q \in Procs : q # p => proc'[q] = proc[q]
    BY <1>1, <1>3, <2>1 DEF TypeOK, Proc
  <2>6. sup' \in [Threads -> Sup]
    BY <1>1, <2>1, SetField DEF TypeOK
  <2>7. /\ \A u \in Threads : u # s => sup'[u] = sup[u]
        /\ sup'[s].pc = "poll" /\ sup'[s].cur = sup[s].cur /\ sup'[s].win = sup[s].win
        /\ sup'[s].conn = sup[s].conn /\ sup'[s].beat = sup[s].beat
    BY <1>1, <2>1 DEF TypeOK, Sup
  <2>8. tally' = tally
    BY <2>1
  <2>9. TypeOK'
    BY <1>1, <1>2, <2>4, <2>6, <2>8 DEF TypeOK
  <2>10. Places' /\ Tallied'
    <3>1. sup[s].win # 0
      BY <2>3
    <3> QED BY <1>2, <2>3, <2>6, <2>7, <2>8, <3>1, Still
  <2>11. Lines'
    <3>1. \A u \in Threads : sup'[u].conn \in {sup[u].conn, Nobody}
      BY <2>7
    <3>2. \A q \in Procs : \/ proc'[q] = proc[q]
                           \/ /\ proc[q].st \in {"idle", "running"}
                              /\ proc'[q].st \in {"idle", "running"}
      BY <2>2, <2>5
    <3> QED BY <1>2, <3>1, <3>2, LinesSame
  <2>12. Line(s)'
    <3>1. Len(<<>>) = 0
      OBVIOUS
    <3>2. InOrder(s, p)'
      BY <2>5, <3>1, SMTT(60) DEF InOrder
    <3>3. Seen(s)' = sup[s].cur - 1
      BY <1>3, <2>7 DEF Seen, NoBeat
    <3>a. ~NoBeat.done /\ NoBeat.index < End(sup[s].win) /\ sup[s].cur <= End(sup[s].win)
      BY <2>3, Bounds, SMTT(60) DEF NoBeat
    <3>b. ~sup'[s].beat.done /\ sup'[s].beat.index < End(sup[s].win) /\ sup'[s].beat = NoBeat'
      BY <1>3, <2>7, <3>a DEF NoBeat
    <3>c. /\ sup[s].cur <= sup[s].cur /\ sup[s].cur - 1 + 0 = sup[s].cur - 1
          /\ \A i \in 1 .. 0 : FALSE
      BY <2>3, SMTT(60)
    <3>4. Runs(s, p)'
      BY <2>5, <2>7, <3>1, <3>3, <3>a, <3>b, <3>c DEF Runs, End
    <3>5. Stream(s, p)'
      BY <1>3, <2>5, <2>7, <3>2, <3>4, <3>b DEF Stream, End
    <3>6. sup'[s].conn = p
      BY <1>0, <2>7
    <3> QED BY <2>7, <3>5, <3>6 DEF Line
  <2>13. ASSUME NEW u \in Threads, u # s PROVE Line(u)'
    <3>1. sup[u].conn # p
      BY <1>0, <1>2, <2>13 DEF IInv, Lines, Reader
    <3>2. sup[u].conn # Nobody => proc'[sup[u].conn] = proc[sup[u].conn]
      BY <1>1, <2>5, <3>1, Types
    <3>3. Line(u) /\ mode' = mode /\ sup'[u] = sup[u]
      BY <1>1, <1>2, <2>7, <2>13
    <3> QED BY <3>2, <3>3, LineSame
  <2> QED BY <2>9, <2>10, <2>11, <2>12, <2>13 DEF IInv
<1>5. CASE ~Alive(p)
  <2>1. AssignFailed(s) /\ proc' = proc
    BY <1>0, <1>5 DEF SendAssign
  <2>2. /\ sup' \in [Threads -> Sup] /\ tally' \in Tallies
        /\ Places' /\ Tallied' /\ \A u \in Threads : Line(u)'
        /\ \A u \in Threads : sup'[u].conn = sup[u].conn
    BY <1>2, <2>1, Failed
  <2>3. Lines'
    BY <1>2, <2>1, <2>2, LinesSame
  <2>4. TypeOK'
    BY <1>1, <1>2, <2>1, <2>2 DEF TypeOK
  <2> QED BY <2>2, <2>3, <2>4 DEF IInv
<1> QED BY <1>4, <1>5

-----------------------------------------------------------------------------
(* The end of a round.                                                     *)

\* A thread that polls stands in its window, and what it has seen of the round
\* is not behind its position.
LEMMA Polling ==
    ASSUME IInv, NEW s \in Threads, sup[s].pc = "poll"
    PROVE  /\ TypeOK /\ sup[s] \in Sup /\ Stream(s, sup[s].conn) /\ sup[s].conn # Nobody
           /\ sup[s].win \in Nat \ {0} /\ sup[s].cur \in Nat /\ End(sup[s].win) \in Nat
           /\ sup[s].cur < End(sup[s].win)
           /\ sup[s].beat \in [done : BOOLEAN, index : Int] /\ sup[s].beat.index \in Int
           /\ sup[s].beat # NoBeat => sup[s].cur <= sup[s].beat.index
           /\ ~sup[s].beat.done => sup[s].beat.index < End(sup[s].win)
           /\ Seen(s) \in Int /\ sup[s].cur - 1 <= Seen(s)
<1>1. TypeOK /\ sup[s] \in Sup /\ Place(s) /\ Line(s)
    BY Types DEF IInv, Places
<1>2. Stream(s, sup[s].conn) /\ sup[s].conn # Nobody
    BY <1>1, Sizes, SMTT(60) DEF Line, Stream, Procs, Nobody
<1>3. /\ sup[s].cur \in Int /\ sup[s].win \in Nat
      /\ sup[s].beat \in [done : BOOLEAN, index : Int] /\ sup[s].beat.index \in Int
    BY <1>1 DEF Sup
<1>4. sup[s].win # 0 /\ sup[s].cur < End(sup[s].win) /\ First(sup[s].win) <= sup[s].cur
    BY <1>1 DEF Place
<1>5. End(sup[s].win) \in Nat /\ First(sup[s].win) \in Nat
    BY <1>3, <1>4, Bounds
<1>6. /\ sup[s].beat # NoBeat => sup[s].cur <= sup[s].beat.index
      /\ ~sup[s].beat.done => sup[s].beat.index < End(sup[s].win)
    BY <1>2 DEF Stream
<1> QED BY <1>1, <1>2, <1>3, <1>4, <1>5, <1>6, SMTT(60) DEF Seen

\* A thread ends its round: what it does to itself and to the counts.
LEMMA Ends ==
    ASSUME IInv, NEW s \in Threads, sup[s].pc = "poll",
           NEW c \in Int, sup[s].cur <= c, NEW T, Count(s, T),
           \A t \in T : t \in Int /\ sup[s].cur <= t /\ t <= c /\ t <= End(sup[s].win),
           \A t \in sup[s].cur .. End(sup[s].win) - 1 : t < c => t \in T,
           c \in T => sup[s].cur < c,
           next' = next, sup' \in [Threads -> Sup],
           \A u \in Threads : u # s => sup'[u] = sup[u],
           sup'[s].cur = c, sup'[s].pc = "round", sup'[s].win = sup[s].win
    PROVE  Places' /\ Tallied' /\ tally' \in Tallies
<1>1. \A u \in Threads : sup'[u].win = sup[u].win
    OBVIOUS
<1>2. \A u \in Threads : u # s => sup'[u].cur = sup[u].cur /\ sup'[u].pc = sup[u].pc
    OBVIOUS
<1> QED BY <1>1, <1>2, Onward

\* What supervise_window does with a child that has exited, or has finished.
LEMMA ExitedEnds ==
    ASSUME IInv, NEW s \in Threads, sup[s].pc = "poll",
           NEW bt \in [done : BOOLEAN, index : Int], NEW cn \in 0 .. MaxProcs,
           bt # NoBeat => sup[s].cur <= bt.index,
           bt.done => End(sup[s].win) - 1 <= bt.index,
           ~bt.done => bt.index < End(sup[s].win),
           Exited(s, bt, cn), next' = next
    PROVE  /\ sup' \in [Threads -> Sup] /\ Places' /\ Tallied' /\ tally' \in Tallies
           /\ \A u \in Threads : u # s => sup'[u] = sup[u]
           /\ sup'[s].pc = "round" /\ sup'[s].conn = cn
<1>1. /\ TypeOK /\ sup[s] \in Sup /\ sup[s].cur \in Int /\ End(sup[s].win) \in Int
      /\ sup[s].cur < End(sup[s].win) /\ bt.index \in Int /\ bt.done \in BOOLEAN
    BY Polling, SMTT(60)
<1> DEFINE w == sup[s].win
           b == sup[s].cur
           S == {t \in b .. End(w) - 1 : t <= bt.index}
<1>2. CASE bt.done
  <2>0. bt # NoBeat
    BY <1>2, SMTT(60) DEF NoBeat
  <2>1. /\ Count(s, S)
        /\ sup' = [sup EXCEPT ![s].pc = "round", ![s].cur = End(w), ![s].conn = cn, ![s].beat = bt]
    BY <1>2, <2>0 DEF Exited
  <2>2. sup' \in [Threads -> Sup]
    BY <1>1, <2>1, SetField DEF TypeOK
  <2>3. /\ \A u \in Threads : u # s => sup'[u] = sup[u]
        /\ sup'[s].cur = End(w) /\ sup'[s].pc = "round" /\ sup'[s].win = w /\ sup'[s].conn = cn
    BY <1>1, <2>1 DEF TypeOK, Sup
  <2>4. Count(s, S)
    BY <2>1
  <2>5. \A t \in S : t \in Int /\ b <= t /\ t <= End(w) /\ t <= End(w)
    BY <1>1, SMTT(60)
  <2>6. \A t \in b .. End(w) - 1 : t < End(w) => t \in S
    BY <1>1, <1>2, SMTT(60)
  <2>7. End(w) \notin S /\ b <= End(w)
    BY <1>1, SMTT(60)
  <2> HIDE DEF S
  <2> QED BY <1>1, <2>2, <2>3, <2>4, <2>5, <2>6, <2>7, Ends
<1>3. CASE ~bt.done /\ bt # NoBeat
  <2> DEFINE c == bt.index + 1
             T == S \cup {c}
  <2>1. /\ Count(s, T)
        /\ sup' = [sup EXCEPT ![s].pc = "round", ![s].cur = c, ![s].conn = cn]
    BY <1>3 DEF Exited
  <2>2. sup' \in [Threads -> Sup]
    <3>1. c \in Int
      BY <1>1, SMTT(60)
    <3> QED BY <1>1, <2>1, <3>1, SetField DEF TypeOK
  <2>3. /\ \A u \in Threads : u # s => sup'[u] = sup[u]
        /\ sup'[s].cur = c /\ sup'[s].pc = "round" /\ sup'[s].win = w /\ sup'[s].conn = cn
    BY <1>1, <2>1 DEF TypeOK, Sup
  <2>4. Count(s, T)
    BY <2>1
  <2>5. b <= bt.index /\ bt.index < End(w)
    BY <1>3
  <2>6. \A t \in T : t \in Int /\ b <= t /\ t <= c /\ t <= End(w)
    BY <1>1, <2>5, SMTT(60)
  <2>7. \A t \in b .. End(w) - 1 : t < c => t \in T
    BY <1>1, SMTT(60)
  <2>8. c \in Int /\ b < c /\ b <= c
    BY <1>1, <2>5, SMTT(60)
  <2> HIDE DEF T, c
  <2> QED BY <2>2, <2>3, <2>4, <2>6, <2>7, <2>8, Ends
<1>4. CASE bt = NoBeat
  <2> DEFINE c == b + 1
             T == {b}
  <2>0. ~bt.done
    BY <1>4 DEF NoBeat
  <2>1. /\ Count(s, T)
        /\ sup' = [sup EXCEPT ![s].pc = "round", ![s].cur = c, ![s].conn = cn]
    BY <1>4, <2>0 DEF Exited
  <2>2. sup' \in [Threads -> Sup]
    <3>1. c \in Int
      BY <1>1, SMTT(60)
    <3> QED BY <1>1, <2>1, <3>1, SetField DEF TypeOK
  <2>3. /\ \A u \in Threads : u # s => sup'[u] = sup[u]
        /\ sup'[s].cur = c /\ sup'[s].pc = "round" /\ sup'[s].win = w /\ sup'[s].conn = cn
    BY <1>1, <2>1 DEF TypeOK, Sup
  <2>4. Count(s, T)
    BY <2>1
  <2>5. \A t \in T : t \in Int /\ b <= t /\ t <= c /\ t <= End(w)
    BY <1>1, SMTT(60)
  <2>6. \A t \in b .. End(w) - 1 : t < c => t \in T
    BY <1>1, SMTT(60)
  <2>7. c \in Int /\ b < c /\ b <= c
    BY <1>1, SMTT(60)
  <2> HIDE DEF T, c
  <2> QED BY <2>2, <2>3, <2>4, <2>5, <2>6, <2>7, Ends
<1> QED BY <1>2, <1>3, <1>4

LEMMA ExitSeenKeeps ==
    ASSUME IInv, NEW s \in Threads, ExitSeen(s)
    PROVE  IInv'
<1>1. /\ sup[s].pc = "poll" /\ Exited(s, sup[s].beat, Nobody)
      /\ next' = next /\ mode' = mode /\ backlog' = backlog /\ proc' = proc
    BY DEF ExitSeen, world
<1>2. /\ TypeOK /\ Stream(s, sup[s].conn) /\ sup[s].beat \in [done : BOOLEAN, index : Int]
      /\ sup[s].beat # NoBeat => sup[s].cur <= sup[s].beat.index
    BY <1>1, Polling
<1>3. /\ sup[s].beat.done => End(sup[s].win) - 1 <= sup[s].beat.index
      /\ ~sup[s].beat.done => sup[s].beat.index < End(sup[s].win)
    BY <1>2 DEF Stream
<1>4. Nobody \in 0 .. MaxProcs
    BY Sizes, SMTT(60) DEF Nobody
<1>5. /\ sup' \in [Threads -> Sup] /\ Places' /\ Tallied' /\ tally' \in Tallies
      /\ \A u \in Threads : u # s => sup'[u] = sup[u]
      /\ sup'[s].pc = "round" /\ sup'[s].conn = Nobody
    BY <1>1, <1>2, <1>3, <1>4, ExitedEnds
<1>6. TypeOK'
    BY <1>1, <1>2, <1>5 DEF TypeOK
<1>7. Lines'
  <2>1. \A u \in Threads : sup'[u].conn \in {sup[u].conn, Nobody}
    BY <1>5
  <2> QED BY <1>1, <2>1, LinesSame
<1>8. Line(s)'
    BY <1>5 DEF Line, Nobody
<1>9. ASSUME NEW u \in Threads, u # s PROVE Line(u)'
  <2>1. Line(u) /\ sup'[u] = sup[u]
    BY <1>5, <1>9 DEF IInv
  <2> QED BY <1>1, <2>1, LineSame
<1> QED BY <1>5, <1>6, <1>7, <1>8, <1>9 DEF IInv

\* A flag of a record is set.
LEMMA SetFlag ==
    /\ \A d \in [done : BOOLEAN, index : Int] :
         /\ [d EXCEPT !.done = TRUE] \in [done : BOOLEAN, index : Int]
         /\ [d EXCEPT !.done = TRUE].index = d.index
    /\ \A d \in [st : States, pos : Int, lim : Int, out : Outputs, told : BOOLEAN] :
         [d EXCEPT !.told = TRUE]
           \in [st : States, pos : Int, lim : Int, out : Outputs, told : BOOLEAN]
<1>1. \A B : \A d \in [done : B, index : Int], x \in B :
        [d EXCEPT !.done = x] \in [done : B, index : Int] /\ [d EXCEPT !.done = x].index = d.index
    OBVIOUS
<1>2. \A B : \A d \in [st : States, pos : Int, lim : Int, out : Outputs, told : B], x \in B :
        [d EXCEPT !.told = x] \in [st : States, pos : Int, lim : Int, out : Outputs, told : B]
    OBVIOUS
<1>3. TRUE \in BOOLEAN
    OBVIOUS
<1> QED BY <1>1, <1>2, <1>3

LEMMA ReadFrameKeeps ==
    ASSUME IInv, NEW s \in Threads, ReadFrame(s)
    PROVE  IInv'
<1>0. PICK p : p = sup[s].conn
    OBVIOUS
<1>o. PICK o : o = proc[p].out
    OBVIOUS
<1>1. /\ sup[s].pc = "poll" /\ p # Nobody /\ o # <<>>
      /\ next' = next /\ mode' = mode /\ backlog' = backlog
    BY <1>0, <1>o DEF ReadFrame, world
<1>2. proc' = [proc EXCEPT ![p].out = Tail(o)]
    BY <1>0, <1>o DEF ReadFrame
<1>3. /\ TypeOK /\ sup[s] \in Sup /\ Stream(s, p) /\ sup[s].cur \in Nat
      /\ sup[s].cur < End(sup[s].win) /\ End(sup[s].win) \in Nat
      /\ sup[s].beat \in [done : BOOLEAN, index : Int] /\ sup[s].beat.index \in Int
      /\ sup[s].beat # NoBeat => sup[s].cur <= sup[s].beat.index
      /\ Seen(s) \in Int /\ sup[s].cur - 1 <= Seen(s)
    BY <1>0, <1>1, Polling
<1>4. /\ p \in Procs /\ mode = "safe" /\ InOrder(s, p) /\ Runs(s, p)
      /\ proc[p].st \in {"running", "idle", "dead"} /\ ~sup[s].beat.done
    BY <1>o, <1>1, <1>3 DEF Stream, TypeOK
<1>5. o \in Seq(Int)
    BY <1>o, <1>3, <1>4 DEF TypeOK, Proc, Outputs
<1>6. PICK q \in Seq(Int) : q = Tail(o)
  <2>1. Tail(o) \in Seq(Int)
    BY <1>1, <1>5, HeadTailProperties
  <2> QED BY <2>1
<1>7. PICK h \in Int : h = Head(o)
    BY <1>1, <1>5, SMTT(60)
<1>8. /\ Len(o) \in Nat /\ Len(o) >= 1 /\ Len(q) = Len(o) - 1 /\ o[1] = h /\ 1 \in 1 .. Len(o)
      /\ \A i \in 1 .. Len(q) : q[i] = o[i + 1] /\ i + 1 \in 1 .. Len(o)
  <2>1. Len(o) \in Nat /\ Len(o) # 0 /\ o[1] = h
    BY <1>1, <1>5, <1>7, SMTT(60)
  <2>2. Len(q) = Len(o) - 1
    BY <1>1, <1>5, <1>6, SMTT(60)
  <2>3. \A i \in 1 .. Len(q) : q[i] = o[i + 1]
    BY <1>1, <1>5, <1>6, HeadTailProperties
  <2> QED BY <2>1, <2>2, <2>3, SMTT(60)
<1>9. \A i \in 1 .. Len(o) : \/ o[i] = Seen(s) + i /\ Seen(s) + i < End(sup[s].win)
                             \/ i = Len(o) /\ o[i] = -1 /\ Seen(s) + i = End(sup[s].win)
    BY <1>o, <1>4 DEF InOrder
<1>10. proc[p].st = "running" => /\ proc[p].lim = End(sup[s].win) /\ sup[s].cur <= proc[p].pos
                                 /\ proc[p].pos <= proc[p].lim
                                 /\ Seen(s) + Len(o) = proc[p].pos - 1
                                 /\ \A i \in 1 .. Len(o) : o[i] # -1
    BY <1>o, <1>4 DEF Runs
<1>11. proc' \in [Procs -> Proc]
  <2>1. Tail(o) \in Outputs
    BY <1>6 DEF Outputs
  <2> QED BY <1>2, <1>3, <1>4, <2>1, SetProc DEF TypeOK
<1>12. /\ proc'[p].out = q /\ proc'[p].st = proc[p].st /\ proc'[p].pos = proc[p].pos
       /\ proc'[p].lim = proc[p].lim
       /\ \A r \in Procs : r # p => proc'[r] = proc[r]
    BY <1>2, <1>3, <1>4, <1>6 DEF TypeOK, Proc
<1>13. ASSUME NEW u \in Threads, u # s, sup'[u] = sup[u] PROVE Line(u)'
  <2>1. sup[u].conn # p
    BY <1>0, <1>1, <1>13 DEF IInv, Lines, Reader
  <2>2. sup[u].conn # Nobody => proc'[sup[u].conn] = proc[sup[u].conn]
    BY <1>3, <1>12, <2>1, Types
  <2>3. Line(u)
    BY DEF IInv
  <2> QED BY <1>1, <1>13, <2>2, <2>3, LineSame
<1>14. ASSUME \A u \in Threads : sup'[u].conn = sup[u].conn PROVE Lines'
  <2>1. \A r \in Procs : \/ proc'[r].st = proc[r].st /\ proc'[r].out = proc[r].out
                         \/ proc'[r].st = "dead"
                         \/ /\ proc[r].st \in {"idle", "running"}
                            /\ proc'[r].st \in {"idle", "running"}
    BY <1>4, <1>12
  <2> QED BY <1>1, <1>14, <2>1, LinesSame
<1>15. CASE h = -1
  <2>1. Len(o) = 1 /\ Seen(s) + 1 = End(sup[s].win)
    BY <1>3, <1>8, <1>9, <1>15, SMTT(60)
  <2>2. sup[s].beat # NoBeat /\ sup[s].beat.index = End(sup[s].win) - 1
    BY <1>3, <2>1, SMTT(60) DEF Seen
  <2>3. PICK bt : bt = [sup[s].beat EXCEPT !.done = TRUE]
    OBVIOUS
  <2>4. /\ bt \in [done : BOOLEAN, index : Int] /\ bt.index = sup[s].beat.index
    BY <1>3, <2>3, SetFlag
  <2>5. Exited(s, bt, p)
    BY <1>0, <1>o, <1>7, <1>15, <2>3 DEF ReadFrame
  <2>6. /\ bt # NoBeat => sup[s].cur <= bt.index
        /\ bt.done => End(sup[s].win) - 1 <= bt.index
        /\ ~bt.done => bt.index < End(sup[s].win)
    BY <1>3, <2>2, <2>4, SMTT(60)
  <2>7. p \in 0 .. MaxProcs
    BY <1>4, Sizes, SMTT(60) DEF Procs
  <2>8. /\ sup' \in [Threads -> Sup] /\ Places' /\ Tallied' /\ tally' \in Tallies
        /\ \A u \in Threads : u # s => sup'[u] = sup[u]
        /\ sup'[s].pc = "round" /\ sup'[s].conn = p
    BY <1>1, <2>4, <2>5, <2>6, <2>7, ExitedEnds
  <2>9. TypeOK'
    BY <1>1, <1>3, <1>11, <2>8 DEF TypeOK
  <2>10. Line(s)'
    <3>1. q = <<>>
      BY <1>8, <2>1, EmptySeq, SMTT(60)
    <3>2. proc[p].st # "running"
      BY <1>8, <1>10, <1>15
    <3> QED BY <1>4, <1>12, <2>8, <3>1, <3>2 DEF Line
  <2>11. \A u \in Threads : sup'[u].conn = sup[u].conn
    BY <1>0, <2>8
  <2> QED BY <1>13, <1>14, <2>8, <2>9, <2>10, <2>11 DEF IInv
<1>16. CASE h # -1
  <2>1. h = Seen(s) + 1 /\ h < End(sup[s].win)
    BY <1>8, <1>9, <1>16
  <2> DEFINE bt == [done |-> FALSE, index |-> h]
  <2>2. sup' = [sup EXCEPT ![s].beat = bt] /\ tally' = tally
    BY <1>0, <1>o, <1>7, <1>16 DEF ReadFrame
  <2>3. sup' \in [Threads -> Sup]
    <3>1. bt \in [done : BOOLEAN, index : Int]
      OBVIOUS
    <3> QED BY <1>3, <2>2, <3>1, SetField DEF TypeOK
  <2>4. /\ \A u \in Threads : u # s => sup'[u] = sup[u]
        /\ sup'[s].pc = sup[s].pc /\ sup'[s].win = sup[s].win /\ sup'[s].cur = sup[s].cur
        /\ sup'[s].conn = sup[s].conn /\ sup'[s].beat = bt
    BY <1>3, <2>2 DEF TypeOK, Sup
  <2>5. tally' = tally
    BY <2>2
  <2>6. TypeOK'
    BY <1>1, <1>3, <1>11, <2>3, <2>5 DEF TypeOK
  <2>7. Places' /\ Tallied'
    BY <1>1, <2>3, <2>4, <2>5, Still
  <2>8. \A u \in Threads : sup'[u].conn = sup[u].conn
    BY <2>4
  <2>9. sup'[s].beat # NoBeat /\ sup'[s].beat.index = h /\ ~sup'[s].beat.done
    <3>1. bt.index = h /\ ~bt.done
      OBVIOUS
    <3>2. NoBeat.index = -1
      BY DEF NoBeat
    <3> QED BY <1>16, <2>4, <3>1, <3>2
  <2>10. Seen(s)' = Seen(s) + 1 /\ sup[s].cur <= h
    BY <1>3, <2>1, <2>9, SMTT(60) DEF Seen, NoBeat
  <2>11. InOrder(s, p)'
    <3> SUFFICES ASSUME NEW i \in 1 .. Len(q)
                 PROVE  \/ q[i] = Seen(s) + 1 + i /\ Seen(s) + 1 + i < End(sup[s].win)
                        \/ i = Len(q) /\ q[i] = -1 /\ Seen(s) + 1 + i = End(sup[s].win)
      BY <1>12, <2>4, <2>10, SMTT(60) DEF InOrder, End
    <3>1. q[i] = o[i + 1] /\ i + 1 \in 1 .. Len(o) /\ Len(q) = Len(o) - 1 /\ Len(o) \in Nat
      BY <1>8
    <3>2. \/ o[i + 1] = Seen(s) + (i + 1) /\ Seen(s) + (i + 1) < End(sup[s].win)
          \/ i + 1 = Len(o) /\ o[i + 1] = -1 /\ Seen(s) + (i + 1) = End(sup[s].win)
      BY <1>9, <3>1
    <3>3. Seen(s) + (i + 1) = Seen(s) + 1 + i /\ (i + 1 = Len(o) => i = Len(q))
      <4>1. \A a \in Int, m \in Nat, j \in Int : a + (j + 1) = a + 1 + j /\ (j + 1 = m => j = m - 1)
        BY SMTT(60)
      <4>2. Seen(s) \in Int /\ i \in Int
        BY <1>3, SMTT(60)
      <4> QED BY <3>1, <4>1, <4>2
    <3> QED BY <3>1, <3>2, <3>3
  <2>12. Runs(s, p)'
    <3>1. CASE proc[p].st = "running"
      <4>1. /\ proc[p].lim = End(sup[s].win) /\ sup[s].cur <= proc[p].pos
            /\ proc[p].pos <= proc[p].lim
            /\ Seen(s) + Len(o) = proc[p].pos - 1
            /\ \A i \in 1 .. Len(o) : o[i] # -1
        BY <1>10, <3>1
      <4>2. Seen(s) + 1 + Len(q) = proc[p].pos - 1
        BY <1>3, <1>8, <4>1, SMTT(60)
      <4>3. \A i \in 1 .. Len(q) : q[i] # -1
        BY <1>8, <4>1
      <4> QED BY <1>12, <2>4, <2>9, <2>10, <4>1, <4>2, <4>3 DEF Runs, End
    <3>2. CASE proc[p].st # "running"
      BY <1>12, <3>2 DEF Runs
    <3> QED BY <3>1, <3>2
  <2>13. Stream(s, p)'
    BY <1>1, <1>4, <1>12, <2>1, <2>4, <2>9, <2>10, <2>11, <2>12 DEF Stream, NoBeat, End
  <2>14. Line(s)'
    BY <1>0, <1>1, <2>4, <2>13 DEF Line
  <2> QED BY <1>13, <1>14, <2>4, <2>6, <2>7, <2>8, <2>14 DEF IInv
<1> QED BY <1>15, <1>16

\* kill: the thread's process dies, its connection is told and emptied.
LEMMA Killed ==
    ASSUME IInv, NEW s \in Threads, sup[s].pc = "poll", Kill(s), mode' = mode, backlog' = backlog,
           \A u \in Threads : u # s => sup'[u] = sup[u],
           sup'[s].pc = "round", sup'[s].conn = Nobody
    PROVE  proc' \in [Procs -> Proc] /\ Lines' /\ \A u \in Threads : Line(u)'
<1>0. PICK p : p = sup[s].conn
    OBVIOUS
<1>1. TypeOK /\ Stream(s, p) /\ p # Nobody
    BY <1>0, Polling
<1>2. proc[p].st \in {"running", "idle", "dead"} /\ p \in Procs
    BY <1>1 DEF Stream
<1>3. \A q \in Procs : proc[q] \in Proc /\ proc[q].out \in Outputs /\ <<>> \in Outputs
    BY <1>1, SMTT(60) DEF TypeOK, Proc, Outputs
<1>4. proc' = [q \in Procs |-> AfterKill(s, q)] /\ \A q \in Procs : proc'[q] = AfterKill(s, q)
    BY DEF Kill
<1>5. ASSUME NEW r \in Proc
      PROVE  LET e == [r EXCEPT !.told = TRUE, !.out = <<>>]
             IN  e \in Proc /\ e.st = r.st
  <2>1. <<>> \in Outputs
    BY SMTT(60) DEF Outputs
  <2>2. \A d \in Proc : [d EXCEPT !.told = TRUE] \in Proc
    BY SetFlag DEF Proc
  <2>3. \A d \in Proc : \A x \in Outputs : [d EXCEPT !.out = x] \in Proc
    BY DEF Proc
  <2>4. [r EXCEPT !.told = TRUE, !.out = <<>>] \in Proc
    BY <2>1, <2>2, <2>3
  <2>5. [r EXCEPT !.told = TRUE, !.out = <<>>].st = r.st
    BY DEF Proc
  <2> QED BY <2>4, <2>5
<1>6. ASSUME NEW q \in Procs
      PROVE  /\ proc'[q] \in Proc
             /\ q # p => proc'[q] = proc[q] \/ (proc'[q].st = "dead" /\ proc'[q].out = proc[q].out)
             /\ q = p => proc'[q].st \in {"dead", proc[q].st}
  <2>1. CASE q = sup[s].child
    <3>1. PICK x : x = IF q = sup[s].conn THEN <<>> ELSE proc[q].out
      OBVIOUS
    <3>2. x \in Outputs /\ (q # p => x = proc[q].out)
      BY <1>0, <1>3, <3>1
    <3>3. proc'[q] = [Dead EXCEPT !.out = x]
      BY <1>4, <2>1, <3>1 DEF AfterKill
    <3> QED BY <3>2, <3>3, DeadProc, SMTT(60)
  <2>2. CASE q # sup[s].child /\ q = p
    <3>1. proc'[q] = [proc[q] EXCEPT !.told = TRUE, !.out = <<>>]
      BY <1>0, <1>4, <2>2 DEF AfterKill
    <3>2. proc[q] \in Proc
      BY <1>3
    <3> QED BY <1>5, <2>2, <3>1, <3>2
  <2>3. CASE q # sup[s].child /\ q # p
    BY <1>0, <1>3, <1>4, <2>3 DEF AfterKill
  <2> QED BY <2>1, <2>2, <2>3
<1>7. proc' \in [Procs -> Proc]
  <2>1. \A q \in Procs : AfterKill(s, q) \in Proc
    BY <1>4, <1>6
  <2> QED BY <1>4, <2>1
<1>8. Lines'
  <2>1. \A q \in Procs : \/ proc'[q].st = proc[q].st /\ proc'[q].out = proc[q].out
                         \/ proc'[q].st = "dead"
                         \/ /\ proc[q].st \in {"idle", "running"}
                            /\ proc'[q].st \in {"idle", "running"}
    BY <1>2, <1>6
  <2>2. \A u \in Threads : sup'[u].conn \in {sup[u].conn, Nobody}
    OBVIOUS
  <2> QED BY <2>1, <2>2, LinesSame
<1>9. Line(s)'
    BY DEF Line, Nobody
<1>10. ASSUME NEW u \in Threads, u # s PROVE Line(u)'
  <2>1. sup[u].conn # p
    BY <1>0, <1>1, <1>10 DEF IInv, Lines, Reader
  <2>2. sup[u].conn # Nobody => sup[u].conn \in Procs
    BY <1>1, Types
  <2>3. Line(u) /\ sup'[u] = sup[u]
    BY <1>10 DEF IInv
  <2> QED BY <1>6, <2>1, <2>2, <2>3, LineSame
<1> QED BY <1>7, <1>8, <1>9, <1>10

LEMMA WaitErrorKeeps ==
    ASSUME IInv, NEW s \in Threads, WaitError(s)
    PROVE  IInv'
<1> DEFINE c == sup[s].cur + 1
           T == {sup[s].cur}
<1>1. /\ sup[s].pc = "poll" /\ Kill(s) /\ Count(s, T)
      /\ next' = next /\ mode' = mode /\ backlog' = backlog
    BY DEF WaitError, world
<1>2. sup' = [sup EXCEPT ![s].pc = "round", ![s].cur = c, ![s].conn = Nobody, ![s].child = Nobody]
    BY DEF WaitError
<1>3. /\ TypeOK /\ sup[s] \in Sup /\ sup[s].cur \in Nat
      /\ sup[s].cur < End(sup[s].win) /\ End(sup[s].win) \in Nat
    BY <1>1, Polling
<1>4. sup' \in [Threads -> Sup]
  <2>1. Nobody \in 0 .. MaxProcs /\ c \in Int
    BY <1>3, Sizes, SMTT(60) DEF Nobody
  <2> QED BY <1>2, <1>3, <2>1, SetField DEF TypeOK
<1>5. /\ \A u \in Threads : u # s => sup'[u] = sup[u]
      /\ sup'[s].pc = "round" /\ sup'[s].cur = c /\ sup'[s].conn = Nobody
      /\ sup'[s].win = sup[s].win
    BY <1>2, <1>3 DEF TypeOK, Sup
<1>6. Places' /\ Tallied' /\ tally' \in Tallies
  <2>1. \A t \in T : t \in Int /\ sup[s].cur <= t /\ t <= c /\ t <= End(sup[s].win)
    BY <1>3, SMTT(60)
  <2>2. \A t \in sup[s].cur .. End(sup[s].win) - 1 : t < c => t \in T
    BY <1>3, SMTT(60)
  <2>3. c \in Int /\ sup[s].cur < c /\ sup[s].cur <= c
    BY <1>3, SMTT(60)
  <2> HIDE DEF T, c
  <2> QED BY <1>1, <1>4, <1>5, <2>1, <2>2, <2>3, Ends
<1>7. proc' \in [Procs -> Proc] /\ Lines' /\ \A u \in Threads : Line(u)'
    BY <1>1, <1>5, Killed
<1>8. TypeOK'
    BY <1>1, <1>3, <1>4, <1>6, <1>7 DEF TypeOK
<1> QED BY <1>6, <1>7, <1>8 DEF IInv

LEMMA TimeoutKeeps ==
    ASSUME IInv, NEW s \in Threads, Timeout(s)
    PROVE  IInv'
<1> DEFINE c == Culprit(s) + 1
           T == Covered(s) \cup {Culprit(s)}
<1>1. /\ sup[s].pc = "poll" /\ Kill(s) /\ Count(s, T)
      /\ next' = next /\ mode' = mode /\ backlog' = backlog
    BY DEF Timeout, world
<1>2. sup' = [sup EXCEPT ![s].pc = "round", ![s].cur = c, ![s].conn = Nobody, ![s].child = Nobody]
    BY DEF Timeout
<1>3. /\ TypeOK /\ sup[s] \in Sup /\ sup[s].cur \in Nat /\ sup[s].beat.index \in Int
      /\ End(sup[s].win) \in Nat /\ sup[s].cur < End(sup[s].win)
      /\ sup[s].beat # NoBeat => sup[s].cur <= sup[s].beat.index
      /\ sup[s].beat.index < End(sup[s].win)
  <2>1. Stream(s, sup[s].conn) /\ proc[sup[s].conn].st = "running"
    BY <1>1, Polling DEF Timeout, Overdue
  <2>2. ~sup[s].beat.done
    BY <2>1 DEF Stream, Runs
  <2> QED BY <1>1, <2>2, Polling
<1>4. /\ Culprit(s) \in Int /\ sup[s].cur <= Culprit(s) /\ Culprit(s) <= End(sup[s].win)
      /\ \A t \in Covered(s) : t \in Int /\ sup[s].cur <= t /\ t < Culprit(s)
      /\ \A t \in sup[s].cur .. End(sup[s].win) - 1 : t < Culprit(s) => t \in Covered(s)
  <2>1. CASE sup[s].beat = NoBeat
    <3>1. sup[s].beat.index = -1 /\ Culprit(s) = sup[s].cur
      BY <2>1, SMTT(60) DEF NoBeat, Culprit
    <3> QED BY <1>3, <3>1, SMTT(60) DEF Covered
  <2>2. CASE sup[s].beat # NoBeat
    <3>1. sup[s].cur <= sup[s].beat.index /\ Culprit(s) = sup[s].beat.index + 1
      BY <1>3, <2>2 DEF Culprit
    <3> QED BY <1>3, <3>1, SMTT(60) DEF Covered
  <2> QED BY <2>1, <2>2
<1>5. sup' \in [Threads -> Sup]
  <2>1. Nobody \in 0 .. MaxProcs /\ c \in Int
    BY <1>4, Sizes, SMTT(60) DEF Nobody
  <2> QED BY <1>2, <1>3, <2>1, SetField DEF TypeOK
<1>6. /\ \A u \in Threads : u # s => sup'[u] = sup[u]
      /\ sup'[s].pc = "round" /\ sup'[s].cur = c /\ sup'[s].conn = Nobody
      /\ sup'[s].win = sup[s].win
    BY <1>2, <1>3 DEF TypeOK, Sup
<1>7. Places' /\ Tallied' /\ tally' \in Tallies
  <2>1. \A t \in T : t \in Int /\ sup[s].cur <= t /\ t <= c /\ t <= End(sup[s].win)
    BY <1>3, <1>4, SMTT(60)
  <2>2. \A t \in sup[s].cur .. End(sup[s].win) - 1 : t < c => t \in T
    BY <1>3, <1>4, SMTT(60)
  <2>3. c \in Int /\ sup[s].cur < c /\ sup[s].cur <= c
    BY <1>3, <1>4, SMTT(60)
  <2> HIDE DEF T, c
  <2> QED BY <1>1, <1>5, <1>6, <2>1, <2>2, <2>3, Ends
<1>8. proc' \in [Procs -> Proc] /\ Lines' /\ \A u \in Threads : Line(u)'
    BY <1>1, <1>6, Killed
<1>9. TypeOK'
    BY <1>1, <1>3, <1>5, <1>7, <1>8 DEF TypeOK
<1> QED BY <1>7, <1>8, <1>9 DEF IInv

-----------------------------------------------------------------------------
(* The steps of a process.                                                 *)

LEMMA ConnectKeeps ==
    ASSUME IInv, NEW p \in Procs, Connect(p)
    PROVE  IInv'
<1>1. /\ proc[p].st = "starting" /\ sup' = sup /\ tally' = tally
      /\ next' = next /\ mode' = mode /\ backlog' = Append(backlog, p)
    BY DEF Connect, world
<1>2. proc' = [proc EXCEPT ![p].st = "queued"]
    BY DEF Connect
<1>3. /\ TypeOK /\ backlog \in Seq(Procs) /\ \A u \in Threads : Line(u)
      /\ Reader /\ Waiting /\ Unheard
    BY DEF IInv, TypeOK, Lines
<1>4. proc' \in [Procs -> Proc]
  <2>1. "queued" \in States
    BY DEF States
  <2> QED BY <1>2, <1>3, <2>1, SetProc DEF TypeOK
<1>5. /\ proc'[p].st = "queued" /\ proc'[p].out = proc[p].out
      /\ \A q \in Procs : q # p => proc'[q] = proc[q]
    BY <1>2, <1>3 DEF TypeOK, Proc
<1>6. \A s \in Threads : sup[s].conn # p
    BY <1>1, <1>3 DEF Unheard
<1>7. /\ backlog' \in Seq(Procs) /\ Len(backlog') = Len(backlog) + 1 /\ Len(backlog) \in Nat
      /\ backlog'[Len(backlog) + 1] = p
      /\ \A i \in 1 .. Len(backlog) : backlog'[i] = backlog[i] /\ backlog[i] \in Procs
    BY <1>1, <1>3, AppendProperties, SMTT(60)
<1>8. TypeOK'
    BY <1>1, <1>3, <1>4, <1>7 DEF TypeOK
<1>9. Places' /\ Tallied'
  <2>1. sup' \in [Threads -> Sup]
    BY <1>1, <1>3 DEF TypeOK
  <2> QED BY <1>1, <2>1, Still
<1>10. Reader'
    BY <1>1, <1>3 DEF Reader, Nobody
<1>11. Unheard'
    BY <1>1, <1>3, <1>5 DEF Unheard
<1>12. \A i \in 1 .. Len(backlog) : backlog[i] # p
    BY <1>1, <1>3 DEF Waiting
<1>13. Waiting'
  <2>1. \A i \in 1 .. Len(backlog') : i \in 1 .. Len(backlog) \/ i = Len(backlog) + 1
    BY <1>7, SMTT(60)
  <2>2. ASSUME NEW i \in 1 .. Len(backlog'), NEW j \in 1 .. Len(backlog'),
               backlog'[i] = backlog'[j]
        PROVE  i = j
    <3>1. \A k, m \in 1 .. Len(backlog) : backlog[k] = backlog[m] => k = m
      BY <1>3 DEF Waiting
    <3> QED BY <1>7, <1>12, <2>1, <2>2, <3>1
  <2>3. ASSUME NEW i \in 1 .. Len(backlog')
        PROVE  /\ proc'[backlog'[i]].st \in {"queued", "dead"}
               /\ \A s \in Threads : sup'[s].conn # backlog'[i]
    <3>1. CASE i \in 1 .. Len(backlog)
      <4>1. /\ proc[backlog[i]].st \in {"queued", "dead"}
            /\ \A s \in Threads : sup[s].conn # backlog[i]
        BY <1>3, <3>1 DEF Waiting
      <4> QED BY <1>1, <1>5, <1>7, <1>12, <3>1, <4>1
    <3>2. CASE i = Len(backlog) + 1
      BY <1>1, <1>5, <1>6, <1>7, <3>2
    <3> QED BY <2>1, <3>1, <3>2
  <2> QED BY <2>2, <2>3 DEF Waiting
<1>14. ASSUME NEW u \in Threads PROVE Line(u)'
  <2>1. sup[u].conn # Nobody => proc'[sup[u].conn] = proc[sup[u].conn]
    BY <1>3, <1>5, <1>6, Types
  <2>2. Line(u) /\ sup'[u] = sup[u] /\ mode' = mode
    BY <1>1, <1>3
  <2> QED BY <2>1, <2>2, LineSame
<1> QED BY <1>8, <1>9, <1>10, <1>11, <1>13, <1>14 DEF IInv, Lines

\* A process dies.
LEMMA Dies ==
    ASSUME IInv, NEW p \in Procs, NEW r \in Proc, proc' = [proc EXCEPT ![p] = r],
           r.st = "dead", r.out \in {proc[p].out, <<>>},
           sup' = sup, tally' = tally, next' = next, mode' = mode, backlog' = backlog
    PROVE  IInv'
<1>1. TypeOK /\ \A u \in Threads : Line(u)
    BY DEF IInv
<1>2. /\ proc' \in [Procs -> Proc] /\ proc'[p] = r
      /\ \A q \in Procs : q # p => proc'[q] = proc[q]
    BY <1>1 DEF TypeOK
<1>3. TypeOK'
    BY <1>1, <1>2 DEF TypeOK
<1>4. Places' /\ Tallied'
  <2>1. sup' \in [Threads -> Sup]
    BY <1>1 DEF TypeOK
  <2>2. \A u \in Threads : /\ sup'[u].win = sup[u].win /\ sup'[u].cur = sup[u].cur
                           /\ sup'[u].pc = sup[u].pc
    OBVIOUS
  <2> QED BY <2>1, <2>2, Still
<1>5. Lines'
  <2>1. \A q \in Procs : \/ proc'[q].st = proc[q].st /\ proc'[q].out = proc[q].out
                         \/ proc'[q].st = "dead"
                         \/ /\ proc[q].st \in {"idle", "running"}
                            /\ proc'[q].st \in {"idle", "running"}
    BY <1>2
  <2>2. \A u \in Threads : sup'[u].conn \in {sup[u].conn, Nobody}
    OBVIOUS
  <2> QED BY <2>1, <2>2, LinesSame
<1>6. ASSUME NEW u \in Threads PROVE Line(u)'
  <2>1. sup[u].conn # Nobody =>
          \/ proc'[sup[u].conn] = proc[sup[u].conn]
          \/ /\ proc'[sup[u].conn].st = "dead"
             /\ proc'[sup[u].conn].out \in {proc[sup[u].conn].out, <<>>}
    BY <1>1, <1>2, Types
  <2>2. Line(u) /\ sup'[u] = sup[u]
    BY <1>1
  <2> QED BY <2>1, <2>2, LineSame
<1> QED BY <1>3, <1>4, <1>5, <1>6 DEF IInv

\* ... and what it wrote can still be read.
LEMMA DiesUnread ==
    ASSUME IInv, NEW p \in Procs, proc' = [proc EXCEPT ![p] = [Dead EXCEPT !.out = proc[p].out]],
           sup' = sup, tally' = tally, next' = next, mode' = mode, backlog' = backlog
    PROVE  IInv'
<1>1. proc[p].out \in Outputs
    BY DEF IInv, TypeOK, Proc
<1>2. PICK r \in Proc : /\ r = [Dead EXCEPT !.out = proc[p].out]
                        /\ r.st = "dead" /\ r.out = proc[p].out
    BY <1>1, DeadProc
<1>3. proc' = [proc EXCEPT ![p] = r] /\ r.out \in {proc[p].out, <<>>}
    BY <1>2
<1> QED BY <1>2, <1>3, Dies

LEMMA CrashKeeps ==
    ASSUME IInv, NEW p \in Procs, Crash(p)
    PROVE  IInv'
<1>1. /\ sup' = sup /\ tally' = tally /\ next' = next /\ mode' = mode /\ backlog' = backlog
      /\ proc' = [proc EXCEPT ![p] = [Dead EXCEPT !.out = proc[p].out]]
    BY DEF Crash, world
<1> QED BY <1>1, DiesUnread

LEMMA GiveUpKeeps ==
    ASSUME IInv, NEW p \in Procs, GiveUp(p)
    PROVE  IInv'
<1>1. /\ sup' = sup /\ tally' = tally /\ next' = next /\ mode' = mode /\ backlog' = backlog
      /\ proc' = [proc EXCEPT ![p] = [Dead EXCEPT !.out = proc[p].out]]
    BY DEF GiveUp, world
<1> QED BY <1>1, DiesUnread

LEMMA LeaveKeeps ==
    ASSUME IInv, NEW p \in Procs, Leave(p)
    PROVE  IInv'
<1>1. /\ sup' = sup /\ tally' = tally /\ next' = next /\ mode' = mode /\ backlog' = backlog
      /\ proc' = [proc EXCEPT ![p] = Dead]
    BY DEF Leave, world
<1>2. Dead \in Proc /\ Dead.st = "dead" /\ Dead.out = <<>>
    BY DeadProc
<1>3. Dead.out \in {proc[p].out, <<>>}
    BY <1>2
<1> QED BY <1>1, <1>2, <1>3, Dies

\* A heartbeat: in local mode it may change the beat of the thread the process
\* works for, otherwise nothing.
LEMMA Beats ==
    ASSUME IInv, NEW p \in Procs, NEW d \in BOOLEAN, NEW k \in Int, Beat(p, d, k)
    PROVE  /\ sup' \in [Threads -> Sup]
           /\ \A u \in Threads :
                /\ sup'[u].pc = sup[u].pc /\ sup'[u].win = sup[u].win /\ sup'[u].cur = sup[u].cur
                /\ sup'[u].conn = sup[u].conn
                /\ sup[u].conn # p => sup'[u] = sup[u]
                /\ sup'[u].beat = sup[u].beat
                   \/ (mode = "local" /\ sup'[u].beat = [done |-> d, index |-> k])
<1>1. TypeOK /\ \A u \in Threads : sup[u] \in Sup
    BY Types DEF IInv
<1>2. CASE sup' = sup
    BY <1>1, <1>2 DEF TypeOK
<1>3. CASE sup' # sup
  <2> DEFINE b == [done |-> d, index |-> k]
  <2>1. /\ mode = "local"
        /\ sup' = [u \in Threads |-> IF sup[u].conn = p THEN [sup[u] EXCEPT !.beat = b] ELSE sup[u]]
    BY <1>3 DEF Beat, Serves
  <2>2. b \in [done : BOOLEAN, index : Int]
    OBVIOUS
  <2> HIDE DEF b
  <2>3. \A x \in Sup :
          /\ [x EXCEPT !.beat = b] \in Sup /\ [x EXCEPT !.beat = b].beat = b
          /\ [x EXCEPT !.beat = b].pc = x.pc /\ [x EXCEPT !.beat = b].win = x.win
          /\ [x EXCEPT !.beat = b].cur = x.cur /\ [x EXCEPT !.beat = b].conn = x.conn
    BY <2>2 DEF Sup
  <2>4. ASSUME NEW u \in Threads
        PROVE  /\ sup'[u] \in Sup
               /\ sup'[u].pc = sup[u].pc /\ sup'[u].win = sup[u].win /\ sup'[u].cur = sup[u].cur
               /\ sup'[u].conn = sup[u].conn
               /\ sup[u].conn # p => sup'[u] = sup[u]
               /\ sup'[u].beat = sup[u].beat \/ sup'[u].beat = b
    <3>1. CASE sup[u].conn = p
      <4>1. sup'[u] = [sup[u] EXCEPT !.beat = b]
        BY <2>1, <3>1
      <4> QED BY <1>1, <2>3, <3>1, <4>1
    <3>2. CASE sup[u].conn # p
      <4>1. sup'[u] = sup[u]
        BY <2>1, <3>2
      <4> QED BY <1>1, <4>1
    <3> QED BY <3>1, <3>2
  <2>5. sup' \in [Threads -> Sup]
    <3>1. DOMAIN sup' = Threads /\ sup' = [u \in Threads |-> sup'[u]]
      BY <2>1
    <3> QED BY <2>4, <3>1
  <2> QED BY <2>1, <2>4, <2>5 DEF b
<1> QED BY <1>2, <1>3

\* The reader of a process at work polls.
LEMMA Read ==
    ASSUME IInv, NEW p \in Procs, proc[p].st = "running", NEW u \in Threads, sup[u].conn = p
    PROVE  /\ sup[u].pc = "poll" /\ Stream(u, p) /\ sup[u].cur \in Nat /\ End(sup[u].win) \in Nat
           /\ sup[u].cur < End(sup[u].win) /\ Seen(u) \in Int
           /\ proc[p].lim = End(sup[u].win) /\ sup[u].cur <= proc[p].pos
           /\ proc[p].pos <= proc[p].lim /\ ~sup[u].beat.done
           /\ mode = "safe" => /\ Seen(u) + Len(proc[p].out) = proc[p].pos - 1
                               /\ \A i \in 1 .. Len(proc[p].out) : proc[p].out[i] # -1
           /\ \A i \in 1 .. Len(proc[p].out) :
                \/ proc[p].out[i] = Seen(u) + i /\ Seen(u) + i < End(sup[u].win)
                \/ proc[p].out[i] = -1
<1>1. Line(u) /\ p # Nobody
    BY Types DEF IInv
<1>2. sup[u].pc = "poll"
    BY <1>1 DEF Line
<1>3. Stream(u, p)
    BY <1>1, <1>2 DEF Line
<1>4. /\ sup[u].cur \in Nat /\ End(sup[u].win) \in Nat /\ sup[u].cur < End(sup[u].win)
      /\ Seen(u) \in Int
    BY <1>2, Polling
<1>5. InOrder(u, p) /\ Runs(u, p)
    BY <1>3 DEF Stream
<1> QED BY <1>2, <1>3, <1>4, <1>5 DEF InOrder, Runs

\* What a heartbeat leaves of the threads: the shape they need, and no more news than the
\* beat itself.
Beaten(p) ==
    /\ sup' \in [Threads -> Sup]
    /\ \A u \in Threads :
         /\ sup'[u].pc = sup[u].pc /\ sup'[u].win = sup[u].win /\ sup'[u].cur = sup[u].cur
         /\ sup'[u].conn = sup[u].conn
         /\ sup[u].conn # p => sup'[u] = sup[u]

LEMMA BeatsOthersNot ==
    ASSUME IInv, NEW p \in Procs, NEW d \in BOOLEAN, NEW k \in Int, Beat(p, d, k)
    PROVE  Beaten(p)
    BY Beats DEF Beaten

\* A process at work does one more step.
LEMMA Works ==
    ASSUME IInv, NEW p \in Procs, proc[p].st = "running",
           NEW d \in BOOLEAN, NEW k \in Int, Beat(p, d, k),
           tally' = tally, next' = next, mode' = mode, backlog' = backlog,
           proc' \in [Procs -> Proc], \A q \in Procs : q # p => proc'[q] = proc[q],
           proc'[p].st \in {"running", "idle", "dead"},
           \A u \in Threads : sup[u].conn = p => Line(u)'
    PROVE  IInv'
<1>1. TypeOK /\ \A u \in Threads : Line(u)
    BY DEF IInv
<1>2. /\ sup' \in [Threads -> Sup]
      /\ \A u \in Threads :
           /\ sup'[u].pc = sup[u].pc /\ sup'[u].win = sup[u].win /\ sup'[u].cur = sup[u].cur
           /\ sup'[u].conn = sup[u].conn
           /\ sup[u].conn # p => sup'[u] = sup[u]
  <2>1. Beaten(p)
    BY BeatsOthersNot
  <2> QED BY <2>1 DEF Beaten
<1>3. TypeOK'
    BY <1>1, <1>2 DEF TypeOK
<1>4. Places' /\ Tallied'
    BY <1>2, Still
<1>5. Lines'
  <2>1. \A q \in Procs : \/ proc'[q].st = proc[q].st /\ proc'[q].out = proc[q].out
                         \/ proc'[q].st = "dead"
                         \/ /\ proc[q].st \in {"idle", "running"}
                            /\ proc'[q].st \in {"idle", "running"}
    OBVIOUS
  <2>2. \A u \in Threads : sup'[u].conn \in {sup[u].conn, Nobody}
    BY <1>2
  <2> QED BY <2>1, <2>2, LinesSame
<1>6. ASSUME NEW u \in Threads, sup[u].conn # p PROVE Line(u)'
  <2>1. sup[u].conn # Nobody => proc'[sup[u].conn] = proc[sup[u].conn]
    BY <1>1, <1>6, Types
  <2>2. Line(u) /\ sup'[u] = sup[u]
    BY <1>1, <1>2, <1>6
  <2> QED BY <2>1, <2>2, LineSame
<1> QED BY <1>3, <1>4, <1>5, <1>6 DEF IInv

\* What a thread has seen and what its process has sent, after one more frame.
LEMMA Sent ==
    ASSUME NEW o \in Seq(Int), NEW f \in Int
    PROVE  LET q == Append(o, f)
           IN  /\ q \in Seq(Int) /\ Len(q) = Len(o) + 1 /\ Len(o) \in Nat
               /\ \A i \in 1 .. Len(q) : \/ i \in 1 .. Len(o) /\ q[i] = o[i]
                                         \/ i = Len(o) + 1 /\ q[i] = f
<1>1. /\ Append(o, f) \in Seq(Int) /\ Len(Append(o, f)) = Len(o) + 1 /\ Len(o) \in Nat
      /\ Append(o, f)[Len(o) + 1] = f
      /\ \A i \in 1 .. Len(o) : Append(o, f)[i] = o[i]
    BY AppendProperties, SMTT(60)
<1>2. \A i \in 1 .. Len(o) + 1 : i \in 1 .. Len(o) \/ i = Len(o) + 1
    BY <1>1, SMTT(60)
<1> QED BY <1>1, <1>2

LEMMA FramesType ==
    ASSUME IInv, NEW p \in Procs, NEW f \in Int
    PROVE  /\ Frames(p, f) \in Outputs
           /\ mode = "local" => Frames(p, f) = <<>>
           /\ mode = "safe" /\ (\E u \in Threads : sup[u].conn = p) =>
                Frames(p, f) = Append(proc[p].out, f)
<1>1. proc[p].out \in Seq(Int)
    BY DEF IInv, TypeOK, Proc, Outputs
<1>2. Append(proc[p].out, f) \in Seq(Int) /\ <<>> \in Seq(Int)
    BY <1>1, SMTT(60)
<1> QED BY <1>2 DEF Frames, Connected, Serves, Outputs

LEMMA RunTestKeeps ==
    ASSUME IInv, NEW p \in Procs, RunTest(p)
    PROVE  IInv'
<1>0. PICK k : k = proc[p].pos
    OBVIOUS
<1>o. PICK o : o = proc[p].out
    OBVIOUS
<1>f. PICK f : f = Frames(p, k)
    OBVIOUS
<1>1. /\ proc[p].st = "running" /\ Beat(p, FALSE, k) /\ k < proc[p].lim
      /\ tally' = tally /\ next' = next /\ mode' = mode /\ backlog' = backlog
    BY <1>0 DEF RunTest, world
<1>2. proc' = [proc EXCEPT ![p].pos = k + 1, ![p].out = f]
    BY <1>0, <1>f DEF RunTest
<1>3. TypeOK /\ k \in Int /\ o \in Seq(Int) /\ mode \in {"local", "safe"}
    BY <1>0, <1>o DEF IInv, TypeOK, Proc, Outputs
<1>4. /\ f \in Outputs /\ (mode = "local" => f = <<>>)
      /\ mode = "safe" /\ (\E u \in Threads : sup[u].conn = p) => f = Append(o, k)
    BY <1>3, <1>f, <1>o, FramesType
<1>5. proc' \in [Procs -> Proc]
  <2>1. k + 1 \in Int
    BY <1>3, SMTT(60)
  <2> QED BY <1>2, <1>3, <1>4, <2>1, SetProc DEF TypeOK
<1>6. /\ \A q \in Procs : q # p => proc'[q] = proc[q]
      /\ proc'[p].st = "running" /\ proc'[p].pos = k + 1 /\ proc'[p].out = f
      /\ proc'[p].lim = proc[p].lim
    BY <1>1, <1>2, <1>3 DEF TypeOK, Proc
<1>7. FALSE \in BOOLEAN /\ proc'[p].st \in {"running", "idle", "dead"}
    BY <1>6
<1>8. ASSUME NEW u \in Threads, sup[u].conn = p PROVE Line(u)'
  <2>1. /\ sup[u].pc = "poll" /\ Stream(u, p) /\ sup[u].cur \in Nat /\ End(sup[u].win) \in Nat
        /\ sup[u].cur < End(sup[u].win) /\ Seen(u) \in Int
        /\ proc[p].lim = End(sup[u].win) /\ sup[u].cur <= k /\ ~sup[u].beat.done
        /\ k < End(sup[u].win)
        /\ mode = "safe" => /\ Seen(u) + Len(o) = k - 1
                            /\ \A i \in 1 .. Len(o) : o[i] # -1
        /\ \A i \in 1 .. Len(o) : \/ o[i] = Seen(u) + i /\ Seen(u) + i < End(sup[u].win)
                                  \/ o[i] = -1
    BY <1>0, <1>o, <1>1, <1>8, Read
  <2>2. /\ sup'[u].pc = "poll" /\ sup'[u].win = sup[u].win /\ sup'[u].cur = sup[u].cur
        /\ sup'[u].conn = p
        /\ sup'[u].beat = sup[u].beat
           \/ (mode = "local" /\ sup'[u].beat = [done |-> FALSE, index |-> k])
    BY <1>1, <1>3, <1>7, <1>8, <2>1, Beats
  <2>3. CASE mode = "safe"
    <3>1. sup'[u].beat = sup[u].beat /\ f = Append(o, k)
      BY <1>4, <1>8, <2>2, <2>3
    <3>2. Seen(u)' = Seen(u)
      BY <2>2, <3>1 DEF Seen, NoBeat
    <3>3. /\ Len(f) = Len(o) + 1 /\ Len(o) \in Nat
          /\ \A i \in 1 .. Len(f) : \/ i \in 1 .. Len(o) /\ f[i] = o[i]
                                    \/ i = Len(o) + 1 /\ f[i] = k
      BY <1>3, <3>1, Sent
    <3>4. \A i \in 1 .. Len(f) :
            f[i] = Seen(u) + i /\ f[i] # -1 /\ Seen(u) + i < End(sup[u].win)
      <4> SUFFICES ASSUME NEW i \in 1 .. Len(f)
                   PROVE  f[i] = Seen(u) + i /\ f[i] # -1 /\ Seen(u) + i < End(sup[u].win)
        OBVIOUS
      <4>1. CASE i \in 1 .. Len(o) /\ f[i] = o[i]
        BY <2>1, <2>3, <4>1
      <4>2. CASE i = Len(o) + 1 /\ f[i] = k
        <5>1. \A a, b \in Int, m \in Nat : a + m = b - 1 => a + (m + 1) = b
          BY SMTT(60)
        <5>2. Seen(u) + (Len(o) + 1) = k
          BY <1>3, <2>1, <2>3, <3>3, <5>1
        <5>3. \A a \in Nat, b \in Int : a <= b => b # -1
          BY SMTT(60)
        <5> QED BY <1>3, <2>1, <4>2, <5>2, <5>3
      <4> QED BY <3>3, <4>1, <4>2
    <3>5. InOrder(u, p)'
      BY <1>6, <2>2, <3>2, <3>4 DEF InOrder, End
    <3>6. Seen(u) + Len(f) = (k + 1) - 1 /\ sup[u].cur <= k + 1 /\ k + 1 <= End(sup[u].win)
      BY <1>3, <2>1, <2>3, <3>3, SMTT(60)
    <3>7. Runs(u, p)'
      BY <1>6, <2>1, <2>2, <3>1, <3>2, <3>4, <3>6 DEF Runs, End
    <3>8. Stream(u, p)'
      BY <1>1, <1>6, <2>1, <2>2, <2>3, <3>1, <3>5, <3>7 DEF Stream, NoBeat, End
    <3> QED BY <2>2, <3>8 DEF Line
  <2>4. CASE mode = "local"
    <3>1. f = <<>> /\ Len(f) = 0
      BY <1>4, <2>4
    <3>2. InOrder(u, p)'
      BY <1>6, <3>1, SMTT(60) DEF InOrder
    <3>3. Runs(u, p)'
      <4>1. sup[u].cur <= k + 1 /\ mode' # "safe" /\ k + 1 <= End(sup[u].win)
        BY <1>1, <1>3, <2>1, <2>4, SMTT(60)
      <4>2. ~sup'[u].beat.done
        <5>1. ~[done |-> FALSE, index |-> k].done
          OBVIOUS
        <5> QED BY <2>1, <2>2, <5>1
      <4> QED BY <1>6, <2>1, <2>2, <4>1, <4>2 DEF Runs, End
    <3>4. /\ sup'[u].beat = NoBeat \/ sup[u].cur <= sup'[u].beat.index
          /\ sup'[u].beat.done => End(sup[u].win) - 1 <= sup'[u].beat.index
          /\ ~sup'[u].beat.done => sup'[u].beat.index < End(sup[u].win)
      <4>1. CASE sup'[u].beat = sup[u].beat
        BY <2>1, <4>1 DEF Stream
      <4>2. CASE sup'[u].beat = [done |-> FALSE, index |-> k]
        BY <2>1, <4>2, SMTT(60)
      <4> QED BY <2>2, <4>1, <4>2
    <3>5. Stream(u, p)'
      BY <1>1, <1>6, <2>2, <2>4, <3>1, <3>2, <3>3, <3>4 DEF Stream, NoBeat, End
    <3> QED BY <2>2, <3>5 DEF Line
  <2> QED BY <1>3, <2>3, <2>4
<1> QED BY <1>1, <1>3, <1>5, <1>6, <1>7, <1>8, Works

LEMMA FinishWindowKeeps ==
    ASSUME IInv, NEW p \in Procs, FinishWindow(p)
    PROVE  IInv'
<1>0. PICK k : k = proc[p].lim
    OBVIOUS
<1>o. PICK o : o = proc[p].out
    OBVIOUS
<1>f. PICK f : f = Frames(p, -1)
    OBVIOUS
<1>x. PICK x : x = IF mode = "local" THEN "dead" ELSE "idle"
    OBVIOUS
<1> DEFINE r == [st |-> x, pos |-> 0, lim |-> 0, out |-> f, told |-> proc[p].told]
<1>1. /\ proc[p].st = "running" /\ proc[p].pos = k /\ Beat(p, TRUE, k)
      /\ tally' = tally /\ next' = next /\ mode' = mode /\ backlog' = backlog
    BY <1>0 DEF FinishWindow, world
<1>2. proc' = [proc EXCEPT ![p] = r]
    BY <1>f, <1>x DEF FinishWindow
<1>3. /\ TypeOK /\ k \in Int /\ o \in Seq(Int) /\ mode \in {"local", "safe"}
      /\ proc[p].told \in BOOLEAN
    BY <1>0, <1>o DEF IInv, TypeOK, Proc, Outputs
<1>4. /\ f \in Outputs /\ (mode = "local" => f = <<>>)
      /\ mode = "safe" /\ (\E u \in Threads : sup[u].conn = p) => f = Append(o, -1)
    BY <1>f, <1>o, FramesType, SMTT(60)
<1>5. r \in Proc /\ r.st = x /\ r.out = f
    BY <1>3, <1>4, <1>x, SMTT(60) DEF Proc, States
<1> HIDE DEF r
<1>6. /\ proc' \in [Procs -> Proc] /\ \A q \in Procs : q # p => proc'[q] = proc[q]
      /\ proc'[p].st = x /\ proc'[p].out = f
    BY <1>2, <1>3, <1>5 DEF TypeOK
<1>7. TRUE \in BOOLEAN /\ proc'[p].st \in {"running", "idle", "dead"}
    BY <1>6, <1>x
<1>8. ASSUME NEW u \in Threads, sup[u].conn = p PROVE Line(u)'
  <2>1. /\ sup[u].pc = "poll" /\ Stream(u, p) /\ sup[u].cur \in Nat /\ End(sup[u].win) \in Nat
        /\ sup[u].cur < End(sup[u].win) /\ Seen(u) \in Int /\ k = End(sup[u].win)
        /\ mode = "safe" => /\ Seen(u) + Len(o) = k - 1
                            /\ \A i \in 1 .. Len(o) : o[i] # -1
        /\ \A i \in 1 .. Len(o) : \/ o[i] = Seen(u) + i /\ Seen(u) + i < End(sup[u].win)
                                  \/ o[i] = -1
    BY <1>0, <1>o, <1>1, <1>8, Read
  <2>2. /\ sup'[u].pc = "poll" /\ sup'[u].win = sup[u].win /\ sup'[u].cur = sup[u].cur
        /\ sup'[u].conn = p
        /\ sup'[u].beat = sup[u].beat
           \/ (mode = "local" /\ sup'[u].beat = [done |-> TRUE, index |-> k])
    BY <1>1, <1>3, <1>7, <1>8, <2>1, Beats
  <2>3. Runs(u, p)' /\ x \in {"running", "idle", "dead"}
    BY <1>6, <1>x DEF Runs
  <2>4. CASE mode = "safe"
    <3>1. sup'[u].beat = sup[u].beat /\ f = Append(o, -1)
      BY <1>4, <1>8, <2>2, <2>4
    <3>2. Seen(u)' = Seen(u)
      BY <2>2, <3>1 DEF Seen, NoBeat
    <3>3. /\ Len(f) = Len(o) + 1 /\ Len(o) \in Nat
          /\ \A i \in 1 .. Len(f) : \/ i \in 1 .. Len(o) /\ f[i] = o[i]
                                    \/ i = Len(o) + 1 /\ f[i] = -1
      BY <1>3, <3>1, Sent, SMTT(60)
    <3>4. \A i \in 1 .. Len(f) : \/ f[i] = Seen(u) + i /\ Seen(u) + i < End(sup[u].win)
                                 \/ i = Len(f) /\ f[i] = -1 /\ Seen(u) + i = End(sup[u].win)
      <4> SUFFICES ASSUME NEW i \in 1 .. Len(f)
                   PROVE  \/ f[i] = Seen(u) + i /\ Seen(u) + i < End(sup[u].win)
                          \/ i = Len(f) /\ f[i] = -1 /\ Seen(u) + i = End(sup[u].win)
        OBVIOUS
      <4>1. CASE i \in 1 .. Len(o) /\ f[i] = o[i]
        BY <2>1, <2>4, <4>1
      <4>2. CASE i = Len(o) + 1 /\ f[i] = -1
        <5>1. \A a, b \in Int, m \in Nat : a + m = b - 1 => a + (m + 1) = b
          BY SMTT(60)
        <5>2. Seen(u) + (Len(o) + 1) = k
          BY <1>3, <2>1, <2>4, <3>3, <5>1
        <5> QED BY <2>1, <3>3, <4>2, <5>2
      <4> QED BY <3>3, <4>1, <4>2
    <3>5. InOrder(u, p)'
      BY <1>6, <2>2, <3>2, <3>4, SMTT(60) DEF InOrder, End
    <3>6. Stream(u, p)'
      BY <1>1, <1>6, <2>1, <2>2, <2>3, <2>4, <3>1, <3>5 DEF Stream, NoBeat, End
    <3> QED BY <2>2, <3>6 DEF Line
  <2>5. CASE mode = "local"
    <3>1. f = <<>> /\ Len(f) = 0
      BY <1>4, <2>5
    <3>2. InOrder(u, p)'
      BY <1>6, <3>1, SMTT(60) DEF InOrder
    <3>3. /\ sup'[u].beat = NoBeat \/ sup[u].cur <= sup'[u].beat.index
          /\ sup'[u].beat.done => End(sup[u].win) - 1 <= sup'[u].beat.index
          /\ ~sup'[u].beat.done => sup'[u].beat.index < End(sup[u].win)
      <4>1. CASE sup'[u].beat = sup[u].beat
        BY <2>1, <4>1 DEF Stream
      <4>2. CASE sup'[u].beat = [done |-> TRUE, index |-> k]
        BY <2>1, <4>2, SMTT(60)
      <4> QED BY <2>2, <4>1, <4>2
    <3>4. Stream(u, p)'
      BY <1>1, <1>6, <2>2, <2>3, <2>5, <3>1, <3>2, <3>3 DEF Stream, NoBeat, End
    <3> QED BY <2>2, <3>4 DEF Line
  <2> QED BY <1>3, <2>4, <2>5
<1> QED BY <1>1, <1>3, <1>6, <1>7, <1>8, Works

-----------------------------------------------------------------------------
(* The theorems.                                                           *)

LEMMA Inductive ==
    Spec => []IInv
<1>1. Init => IInv
  <2> SUFFICES ASSUME Init PROVE IInv
    OBVIOUS
  <2>1. /\ mode \in {"local", "safe"} /\ next = 0 /\ backlog = <<>>
        /\ sup = [s \in Threads |-> Idle] /\ proc = [p \in Procs |-> Dead]
        /\ tally = [w \in Windows |-> [t \in 0 .. NTests |-> 0]]
    BY ModesKnown DEF Init
  <2>2. /\ Idle \in Sup /\ Idle.pc = "pick" /\ Idle.win = 0 /\ Idle.conn = Nobody
    BY Sizes, SMTT(60) DEF Idle, Sup, Nobody, NoBeat
  <2>3. Dead \in Proc /\ Dead.st = "dead"
    BY DeadProc
  <2>4. /\ sup \in [Threads -> Sup] /\ proc \in [Procs -> Proc]
        /\ \A s \in Threads : sup[s] = Idle
        /\ \A p \in Procs : proc[p] = Dead
    BY <2>1, <2>2, <2>3
  <2>n. NWindows >= 0
    BY Sizes, SMTT(60) DEF NWindows
  <2>5. TypeOK
    BY <2>1, <2>4, <2>n, SMTT(60) DEF TypeOK, Tallies
  <2>6. Places
    BY <2>1, <2>2, <2>4, SMTT(60) DEF Places, Place, Owner
  <2>7. Tallied
    <3>1. \A w \in Windows : \A t \in 0 .. NTests : tally[w][t] = 0
      BY <2>1
    <3>2. CountedAtMostTwice
      BY <3>1, SMTT(60) DEF CountedAtMostTwice
    <3> QED BY <2>1, <2>2, <2>4, <3>1, <3>2, SMTT(60) DEF Tallied
  <2>8. Len(backlog) = 0
    BY <2>1
  <2>9. Lines
    BY <2>2, <2>3, <2>4, <2>8, SMTT(60) DEF Lines, Reader, Waiting, Unheard
  <2>10. \A s \in Threads : Line(s)
    BY <2>2, <2>4 DEF Line
  <2> QED BY <2>5, <2>6, <2>7, <2>9, <2>10 DEF IInv
<1>2. IInv /\ [Next]_vars => IInv'
  <2> SUFFICES ASSUME IInv, [Next]_vars PROVE IInv'
    OBVIOUS
  <2>1. CASE UNCHANGED vars
    <3>1. /\ mode' = mode /\ next' = next /\ sup' = sup /\ proc' = proc /\ backlog' = backlog
          /\ tally' = tally
      BY <2>1 DEF vars
    <3>2. TypeOK' /\ TypeOK /\ \A s \in Threads : Line(s)
      BY <3>1 DEF IInv, TypeOK
    <3>3. Places' /\ Tallied'
      BY <3>1, <3>2, Still DEF TypeOK
    <3>4. Lines'
      BY <3>1, LinesSame
    <3>5. \A s \in Threads : Line(s)'
      BY <3>1, <3>2, LineSame
    <3> QED BY <3>2, <3>3, <3>4, <3>5 DEF IInv
  <2>2. ASSUME NEW s \in Threads, ThreadStep(s) PROVE IInv'
    BY <2>2, PickKeeps, NextRoundKeeps, AcceptKeeps, SendAssignKeeps, ExitSeenKeeps,
       ReadFrameKeeps, TimeoutKeeps, StartChildKeeps, SpawnWorkerKeeps DEF ThreadStep
  <2>3. ASSUME NEW s \in Threads, ThreadFault(s) PROVE IInv'
    BY <2>3, SpawnFailsKeeps, WaitErrorKeeps DEF ThreadFault
  <2>4. ASSUME NEW p \in Procs, ProcStep(p) PROVE IInv'
    BY <2>4, ConnectKeeps, RunTestKeeps, FinishWindowKeeps, LeaveKeeps DEF ProcStep
  <2>5. ASSUME NEW p \in Procs, Crash(p) \/ GiveUp(p) PROVE IInv'
    BY <2>5, CrashKeeps, GiveUpKeeps
  <2> QED BY <2>1, <2>2, <2>3, <2>4, <2>5 DEF Next
<1> QED BY <1>1, <1>2, PTL DEF Spec

\* No test is missed (supervise_window): when no thread is at work on a window
\* that has been handed out, each of its tests has been counted, however many
\* children hung, crashed, were killed or could not be started.
THEOREM NoneMissed ==
    Spec => []NoTestMissed
<1>1. IInv => NoTestMissed
  <2> SUFFICES ASSUME IInv, NEW w \in 1 .. next,
                      \A s \in Threads : sup[s].win = w => sup[s].pc \in {"pick", "done"},
                      NEW t \in First(w) .. End(w) - 1
               PROVE  tally[w][t] >= 1
    BY DEF NoTestMissed
  <2>1. CASE Complete(w)
    BY <2>1 DEF Complete
  <2>2. ASSUME NEW s \in Threads, sup[s].win = w PROVE tally[w][t] >= 1
    <3>1. w \in Nat \ {0}
      BY SMTT(60) DEF IInv, TypeOK
    <3>2. Progress(s) /\ End(w) <= sup[s].cur /\ sup[s].cur \in Int
      <4>1. Place(s) /\ (sup[s].win # 0 => Progress(s)) /\ sup[s] \in Sup
        BY Types DEF IInv, Places, Tallied
      <4> QED BY <2>2, <3>1, <4>1 DEF Place, Sup
    <3>3. First(w) \in Nat /\ End(w) \in Nat
      BY <3>1, Bounds
    <3>4. t < sup[s].cur /\ t < End(w) /\ t \in First(w) .. End(w)
      BY <3>2, <3>3, SMTT(60)
    <3> QED BY <2>2, <3>2, <3>4 DEF Progress
  <2> QED BY <2>1, <2>2 DEF IInv, Tallied
<1> QED BY <1>1, Inductive, PTL

\* A window counts each of its tests twice at most (supervise_window): a child
\* that dies in a test is the only one whose test is run again, and that run is
\* its last; and the test after its end once at most.
THEOREM TwiceAtMost ==
    Spec => []CountedAtMostTwice
<1>1. IInv => CountedAtMostTwice
    BY DEF IInv, Tallied
<1> QED BY <1>1, Inductive, PTL

=============================================================================
