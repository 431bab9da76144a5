--------------------------- MODULE JsWorker_proof ---------------------------
(***************************************************************************)
(* Proofs about the Worker API, for any number of workers and messages:    *)
(* both channels are FIFO end to end, a letter of a registered worker is   *)
(* in one place, no thread outlives its registration, the roots match the  *)
(* registry, every join is answered, and a terminated worker is silent.    *)
(***************************************************************************)
EXTENDS JsWorker, SequenceTheorems, WellFoundedInduction, TLAPS

\* A step is for Zenon unless it cites SMT, which it does for arithmetic and records.
USE ZenonT(30)

Places == {"none", "script", "loop", "handler", "leaving", "left", "gone"}

LoopType ==
    /\ main \in {"user", "join", "turn", "poll", "dispatch", "clean", "reset"}
    /\ back \in {"turn", "dispatch"}
    /\ ret \in {"user", "clean", "reset"}
    /\ joining \in Nat
    /\ ids \subseteq Ids
    /\ cur \in Nat
    /\ batch \in Seq(Nat)

TablesType ==
    /\ registry \subseteq Ids
    /\ objects \subseteq Ids
    /\ nextId \in 0 .. MaxWorkers

WorkerType ==
    /\ thread \in [Ids -> Places]
    /\ closing \in [Ids -> BOOLEAN]
    /\ panicked \in [Ids -> BOOLEAN]

HistoryType ==
    /\ posted \in [Ids -> Nat]
    /\ handled \in [Ids -> Seq(Nat)]
    /\ sent \in [Ids -> Nat]
    /\ failed \in [Ids -> BOOLEAN]
    /\ got \in [Ids -> Seq(Nat)]

TypeOK ==
    /\ LoopType /\ TablesType /\ WorkerType /\ HistoryType
    /\ inbox \in [Ids -> Seq(Nat)]
    /\ outbox \in [Ids -> Seq(Nat)]

\* Where the main thread is says what is left of a batch and of a loop.
MainShape ==
    /\ registry \cup objects \subseteq 0 .. nextId - 1
    /\ main \in {"turn", "poll", "clean", "reset"} => back = "turn"
    /\ main = "join" /\ ret # "user" => back = "turn"
    /\ main # "dispatch" /\ back = "turn" => batch = <<>>
    /\ batch # <<>> => cur \in 0 .. nextId - 1
    /\ (main = "clean" \/ (main = "join" /\ ret = "clean")) => ids \subseteq registry
    /\ (main = "reset" \/ (main = "join" /\ ret = "reset")) => ids = registry

\* The worker being joined is a worker, and is out of the registry.
Joined == main = "join" => joining \in 0 .. nextId - 1 /\ joining \notin registry

\* The roots, a join under way included.
Roots ==
    /\ registry \subseteq objects
    /\ \A w \in objects \ registry : panicked[w] \/ (main = "join" /\ joining = w)

\* Threads exist from the spawn to the join.
Threads ==
    /\ \A w \in nextId .. MaxWorkers - 1 : thread[w] = "none"
    /\ NoOrphanThread
    /\ JoinIsAnswered
    /\ \A w \in Ids : thread[w] \in {"none", "script"} => ~failed[w]

\* A worker whose channels are in use, or will be.
Open(w) == w \in registry \/ w >= nextId

\* What is in a worker's inbox comes right after what it has handled, and a
\* Terminate is the last letter.
Inbox(w) ==
    /\ \A i \in DOMAIN handled[w] : handled[w][i] = i
    /\ Len(handled[w]) <= posted[w]
    /\ \A i \in DOMAIN inbox[w] :
          \/ inbox[w][i] = Len(handled[w]) + i /\ inbox[w][i] <= posted[w]
          \/ inbox[w][i] = 0 /\ i = Len(inbox[w])
    /\ Open(w) => Len(handled[w]) + Len(inbox[w]) = posted[w] /\ 0 \notin Range(inbox[w])

\* The messages of s are those from a + 1 to b, in order.
Spans(s, a, b) ==
    /\ \A i \in 1 .. Len(s) : s[i] = 0 \/ (a < s[i] /\ s[i] <= b)
    /\ \A i, j \in 1 .. Len(s) : i < j /\ s[i] > 0 /\ s[j] > 0 => s[i] < s[j]
    /\ \A k \in a + 1 .. b : \E i \in 1 .. Len(s) : s[i] = k

\* The letters of w in the batch.
Polled(w) == IF cur = w THEN batch ELSE <<>>

\* What was dispatched, what is in the batch and what is in the channel follow
\* on each other.
Outbox(w) ==
    /\ \E m, b \in Nat :
          /\ m <= b /\ b <= sent[w]
          /\ Spans(got[w], 0, m)
          /\ Spans(Polled(w), m, b)
          /\ Open(w) => Spans(outbox[w], b, sent[w])
    /\ Open(w) => Len(outbox[w]) + Len(got[w]) + Len(Polled(w))
                    = sent[w] + (IF failed[w] THEN 1 ELSE 0)

IInv ==
    /\ TypeOK
    /\ MainShape
    /\ Joined
    /\ Roots
    /\ Threads
    /\ \A w \in Ids : Inbox(w)
    /\ \A w \in Ids : Outbox(w)

-----------------------------------------------------------------------------
\* Sequences of letters.

LEMMA WithoutProperties ==
    ASSUME NEW s \in Seq(Nat), NEW i \in 1 .. Len(s)
    PROVE  /\ Without(s, i) \in Seq(Nat)
           /\ Len(Without(s, i)) = Len(s) - 1
           /\ \A j \in 1 .. Len(s) - 1 : Without(s, i)[j] = IF j < i THEN s[j] ELSE s[j + 1]
<1>1. Len(s) \in Nat /\ Len(s) - 1 \in Nat /\ \A j \in 1 .. Len(s) : s[j] \in Nat
    BY SMTT(60)
<1>2. \A j \in 1 .. Len(s) - 1 : (IF j < i THEN j ELSE j + 1) \in 1 .. Len(s)
    BY <1>1, SMTT(60)
<1> QED BY <1>1, <1>2, SMTT(60) DEF Without

LEMMA SpansEmpty ==
    ASSUME NEW a \in Nat, NEW b \in Nat
    PROVE  /\ Spans(<<>>, a, a)
           /\ Spans(<<>>, a, b) => b <= a
BY SMTT(60) DEF Spans

LEMMA SpansAppend ==
    ASSUME NEW s \in Seq(Nat), NEW a \in Nat, NEW b \in Nat, a <= b, Spans(s, a, b)
    PROVE  /\ Spans(Append(s, 0), a, b)
           /\ Spans(Append(s, b + 1), a, b + 1)
<1>1. \A x \in Nat : /\ Append(s, x) \in Seq(Nat)
                     /\ Len(Append(s, x)) = Len(s) + 1
                     /\ \A i \in 1 .. Len(s) : Append(s, x)[i] = s[i]
                     /\ Append(s, x)[Len(s) + 1] = x
    BY AppendProperties, SMTT(60)
<1>2. /\ Len(s) \in Nat /\ DOMAIN s = 1 .. Len(s)
      /\ \A x \in Nat : DOMAIN Append(s, x) = 1 .. Len(s) + 1
      /\ \A i \in 1 .. Len(s) : s[i] \in Nat
    BY <1>1, SMTT(60)
<1>3. Spans(Append(s, 0), a, b)
    BY <1>1, <1>2, SMTT(60) DEF Spans
<1>4. Spans(Append(s, b + 1), a, b + 1)
  <2> DEFINE t == Append(s, b + 1)
  <2>1. /\ Len(t) = Len(s) + 1 /\ t[Len(s) + 1] = b + 1
        /\ \A i \in 1 .. Len(s) : t[i] = s[i]
    BY <1>1, SMTT(60)
  <2> HIDE DEF t
  <2>2. \A i \in 1 .. Len(t) : t[i] = 0 \/ (a < t[i] /\ t[i] <= b + 1)
    BY <1>2, <2>1, SMTT(60) DEF Spans
  <2>3. ASSUME NEW i \in 1 .. Len(t), NEW j \in 1 .. Len(t), i < j, t[i] > 0, t[j] > 0
        PROVE  t[i] < t[j]
    <3>1. i \in 1 .. Len(s) /\ t[i] = s[i]
      BY <1>2, <2>1, <2>3, SMTT(60)
    <3>2. CASE j = Len(s) + 1
      BY <1>2, <2>1, <2>3, <3>1, <3>2, SMTT(60) DEF Spans
    <3>3. CASE j # Len(s) + 1
      <4>1. j \in 1 .. Len(s) /\ t[j] = s[j]
        BY <1>2, <2>1, <3>3, SMTT(60)
      <4> QED BY <2>3, <3>1, <4>1 DEF Spans
    <3> QED BY <3>2, <3>3
  <2>4. ASSUME NEW k \in a + 1 .. b + 1 PROVE \E i \in 1 .. Len(t) : t[i] = k
    <3>1. CASE k = b + 1
      BY <1>2, <2>1, <3>1, SMTT(60)
    <3>2. CASE k # b + 1
      <4>1. PICK i \in 1 .. Len(s) : s[i] = k
        BY <3>2, SMTT(60) DEF Spans
      <4> QED BY <1>2, <2>1, <4>1, SMTT(60)
    <3> QED BY <3>1, <3>2
  <2> QED BY <2>2, <2>3, <2>4 DEF Spans, t
<1> QED BY <1>3, <1>4

\* The next letter of a batch is an error, or the next message.
LEMMA SpansNext ==
    ASSUME NEW s \in Seq(Nat), s # <<>>, NEW a \in Nat, NEW b \in Nat, a <= b, Spans(s, a, b)
    PROVE  LET i == NextLetter(s)
           IN  /\ i \in 1 .. Len(s)
               /\ \/ s[i] = 0 /\ Spans(Without(s, i), a, b)
                  \/ s[i] = a + 1 /\ a + 1 <= b /\ Spans(Without(s, i), a + 1, b)
<1> DEFINE i == NextLetter(s)
           r == Without(s, i)
<1>0. Len(s) \in Nat /\ Len(s) > 0 /\ DOMAIN s = 1 .. Len(s) /\ \A j \in 1 .. Len(s) : s[j] \in Nat
    BY SMTT(60)
<1>1. CASE 0 \in Range(s)
  <2>1. i \in 1 .. Len(s) /\ s[i] = 0
    BY <1>0, <1>1 DEF Range, NextLetter
  <2> HIDE DEF i
  <2>2. /\ r \in Seq(Nat) /\ Len(r) = Len(s) - 1 
        /\ \A j \in 1 .. Len(s) - 1 : r[j] = IF j < i THEN s[j] ELSE s[j + 1]
    BY <2>1, WithoutProperties
  <2> HIDE DEF r
  <2>3. Spans(r, a, b)
    <3>1. \A j \in 1 .. Len(r) : r[j] = 0 \/ (a < r[j] /\ r[j] <= b)
      BY <1>0, <2>1, <2>2, SMTT(60) DEF Spans
    <3>2. ASSUME NEW j \in 1 .. Len(r), NEW k \in 1 .. Len(r), j < k, r[j] > 0, r[k] > 0
          PROVE  r[j] < r[k]
      <4>0. /\ j \in 1 .. Len(s) - 1 /\ k \in 1 .. Len(s) - 1
            /\ j \in 1 .. Len(s) /\ j + 1 \in 1 .. Len(s) /\ k \in 1 .. Len(s) /\ k + 1 \in 1 .. Len(s)
        BY <1>0, <2>2, SMTT(60)
      <4>1. /\ r[j] = IF j < i THEN s[j] ELSE s[j + 1]
            /\ r[k] = IF k < i THEN s[k] ELSE s[k + 1]
        BY <2>2, <4>0
      <4> QED BY <1>0, <2>1, <3>2, <4>0, <4>1, SMTT(60) DEF Spans
    <3>3. ASSUME NEW k \in a + 1 .. b PROVE \E j \in 1 .. Len(r) : r[j] = k
      <4>1. PICK j \in 1 .. Len(s) : s[j] = k
        BY <1>0 DEF Spans
      <4>2. j # i
        BY <2>1, <4>1, SMTT(60)
      <4>3. CASE j < i
        <5>1. j \in 1 .. Len(s) - 1
          BY <1>0, <2>1, <4>3, SMTT(60)
        <5>2. r[j] = k
          BY <2>2, <4>1, <4>3, <5>1
        <5> QED BY <2>2, <5>1, <5>2
      <4>4. CASE j > i
        <5>1. j - 1 \in 1 .. Len(s) - 1 /\ ~(j - 1 < i)
          BY <1>0, <2>1, <4>4, SMTT(60)
        <5>2. r[j - 1] = k
          BY <2>2, <4>1, <5>1, SMTT(60)
        <5> QED BY <2>2, <5>1, <5>2
      <4> QED BY <1>0, <2>1, <4>2, <4>3, <4>4, SMTT(60)
    <3> QED BY <3>1, <3>2, <3>3 DEF Spans
  <2> QED BY <2>1, <2>3 DEF r, i
<1>2. CASE 0 \notin Range(s)
  <2>1. i = 1 /\ \A j \in 1 .. Len(s) : s[j] > 0
    BY <1>0, <1>2, SMTT(60) DEF Range, NextLetter
  <2> HIDE DEF i
  <2>2. s[1] \in a + 1 .. b
    BY <1>0, <2>1, SMTT(60) DEF Spans
  <2>3. PICK j \in 1 .. Len(s) : s[j] = a + 1
    BY <1>0, <2>2, SMTT(60) DEF Spans
  <2>4. s[1] = a + 1
    BY <1>0, <2>1, <2>2, <2>3, SMTT(60) DEF Spans
  <2>5. /\ r \in Seq(Nat) /\ Len(r) = Len(s) - 1 
        /\ \A k \in 1 .. Len(s) - 1 : r[k] = s[k + 1]
    <3>1. i \in 1 .. Len(s)
      BY <1>0, <2>1, SMTT(60)
    <3>2. /\ r \in Seq(Nat) /\ Len(r) = Len(s) - 1
          /\ \A k \in 1 .. Len(s) - 1 : r[k] = IF k < i THEN s[k] ELSE s[k + 1]
      BY <3>1, WithoutProperties
    <3> QED BY <2>1, <3>2, <1>0, SMTT(60)
  <2> HIDE DEF r
  <2>6. Spans(r, a + 1, b)
    <3>1. \A k \in 1 .. Len(r) : r[k] = 0 \/ (a + 1 < r[k] /\ r[k] <= b)
      BY <1>0, <2>1, <2>4, <2>5, SMTT(60) DEF Spans
    <3>2. ASSUME NEW k \in 1 .. Len(r), NEW l \in 1 .. Len(r), k < l, r[k] > 0, r[l] > 0
          PROVE  r[k] < r[l]
      <4>1. r[k] = s[k + 1] /\ r[l] = s[l + 1] /\ k + 1 \in 1 .. Len(s) /\ l + 1 \in 1 .. Len(s)
        BY <1>0, <2>5, SMTT(60)
      <4> QED BY <1>0, <3>2, <4>1, SMTT(60) DEF Spans
    <3>3. ASSUME NEW k \in a + 1 + 1 .. b PROVE \E l \in 1 .. Len(r) : r[l] = k
      <4>1. PICK l \in 1 .. Len(s) : s[l] = k
        BY <1>0, SMTT(60) DEF Spans
      <4>2. l # 1
        BY <2>4, <4>1, SMTT(60)
      <4>3. l - 1 \in 1 .. Len(s) - 1 /\ l - 1 + 1 = l
        BY <1>0, <4>2, SMTT(60)
      <4>4. r[l - 1] = k
        BY <2>5, <4>1, <4>3
      <4> QED BY <2>5, <4>3, <4>4
    <3> QED BY <3>1, <3>2, <3>3 DEF Spans
  <2>7. i \in 1 .. Len(s) /\ s[i] = a + 1 /\ a + 1 <= b
    BY <1>0, <2>1, <2>2, <2>4, SMTT(60)
  <2> QED BY <2>6, <2>7 DEF r, i
<1> QED BY <1>1, <1>2

\* Messages that span the first m of n are the first sent.
LEMMA SpansFirst ==
    ASSUME NEW s \in Seq(Nat), NEW m \in Nat, NEW n \in Nat, m <= n, Spans(s, 0, m)
    PROVE  FirstSent(s, n)
<1>0. Len(s) \in Nat /\ DOMAIN s = 1 .. Len(s) /\ \A j \in 1 .. Len(s) : s[j] \in Nat
    BY SMTT(60)
<1> SUFFICES ASSUME NEW i \in 1 .. Len(s)
             PROVE  /\ s[i] <= n
                    /\ \A j \in 1 .. i - 1 : s[j] > 0 /\ s[i] > 0 => s[j] < s[i]
                    /\ \A k \in 1 .. s[i] : \E j \in 1 .. i : s[j] = k
    BY <1>0 DEF FirstSent
<1>1. s[i] <= n
    BY <1>0, SMTT(60) DEF Spans
<1>2. \A j \in 1 .. i - 1 : s[j] > 0 /\ s[i] > 0 => s[j] < s[i]
    BY <1>0, SMTT(60) DEF Spans
<1>3. ASSUME NEW k \in 1 .. s[i] PROVE \E j \in 1 .. i : s[j] = k
  <2>1. PICK j \in 1 .. Len(s) : s[j] = k
    BY <1>0, SMTT(60) DEF Spans
  <2>2. ~(i < j)
    BY <1>0, <2>1, SMTT(60) DEF Spans
  <2> QED BY <1>0, <2>1, <2>2, SMTT(60)
<1> QED BY <1>1, <1>2, <1>3

\* The loops of the main thread take the least id that is left.
LEMMA MinIn ==
    ASSUME NEW S, S \subseteq Nat, S # {}
    PROVE  Min(S) \in S
<1> DEFINE R == {ss \in Nat \X Nat : ss[1] < ss[2]}
<1>1. IsWellFoundedOn(R, Nat)
    BY NatLessThanWellFounded DEF OpToRel
<1>2. \A x, y \in Nat : <<y, x>> \in R <=> y < x
    OBVIOUS
<1> HIDE DEF R
<1>3. PICK x \in S : \A y \in S : ~(<<y, x>> \in R)
    BY <1>1, WFMin
<1>4. ASSUME NEW y \in S PROVE x <= y
  <2>1. x \in Nat /\ y \in Nat /\ ~(y < x)
    BY <1>2, <1>3
  <2> QED BY <2>1, SMTT(60)
<1> QED BY <1>4 DEF Min
-----------------------------------------------------------------------------
\* What a step leaves alone.

USE Bounds DEF Ids, Places, LoopType, TablesType

\* No channel comes into use that was not meant to.
Opens == \A w \in Ids : Open(w)' => Open(w)

LEMMA InboxFrame ==
    ASSUME IInv, UNCHANGED <<inbox, handled, posted>>, Opens
    PROVE  \A w \in Ids : Inbox(w)'
BY DEF IInv, TypeOK, HistoryType, Inbox, Opens

LEMMA OutboxFrame ==
    ASSUME IInv, UNCHANGED <<got, outbox, sent, failed>>, Opens,
           \A w \in Ids : Polled(w)' = Polled(w)
    PROVE  \A w \in Ids : Outbox(w)'
<1> SUFFICES ASSUME NEW w \in Ids PROVE Outbox(w)'
    OBVIOUS
<1>1. Outbox(w) /\ (Open(w)' => Open(w)) /\ Polled(w)' = Polled(w)
    BY DEF IInv, Opens
<1> QED BY <1>1 DEF Outbox

LEMMA OpensFrame ==
    ASSUME IInv, UNCHANGED nextId, registry' \subseteq registry
    PROVE  Opens
BY DEF Opens, Open

LEMMA PolledFrame ==
    ASSUME UNCHANGED <<cur, batch>>
    PROVE  \A w \in Ids : Polled(w)' = Polled(w)
BY DEF Polled

LEMMA TypeFrame ==
    ASSUME IInv
    PROVE  /\ UNCHANGED loop => LoopType'
           /\ UNCHANGED tables => TablesType'
           /\ UNCHANGED worker => WorkerType'
           /\ UNCHANGED history => HistoryType'
BY ZenonT(60) DEF IInv, TypeOK, LoopType, TablesType, WorkerType, HistoryType,
                  loop, tables, worker, history

\* A step of the main thread between its loops.
LEMMA MainOnly ==
    ASSUME IInv, UNCHANGED <<joining, ret, cur, batch, tables, inbox, outbox, worker, history>>,
           main # "join", main' # "join", TypeOK', MainShape'
    PROVE  IInv'
<1>1. Opens
    BY OpensFrame DEF tables
<1>2. Joined' /\ Roots'
    BY DEF IInv, TypeOK, WorkerType, Joined, Roots, tables, worker
<1>3. Threads'
    BY DEF IInv, TypeOK, WorkerType, HistoryType, Threads, NoOrphanThread, JoinIsAnswered, tables, worker, history
<1>4. \A w \in Ids : Inbox(w)'
    BY <1>1, InboxFrame DEF history
<1>5. \A w \in Ids : Outbox(w)'
    BY <1>1, PolledFrame, OutboxFrame DEF history
<1> QED BY <1>2, <1>3, <1>4, <1>5 DEF IInv

LEMMA UserReturnsOK == ASSUME IInv, UserReturns PROVE IInv'
<1>1. LoopType' /\ main # "join" /\ main' # "join"
    BY DEF IInv, TypeOK, UserReturns
<1>2. TypeOK'
    BY <1>1, TypeFrame DEF IInv, TypeOK, UserReturns
<1>3. MainShape'
    BY DEF IInv, TypeOK, MainShape, UserReturns, tables
<1> QED BY <1>1, <1>2, <1>3, MainOnly DEF UserReturns

LEMMA ResetStartsOK == ASSUME IInv, ResetStarts PROVE IInv'
<1>1. LoopType' /\ main # "join" /\ main' # "join"
    BY DEF IInv, TypeOK, ResetStarts
<1>2. TypeOK'
    BY <1>1, TypeFrame DEF IInv, TypeOK, ResetStarts
<1>3. MainShape'
    BY DEF IInv, TypeOK, MainShape, ResetStarts, tables
<1> QED BY <1>1, <1>2, <1>3, MainOnly DEF ResetStarts

LEMMA TurnOK == ASSUME IInv, Turn PROVE IInv'
<1>1. LoopType' /\ main # "join" /\ main' # "join"
    BY DEF IInv, TypeOK, Turn
<1>2. TypeOK'
    BY <1>1, TypeFrame DEF IInv, TypeOK, Turn
<1>3. MainShape'
    BY DEF IInv, TypeOK, MainShape, Turn, tables
<1> QED BY <1>1, <1>2, <1>3, MainOnly DEF Turn

LEMMA PollEndsOK == ASSUME IInv, PollEnds PROVE IInv'
<1>1. LoopType' /\ main # "join" /\ main' # "join"
    BY DEF IInv, TypeOK, PollEnds
<1>2. TypeOK'
    BY <1>1, TypeFrame DEF IInv, TypeOK, PollEnds
<1>3. MainShape'
    BY DEF IInv, TypeOK, MainShape, PollEnds, tables
<1> QED BY <1>1, <1>2, <1>3, MainOnly DEF PollEnds

LEMMA CleanEndsOK == ASSUME IInv, CleanEnds PROVE IInv'
<1>1. LoopType' /\ main # "join" /\ main' # "join"
    BY DEF IInv, TypeOK, CleanEnds
<1>2. TypeOK'
    BY <1>1, TypeFrame DEF IInv, TypeOK, CleanEnds
<1>3. MainShape'
    BY DEF IInv, TypeOK, MainShape, CleanEnds, tables
<1> QED BY <1>1, <1>2, <1>3, MainOnly DEF CleanEnds

LEMMA FullResetOK == ASSUME IInv, FullReset PROVE IInv'
<1>1. LoopType' /\ TablesType'
    BY DEF IInv, TypeOK, FullReset
<1>2. TypeOK'
    BY <1>1, TypeFrame DEF IInv, TypeOK, FullReset
<1>3. MainShape' /\ Joined'
    BY DEF IInv, TypeOK, MainShape, Joined, FullReset
<1>4. Roots'
    BY DEF IInv, TypeOK, MainShape, Roots, FullReset
<1>5. Threads'
    BY DEF IInv, TypeOK, WorkerType, HistoryType, Threads, NoOrphanThread, JoinIsAnswered,
           FullReset, worker, history
<1>6. Opens
    BY OpensFrame DEF FullReset
<1>7. \A w \in Ids : Inbox(w)'
    BY <1>6, InboxFrame DEF FullReset, history
<1>8. \A w \in Ids : Outbox(w)'
    BY <1>6, PolledFrame, OutboxFrame DEF FullReset, history
<1> QED BY <1>2, <1>3, <1>4, <1>5, <1>7, <1>8 DEF IInv

LEMMA SpawnOK == ASSUME IInv, Spawn PROVE IInv'
<1>1. TablesType' /\ WorkerType' /\ nextId \in Ids
    BY SMTT(60) DEF IInv, TypeOK, WorkerType, Spawn
<1>2. TypeOK'
    BY <1>1, TypeFrame DEF IInv, TypeOK, Spawn
<1>3. MainShape' /\ Joined'
    BY SMTT(60) DEF IInv, TypeOK, MainShape, Joined, Spawn, loop
<1>4. Roots'
    BY DEF IInv, TypeOK, MainShape, Roots, Spawn, loop
<1>5. Threads'
  <2>1. /\ thread'[nextId] = "script" /\ thread[nextId] = "none" /\ ~failed[nextId]
        /\ \A w \in Ids : w # nextId => thread'[w] = thread[w]
    BY <1>1, SMTT(60) DEF IInv, TypeOK, WorkerType, Threads, Spawn
  <2>2. \A w \in nextId' .. MaxWorkers - 1 : thread'[w] = "none"
    BY <1>1, <2>1, SMTT(60) DEF IInv, TypeOK, Threads, Spawn
  <2>3. NoOrphanThread'
    BY <1>1, <2>1, SMTT(60) DEF IInv, TypeOK, Threads, NoOrphanThread, Spawn, loop
  <2>4. JoinIsAnswered'
    BY DEF JoinIsAnswered, Spawn, loop
  <2>5. \A w \in Ids : thread'[w] \in {"none", "script"} => ~failed'[w]
    BY <2>1 DEF IInv, Threads, Spawn, history
  <2> QED BY <2>2, <2>3, <2>4, <2>5 DEF Threads
<1>6. Opens
    BY SMTT(60) DEF IInv, TypeOK, Opens, Open, Spawn
<1>7. \A w \in Ids : Inbox(w)'
    BY <1>6, InboxFrame DEF Spawn, history
<1>8. \A w \in Ids : Outbox(w)'
    BY <1>6, PolledFrame, OutboxFrame DEF Spawn, loop, history
<1> QED BY <1>2, <1>3, <1>4, <1>5, <1>7, <1>8 DEF IInv

-----------------------------------------------------------------------------
\* Letters of a worker to the main thread.

\* Where the three places of w's letters meet.
Meets(w, m, b) ==
    /\ m <= b /\ b <= sent[w]
    /\ Spans(got[w], 0, m)
    /\ Spans(Polled(w), m, b)
    /\ Open(w) => Spans(outbox[w], b, sent[w])

LEMMA OutboxMeets ==
    ASSUME IInv, NEW w \in Ids
    PROVE  \E m, b \in Nat : Meets(w, m, b)
BY DEF IInv, Outbox, Meets

\* Only the letters of w are touched.
LEMMA OutboxElsewhere ==
    ASSUME IInv, Opens, NEW w \in Ids, NEW v \in Ids, v # w,
           got'[v] = got[v], outbox'[v] = outbox[v], sent'[v] = sent[v], failed'[v] = failed[v],
           Polled(v)' = Polled(v)
    PROVE  Outbox(v)'
<1>1. Outbox(v) /\ (Open(v)' => Open(v))
    BY DEF IInv, Opens
<1> QED BY <1>1 DEF Outbox

LEMMA DispatchEndsOK == ASSUME IInv, DispatchEnds PROVE IInv'
<1>1. LoopType'
    BY SMTT(60) DEF IInv, TypeOK, DispatchEnds
<1>2. TypeOK'
    BY <1>1, TypeFrame DEF IInv, TypeOK, DispatchEnds
<1>3. MainShape' /\ Joined'
    BY DEF IInv, TypeOK, MainShape, Joined, DispatchEnds, tables
<1>4. Roots'
    BY DEF IInv, TypeOK, WorkerType, Roots, DispatchEnds, tables, worker
<1>5. Threads'
    BY DEF IInv, TypeOK, WorkerType, HistoryType, Threads, NoOrphanThread, JoinIsAnswered,
           DispatchEnds, tables, worker, history
<1>6. Opens
    BY OpensFrame DEF DispatchEnds, tables
<1>7. \A w \in Ids : Inbox(w)'
    BY <1>6, InboxFrame DEF DispatchEnds, history
<1>8. ASSUME NEW w \in Ids PROVE Outbox(w)'
  <2>1. Polled(w)' = <<>>
    BY DEF Polled, DispatchEnds
  <2>2. UNCHANGED <<got, outbox, sent, failed>>
    BY DEF DispatchEnds, history
  <2>3. CASE Polled(w) = <<>>
    <3>1. Polled(w)' = Polled(w) /\ Outbox(w) /\ (Open(w)' => Open(w))
      BY <1>6, <2>1, <2>3 DEF IInv, Opens
    <3> QED BY <3>1, <2>2 DEF Outbox
  <2>4. CASE Polled(w) # <<>>
    <3>1. cur = w /\ batch # <<>>
      BY <2>4 DEF Polled
    <3>2. ~Open(w)'
      BY <3>1, SMTT(60) DEF IInv, TypeOK, MainShape, Roots, DispatchEnds, Open, tables
    <3>3. PICK m, b \in Nat : Meets(w, m, b)
      BY OutboxMeets
    <3>4. Spans(Polled(w), m, m)'
      BY <2>1, <3>3, SpansEmpty
    <3>5. m <= m /\ m <= sent'[w] /\ Spans(got'[w], 0, m)
      BY <2>2, <3>3, SMTT(60) DEF Meets, IInv, TypeOK, HistoryType
    <3> QED BY <3>2, <3>4, <3>5 DEF Outbox
  <2> QED BY <2>3, <2>4
<1> QED BY <1>2, <1>3, <1>4, <1>5, <1>7, <1>8 DEF IInv
LEMMA DispatchOK == ASSUME IInv, Dispatch PROVE IInv'
<1> DEFINE i == NextLetter(batch)
<1>0. /\ cur \in Ids /\ batch \in Seq(Nat) /\ batch # <<>> /\ i \in 1 .. Len(batch) /\ batch[i] \in Nat
      /\ got' = [got EXCEPT ![cur] = Append(@, batch[i])] /\ batch' = Without(batch, i)
      /\ Polled(cur) = batch
  <2>1. cur \in Ids /\ batch \in Seq(Nat) /\ batch # <<>>
    BY DEF IInv, TypeOK, MainShape, Dispatch
  <2>2. Polled(cur) = batch
    BY DEF Polled
  <2>3. PICK m, b \in Nat : Meets(cur, m, b)
    BY <2>1, OutboxMeets
  <2>4. i \in 1 .. Len(batch)
    BY <2>1, <2>2, <2>3, SpansNext DEF Meets
  <2>5. batch[i] \in Nat
    BY <2>1, <2>4, SMTT(60)
  <2> QED BY <2>1, <2>2, <2>4, <2>5 DEF Dispatch
<1>w. /\ Without(batch, i) \in Seq(Nat) /\ Len(Without(batch, i)) = Len(batch) - 1
    BY <1>0, WithoutProperties
<1>g. /\ got[cur] \in Seq(Nat) /\ Append(got[cur], batch[i]) \in Seq(Nat)
      /\ Len(Append(got[cur], batch[i])) = Len(got[cur]) + 1
      /\ got'[cur] = Append(got[cur], batch[i])
      /\ \A v \in Ids : v # cur => got'[v] = got[v]
  <2>1. got \in [Ids -> Seq(Nat)]
    BY DEF IInv, TypeOK, HistoryType
  <2>2. got[cur] \in Seq(Nat)
    BY <1>0, <2>1
  <2>3. Append(got[cur], batch[i]) \in Seq(Nat) /\ Len(Append(got[cur], batch[i])) = Len(got[cur]) + 1
    BY <1>0, <2>2, AppendProperties, SMTT(60)
  <2>4. got'[cur] = Append(got[cur], batch[i]) /\ \A v \in Ids : v # cur => got'[v] = got[v]
    BY <1>0, <2>1
  <2> QED BY <2>2, <2>3, <2>4
<1>1. LoopType'
    BY <1>0, <1>w DEF IInv, TypeOK, Dispatch
<1>2. TypeOK'
  <2>1. got' \in [Ids -> Seq(Nat)]
    BY <1>0, <1>g DEF IInv, TypeOK, HistoryType
  <2>2. HistoryType'
    BY <2>1 DEF IInv, TypeOK, HistoryType, Dispatch
  <2> QED BY <1>1, <2>2, TypeFrame DEF IInv, TypeOK, Dispatch
<1>3. MainShape' /\ Joined'
    BY <1>0, <1>1 DEF IInv, TypeOK, MainShape, Joined, Dispatch, tables
<1>4. Roots'
    BY DEF IInv, TypeOK, WorkerType, Roots, Dispatch, tables, worker
<1>5. Threads'
    BY DEF IInv, TypeOK, WorkerType, HistoryType, Threads, NoOrphanThread, JoinIsAnswered,
           Dispatch, tables, worker, history
<1>6. Opens
    BY OpensFrame DEF Dispatch, tables
<1>7. \A w \in Ids : Inbox(w)'
    BY <1>6, InboxFrame DEF Dispatch
<1>8. ASSUME NEW w \in Ids PROVE Outbox(w)'
  <2>1. UNCHANGED <<cur, outbox, sent, failed>>
    BY DEF Dispatch
  <2>2. CASE w # cur
    <3>1. Polled(w)' = Polled(w)
      BY <2>1, <2>2 DEF Polled
    <3>2. /\ got'[w] = got[w] /\ outbox'[w] = outbox[w] /\ sent'[w] = sent[w]
          /\ failed'[w] = failed[w]
      BY <1>g, <2>1, <2>2
    <3> QED BY <1>0, <1>6, <2>2, <3>1, <3>2, OutboxElsewhere
  <2>3. CASE w = cur
    <3>0. PICK m, b \in Nat : Meets(w, m, b)
      BY OutboxMeets
    <3>1. /\ m <= b /\ b <= sent[w] /\ Spans(got[w], 0, m) /\ Spans(batch, m, b)
          /\ Open(w) => Spans(outbox[w], b, sent[w])
      BY <1>0, <2>3, <3>0 DEF Meets
    <3>2. Polled(w)' = Without(batch, i)
      BY <1>0, <2>1, <2>3 DEF Polled
    <3>3. \/ batch[i] = 0 /\ Spans(Without(batch, i), m, b)
          \/ batch[i] = m + 1 /\ m + 1 <= b /\ Spans(Without(batch, i), m + 1, b)
      BY <1>0, <3>1, SpansNext
    <3>4. Spans(Append(got[w], 0), 0, m) /\ Spans(Append(got[w], m + 1), 0, m + 1)
      <4>1. got[w] \in Seq(Nat)
        BY <1>g, <2>3
      <4>2. 0 \in Nat /\ 0 <= m
        BY SMTT(60)
      <4> QED BY <3>1, <4>1, <4>2, SpansAppend
    <3>5. Open(w)' => Spans(outbox'[w], b, sent'[w])
      BY <1>6, <2>1, <3>1 DEF Opens
    <3>6. b <= sent'[w] /\ m + 1 \in Nat
      BY <2>1, <3>1, SMTT(60)
    <3>7. \E n \in Nat : n <= b /\ Spans(got'[w], 0, n) /\ Spans(Without(batch, i), n, b)
      BY <1>g, <2>3, <3>1, <3>3, <3>4, <3>6
    <3>8. Open(w)' => Len(outbox'[w]) + Len(got'[w]) + Len(Polled(w)')
                        = sent'[w] + (IF failed'[w] THEN 1 ELSE 0)
      <4>0. SUFFICES ASSUME Open(w)'
                     PROVE  Len(outbox'[w]) + Len(got'[w]) + Len(Polled(w)')
                              = sent'[w] + (IF failed'[w] THEN 1 ELSE 0)
        OBVIOUS
      <4>1. Len(outbox[w]) + Len(got[w]) + Len(Polled(w)) = sent[w] + (IF failed[w] THEN 1 ELSE 0)
        BY <1>6, <4>0 DEF IInv, Outbox, Opens
      <4>2. Len(Polled(w)') = Len(batch) - 1 /\ Len(Polled(w)) = Len(batch)
        BY <1>0, <1>w, <2>3, <3>2
      <4>3. Len(got'[w]) = Len(got[w]) + 1 /\ Len(outbox'[w]) = Len(outbox[w])
        BY <1>g, <2>1, <2>3
      <4>4. Len(outbox[w]) \in Nat /\ Len(got[w]) \in Nat /\ Len(batch) \in Nat
        BY <1>0, <1>g, <2>3, SMTT(60) DEF IInv, TypeOK
      <4>5. Len(outbox'[w]) + Len(got'[w]) + Len(Polled(w)')
              = Len(outbox[w]) + Len(got[w]) + Len(Polled(w))
        <5>1. PICK x \in Nat, y \in Nat, z \in Nat :
                 x = Len(outbox[w]) /\ y = Len(got[w]) /\ z = Len(batch)
          BY <4>4
        <5>2. x + (y + 1) + (z - 1) = x + y + z
          BY SMTT(60)
        <5> QED BY <4>2, <4>3, <5>1, <5>2
      <4> QED BY <2>1, <4>1, <4>5
    <3> QED BY <3>2, <3>5, <3>6, <3>7, <3>8 DEF Outbox
  <2> QED BY <2>2, <2>3
<1> QED BY <1>2, <1>3, <1>4, <1>5, <1>7, <1>8 DEF IInv

\* A worker without letters in the batch.
LEMMA PolledEmpty ==
    ASSUME IInv, main = "poll" PROVE \A w \in Ids : Polled(w) = <<>>
<1>1. batch = <<>>
    BY DEF IInv, MainShape
<1> QED BY <1>1 DEF Polled

\* The least id that is left, in a loop of the main thread.
LEMMA NextId ==
    ASSUME IInv, ids # {} PROVE Min(ids) \in ids /\ Min(ids) \in Ids
<1>1. ids \subseteq Nat
    BY SMTT(60) DEF IInv, TypeOK
<1>2. Min(ids) \in ids
    BY <1>1, MinIn
<1> QED BY <1>2 DEF IInv, TypeOK, LoopType

LEMMA PollOK == ASSUME IInv, Poll PROVE IInv'
<1> DEFINE w == Min(ids)
<1>0. w \in Ids /\ ids' = ids \ {w} /\ ids # {} /\ main = "poll"
    BY NextId DEF Poll
<1>p. \A v \in Ids : Polled(v) = <<>>
    BY <1>0, PolledEmpty
<1>o. outbox \in [Ids -> Seq(Nat)] /\ outbox[w] \in Seq(Nat) /\ <<>> \in Seq(Nat)
    BY <1>0, SMTT(60) DEF IInv, TypeOK
<1>c. \/ w \in registry /\ outbox[w] # <<>> /\ outbox' = [outbox EXCEPT ![w] = <<>>]
         /\ main' = "dispatch" /\ cur' = w /\ batch' = outbox[w]
      \/ outbox' = outbox /\ UNCHANGED <<main, cur, batch>>
  <2>1. w \in registry => w \in objects
    BY DEF IInv, Roots
  <2>2. ASSUME outbox[w] = <<>>, outbox' = [outbox EXCEPT ![w] = <<>>] PROVE outbox' = outbox
    BY <1>0, <1>o, <2>2
  <2> QED BY <2>1, <2>2 DEF Poll
<1> HIDE DEF w
<1>1. TypeOK'
  <2>1. outbox' \in [Ids -> Seq(Nat)]
    <3>1. CASE outbox' = [outbox EXCEPT ![w] = <<>>]
      BY <1>o, <3>1
    <3>2. CASE outbox' = outbox
      BY <1>o, <3>2
    <3> QED BY <1>c, <3>1, <3>2
  <2>2. cur' \in Nat /\ batch' \in Seq(Nat)
    <3>1. w \in Nat /\ cur \in Nat /\ batch \in Seq(Nat)
      BY <1>0, SMTT(60) DEF IInv, TypeOK
    <3> QED BY <1>c, <1>o, <3>1
  <2>3. main' \in {"poll", "dispatch"} /\ ids' \subseteq Ids
    BY <1>0, <1>c DEF IInv, TypeOK
  <2>4. LoopType'
    BY <2>2, <2>3 DEF Poll, IInv, TypeOK
  <2> QED BY <2>1, <2>4, TypeFrame DEF IInv, TypeOK, Poll
<1>2. MainShape'
    BY <1>0, <1>c DEF IInv, TypeOK, MainShape, Poll, tables
<1>3. Joined' /\ Roots'
    BY <1>0, <1>c DEF IInv, TypeOK, WorkerType, Joined, Roots, Poll, tables, worker
<1>5. Threads'
    BY <1>0, <1>c DEF IInv, TypeOK, WorkerType, HistoryType, Threads, NoOrphanThread, JoinIsAnswered,
           Poll, tables, worker, history
<1>6. Opens
    BY OpensFrame DEF Poll, tables
<1>7. \A v \in Ids : Inbox(v)'
    BY <1>6, InboxFrame DEF Poll, history
<1>8. ASSUME NEW v \in Ids PROVE Outbox(v)'
  <2>1. UNCHANGED <<got, sent, failed>>
    BY DEF Poll, history
  <2>2. CASE outbox' = outbox /\ UNCHANGED <<main, cur, batch>>
    BY <1>6, <2>1, <2>2, PolledFrame, OutboxFrame
  <2>3. CASE /\ w \in registry /\ outbox' = [outbox EXCEPT ![w] = <<>>]
             /\ cur' = w /\ batch' = outbox[w]
    <3>1. CASE v # w
      <4>1. Polled(v)' = Polled(v)
        BY <1>p, <2>3, <3>1 DEF Polled
      <4>2. /\ got'[v] = got[v] /\ outbox'[v] = outbox[v] /\ sent'[v] = sent[v]
            /\ failed'[v] = failed[v]
        BY <1>o, <2>1, <2>3, <3>1
      <4> QED BY <1>0, <1>6, <3>1, <4>1, <4>2, OutboxElsewhere
    <3>2. CASE v = w
      <4>0. PICK m, b \in Nat : Meets(v, m, b)
        BY OutboxMeets
      <4>1. Polled(v)' = outbox[v] /\ outbox'[v] = <<>> /\ Polled(v) = <<>> /\ Open(v)
        BY <1>o, <1>p, <2>3, <3>2 DEF Polled, Open
      <4>2. m = b
        <5>1. Spans(<<>>, m, b) /\ m <= b
          BY <4>0, <4>1 DEF Meets
        <5> QED BY <5>1, SpansEmpty, SMTT(60)
      <4>3. sent[v] \in Nat /\ sent'[v] = sent[v] /\ b <= sent[v]
        BY <2>1, <4>0 DEF IInv, TypeOK, HistoryType, Meets
      <4>4. /\ Spans(got'[v], 0, m) /\ Spans(Polled(v)', m, sent'[v])
            /\ Spans(outbox'[v], sent'[v], sent'[v])
        BY <2>1, <4>0, <4>1, <4>2, <4>3, SpansEmpty DEF Meets
      <4>5. m <= sent'[v] /\ sent'[v] <= sent'[v] /\ sent'[v] \in Nat
        BY <4>2, <4>3, SMTT(60)
      <4>6. Len(outbox'[v]) + Len(got'[v]) + Len(Polled(v)')
              = sent'[v] + (IF failed'[v] THEN 1 ELSE 0)
        <5>1. Len(outbox[v]) + Len(got[v]) + Len(Polled(v)) = sent[v] + (IF failed[v] THEN 1 ELSE 0)
          BY <4>1 DEF IInv, Outbox
        <5>2. /\ Len(outbox'[v]) = 0 /\ Len(Polled(v)) = 0 /\ Len(Polled(v)') = Len(outbox[v])
              /\ Len(got'[v]) = Len(got[v])
          <6>1. Len(<<>>) = 0
            OBVIOUS
          <6> QED BY <2>1, <4>1, <6>1
        <5>3. Len(outbox[v]) \in Nat /\ Len(got[v]) \in Nat
          BY SMTT(60) DEF IInv, TypeOK, HistoryType
        <5>4. Len(outbox'[v]) + Len(got'[v]) + Len(Polled(v)')
                = Len(outbox[v]) + Len(got[v]) + Len(Polled(v))
          <6>1. \A x, y \in Nat : 0 + x + y = y + x + 0
            BY SMTT(60)
          <6> QED BY <5>2, <5>3, <6>1
        <5> QED BY <2>1, <5>1, <5>4
      <4> QED BY <4>4, <4>5, <4>6 DEF Outbox
    <3> QED BY <3>1, <3>2
  <2> QED BY <1>c, <2>2, <2>3
<1> QED BY <1>1, <1>2, <1>3, <1>5, <1>7, <1>8 DEF IInv
-----------------------------------------------------------------------------
\* Termination.

\* The first half of worker_terminate, from user code or from a loop over ids
\* that are registered.
LEMMA SendTerminateOK ==
    ASSUME IInv, NEW w \in registry, NEW to \in {"user", "clean", "reset"}, SendTerminate(w, to),
           main # "join",
           UNCHANGED <<back, cur, batch, objects, nextId, outbox, worker, history>>,
           ids' \subseteq ids,
           main # "dispatch", to # "user" => back = "turn",
           to = "clean" => ids' \subseteq registry \ {w},
           to = "reset" => ids' = registry \ {w}
    PROVE  IInv'
<1>0. w \in Ids /\ w \in 0 .. nextId - 1
    BY DEF IInv, TypeOK, MainShape
<1>m. main' = "join" /\ joining' = w /\ ret' = to /\ registry' = registry \ {w}
    BY DEF SendTerminate
<1>i. /\ inbox \in [Ids -> Seq(Nat)] /\ inbox[w] \in Seq(Nat) /\ Append(inbox[w], 0) \in Seq(Nat)
      /\ Len(Append(inbox[w], 0)) = Len(inbox[w]) + 1
      /\ \A i \in 1 .. Len(inbox[w]) : Append(inbox[w], 0)[i] = inbox[w][i]
      /\ Append(inbox[w], 0)[Len(inbox[w]) + 1] = 0
  <2>1. inbox \in [Ids -> Seq(Nat)] /\ inbox[w] \in Seq(Nat)
    BY <1>0 DEF IInv, TypeOK
  <2> QED BY <2>1, AppendProperties, SMTT(60)
<1>j. \/ ReceiverAlive(w) /\ inbox' = [inbox EXCEPT ![w] = Append(@, 0)]
      \/ ~ReceiverAlive(w) /\ inbox' = inbox
    BY DEF SendTerminate
<1>1. TypeOK'
  <2>1. inbox' \in [Ids -> Seq(Nat)]
    <3>1. CASE inbox' = [inbox EXCEPT ![w] = Append(@, 0)]
      BY <1>i, <3>1
    <3>2. CASE inbox' = inbox
      BY <1>i, <3>2
    <3> QED BY <1>j, <3>1, <3>2
  <2>2. LoopType' /\ TablesType'
    BY <1>0, <1>m, SMTT(60) DEF IInv, TypeOK
  <2>3. outbox' \in [Ids -> Seq(Nat)]
    BY DEF IInv, TypeOK
  <2> QED BY <2>1, <2>2, <2>3, TypeFrame DEF TypeOK
<1>2. MainShape' /\ Joined'
    BY <1>0, <1>m DEF IInv, TypeOK, MainShape, Joined
<1>3. Roots'
    BY <1>0, <1>m DEF IInv, TypeOK, WorkerType, Roots, worker
<1>4. Threads'
  <2>1. UNCHANGED <<thread, closing, failed>>
    BY DEF worker, history
  <2>2. NoOrphanThread'
    BY <1>m, <2>1 DEF IInv, TypeOK, Threads, NoOrphanThread
  <2>3. JoinIsAnswered'
    <3>1. CASE ReceiverAlive(w) /\ inbox' = [inbox EXCEPT ![w] = Append(@, 0)]
      <4>1. inbox'[w] = Append(inbox[w], 0)
        BY <1>0, <1>i, <3>1
      <4>2. 0 \in Range(Append(inbox[w], 0))
        <5>1. Len(inbox[w]) + 1 \in DOMAIN Append(inbox[w], 0)
          BY <1>i, SMTT(60)
        <5> QED BY <1>i, <5>1 DEF Range
      <4> QED BY <1>m, <4>1, <4>2 DEF JoinIsAnswered
    <3>2. CASE ~ReceiverAlive(w)
      BY <1>m, <2>1, <3>2 DEF JoinIsAnswered, ReceiverAlive
    <3> QED BY <1>j, <3>1, <3>2
  <2> QED BY <2>1, <2>2, <2>3 DEF IInv, Threads
<1>6. Opens
    BY <1>m, OpensFrame
<1>7. ASSUME NEW v \in Ids PROVE Inbox(v)'
  <2>1. UNCHANGED <<handled, posted>>
    BY DEF history
  <2>2. Inbox(v) /\ (Open(v)' => Open(v))
    BY <1>6 DEF IInv, Opens
  <2>3. CASE inbox'[v] = inbox[v]
    BY <2>1, <2>2, <2>3 DEF Inbox
  <2>4. CASE v = w /\ inbox' = [inbox EXCEPT ![w] = Append(@, 0)]
    <3>1. inbox'[v] = Append(inbox[w], 0)
      BY <1>0, <1>i, <2>4
    <3>2. ~Open(v)'
      BY <1>0, <1>m, <2>4, SMTT(60) DEF Open, IInv, TypeOK
    <3>3. \A i \in 1 .. Len(inbox[v]) : inbox[v][i] = Len(handled[v]) + i /\ inbox[v][i] <= posted[v]
      <4>1. Open(w)
        BY DEF Open
      <4> QED BY <1>i, <2>2, <2>4, <4>1, SMTT(60) DEF Inbox, Range
    <3> DEFINE t == Append(inbox[w], 0)
    <3>4. /\ DOMAIN t = 1 .. Len(inbox[w]) + 1 /\ Len(t) = Len(inbox[w]) + 1
          /\ \A i \in 1 .. Len(inbox[w]) : t[i] = inbox[w][i]
          /\ t[Len(inbox[w]) + 1] = 0
      BY <1>i, SMTT(60)
    <3> HIDE DEF t
    <3>5. \A i \in DOMAIN t : \/ t[i] = Len(handled[v]) + i /\ t[i] <= posted[v]
                              \/ t[i] = 0 /\ i = Len(t)
      <4> TAKE i \in DOMAIN t
      <4>1. CASE i = Len(inbox[w]) + 1
        BY <3>4, <4>1
      <4>2. CASE i # Len(inbox[w]) + 1
        <5>1. i \in 1 .. Len(inbox[w])
          BY <1>i, <3>4, <4>2, SMTT(60)
        <5> QED BY <2>4, <3>3, <3>4, <5>1
      <4> QED BY <4>1, <4>2
    <3> QED BY <2>1, <2>2, <3>1, <3>2, <3>5 DEF Inbox, t
  <2> QED BY <1>0, <1>i, <1>j, <2>3, <2>4
<1>8. \A v \in Ids : Outbox(v)'
    BY <1>6, PolledFrame, OutboxFrame DEF history
<1> QED BY <1>1, <1>2, <1>3, <1>4, <1>7, <1>8 DEF IInv

LEMMA TerminateOK == ASSUME IInv, NEW w \in Ids, Terminate(w) PROVE IInv'
<1>1. /\ main = "user" /\ w \in registry /\ SendTerminate(w, "user")
      /\ UNCHANGED <<back, cur, batch, objects, nextId, outbox, worker, history>> /\ ids' \subseteq ids
    BY DEF Terminate
<1> QED BY <1>1, SendTerminateOK

LEMMA CleanOK == ASSUME IInv, Clean PROVE IInv'
<1> DEFINE w == Min(ids)
<1>0. w \in Ids /\ w \in ids /\ ids' = ids \ {w} /\ main = "clean"
    BY NextId DEF Clean
<1>1. w \in registry /\ back = "turn" /\ ids \subseteq registry
    BY <1>0 DEF IInv, MainShape
<1>2. UNCHANGED <<back, cur, batch, objects, nextId, outbox, worker, history>>
    BY DEF Clean
<1>3. CASE SendTerminate(w, "clean")
  <2>1. ids' \subseteq ids /\ ids' \subseteq registry \ {w}
    BY <1>0, <1>1
  <2> QED BY <1>0, <1>1, <1>2, <1>3, <2>1, SendTerminateOK
<1>4. CASE UNCHANGED <<main, ret, joining, registry, inbox>>
  <2>1. ids' \subseteq ids
    BY <1>0
  <2>r. main' = "clean" /\ back' = "turn" /\ batch' = <<>> /\ ids' \subseteq registry'
    BY <1>0, <1>1, <1>2, <1>4, <2>1 DEF IInv, MainShape
  <2>2. LoopType' /\ MainShape'
    <3>1. LoopType'
      <4>1. LoopType /\ ids' \subseteq Ids
        BY <2>1 DEF IInv, TypeOK
      <4> QED BY <1>2, <1>4, <4>1 DEF LoopType
    <3>2. (registry \cup objects \subseteq 0 .. nextId - 1)'
      BY <1>2, <1>4 DEF IInv, MainShape
    <3> QED BY <2>r, <3>1, <3>2 DEF MainShape
  <2>3. TypeOK'
    <3>1. UNCHANGED tables
      BY <1>2, <1>4 DEF tables
    <3> QED BY <1>2, <1>4, <2>2, <3>1, TypeFrame DEF IInv, TypeOK
  <2> QED BY <1>0, <1>2, <1>4, <2>2, <2>3, MainOnly DEF tables
<1> QED BY <1>3, <1>4 DEF Clean

LEMMA ShutdownOK == ASSUME IInv, Shutdown PROVE IInv'
<1> DEFINE w == Min(ids)
<1>0. w \in Ids /\ w \in ids /\ ids' = ids \ {w} /\ main = "reset" /\ SendTerminate(w, "reset")
    BY NextId DEF Shutdown
<1>1. w \in registry /\ back = "turn" /\ ids = registry
    BY <1>0 DEF IInv, MainShape
<1>2. UNCHANGED <<back, cur, batch, objects, nextId, outbox, worker, history>>
    BY DEF Shutdown
<1>3. ids' \subseteq ids /\ ids' = registry \ {w}
    BY <1>0, <1>1
<1> QED BY <1>0, <1>1, <1>2, <1>3, SendTerminateOK
LEMMA JoinOK == ASSUME IInv, Join PROVE IInv'
<1>0. /\ main = "join" /\ joining \in 0 .. nextId - 1 /\ joining \in Ids /\ joining \notin registry
      /\ thread[joining] = "gone" /\ main' = ret /\ ret' = "user" /\ joining' = 0
    BY SMTT(60) DEF IInv, TypeOK, Joined, Join, JoinReturnsTo, IsDisconnected
<1>u. UNCHANGED <<back, ids, cur, batch, registry, nextId, worker, history>>
    BY DEF Join, JoinReturnsTo
<1>o. objects' \subseteq objects /\ objects \subseteq objects' \cup {joining}
      /\ (joining \in objects' => panicked[joining])
    BY DEF Join
<1>c. /\ inbox \in [Ids -> Seq(Nat)] /\ outbox \in [Ids -> Seq(Nat)] /\ <<>> \in Seq(Nat)
      /\ inbox' = [inbox EXCEPT ![joining] = <<>>] /\ outbox' = [outbox EXCEPT ![joining] = <<>>]
    BY SMTT(60) DEF IInv, TypeOK, Join, JoinReturnsTo
<1>1. TypeOK'
  <2>1. inbox' \in [Ids -> Seq(Nat)] /\ outbox' \in [Ids -> Seq(Nat)]
    BY <1>c
  <2>2. LoopType' /\ TablesType'
    BY <1>0, <1>u, <1>o DEF IInv, TypeOK
  <2> QED BY <1>u, <2>1, <2>2, TypeFrame DEF TypeOK
<1>2. MainShape' /\ Joined'
    BY <1>0, <1>u, <1>o DEF IInv, TypeOK, MainShape, Joined
<1>3. Roots'
    BY <1>0, <1>u, <1>o DEF IInv, TypeOK, WorkerType, Roots, worker
<1>4. Threads'
  <2>1. UNCHANGED <<thread, failed, nextId, registry>>
    BY <1>u DEF worker, history
  <2>2. main' # "join"
    BY <1>0 DEF IInv, TypeOK
  <2>3. NoOrphanThread'
    BY <1>0, <2>1 DEF IInv, Threads, NoOrphanThread
  <2> QED BY <2>1, <2>2, <2>3 DEF IInv, Threads, JoinIsAnswered
<1>6. Opens
    BY <1>u, OpensFrame
<1>7. ASSUME NEW v \in Ids PROVE Inbox(v)'
  <2>1. UNCHANGED <<handled, posted>>
    BY <1>u DEF history
  <2>2. Inbox(v) /\ (Open(v)' => Open(v))
    BY <1>6 DEF IInv, Opens
  <2>3. CASE v # joining
    <3>1. inbox'[v] = inbox[v]
      BY <1>c, <2>3
    <3> QED BY <2>1, <2>2, <3>1 DEF Inbox
  <2>4. CASE v = joining
    <3>1. inbox'[v] = <<>> /\ DOMAIN <<>> = {}
      BY <1>0, <1>c, <2>4, SMTT(60)
    <3>2. ~Open(v)'
      BY <1>0, <1>u, <2>4, SMTT(60) DEF Open, IInv, TypeOK
    <3> QED BY <2>1, <2>2, <3>1, <3>2 DEF Inbox
  <2> QED BY <2>3, <2>4
<1>8. ASSUME NEW v \in Ids PROVE Outbox(v)'
  <2>1. UNCHANGED <<got, sent, failed>> /\ Polled(v)' = Polled(v)
    BY <1>u DEF history, Polled
  <2>2. Outbox(v) /\ (Open(v)' => Open(v))
    BY <1>6 DEF IInv, Opens
  <2>3. CASE v # joining
    <3>1. outbox'[v] = outbox[v]
      BY <1>c, <2>3
    <3> QED BY <2>1, <2>2, <3>1 DEF Outbox
  <2>4. CASE v = joining
    <3>1. ~Open(v)'
      BY <1>0, <1>u, <2>4, SMTT(60) DEF Open, IInv, TypeOK
    <3> QED BY <2>1, <2>2, <3>1 DEF Outbox
  <2> QED BY <2>3, <2>4
<1> QED BY <1>1, <1>2, <1>3, <1>4, <1>7, <1>8 DEF IInv

LEMMA PostOK == ASSUME IInv, NEW w \in Ids, Post(w) PROVE IInv'
<1> DEFINE x == posted[w] + 1
<1>0. /\ main = "user" /\ w \in registry /\ posted[w] \in Nat /\ x \in Nat
      /\ posted' = [posted EXCEPT ![w] = @ + 1]
      /\ inbox' = [inbox EXCEPT ![w] = Append(@, x)]
      /\ UNCHANGED <<loop, tables, outbox, worker, handled, sent, failed, got>>
  <2>1. posted[w] \in Nat /\ x \in Nat
    BY SMTT(60) DEF IInv, TypeOK, HistoryType
  <2> QED BY <2>1 DEF Post
<1>i. /\ inbox \in [Ids -> Seq(Nat)] /\ inbox[w] \in Seq(Nat) /\ Append(inbox[w], x) \in Seq(Nat)
      /\ Len(Append(inbox[w], x)) = Len(inbox[w]) + 1
      /\ \A i \in 1 .. Len(inbox[w]) : Append(inbox[w], x)[i] = inbox[w][i]
      /\ Append(inbox[w], x)[Len(inbox[w]) + 1] = x
  <2>1. inbox \in [Ids -> Seq(Nat)] /\ inbox[w] \in Seq(Nat)
    BY DEF IInv, TypeOK
  <2> HIDE DEF x
  <2> QED BY <1>0, <2>1, AppendProperties, SMTT(60)
<1> HIDE DEF x
<1>x. x \in Nat /\ posted[w] \in Nat
    BY <1>0
<1>1. TypeOK'
  <2>1. inbox' \in [Ids -> Seq(Nat)] /\ outbox' \in [Ids -> Seq(Nat)]
    BY <1>0, <1>i DEF IInv, TypeOK
  <2>2. posted' \in [Ids -> Nat]
    BY <1>0, SMTT(60) DEF IInv, TypeOK, HistoryType
  <2>3. HistoryType'
    BY <1>0, <2>2 DEF IInv, TypeOK, HistoryType
  <2> QED BY <1>0, <2>1, <2>3, TypeFrame DEF TypeOK
<1>2. MainShape' /\ Joined' /\ Roots'
  <2>1. UNCHANGED <<main, back, ret, joining, ids, cur, batch, registry, objects, nextId, panicked>>
    BY <1>0 DEF loop, tables, worker
  <2> QED BY <2>1 DEF IInv, MainShape, Joined, Roots
<1>4. Threads'
    BY <1>0 DEF IInv, TypeOK, WorkerType, HistoryType, Threads, NoOrphanThread,
                JoinIsAnswered, loop, tables, worker
<1>6. Opens
    BY <1>0, OpensFrame DEF tables
<1>7. ASSUME NEW v \in Ids PROVE Inbox(v)'
  <2>1. Inbox(v) /\ (Open(v)' => Open(v)) /\ handled'[v] = handled[v]
    BY <1>0, <1>6 DEF IInv, Opens
  <2>2. CASE v # w
    <3>1. inbox'[v] = inbox[v] /\ posted'[v] = posted[v]
      BY <1>0, <1>i, <2>2 DEF IInv, TypeOK, HistoryType
    <3> QED BY <2>1, <3>1 DEF Inbox
  <2>3. CASE v = w
    <3> DEFINE t == Append(inbox[w], x)
    <3>1. inbox'[v] = t /\ posted'[v] = x
      BY <1>0, <1>i, <2>3 DEF IInv, TypeOK, HistoryType, x
    <3>2. /\ DOMAIN t = 1 .. Len(inbox[w]) + 1 /\ Len(t) = Len(inbox[w]) + 1
          /\ \A i \in 1 .. Len(inbox[w]) : t[i] = inbox[w][i]
          /\ t[Len(inbox[w]) + 1] = x
      BY <1>i, SMTT(60)
    <3> HIDE DEF t
    <3>3. /\ Len(handled[v]) + Len(inbox[w]) = posted[w] /\ x = posted[w] + 1
          /\ \A i \in 1 .. Len(inbox[w]) :
                inbox[w][i] = Len(handled[v]) + i /\ inbox[w][i] <= posted[w] /\ inbox[w][i] # 0
      <4>1. Open(w)
        BY <1>0 DEF Open
      <4> QED BY <1>i, <2>1, <2>3, <4>1, SMTT(60) DEF Inbox, Range, x
    <3>4. Len(handled[v]) \in Nat /\ Len(inbox[w]) \in Nat
      BY <1>i, SMTT(60) DEF IInv, TypeOK, HistoryType
    <3>a. PICK h \in Nat, n \in Nat : h = Len(handled[v]) /\ n = Len(inbox[w])
      BY <3>4
    <3>b. x = h + n + 1
      <4>1. h + n = posted[w] /\ x = posted[w] + 1
        BY <3>3, <3>a
      <4> QED BY <1>x, <4>1
    <3>c. h + (n + 1) = x /\ x <= x /\ x # 0 /\ h <= x
      BY <3>b, SMTT(60)
    <3>5. \A i \in DOMAIN t : t[i] = Len(handled[v]) + i /\ t[i] <= x /\ t[i] # 0
      <4> TAKE i \in DOMAIN t
      <4>1. CASE i = Len(inbox[w]) + 1
        BY <3>2, <3>a, <3>c, <4>1
      <4>2. CASE i # Len(inbox[w]) + 1
        <5>1. i \in 1 .. Len(inbox[w]) /\ t[i] = inbox[w][i]
          BY <3>2, <3>4, <4>2, SMTT(60)
        <5> QED BY <1>x, <3>3, <3>4, <5>1, SMTT(60)
      <4> QED BY <4>1, <4>2
    <3>6. Len(handled[v]) + Len(t) = x /\ Len(handled[v]) <= x
      BY <3>2, <3>a, <3>c
    <3>7. 0 \notin Range(t)
      BY <3>5 DEF Range
    <3> QED BY <2>1, <3>1, <3>5, <3>6, <3>7 DEF Inbox
  <2> QED BY <2>2, <2>3
<1>8. \A v \in Ids : Outbox(v)'
  <2>1. UNCHANGED <<cur, batch>>
    BY <1>0 DEF loop
  <2> QED BY <1>0, <1>6, <2>1, PolledFrame, OutboxFrame
<1> QED BY <1>1, <1>2, <1>4, <1>7, <1>8 DEF IInv
-----------------------------------------------------------------------------
\* Steps of a worker thread.

\* A worker that takes a step was spawned and is in use or being joined.
Runs(w) == thread[w] \notin {"none", "gone"}

\* A step of w that leaves the main thread alone.
WorkerOnly(w) ==
    /\ UNCHANGED <<loop, tables>>
    /\ Runs(w)
    /\ thread' \in [Ids -> Places]
    /\ \A v \in Ids : v # w => thread'[v] = thread[v]
    /\ thread'[w] # "none"
    /\ closing' \in [Ids -> BOOLEAN]
    /\ panicked' \in [Ids -> BOOLEAN]
    /\ \A v \in Ids : panicked[v] => panicked'[v]

LEMMA WorkerFrame ==
    ASSUME IInv, NEW w \in Ids, WorkerOnly(w)
    PROVE  /\ LoopType' /\ TablesType' /\ WorkerType'
           /\ MainShape' /\ Joined' /\ Roots'
           /\ Opens /\ \A v \in Ids : Polled(v)' = Polled(v)
           /\ \A v \in nextId' .. MaxWorkers - 1 : thread'[v] = "none"
           /\ NoOrphanThread'
<1>1. UNCHANGED <<main, back, ret, joining, ids, cur, batch, registry, objects, nextId>>
    BY DEF WorkerOnly, loop, tables
<1>2. LoopType' /\ TablesType'
    BY TypeFrame DEF WorkerOnly
<1>3. WorkerType'
    BY DEF WorkerOnly, WorkerType
<1>4. MainShape' /\ Joined'
    BY <1>1 DEF IInv, MainShape, Joined
<1>5. Roots'
  <2>1. objects \subseteq Ids
    BY DEF IInv, TypeOK
  <2> QED BY <1>1, <2>1 DEF IInv, Roots, WorkerOnly
<1>6. Opens
    BY <1>1, OpensFrame
<1>7. \A v \in Ids : Polled(v)' = Polled(v)
    BY <1>1, PolledFrame
<1>8. ASSUME NEW v \in nextId' .. MaxWorkers - 1 PROVE thread'[v] = "none"
  <2>1. v \in Ids /\ v \in nextId .. MaxWorkers - 1
    BY <1>1, SMTT(60) DEF IInv, TypeOK
  <2> QED BY <2>1 DEF IInv, Threads, WorkerOnly, Runs
<1>9. NoOrphanThread'
  <2>1. SUFFICES ASSUME NEW v \in 0 .. nextId - 1, v \notin registry, ~(main = "join" /\ joining = v)
                 PROVE  thread'[v] = "gone"
    BY <1>1 DEF NoOrphanThread
  <2>2. v \in Ids
    BY SMTT(60) DEF IInv, TypeOK
  <2> QED BY <2>1, <2>2 DEF IInv, Threads, NoOrphanThread, WorkerOnly, Runs
<1> QED BY <1>2, <1>3, <1>4, <1>5, <1>6, <1>7, <1>8, <1>9

\* The worker ends without a Terminate.
Ending(w) == ~ReceiverAlive(w) \/ closing[w] \/ thread[w] = "leaving"

\* Such a step that touches neither channel.
LEMMA NoLetter ==
    ASSUME IInv, NEW w \in Ids, WorkerOnly(w), UNCHANGED <<inbox, outbox, history>>,
           Ending(w) => Ending(w)',
           \A v \in Ids : v # w => closing'[v] = closing[v],
           thread'[w] = "script" => thread[w] = "script"
    PROVE  IInv'
<1>0. UNCHANGED <<main, joining, inbox, outbox, posted, handled, sent, failed, got>>
    BY DEF WorkerOnly, loop, history
<1>1. TypeOK'
    BY WorkerFrame, TypeFrame DEF IInv, TypeOK
<1>2. JoinIsAnswered'
  <2>1. JoinIsAnswered /\ Joined /\ (main = "join" => joining \in Ids)
    BY SMTT(60) DEF IInv, TypeOK, Threads, Joined
  <2>2. \A v \in Ids : v # w => thread'[v] = thread[v]
    BY DEF WorkerOnly
  <2>3. CASE main = "join" /\ joining = w
    BY <1>0, <2>1, <2>3 DEF JoinIsAnswered, Ending
  <2>4. CASE main = "join" /\ joining # w
    BY <1>0, <2>1, <2>2, <2>4, ZenonT(60) DEF JoinIsAnswered, ReceiverAlive
  <2>5. CASE main # "join"
    BY <1>0, <2>5 DEF JoinIsAnswered
  <2> QED BY <2>3, <2>4, <2>5
<1>3. \A v \in Ids : thread'[v] \in {"none", "script"} => ~failed'[v]
    BY <1>0 DEF IInv, Threads, WorkerOnly
<1>4. Threads'
    BY <1>2, <1>3, WorkerFrame DEF Threads
<1>5. \A v \in Ids : Inbox(v)'
    BY <1>0, WorkerFrame, InboxFrame
<1>6. \A v \in Ids : Outbox(v)'
    BY <1>0, WorkerFrame, OutboxFrame
<1> QED BY <1>1, <1>4, <1>5, <1>6, WorkerFrame DEF IInv
LEMMA SelfCloseOK == ASSUME IInv, NEW w \in Ids, SelfClose(w) PROVE IInv'
<1>1. UNCHANGED <<loop, tables, inbox, outbox, thread, panicked, history>>
    BY DEF SelfClose
<1>2. thread \in [Ids -> Places] /\ closing \in [Ids -> BOOLEAN] /\ panicked \in [Ids -> BOOLEAN]
    BY DEF IInv, TypeOK, WorkerType
<1>3. closing' \in [Ids -> BOOLEAN] /\ closing'[w] /\ \A v \in Ids : v # w => closing'[v] = closing[v]
    BY <1>2 DEF SelfClose
<1>4. Runs(w) /\ thread[w] # "none"
    BY DEF SelfClose, InUserCode, Runs
<1>5. WorkerOnly(w)
    BY <1>1, <1>2, <1>3, <1>4 DEF WorkerOnly
<1>6. Ending(w)'
    BY <1>3 DEF Ending
<1> QED BY <1>1, <1>3, <1>5, <1>6, NoLetter

\* The thread of w goes from one place to another.
LEMMA GotoOK ==
    ASSUME IInv, NEW w \in Ids, NEW at \in Places, Goto(w, at), Runs(w), at \notin {"none", "script"},
           UNCHANGED <<loop, tables, closing>>,
           panicked' \in [Ids -> BOOLEAN], \A v \in Ids : panicked[v] => panicked'[v]
    PROVE  /\ WorkerOnly(w)
           /\ thread'[w] = at
<1>1. thread \in [Ids -> Places] /\ closing \in [Ids -> BOOLEAN]
    BY DEF IInv, TypeOK, WorkerType
<1>2. thread' \in [Ids -> Places] /\ thread'[w] = at /\ \A v \in Ids : v # w => thread'[v] = thread[v]
    BY <1>1 DEF Goto
<1>3. closing' \in [Ids -> BOOLEAN] /\ thread'[w] # "none"
    BY <1>1, <1>2
<1> QED BY <1>2, <1>3 DEF WorkerOnly

\* Such a step that touches neither channel and nothing else.
LEMMA GotoOnlyOK ==
    ASSUME IInv, NEW w \in Ids, NEW at \in Places, Goto(w, at), Runs(w), at \notin {"none", "script"},
           UNCHANGED <<loop, tables, inbox, outbox, closing, panicked, history>>,
           at \in {"left", "gone", "leaving"} \/ InUserCode(w)
    PROVE  IInv'
<1>1. panicked' \in [Ids -> BOOLEAN] /\ \A v \in Ids : panicked[v] => panicked'[v]
    BY DEF IInv, TypeOK, WorkerType
<1>2. WorkerOnly(w) /\ thread'[w] = at
    BY <1>1, GotoOK
<1>3. Ending(w) => Ending(w)'
  <2>1. CASE at \in {"left", "gone"}
    <3>1. ~ReceiverAlive(w)'
      BY <1>2, <2>1 DEF ReceiverAlive
    <3> QED BY <3>1 DEF Ending
  <2>2. CASE at = "leaving"
    BY <1>2, <2>2 DEF Ending
  <2>3. CASE InUserCode(w)
    <3>1. ReceiverAlive(w) /\ thread[w] # "leaving"
      BY <2>3 DEF InUserCode, ReceiverAlive
    <3> QED BY <3>1 DEF Ending
  <2> QED BY <2>1, <2>2, <2>3
<1> QED BY <1>2, <1>3, NoLetter

LEMMA UserCodeEndsOK == ASSUME IInv, NEW w \in Ids, UserCodeEnds(w) PROVE IInv'
<1>1. Runs(w) /\ InUserCode(w)
    BY DEF UserCodeEnds, InUserCode, Runs
<1>2. "loop" \in Places /\ "loop" \notin {"none", "script"}
    OBVIOUS
<1> QED BY <1>1, <1>2, GotoOnlyOK DEF UserCodeEnds

LEMMA CloseSeenOK == ASSUME IInv, NEW w \in Ids, CloseSeen(w) PROVE IInv'
<1>1. Runs(w)
    BY DEF CloseSeen, Runs
<1>2. /\ "leaving" \in Places /\ "leaving" \notin {"none", "script"}
      /\ "leaving" \in {"left", "gone", "leaving"}
    OBVIOUS
<1> QED BY <1>1, <1>2, GotoOnlyOK DEF CloseSeen

LEMMA LeaveOK == ASSUME IInv, NEW w \in Ids, Leave(w) PROVE IInv'
<1> DEFINE at == IF thread[w] = "leaving" THEN "left" ELSE "gone"
<1>1. Runs(w)
    BY DEF Leave, Runs
<1>2. at \in Places /\ at \notin {"none", "script"} /\ at \in {"left", "gone", "leaving"}
    OBVIOUS
<1>3. Goto(w, at) /\ UNCHANGED <<loop, tables, inbox, outbox, closing, panicked, history>>
    BY DEF Leave
<1> HIDE DEF at
<1> QED BY <1>1, <1>2, <1>3, GotoOnlyOK

LEMMA UserCodePanicsOK == ASSUME IInv, NEW w \in Ids, UserCodePanics(w) PROVE IInv'
<1>1. Runs(w)
    BY DEF UserCodePanics, InUserCode, Runs
<1>2. "gone" \in Places /\ "gone" \notin {"none", "script"}
    OBVIOUS
<1>3. panicked' \in [Ids -> BOOLEAN] /\ \A v \in Ids : panicked[v] => panicked'[v]
  <2>1. panicked \in [Ids -> BOOLEAN]
    BY DEF IInv, TypeOK, WorkerType
  <2>2. panicked' = [panicked EXCEPT ![w] = TRUE]
    BY DEF UserCodePanics
  <2>3. panicked' \in [Ids -> BOOLEAN] /\ panicked'[w] /\ \A v \in Ids : v # w => panicked'[v] = panicked[v]
    BY <2>1, <2>2
  <2> QED BY <2>3
<1>4. WorkerOnly(w) /\ thread'[w] = "gone"
    BY <1>1, <1>2, <1>3, GotoOK DEF UserCodePanics
<1>5. ~ReceiverAlive(w)'
    BY <1>4 DEF ReceiverAlive
<1>6. Ending(w)'
    BY <1>5 DEF Ending
<1>7. thread'[w] # "script" /\ UNCHANGED <<inbox, outbox, closing, history>>
    BY <1>4 DEF UserCodePanics
<1> QED BY <1>4, <1>6, <1>7, NoLetter
LEMMA AppendLen ==
    \A s \in Seq(Nat), x \in Nat : Append(s, x) \in Seq(Nat) /\ Len(Append(s, x)) = Len(s) + 1
BY AppendProperties

\* A letter of w is sent: an error, the first, or the next message.
LEMMA LetterSent ==
    ASSUME IInv, NEW w \in Ids, WorkerOnly(w), NEW x \in Nat,
           outbox' = [outbox EXCEPT ![w] = Append(@, x)], UNCHANGED got,
           \A v \in Ids : v # w => sent'[v] = sent[v] /\ failed'[v] = failed[v],
           \/ x = 0 /\ sent'[w] = sent[w] /\ ~failed[w] /\ failed'[w]
           \/ x = sent[w] + 1 /\ sent'[w] = x /\ failed'[w] = failed[w]
    PROVE  \A v \in Ids : Outbox(v)'
<1>1. SUFFICES ASSUME NEW v \in Ids PROVE Outbox(v)'
    OBVIOUS
<1>2. Opens /\ Polled(v)' = Polled(v)
    BY WorkerFrame
<1>3. outbox \in [Ids -> Seq(Nat)] /\ outbox[w] \in Seq(Nat) /\ sent[w] \in Nat
      /\ got[w] \in Seq(Nat) /\ Polled(w) \in Seq(Nat)
  <2>1. outbox \in [Ids -> Seq(Nat)] /\ outbox[w] \in Seq(Nat) /\ sent[w] \in Nat
        /\ got[w] \in Seq(Nat) /\ batch \in Seq(Nat) /\ <<>> \in Seq(Nat)
    BY SMTT(60) DEF IInv, TypeOK, HistoryType
  <2> QED BY <2>1 DEF Polled
<1>4. CASE v # w
  <2>1. got'[v] = got[v] /\ outbox'[v] = outbox[v] /\ sent'[v] = sent[v] /\ failed'[v] = failed[v]
    BY <1>3, <1>4
  <2> QED BY <1>2, <1>4, <2>1, OutboxElsewhere
<1>5. CASE v = w
  <2>0. PICK m, b \in Nat : Meets(w, m, b)
    BY OutboxMeets
  <2>1. /\ m <= b /\ b <= sent[w] /\ Spans(got[w], 0, m) /\ Spans(Polled(w), m, b)
        /\ Open(w) => Spans(outbox[w], b, sent[w])
    BY <2>0 DEF Meets
  <2>2. outbox'[w] = Append(outbox[w], x) /\ Len(Append(outbox[w], x)) = Len(outbox[w]) + 1
    <3>1. outbox'[w] = Append(outbox[w], x)
      BY <1>3
    <3>2. Len(Append(outbox[w], x)) = Len(outbox[w]) + 1
      BY <1>3, AppendLen
    <3> QED BY <3>1, <3>2
  <2>3. b <= sent'[w]
    BY <1>3, <2>1, SMTT(60)
  <2>4. Open(w)' => Spans(outbox'[w], b, sent'[w])
    <3>1. ASSUME Open(w) PROVE Spans(Append(outbox[w], 0), b, sent[w])
                               /\ Spans(Append(outbox[w], sent[w] + 1), b, sent[w] + 1)
      BY <1>3, <2>1, <3>1, SpansAppend
    <3>2. Open(w)' => Open(w)
      BY <1>2 DEF Opens
    <3> QED BY <2>2, <3>1, <3>2
  <2>5. Open(w)' => Len(outbox'[w]) + Len(got'[w]) + Len(Polled(w)')
                      = sent'[w] + (IF failed'[w] THEN 1 ELSE 0)
    <3>1. SUFFICES ASSUME Open(w)'
                   PROVE  Len(outbox'[w]) + Len(got'[w]) + Len(Polled(w)')
                            = sent'[w] + (IF failed'[w] THEN 1 ELSE 0)
      OBVIOUS
    <3>2. Open(w)
      BY <1>2, <3>1 DEF Opens
    <3>3. Len(outbox[w]) + Len(got[w]) + Len(Polled(w)) = sent[w] + (IF failed[w] THEN 1 ELSE 0)
      BY <3>2 DEF IInv, Outbox
    <3>4. PICK o \in Nat, g \in Nat, p \in Nat :
             o = Len(outbox[w]) /\ g = Len(got[w]) /\ p = Len(Polled(w))
      <4>1. Len(outbox[w]) \in Nat /\ Len(got[w]) \in Nat /\ Len(Polled(w)) \in Nat
        BY <1>3, SMTT(60)
      <4> QED BY <4>1
    <3>5. Len(outbox'[w]) + Len(got'[w]) + Len(Polled(w)') = o + 1 + g + p
      BY <1>2, <1>5, <2>2, <3>4
    <3>6. o + g + p = sent[w] + (IF failed[w] THEN 1 ELSE 0)
      BY <3>3, <3>4
    <3>7. o + 1 + g + p = sent'[w] + (IF failed'[w] THEN 1 ELSE 0)
      <4>1. CASE x = 0 /\ sent'[w] = sent[w] /\ ~failed[w] /\ failed'[w]
        <5>1. o + g + p = sent[w] + 0
          BY <3>6, <4>1
        <5>2. o + 1 + g + p = sent[w] + 1
          BY <1>3, <5>1, SMTT(60)
        <5> QED BY <4>1, <5>2
      <4>2. CASE x = sent[w] + 1 /\ sent'[w] = x /\ failed'[w] = failed[w]
        <5>1. PICK e \in Nat : e = IF failed[w] THEN 1 ELSE 0
          <6>1. 0 \in Nat /\ 1 \in Nat
            OBVIOUS
          <6> QED BY <6>1
        <5>2. o + g + p = sent[w] + e
          BY <3>6, <5>1
        <5>3. \A n \in Nat : o + g + p = n + e => o + 1 + g + p = n + 1 + e
          BY SMTT(60)
        <5>4. o + 1 + g + p = sent[w] + 1 + e
          BY <1>3, <5>2, <5>3
        <5> QED BY <4>2, <5>1, <5>4
      <4> QED BY <4>1, <4>2
    <3> QED BY <3>5, <3>7
  <2>6. Spans(got'[w], 0, m) /\ Spans(Polled(w)', m, b)
    BY <1>2, <1>5, <2>1
  <2> QED BY <1>5, <2>1, <2>3, <2>4, <2>5, <2>6 DEF Outbox
<1> QED BY <1>4, <1>5

\* What a step that sends a letter leaves alone.
LEMMA SenderFrame ==
    ASSUME IInv, NEW w \in Ids, WorkerOnly(w), UNCHANGED <<inbox, closing, posted, handled>>,
           HistoryType', outbox' \in [Ids -> Seq(Nat)], \A v \in Ids : Outbox(v)',
           Ending(w) => Ending(w)',
           \A v \in Ids : v # w => failed'[v] = failed[v],
           thread'[w] = "script" => ~failed'[w]
    PROVE  IInv'
<1>0. UNCHANGED <<main, joining, inbox, posted, handled>>
    BY DEF WorkerOnly, loop
<1>1. TypeOK'
    BY <1>0, WorkerFrame DEF IInv, TypeOK
<1>2. JoinIsAnswered'
  <2>1. JoinIsAnswered /\ (main = "join" => joining \in Ids)
    BY SMTT(60) DEF IInv, TypeOK, Threads, Joined
  <2>2. \A v \in Ids : v # w => thread'[v] = thread[v]
    BY DEF WorkerOnly
  <2>3. CASE main = "join" /\ joining = w
    BY <1>0, <2>1, <2>3 DEF JoinIsAnswered, Ending
  <2>4. CASE main = "join" /\ joining # w
    BY <1>0, <2>1, <2>2, <2>4, ZenonT(60) DEF JoinIsAnswered, ReceiverAlive
  <2>5. CASE main # "join"
    BY <1>0, <2>5 DEF JoinIsAnswered
  <2> QED BY <2>3, <2>4, <2>5
<1>3. \A v \in Ids : thread'[v] \in {"none", "script"} => ~failed'[v]
    BY DEF IInv, Threads, WorkerOnly
<1>4. Threads'
    BY <1>2, <1>3, WorkerFrame DEF Threads
<1>5. \A v \in Ids : Inbox(v)'
    BY <1>0, WorkerFrame, InboxFrame
<1> QED BY <1>1, <1>4, <1>5, WorkerFrame DEF IInv

LEMMA SelfPostMessageOK == ASSUME IInv, NEW w \in Ids, SelfPostMessage(w) PROVE IInv'
<1> DEFINE x == sent[w] + 1
<1>0. /\ sent' = [sent EXCEPT ![w] = @ + 1] /\ outbox' = [outbox EXCEPT ![w] = Append(@, x)]
      /\ UNCHANGED <<loop, tables, inbox, thread, closing, panicked, posted, handled, failed, got>>
    BY DEF SelfPostMessage, worker
<1>1. /\ thread \in [Ids -> Places] /\ closing \in [Ids -> BOOLEAN] /\ panicked \in [Ids -> BOOLEAN]
      /\ outbox \in [Ids -> Seq(Nat)] /\ outbox[w] \in Seq(Nat)
      /\ sent \in [Ids -> Nat] /\ sent[w] \in Nat /\ x \in Nat
    BY SMTT(60) DEF IInv, TypeOK, WorkerType, HistoryType
<1>2. Runs(w) /\ thread[w] # "none"
    BY DEF SelfPostMessage, InUserCode, Runs
<1>3. WorkerOnly(w)
    BY <1>0, <1>1, <1>2 DEF WorkerOnly
<1>4. sent' \in [Ids -> Nat] /\ sent'[w] = x /\ \A v \in Ids : v # w => sent'[v] = sent[v]
    BY <1>0, <1>1
<1>5. outbox' \in [Ids -> Seq(Nat)]
  <2>1. Append(outbox[w], x) \in Seq(Nat)
    BY <1>1, AppendProperties
  <2> QED BY <1>0, <1>1, <2>1
<1>6. \A v \in Ids : Outbox(v)'
    BY <1>0, <1>1, <1>3, <1>4, LetterSent
<1>7. HistoryType'
    BY <1>0, <1>4 DEF IInv, TypeOK, HistoryType
<1>8. Ending(w) => Ending(w)'
    BY <1>0 DEF Ending, ReceiverAlive
<1>9. thread'[w] = "script" => ~failed'[w]
    BY <1>0 DEF IInv, Threads
<1> QED BY <1>0, <1>3, <1>5, <1>6, <1>7, <1>8, <1>9, SenderFrame

LEMMA ScriptFailsOK == ASSUME IInv, NEW w \in Ids, ScriptFails(w) PROVE IInv'
<1>0. /\ outbox' = [outbox EXCEPT ![w] = Append(@, 0)] /\ failed' = [failed EXCEPT ![w] = TRUE]
      /\ UNCHANGED <<loop, tables, inbox, closing, panicked, posted, handled, sent, got>>
    BY DEF ScriptFails
<1>1. /\ panicked \in [Ids -> BOOLEAN] /\ failed \in [Ids -> BOOLEAN]
      /\ outbox \in [Ids -> Seq(Nat)] /\ outbox[w] \in Seq(Nat) /\ 0 \in Nat
    BY DEF IInv, TypeOK, WorkerType, HistoryType
<1>2. Runs(w) /\ "loop" \in Places /\ "loop" \notin {"none", "script"}
    BY DEF ScriptFails, Runs
<1>3. WorkerOnly(w) /\ thread'[w] = "loop"
    BY <1>0, <1>1, <1>2, GotoOK DEF ScriptFails
<1>4. /\ failed' \in [Ids -> BOOLEAN] /\ failed'[w] /\ ~failed[w]
      /\ \A v \in Ids : v # w => failed'[v] = failed[v]
    BY <1>0, <1>1 DEF ScriptFails, IInv, Threads
<1>5. outbox' \in [Ids -> Seq(Nat)]
  <2>1. Append(outbox[w], 0) \in Seq(Nat)
    BY <1>1, AppendProperties
  <2> QED BY <1>0, <1>1, <2>1
<1>6. \A v \in Ids : Outbox(v)'
    BY <1>0, <1>1, <1>3, <1>4, LetterSent
<1>7. HistoryType'
    BY <1>0, <1>4 DEF IInv, TypeOK, HistoryType
<1>8. Ending(w) => Ending(w)'
  <2>1. ReceiverAlive(w) /\ thread[w] # "leaving"
    BY DEF ScriptFails, ReceiverAlive
  <2> QED BY <1>0, <2>1 DEF Ending
<1>9. thread'[w] # "script"
    BY <1>3
<1> QED BY <1>0, <1>3, <1>4, <1>5, <1>6, <1>7, <1>8, <1>9, SenderFrame

\* s holds the letters after the h-th of p, and perhaps a Terminate at the end.
Follows(s, h, p) ==
    \A i \in 1 .. Len(s) : \/ s[i] = h + i /\ s[i] <= p
                           \/ s[i] = 0 /\ i = Len(s)

LEMMA FollowsTail ==
    ASSUME NEW s \in Seq(Nat), s # <<>>, NEW h \in Nat, NEW p \in Nat, Follows(s, h, p)
    PROVE  /\ Tail(s) \in Seq(Nat) /\ Len(Tail(s)) = Len(s) - 1 /\ Head(s) \in Nat
           /\ 0 \in Range(Tail(s)) => 0 \in Range(s)
           /\ Head(s) = 0 => Follows(Tail(s), h, p) /\ 0 \in Range(s)
           /\ Head(s) # 0 => /\ Head(s) = h + 1 /\ h + 1 <= p
                             /\ Follows(Tail(s), h + 1, p)
                             /\ 0 \in Range(s) => 0 \in Range(Tail(s))
<1> DEFINE t == Tail(s)
<1>1. /\ t \in Seq(Nat) /\ Len(t) = Len(s) - 1 /\ Len(s) \in Nat /\ Len(s) > 0
      /\ Head(s) = s[1] /\ s[1] \in Nat
      /\ DOMAIN s = 1 .. Len(s) /\ DOMAIN t = 1 .. Len(t)
    BY SMTT(60)
<1>2. \A i \in 1 .. Len(t) : t[i] = s[i + 1] /\ i + 1 \in 1 .. Len(s)
    BY <1>1, SMTT(60)
<1>3. 1 \in 1 .. Len(s)
    BY <1>1, SMTT(60)
<1> HIDE DEF t
<1>4. \/ s[1] = h + 1 /\ s[1] <= p
      \/ s[1] = 0 /\ 1 = Len(s)
    BY <1>3 DEF Follows
<1>5. ASSUME NEW i \in 1 .. Len(t) PROVE \/ t[i] = h + 1 + i /\ t[i] <= p
                                         \/ t[i] = 0 /\ i = Len(t)
  <2>1. \/ s[i + 1] = h + (i + 1) /\ s[i + 1] <= p
        \/ s[i + 1] = 0 /\ i + 1 = Len(s)
    BY <1>2, <1>5 DEF Follows
  <2> QED BY <1>1, <1>2, <1>5, <2>1, SMTT(60)
<1>6. 0 \in Range(t) => 0 \in Range(s)
  <2>1. SUFFICES ASSUME NEW i \in 1 .. Len(t), t[i] = 0 PROVE 0 \in Range(s)
    BY <1>1 DEF Range
  <2>2. i + 1 \in DOMAIN s /\ s[i + 1] = 0
    BY <1>1, <1>2, <2>1
  <2> QED BY <2>2 DEF Range
<1>7. 0 \in Range(s) /\ s[1] # 0 => 0 \in Range(t)
  <2>1. SUFFICES ASSUME 0 \in Range(s), s[1] # 0 PROVE 0 \in Range(t)
    OBVIOUS
  <2>2. PICK j \in 1 .. Len(s) : s[j] = 0
    BY <1>1, <2>1 DEF Range
  <2>3. j - 1 \in 1 .. Len(t) /\ (j - 1) + 1 = j
    BY <1>1, <2>1, <2>2, SMTT(60)
  <2>4. t[j - 1] = 0
    BY <1>2, <2>2, <2>3
  <2> QED BY <1>1, <2>3, <2>4 DEF Range
<1>8. s[1] = 0 => Follows(t, h, p) /\ 0 \in Range(s)
  <2>1. SUFFICES ASSUME s[1] = 0 PROVE Follows(t, h, p) /\ 0 \in Range(s)
    OBVIOUS
  <2>2. 1 = Len(s)
    BY <1>4, <2>1, SMTT(60)
  <2>3. 1 .. Len(t) = {}
    BY <1>1, <2>2, SMTT(60)
  <2>4. 0 \in Range(s)
    BY <1>1, <1>3, <2>1 DEF Range
  <2> QED BY <2>3, <2>4 DEF Follows
<1>9. s[1] # 0 => s[1] = h + 1 /\ h + 1 <= p
    BY <1>4
<1>10. Follows(t, h + 1, p)
    BY <1>5 DEF Follows
<1> QED BY <1>1, <1>6, <1>7, <1>8, <1>9, <1>10 DEF t

LEMMA TakeOK == ASSUME IInv, NEW w \in Ids, Take(w) PROVE IInv'
<1> DEFINE x == Head(inbox[w])
           h == Len(handled[w])
<1>0. /\ inbox' = [inbox EXCEPT ![w] = Tail(@)] /\ inbox[w] # <<>>
      /\ UNCHANGED <<loop, tables, outbox, closing, panicked, posted, sent, failed, got>>
      /\ Runs(w) /\ ReceiverAlive(w) /\ ~closing[w] /\ thread[w] # "leaving"
      /\ thread[w] = "loop"
    BY DEF Take, Runs, ReceiverAlive
<1>1. /\ inbox \in [Ids -> Seq(Nat)] /\ inbox[w] \in Seq(Nat)
      /\ handled \in [Ids -> Seq(Nat)] /\ handled[w] \in Seq(Nat)
      /\ posted \in [Ids -> Nat] /\ posted[w] \in Nat /\ h \in Nat
      /\ panicked \in [Ids -> BOOLEAN]
    BY SMTT(60) DEF IInv, TypeOK, WorkerType, HistoryType
<1>2. /\ \A i \in 1 .. Len(handled[w]) : handled[w][i] = i
      /\ h <= posted[w]
      /\ Follows(inbox[w], h, posted[w])
      /\ Open(w) => h + Len(inbox[w]) = posted[w] /\ 0 \notin Range(inbox[w])
  <2>1. DOMAIN handled[w] = 1 .. Len(handled[w]) /\ DOMAIN inbox[w] = 1 .. Len(inbox[w])
    BY <1>1, SMTT(60)
  <2> QED BY <2>1 DEF IInv, Inbox, Follows
<1>3. /\ Tail(inbox[w]) \in Seq(Nat) /\ Len(Tail(inbox[w])) = Len(inbox[w]) - 1 /\ x \in Nat
      /\ 0 \in Range(Tail(inbox[w])) => 0 \in Range(inbox[w])
      /\ x = 0 => Follows(Tail(inbox[w]), h, posted[w]) /\ 0 \in Range(inbox[w])
      /\ x # 0 => /\ x = h + 1 /\ h + 1 <= posted[w]
                  /\ Follows(Tail(inbox[w]), h + 1, posted[w])
                  /\ 0 \in Range(inbox[w]) => 0 \in Range(Tail(inbox[w]))
    BY <1>0, <1>1, <1>2, FollowsTail
<1>4. /\ inbox' \in [Ids -> Seq(Nat)] /\ inbox'[w] = Tail(inbox[w])
      /\ \A v \in Ids : v # w => inbox'[v] = inbox[v]
    BY <1>0, <1>1, <1>3
<1>5. /\ x = 0 => Goto(w, "leaving") /\ UNCHANGED handled
      /\ x # 0 => Goto(w, "handler") /\ handled' = [handled EXCEPT ![w] = Append(@, x)]
    BY DEF Take
<1>6. /\ "leaving" \in Places /\ "leaving" \notin {"none", "script"}
      /\ "handler" \in Places /\ "handler" \notin {"none", "script"}
    OBVIOUS
<1>7. WorkerOnly(w) /\ thread'[w] = IF x = 0 THEN "leaving" ELSE "handler"
    BY <1>0, <1>1, <1>5, <1>6, GotoOK
<1>8. /\ handled' \in [Ids -> Seq(Nat)]
      /\ handled'[w] = IF x = 0 THEN handled[w] ELSE Append(handled[w], x)
      /\ \A v \in Ids : v # w => handled'[v] = handled[v]
  <2>1. Append(handled[w], x) \in Seq(Nat)
    BY <1>1, <1>3, AppendLen
  <2> QED BY <1>1, <1>5, <2>1
<1>9. UNCHANGED <<main, joining, posted, outbox, sent, failed, got, closing>>
    BY <1>0 DEF loop
<1>10. TypeOK'
  <2>1. HistoryType'
    BY <1>8, <1>9 DEF IInv, TypeOK, HistoryType
  <2>2. outbox' \in [Ids -> Seq(Nat)]
    BY <1>9 DEF IInv, TypeOK
  <2> QED BY <1>4, <1>7, <2>1, <2>2, WorkerFrame DEF TypeOK
<1>11. JoinIsAnswered'
  <2>1. JoinIsAnswered /\ (main = "join" => joining \in Ids)
    BY SMTT(60) DEF IInv, TypeOK, Threads, Joined
  <2>2. \A v \in Ids : v # w => thread'[v] = thread[v]
    BY <1>7 DEF WorkerOnly
  <2>3. CASE main = "join" /\ joining = w
    <3>1. 0 \in Range(inbox[w])
      BY <1>0, <2>1, <2>3 DEF JoinIsAnswered
    <3> QED BY <1>3, <1>4, <1>7, <1>9, <2>3, <3>1 DEF JoinIsAnswered
  <2>4. CASE main = "join" /\ joining # w
    BY <1>4, <1>9, <2>1, <2>2, <2>4, ZenonT(60) DEF JoinIsAnswered, ReceiverAlive
  <2>5. CASE main # "join"
    BY <1>9, <2>5 DEF JoinIsAnswered
  <2> QED BY <2>3, <2>4, <2>5
<1>12. Threads'
  <2>1. thread'[w] \notin {"none", "script"}
    BY <1>7
  <2>2. \A v \in Ids : thread'[v] \in {"none", "script"} => ~failed'[v]
    BY <1>7, <1>9, <2>1 DEF IInv, Threads, WorkerOnly
  <2> QED BY <1>7, <1>11, <2>2, WorkerFrame DEF Threads
<1>13. Opens
    BY <1>7, WorkerFrame
<1>14. ASSUME NEW v \in Ids PROVE Inbox(v)'
  <2>1. CASE v # w
    BY <1>4, <1>8, <1>9, <1>13, <1>14, <2>1, ZenonT(60) DEF IInv, Inbox, Opens
  <2>2. CASE v = w /\ x = 0
    <3>1. handled'[w] = handled[w] /\ ~Open(w)
      BY <1>2, <1>3, <1>8, <2>2
    <3>2. ~Open(w)'
      BY <1>13, <3>1 DEF Opens
    <3>3. DOMAIN inbox'[w] = 1 .. Len(inbox'[w]) /\ DOMAIN handled[w] = 1 .. Len(handled[w])
      BY <1>1, <1>4, SMTT(60)
    <3> QED BY <1>2, <1>3, <1>4, <1>9, <2>2, <3>1, <3>2, <3>3, ZenonT(60) DEF Inbox, Follows
  <2>3. CASE v = w /\ x # 0
    <3>1. /\ handled'[w] = Append(handled[w], h + 1)
          /\ Len(Append(handled[w], h + 1)) = h + 1
          /\ Append(handled[w], h + 1) \in Seq(Nat)
      BY <1>1, <1>3, <1>8, <2>3, AppendLen
    <3>2. Len(handled'[w]) = h + 1
      BY <3>1
    <3>3. \A i \in DOMAIN handled'[w] : handled'[w][i] = i
      <4>1. SUFFICES ASSUME NEW i \in DOMAIN Append(handled[w], h + 1)
                     PROVE  Append(handled[w], h + 1)[i] = i
        BY <3>1
      <4>2. i \in 1 .. h + 1
        BY <3>1, <4>1, SMTT(60)
      <4>3. /\ \A j \in 1 .. Len(handled[w]) : Append(handled[w], h + 1)[j] = handled[w][j]
            /\ Append(handled[w], h + 1)[h + 1] = h + 1
        BY <1>1, AppendProperties, SMTT(60)
      <4>4. CASE i = h + 1
        BY <4>3, <4>4
      <4>5. CASE i # h + 1
        <5>1. i \in 1 .. Len(handled[w])
          BY <1>1, <4>2, <4>5, SMTT(60)
        <5> QED BY <1>2, <4>3, <5>1
      <4> QED BY <4>4, <4>5
    <3>4. DOMAIN inbox'[w] = 1 .. Len(inbox'[w])
      BY <1>4, SMTT(60)
    <3>5. Open(w)' => Len(handled'[w]) + Len(inbox'[w]) = posted[w]
      <4>1. SUFFICES ASSUME Open(w)' PROVE Len(handled'[w]) + Len(inbox'[w]) = posted[w]
        OBVIOUS
      <4>2. h + Len(inbox[w]) = posted[w]
        BY <1>2, <1>13, <4>1 DEF Opens
      <4>3. PICK n \in Nat : n = Len(inbox[w])
        BY <1>1, SMTT(60)
      <4>4. h + n = posted[w] /\ Len(handled'[w]) + Len(inbox'[w]) = (h + 1) + (n - 1)
        BY <1>3, <1>4, <3>2, <4>2, <4>3
      <4>5. (h + 1) + (n - 1) = h + n
        BY <1>1, SMTT(60)
      <4> QED BY <4>4, <4>5
    <3>6. Open(w)' => 0 \notin Range(inbox'[w])
      BY <1>2, <1>3, <1>4, <1>13 DEF Opens
    <3>7. Follows(inbox'[w], h + 1, posted[w]) /\ h + 1 <= posted[w]
      BY <1>3, <1>4, <2>3
    <3> QED BY <1>9, <2>3, <3>2, <3>3, <3>4, <3>5, <3>6, <3>7, ZenonT(60) DEF Inbox, Follows
  <2> QED BY <2>1, <2>2, <2>3
<1>15. \A v \in Ids : Outbox(v)'
    BY <1>7, <1>9, WorkerFrame, OutboxFrame
<1> QED BY <1>7, <1>10, <1>12, <1>14, <1>15, WorkerFrame DEF IInv

-----------------------------------------------------------------------------

LEMMA InitOK == Init => IInv
<1> SUFFICES ASSUME Init PROVE IInv
    OBVIOUS
<1>1. TypeOK
  <2>1. <<>> \in Seq(Nat) /\ 0 \in Nat /\ "none" \in Places
    BY SMTT(60)
  <2>2. LoopType /\ TablesType
    BY <2>1, SMTT(60) DEF Init
  <2>3. WorkerType
    BY <2>1 DEF Init, WorkerType
  <2>4. HistoryType /\ inbox \in [Ids -> Seq(Nat)] /\ outbox \in [Ids -> Seq(Nat)]
    BY <2>1 DEF Init, HistoryType
  <2> QED BY <2>2, <2>3, <2>4 DEF TypeOK
<1>2. MainShape /\ Joined /\ Roots
    BY DEF Init, MainShape, Joined, Roots
<1>3. Threads
    BY SMTT(60) DEF Init, Threads, NoOrphanThread, JoinIsAnswered
<1>4. ASSUME NEW w \in Ids PROVE Inbox(w) /\ Outbox(w)
  <2>1. /\ inbox[w] = <<>> /\ outbox[w] = <<>> /\ handled[w] = <<>> /\ got[w] = <<>>
        /\ posted[w] = 0 /\ sent[w] = 0 /\ ~failed[w] /\ batch = <<>>
    BY <1>4 DEF Init
  <2>2. Len(<<>>) = 0 /\ DOMAIN <<>> = {} /\ 0 \notin Range(<<>>) /\ 0 <= 0 /\ 0 + 0 = 0 /\ 0 \in Nat
        /\ 0 + 0 + 0 = 0 + 0
    BY SMTT(60) DEF Range
  <2>3. Spans(<<>>, 0, 0)
    BY SpansEmpty
  <2>4. Polled(w) = <<>>
    BY <2>1 DEF Polled
  <2>5. Inbox(w)
    BY <2>1, <2>2 DEF Inbox
  <2>6. Outbox(w)
    BY <2>1, <2>2, <2>3, <2>4 DEF Outbox
  <2> QED BY <2>5, <2>6
<1> QED BY <1>1, <1>2, <1>3, <1>4 DEF IInv

LEMMA StutterOK == IInv /\ UNCHANGED vars => IInv'
<1> SUFFICES ASSUME IInv, UNCHANGED vars PROVE IInv'
    OBVIOUS
<1>1. /\ UNCHANGED <<loop, tables, inbox, outbox, worker, history>>
      /\ UNCHANGED <<main, back, ret, joining, ids, cur, batch, registry, objects, nextId>>
      /\ UNCHANGED <<thread, closing, panicked, posted, handled, sent, failed, got>>
    BY DEF vars, loop, tables, worker, history
<1>2. TypeOK'
    BY <1>1, TypeFrame DEF IInv, TypeOK
<1>3. MainShape' /\ Joined' /\ Roots'
    BY <1>1 DEF IInv, MainShape, Joined, Roots
<1>4. Threads'
    BY <1>1 DEF IInv, Threads, NoOrphanThread, JoinIsAnswered, ReceiverAlive
<1>5. Opens /\ \A w \in Ids : Polled(w)' = Polled(w)
    BY <1>1 DEF Opens, Open, Polled
<1>6. \A w \in Ids : Inbox(w)' /\ Outbox(w)'
    BY <1>1, <1>5, InboxFrame, OutboxFrame
<1> QED BY <1>2, <1>3, <1>4, <1>6 DEF IInv

LEMMA NextOK == IInv /\ [Next]_vars => IInv'
<1> SUFFICES ASSUME IInv, [Next]_vars PROVE IInv'
    OBVIOUS
<1>1. CASE UserStep
    BY <1>1, SpawnOK, UserReturnsOK, ResetStartsOK, PostOK, TerminateOK DEF UserStep
<1>2. CASE LoopStep
    BY <1>2, JoinOK, TurnOK, PollOK, PollEndsOK, DispatchOK, DispatchEndsOK, CleanOK, CleanEndsOK,
       ShutdownOK, FullResetOK DEF LoopStep
<1>3. CASE \E w \in Ids : WorkerStep(w)
    BY <1>3, ScriptFailsOK, SelfPostMessageOK, SelfCloseOK, UserCodeEndsOK, UserCodePanicsOK,
       CloseSeenOK, TakeOK, LeaveOK DEF WorkerStep
<1>4. CASE UNCHANGED vars
    BY <1>4, StutterOK
<1> QED BY <1>1, <1>2, <1>3, <1>4 DEF Next

LEMMA Inductive == Spec => []IInv
BY InitOK, NextOK, PTL DEF Spec

-----------------------------------------------------------------------------

\* Both channels are FIFO end to end, whatever was polled in one batch and
\* whatever was closed meanwhile.
THEOREM Fifo == Spec => []InOrder
<1>1. IInv => InOrder
  <2>1. SUFFICES ASSUME IInv, NEW w \in Ids
                 PROVE  FirstSent(handled[w], posted[w]) /\ FirstSent(got[w], sent[w])
    BY DEF InOrder
  <2>2. /\ handled[w] \in Seq(Nat) /\ posted[w] \in Nat /\ got[w] \in Seq(Nat) /\ sent[w] \in Nat
    BY <2>1 DEF IInv, TypeOK, HistoryType
  <2>3. FirstSent(handled[w], posted[w])
    <3>1. /\ \A i \in DOMAIN handled[w] : handled[w][i] = i
          /\ Len(handled[w]) <= posted[w]
      BY <2>1 DEF IInv, Inbox
    <3>2. SUFFICES ASSUME NEW s \in Seq(Nat), NEW n \in Nat, Len(s) <= n,
                          \A i \in DOMAIN s : s[i] = i
                   PROVE  FirstSent(s, n)
      BY <2>2, <3>1
    <3> QED BY <3>2, SMTT(60) DEF FirstSent
  <2>4. FirstSent(got[w], sent[w])
    <3>1. PICK m, b \in Nat : Meets(w, m, b)
      BY <2>1, OutboxMeets
    <3>2. m <= b /\ b <= sent[w] /\ Spans(got[w], 0, m)
      BY <3>1 DEF Meets
    <3>3. m <= sent[w]
      BY <2>2, <3>2, SMTT(60)
    <3> QED BY <2>2, <3>2, <3>3, SpansFirst
  <2> QED BY <2>3, <2>4
<1> QED BY <1>1, Inductive, PTL

\* While a worker is registered none of its letters is lost or dispatched
\* twice.
THEOREM OnePlace == Spec => []ExactlyOnce
<1>1. IInv => ExactlyOnce
  <2>1. SUFFICES ASSUME IInv, NEW w \in registry
                 PROVE  Len(outbox[w]) + Len(got[w]) + (IF cur = w THEN Len(batch) ELSE 0)
                          = sent[w] + (IF failed[w] THEN 1 ELSE 0)
    BY DEF ExactlyOnce
  <2>2. w \in Ids /\ Open(w)
    BY <2>1 DEF IInv, TypeOK, Open
  <2>3. Len(outbox[w]) + Len(got[w]) + Len(Polled(w)) = sent[w] + (IF failed[w] THEN 1 ELSE 0)
    BY <2>1, <2>2 DEF IInv, Outbox
  <2>4. Len(<<>>) = 0
    OBVIOUS
  <2>5. Len(Polled(w)) = IF cur = w THEN Len(batch) ELSE 0
    <3>1. CASE cur = w
      BY <3>1 DEF Polled
    <3>2. CASE cur # w
      <4>1. Polled(w) = <<>>
        BY <3>2 DEF Polled
      <4> QED BY <2>4, <3>2, <4>1
    <3> QED BY <3>1, <3>2
  <2> QED BY <2>3, <2>5
<1> QED BY <1>1, Inductive, PTL

\* Termination, cleaning and reset leave no worker thread behind.
THEOREM NoneOutlives == Spec => []NoOrphanThread
<1>1. IInv => NoOrphanThread
    BY DEF IInv, Threads
<1> QED BY <1>1, Inductive, PTL

\* A Worker object is rooted as long as its worker is registered, and only
\* a thread that unwound leaves one rooted longer.
THEOREM Rooted == Spec => []RootsMatch
<1>1. IInv => RootsMatch
    BY DEF IInv, Roots, RootsMatch
<1> QED BY <1>1, Inductive, PTL

\* Joining a worker's thread cannot wait for ever on the worker's event loop.
THEOREM Joins == Spec => []JoinIsAnswered
<1>1. IInv => JoinIsAnswered
    BY DEF IInv, Threads
<1> QED BY <1>1, Inductive, PTL

\* No event reaches the object of a worker that was terminated, even in the
\* middle of a batch of its messages.
THEOREM Silent == Spec => SilentAfterTerminate
<1>1. IInv /\ [Next]_vars
        => [\A w \in 0 .. nextId - 1 : w \notin registry /\ ~panicked[w] => got'[w] = got[w]]_vars
  <2>1. SUFFICES ASSUME IInv, Next, NEW w \in 0 .. nextId - 1, w \notin registry, ~panicked[w]
                 PROVE  got'[w] = got[w]
    OBVIOUS
  <2>2. CASE Dispatch
    <3>1. cur \in objects /\ main = "dispatch"
      BY <2>2 DEF Dispatch
    <3>2. cur # w
      BY <2>1, <3>1 DEF IInv, Roots
    <3>3. w \in Ids /\ got \in [Ids -> Seq(Nat)]
      BY <2>1, SMTT(60) DEF IInv, TypeOK, HistoryType
    <3> QED BY <2>2, <3>2, <3>3 DEF Dispatch
  <2>3. CASE UserStep
    BY <2>3 DEF UserStep, Spawn, UserReturns, ResetStarts, Post, Terminate, history
  <2>4. CASE LoopStep /\ ~Dispatch
    BY <2>4 DEF LoopStep, Join, JoinReturnsTo, Turn, Poll, PollEnds, DispatchEnds, Clean, CleanEnds,
       Shutdown, FullReset, history
  <2>5. CASE \E v \in Ids : WorkerStep(v)
    BY <2>5 DEF WorkerStep, ScriptFails, SelfPostMessage, SelfClose, UserCodeEnds,
       UserCodePanics, CloseSeen, Take, Leave, history
  <2> QED BY <2>1, <2>2, <2>3, <2>4, <2>5 DEF Next
<1> QED BY <1>1, Inductive, PTL DEF Spec, SilentAfterTerminate
=============================================================================
