--------------------------- MODULE Promises_proof ---------------------------
(***************************************************************************)
(* Proofs about promises and the microtask queue, for any number of        *)
(* promises and calls and any limit of the drain: a promise settles once,  *)
(* its reactions run once and in order and none is forgotten, and a        *)
(* promise resolved with another one ends as that one does.                *)
(***************************************************************************)
EXTENDS Promises, SequenceTheorems, TLAPS

\* Every step may take a minute, whatever the speed of the machine.
USE SMTT(60)

Handlers == {"user", "none", "delegate"}
Thens == [onFulfilled : Handlers, onRejected : Handlers, n : Nat, to : Promises]
AllJobs == [kind : Handlers \cup {"thenable"}, fulfill : BOOLEAN, of : 0 .. MaxPromises,
            n : Nat, arg : Int, to : Promises]

\* What runs.
RunInv ==
    /\ made \in 0 .. MaxPromises
    /\ own \subseteq Promises
    /\ executors \in Seq(Promises)
    /\ phase \in {"script", "drain", "handler", "then", "idle"}
    /\ settles \in 0 .. MaxPromises
    /\ phase = "handler" => settles \in Promises
    /\ phase = "then" => settles \in held

\* The operators below take the queue q and the last reactions run r: in the
\* middle of a step these are not the variables any more.
HeapType(q, r) ==
    /\ state \in [Promises -> {"pending", "fulfilled", "rejected"}]
    /\ result \in [Promises -> {Value, Error}]
    /\ already \in [Promises -> BOOLEAN]
    /\ reactions \in [Promises -> Seq(Thens)]
    /\ q \in Seq(AllJobs)
    /\ held \subseteq Promises
    /\ lock \in [Promises -> 0 .. MaxPromises]
    /\ thens \in [Promises -> Nat]
    /\ r \in [Promises -> Nat]
    /\ threw \subseteq Promises
    /\ lost \in Nat

\* A reaction's job carries the outcome of its promise.  Whoever delegates to
\* a promise that was first resolved with another one comes from that one.
JobOK(j) ==
    /\ j.kind = "thenable" => /\ j.of = 0 /\ j.arg \in Promises \cup {Thenable}
                              /\ already[j.to]
                              /\ lock[j.to] # 0 => j.arg = lock[j.to]
    /\ j.kind # "thenable" => /\ j.of \in Promises /\ state[j.of] # "pending"
                              /\ j.arg = result[j.of]
                              /\ j.fulfill <=> state[j.of] = "fulfilled"
                              /\ j.n <= thens[j.of]
    /\ j.kind = "delegate" => already[j.to] /\ (lock[j.to] # 0 => j.of = lock[j.to])

ThenOK(p, t) ==
    /\ t.n <= thens[p]
    /\ t.onFulfilled = "delegate" <=> t.onRejected = "delegate"
    /\ t.onFulfilled = "delegate" => already[t.to] /\ (lock[t.to] # 0 => lock[t.to] = p)

\* A promise whose functions were not called is pending, and has no delegate.
Flags ==
    /\ \A p \in Promises : lock[p] # 0 => already[p]
    /\ \A p \in Promises \ threw : ~already[p] => state[p] = "pending"
    /\ \A p \in held : already[p] /\ lock[p] = 0

\* What being settled means.
Settled(r) ==
    \A p \in Promises :
        /\ state[p] # "pending" => reactions[p] = <<>>
        /\ state[p] = "pending" => r[p] = 0
        /\ r[p] <= thens[p]
        /\ state[p] = "fulfilled" => result[p] = Value
        /\ state[p] = "rejected" => result[p] = Error

\* ReactionsInOrder and NoReactionForgotten.
Order(q, r, p) ==
    /\ Ordered(q, p)
    /\ \A i, j \in DOMAIN reactions[p] : i < j => reactions[p][i].n < reactions[p][j].n
    /\ \A m \in Queued(q, p) : r[p] < m /\ \A n \in Waiting(p) : m < n
    /\ \A n \in Waiting(p) : r[p] < n

Whole(q, r, p) == Queued(q, p) \cup Waiting(p) = r[p] + 1 .. thens[p]

HeapInv(q, r) ==
    /\ HeapType(q, r)
    /\ \A j \in Range(q) : JobOK(j)
    /\ \A p \in Promises : \A t \in Range(reactions[p]) : ThenOK(p, t)
    /\ Flags /\ Settled(r) /\ AdoptsOutcome
    /\ \A p \in Promises : Order(q, r, p) /\ (lost = 0 => Whole(q, r, p))

IInv == RunInv /\ HeapInv(queue, ran)

-----------------------------------------------------------------------------
\* Sequences of jobs.

LEMMA TailRange ==
    \A S : \A s \in Seq(S) : s # <<>> =>
        /\ Head(s) \in S /\ Tail(s) \in Seq(S)
        /\ Range(s) = {Head(s)} \cup Range(Tail(s))
<1> SUFFICES ASSUME NEW S, NEW s \in Seq(S), s # <<>>
             PROVE  /\ Head(s) \in S /\ Tail(s) \in Seq(S)
                    /\ Range(s) = {Head(s)} \cup Range(Tail(s))
    OBVIOUS
<1>1. /\ Head(s) \in S /\ Tail(s) \in Seq(S) /\ Head(s) = s[1] /\ Len(Tail(s)) = Len(s) - 1
      /\ Len(s) \in Nat /\ Len(s) > 0
      /\ DOMAIN s = 1 .. Len(s) /\ DOMAIN Tail(s) = 1 .. Len(Tail(s))
    OBVIOUS
<1>2. \A i \in 1 .. Len(Tail(s)) : Tail(s)[i] = s[i + 1] /\ i + 1 \in 1 .. Len(s)
    BY <1>1
<1>3. 1 \in 1 .. Len(s) /\ \A i \in 1 .. Len(s) : i # 1 => i - 1 \in 1 .. Len(Tail(s)) /\ (i - 1) + 1 = i
    BY <1>1
<1>4. ASSUME NEW x \in Range(s) PROVE x \in {Head(s)} \cup Range(Tail(s))
  <2>1. PICK i \in 1 .. Len(s) : s[i] = x
    BY <1>1, <1>4, Zenon DEF Range
  <2>2. CASE i = 1
    BY <1>1, <2>1, <2>2, Zenon
  <2>3. CASE i # 1
    <3>1. i - 1 \in DOMAIN Tail(s) /\ Tail(s)[i - 1] = x
      BY <1>1, <1>2, <1>3, <2>1, <2>3, Zenon
    <3> QED BY <3>1, Zenon DEF Range
  <2> QED BY <2>2, <2>3
<1>5. ASSUME NEW x \in {Head(s)} \cup Range(Tail(s)) PROVE x \in Range(s)
  <2>1. CASE x = Head(s)
    BY <1>1, <1>3, <2>1, Zenon DEF Range
  <2>2. CASE x \in Range(Tail(s))
    <3>1. PICK i \in 1 .. Len(Tail(s)) : Tail(s)[i] = x
      BY <1>1, <2>2, Zenon DEF Range
    <3>2. i + 1 \in DOMAIN s /\ s[i + 1] = x
      BY <1>1, <1>2, <3>1, Zenon
    <3> QED BY <3>2, Zenon DEF Range
  <2> QED BY <1>5, <2>1, <2>2, Zenon
<1> QED BY <1>1, <1>4, <1>5

LEMMA AppendRange ==
    \A S : \A s \in Seq(S), x \in S :
        Append(s, x) \in Seq(S) /\ Range(Append(s, x)) = Range(s) \cup {x}
<1> SUFFICES ASSUME NEW S, NEW s \in Seq(S), NEW x \in S
             PROVE  Append(s, x) \in Seq(S) /\ Range(Append(s, x)) = Range(s) \cup {x}
    OBVIOUS
<1> DEFINE t == Append(s, x)
<1>1. /\ t \in Seq(S) /\ Len(t) = Len(s) + 1 /\ t[Len(s) + 1] = x
      /\ \A i \in 1 .. Len(s) : t[i] = s[i]
    BY AppendProperties
<1>2. /\ Len(s) \in Nat /\ DOMAIN s = 1 .. Len(s) /\ DOMAIN t = 1 .. Len(s) + 1
    BY <1>1
<1> HIDE DEF t
<1>3. /\ Len(s) + 1 \in 1 .. Len(s) + 1
      /\ \A i \in 1 .. Len(s) : i \in 1 .. Len(s) + 1
      /\ \A i \in 1 .. Len(s) + 1 : i # Len(s) + 1 => i \in 1 .. Len(s)
    BY <1>2
<1>4. ASSUME NEW y \in Range(t) PROVE y \in Range(s) \cup {x}
  <2>1. PICK i \in 1 .. Len(s) + 1 : t[i] = y
    BY <1>2, <1>4, Zenon DEF Range
  <2>2. CASE i = Len(s) + 1
    BY <1>1, <2>1, <2>2, Zenon
  <2>3. CASE i # Len(s) + 1
    <3>1. i \in DOMAIN s
      BY <1>2, <2>1, <2>3
    <3>2. s[i] = y
      BY <1>1, <1>2, <2>1, <3>1, Zenon
    <3> QED BY <3>1, <3>2, Zenon DEF Range
  <2> QED BY <2>2, <2>3
<1>5. ASSUME NEW y \in Range(s) PROVE y \in Range(t)
  <2>1. PICK i \in 1 .. Len(s) : s[i] = y
    BY <1>2, <1>5, Zenon DEF Range
  <2> QED BY <1>1, <1>2, <1>3, <2>1, Zenon DEF Range
<1>6. x \in Range(t)
    BY <1>1, <1>2, <1>3, Zenon DEF Range
<1>7. Range(t) = Range(s) \cup {x}
    BY <1>4, <1>5, <1>6
<1> QED BY <1>1, <1>7, Zenon DEF t

LEMMA ConcatRange ==
    \A S : \A s, t \in Seq(S) : s \o t \in Seq(S) /\ Range(s \o t) = Range(s) \cup Range(t)
<1> SUFFICES ASSUME NEW S, NEW s \in Seq(S), NEW t \in Seq(S)
             PROVE  s \o t \in Seq(S) /\ Range(s \o t) = Range(s) \cup Range(t)
    OBVIOUS
<1> DEFINE u == s \o t
<1>1. /\ u \in Seq(S) /\ Len(u) = Len(s) + Len(t)
      /\ \A i \in 1 .. Len(s) + Len(t) : u[i] = IF i <= Len(s) THEN s[i] ELSE t[i - Len(s)]
    BY ConcatProperties
<1>2. /\ Len(s) \in Nat /\ DOMAIN s = 1 .. Len(s) /\ DOMAIN u = 1 .. Len(s) + Len(t)
      /\ Len(t) \in Nat /\ DOMAIN t = 1 .. Len(t)
    BY <1>1
<1> HIDE DEF u
<1>3. /\ \A i \in 1 .. Len(s) : i \in 1 .. Len(s) + Len(t) /\ u[i] = s[i]
      /\ \A i \in 1 .. Len(t) : i + Len(s) \in 1 .. Len(s) + Len(t) /\ u[i + Len(s)] = t[i]
      /\ \A i \in 1 .. Len(s) + Len(t) :
            i \in 1 .. Len(s) \/ (i - Len(s) \in 1 .. Len(t) /\ u[i] = t[i - Len(s)])
  <2>1. \A i \in 1 .. Len(s) : i \in 1 .. Len(s) + Len(t) /\ i <= Len(s)
    BY <1>2
  <2>2. \A i \in 1 .. Len(t) : i + Len(s) \in 1 .. Len(s) + Len(t) /\ ~(i + Len(s) <= Len(s))
                               /\ i + Len(s) - Len(s) = i
    BY <1>2
  <2>3. \A i \in 1 .. Len(s) + Len(t) : i \in 1 .. Len(s) \/ (i - Len(s) \in 1 .. Len(t) /\ ~(i <= Len(s)))
    BY <1>2
  <2>4. \A i \in 1 .. Len(s) : i \in 1 .. Len(s) + Len(t) /\ u[i] = s[i]
    BY <1>1, <2>1, Zenon
  <2>5. \A i \in 1 .. Len(t) : i + Len(s) \in 1 .. Len(s) + Len(t) /\ u[i + Len(s)] = t[i]
    <3> SUFFICES ASSUME NEW i \in 1 .. Len(t)
                 PROVE  i + Len(s) \in 1 .. Len(s) + Len(t) /\ u[i + Len(s)] = t[i]
      OBVIOUS
    <3> DEFINE k == i + Len(s)
    <3>2. k \in 1 .. Len(s) + Len(t) /\ ~(k <= Len(s)) /\ k - Len(s) = i
      BY <1>2
    <3> HIDE DEF k
    <3>3. u[k] = t[k - Len(s)]
      BY <1>1, <3>2, Zenon
    <3>1. u[k] = t[i]
      BY <3>2, <3>3, Zenon
    <3> QED BY <3>1, <3>2, Zenon DEF k
  <2>6. \A i \in 1 .. Len(s) + Len(t) :
            i \in 1 .. Len(s) \/ (i - Len(s) \in 1 .. Len(t) /\ u[i] = t[i - Len(s)])
    BY <1>1, <2>3, Zenon
  <2> QED BY <2>4, <2>5, <2>6, Zenon
<1>4. ASSUME NEW y \in Range(u) PROVE y \in Range(s) \cup Range(t)
  <2>1. PICK i \in 1 .. Len(s) + Len(t) : u[i] = y
    BY <1>2, <1>4, Zenon DEF Range
  <2> QED BY <1>2, <1>3, <2>1, Zenon DEF Range
<1>5. ASSUME NEW y \in Range(s) PROVE y \in Range(u)
    BY <1>2, <1>3, <1>5, ZenonT(60) DEF Range
<1>6. ASSUME NEW y \in Range(t) PROVE y \in Range(u)
  <2>1. PICK i \in 1 .. Len(t) : t[i] = y
    BY <1>2, <1>6, Zenon DEF Range
  <2>2. i + Len(s) \in DOMAIN u /\ u[i + Len(s)] = y
    BY <1>2, <1>3, <2>1, Zenon
  <2> QED BY <2>2, Zenon DEF Range
<1>7. Range(u) = Range(s) \cup Range(t)
    BY <1>4, <1>5, <1>6
<1> QED BY <1>1, <1>7, Zenon DEF u

LEMMA OrderedTail ==
    \A s \in Seq(AllJobs), p \in Promises : s # <<>> /\ Ordered(s, p) =>
        /\ Ordered(Tail(s), p)
        /\ Head(s).of = p => \A m \in Queued(Tail(s), p) : Head(s).n < m
<1> SUFFICES ASSUME NEW s \in Seq(AllJobs), NEW p \in Promises, s # <<>>, Ordered(s, p)
             PROVE  /\ Ordered(Tail(s), p)
                    /\ Head(s).of = p => \A m \in Queued(Tail(s), p) : Head(s).n < m
    OBVIOUS
<1> DEFINE t == Tail(s)
<1>1. /\ t \in Seq(AllJobs) /\ Head(s) = s[1] /\ Len(t) = Len(s) - 1 /\ Len(s) \in Nat /\ Len(s) > 0
      /\ DOMAIN s = 1 .. Len(s) /\ DOMAIN t = 1 .. Len(t)
    OBVIOUS
<1>2. \A i \in 1 .. Len(t) : t[i] = s[i + 1] /\ i + 1 \in 1 .. Len(s) /\ 1 < i + 1
    BY <1>1
<1>3. 1 \in 1 .. Len(s) /\ \A i, j \in 1 .. Len(t) : i < j => i + 1 < j + 1
    BY <1>1
<1> HIDE DEF t
<1>4. Ordered(t, p)
    BY <1>1, <1>2, <1>3, ZenonT(60) DEF Ordered
<1>5. ASSUME Head(s).of = p, NEW m \in Queued(t, p) PROVE Head(s).n < m
  <2>1. PICK i \in 1 .. Len(t) : t[i].of = p /\ m = t[i].n
    BY <1>1, <1>5, Zenon DEF Queued, Range
  <2>2. s[1].of = p /\ s[i + 1].of = p /\ m = s[i + 1].n /\ i + 1 \in DOMAIN s /\ 1 \in DOMAIN s /\ 1 < i + 1
    BY <1>1, <1>2, <1>3, <1>5, <2>1, Zenon
  <2>3. s[1].n < s[i + 1].n
    BY <2>2, Zenon DEF Ordered
  <2> QED BY <1>1, <2>2, <2>3, Zenon
<1> QED BY <1>4, <1>5, Zenon DEF t

LEMMA OrderedConcat ==
    \A s, t \in Seq(AllJobs), p \in Promises :
        Ordered(s, p) /\ Ordered(t, p) /\ (\A m \in Queued(s, p), n \in Queued(t, p) : m < n)
            => Ordered(s \o t, p)
<1> SUFFICES ASSUME NEW s \in Seq(AllJobs), NEW t \in Seq(AllJobs), NEW p \in Promises, Ordered(s, p), Ordered(t, p),
                    \A m \in Queued(s, p), n \in Queued(t, p) : m < n
             PROVE  Ordered(s \o t, p)
    OBVIOUS
<1> DEFINE u == s \o t
<1>1. /\ u \in Seq(AllJobs) /\ Len(u) = Len(s) + Len(t)
      /\ \A i \in 1 .. Len(s) + Len(t) : u[i] = IF i <= Len(s) THEN s[i] ELSE t[i - Len(s)]
    BY ConcatProperties
<1>2. /\ Len(s) \in Nat /\ DOMAIN s = 1 .. Len(s) /\ DOMAIN u = 1 .. Len(s) + Len(t)
      /\ Len(t) \in Nat /\ DOMAIN t = 1 .. Len(t)
    BY <1>1
<1> HIDE DEF u
<1>3. SUFFICES ASSUME NEW i \in 1 .. Len(s) + Len(t), NEW j \in 1 .. Len(s) + Len(t), i < j, u[i].of = p, u[j].of = p
               PROVE  u[i].n < u[j].n
    BY <1>2, Zenon DEF Ordered, u
<1>4. CASE j <= Len(s)
  <2>1. i \in DOMAIN s /\ j \in DOMAIN s /\ i <= Len(s)
    BY <1>2, <1>3, <1>4
  <2>2. u[i] = s[i] /\ u[j] = s[j]
    BY <1>1, <1>4, <2>1, Zenon
  <2> QED BY <1>3, <2>1, <2>2, Zenon DEF Ordered
<1>5. CASE i <= Len(s) /\ ~(j <= Len(s))
  <2>1. i \in DOMAIN s /\ j - Len(s) \in DOMAIN t
    BY <1>2, <1>3, <1>5
  <2>2. u[i] = s[i] /\ u[j] = t[j - Len(s)]
    BY <1>1, <1>5, Zenon
  <2>3. s[i].n \in Queued(s, p) /\ t[j - Len(s)].n \in Queued(t, p)
    BY <1>3, <2>1, <2>2, Zenon DEF Queued, Range
  <2> QED BY <2>2, <2>3, Zenon
<1>6. CASE ~(i <= Len(s))
  <2>1. i - Len(s) \in DOMAIN t /\ j - Len(s) \in DOMAIN t /\ i - Len(s) < j - Len(s) /\ ~(j <= Len(s))
    BY <1>2, <1>3, <1>6
  <2>2. u[i] = t[i - Len(s)] /\ u[j] = t[j - Len(s)]
    BY <1>1, <1>6, <2>1, Zenon
  <2> QED BY <1>3, <2>1, <2>2, Zenon DEF Ordered
<1> QED BY <1>4, <1>5, <1>6

LEMMA OrderedAppend ==
    \A s \in Seq(AllJobs), x \in AllJobs, p \in Promises :
        Ordered(s, p) /\ (x.of = p => \A m \in Queued(s, p) : m < x.n) => Ordered(Append(s, x), p)
<1> SUFFICES ASSUME NEW s \in Seq(AllJobs), NEW x \in AllJobs, NEW p \in Promises, Ordered(s, p),
                    x.of = p => \A m \in Queued(s, p) : m < x.n
             PROVE  Ordered(Append(s, x), p)
    OBVIOUS
<1> DEFINE t == Append(s, x)
<1>1. /\ t \in Seq(AllJobs) /\ Len(t) = Len(s) + 1 /\ t[Len(s) + 1] = x
      /\ \A i \in 1 .. Len(s) : t[i] = s[i]
    BY AppendProperties
<1>2. /\ Len(s) \in Nat /\ DOMAIN s = 1 .. Len(s) /\ DOMAIN t = 1 .. Len(s) + 1
    BY <1>1
<1> HIDE DEF t
<1>3. SUFFICES ASSUME NEW i \in 1 .. Len(s) + 1, NEW j \in 1 .. Len(s) + 1, i < j, t[i].of = p, t[j].of = p
               PROVE  t[i].n < t[j].n
    BY <1>2, Zenon DEF Ordered, t
<1>4. i \in 1 .. Len(s) /\ (j = Len(s) + 1 \/ j \in 1 .. Len(s))
    BY <1>2, <1>3
<1>5. CASE j \in 1 .. Len(s)
    BY <1>1, <1>2, <1>3, <1>4, <1>5, Zenon DEF Ordered
<1>6. CASE j = Len(s) + 1
  <2>1. t[j] = x /\ t[i] = s[i] /\ s[i].n \in Queued(s, p)
    BY <1>1, <1>2, <1>3, <1>4, <1>6, Zenon DEF Queued, Range
  <2> QED BY <1>3, <2>1, Zenon
<1> QED BY <1>4, <1>5, <1>6
\* The numbers of a promise's reactions in a queue that loses its head or grows.
LEMMA SetEquality ==
    \A A, B : (\A m : m \in A <=> m \in B) => A = B
OBVIOUS

LEMMA QueuedMember ==
    \A s, p, m : m \in Queued(s, p) <=> \E j \in Range(s) : j.of = p /\ m = j.n
BY Zenon DEF Queued

LEMMA QueuedTail ==
    \A s \in Seq(AllJobs) : s # <<>> =>
        \A p : /\ Head(s).of = p => Queued(s, p) = Queued(Tail(s), p) \cup {Head(s).n}
               /\ Head(s).of # p => Queued(s, p) = Queued(Tail(s), p)
<1> SUFFICES ASSUME NEW s \in Seq(AllJobs), s # <<>>, NEW p
             PROVE  /\ Head(s).of = p => Queued(s, p) = Queued(Tail(s), p) \cup {Head(s).n}
                    /\ Head(s).of # p => Queued(s, p) = Queued(Tail(s), p)
    OBVIOUS
<1>1. \A j : j \in Range(s) <=> j \in Range(Tail(s)) \/ j = Head(s)
    BY TailRange
<1>2. \A m : m \in Queued(s, p) <=> m \in Queued(Tail(s), p) \/ (Head(s).of = p /\ m = Head(s).n)
    BY <1>1, QueuedMember
<1> QED BY <1>2

LEMMA QueuedAppend ==
    \A s \in Seq(AllJobs), x \in AllJobs :
        \A p : /\ x.of = p => Queued(Append(s, x), p) = Queued(s, p) \cup {x.n}
               /\ x.of # p => Queued(Append(s, x), p) = Queued(s, p)
<1> SUFFICES ASSUME NEW s \in Seq(AllJobs), NEW x \in AllJobs, NEW p
             PROVE  /\ x.of = p => Queued(Append(s, x), p) = Queued(s, p) \cup {x.n}
                    /\ x.of # p => Queued(Append(s, x), p) = Queued(s, p)
    OBVIOUS
<1>1. \A j : j \in Range(Append(s, x)) <=> j \in Range(s) \/ j = x
    BY AppendRange
<1>2. \A m : m \in Queued(Append(s, x), p) <=> m \in Queued(s, p) \/ (x.of = p /\ m = x.n)
    BY <1>1, QueuedMember
<1>3. CASE x.of = p
  <2>1. \A m : m \in Queued(Append(s, x), p) <=> m \in Queued(s, p) \cup {x.n}
    BY <1>2, <1>3, Zenon
  <2> QED BY <1>3, <2>1, SetEquality, Zenon
<1>4. CASE x.of # p
    BY <1>2, <1>4, SetEquality, Zenon
<1> QED BY <1>3, <1>4, Zenon

LEMMA QueuedConcat ==
    \A s, t \in Seq(AllJobs) : \A p : Queued(s \o t, p) = Queued(s, p) \cup Queued(t, p)
<1> SUFFICES ASSUME NEW s \in Seq(AllJobs), NEW t \in Seq(AllJobs), NEW p
             PROVE  Queued(s \o t, p) = Queued(s, p) \cup Queued(t, p)
    OBVIOUS
<1>1. \A j : j \in Range(s \o t) <=> j \in Range(s) \/ j \in Range(t)
    BY ConcatRange
<1>2. \A m : m \in Queued(s \o t, p) <=> m \in Queued(s, p) \/ m \in Queued(t, p)
    BY <1>1, QueuedMember
<1> QED BY <1>2

\* The jobs of the reactions of a promise that settles.
LEMMA JobsFacts ==
    ASSUME NEW p \in Promises, NEW f \in BOOLEAN, NEW v \in {Value, Error},
           reactions \in [Promises -> Seq(Thens)]
    PROVE  /\ Jobs(p, f, v) \in Seq(AllJobs)
           /\ \A j \in Range(Jobs(p, f, v)) :
                \E t \in Range(reactions[p]) : j = Reaction(p, t, f, v)
           /\ Queued(Jobs(p, f, v), p) = Waiting(p)
           /\ \A k \in Promises : k # p => Queued(Jobs(p, f, v), k) = {} /\ Ordered(Jobs(p, f, v), k)
           /\ (\A i, j \in DOMAIN reactions[p] : i < j => reactions[p][i].n < reactions[p][j].n)
                => Ordered(Jobs(p, f, v), p)
<1> DEFINE J == Jobs(p, f, v)
           T == reactions[p]
<1>1. T \in Seq(Thens) /\ DOMAIN T = 1 .. Len(T) /\ Len(T) \in Nat
    OBVIOUS
<1>2. DOMAIN J = DOMAIN T /\ \A i \in DOMAIN T : J[i] = Reaction(p, T[i], f, v) /\ T[i] \in Thens
    BY <1>1 DEF Jobs
<1>3. \A t \in Thens : /\ Reaction(p, t, f, v) \in AllJobs
                       /\ Reaction(p, t, f, v).of = p /\ Reaction(p, t, f, v).n = t.n
    BY DEF Reaction, AllJobs, Thens, Handlers, Promises, Value, Error
<1>4. J \in Seq(AllJobs)
  <2>1. \A i \in 1 .. Len(T) : J[i] \in AllJobs
    BY <1>1, <1>2, <1>3, Zenon
  <2>2. J = [i \in 1 .. Len(T) |-> J[i]]
    BY DEF Jobs
  <2> HIDE DEF J
  <2> QED BY <1>1, <2>1, <2>2
<1> HIDE DEF J, T
<1>5. \A j \in Range(J) : \E t \in Range(T) : j = Reaction(p, t, f, v)
    BY <1>2, Zenon DEF Range
<1>6. \A i \in DOMAIN T : J[i].of = p /\ J[i].n = T[i].n
    BY <1>2, <1>3, Zenon
<1>7. Queued(J, p) = {t.n : t \in Range(T)}
  <2>1. ASSUME NEW m \in Queued(J, p) PROVE m \in {t.n : t \in Range(T)}
    <3>3. \E j \in Range(J) : j.of = p /\ m = j.n
      BY <2>1, QueuedMember
    <3>1. PICK i \in DOMAIN J : J[i].of = p /\ m = J[i].n
      BY <3>3, Zenon DEF Range
    <3>2. T[i] \in Range(T) /\ m = T[i].n
      BY <1>2, <1>6, <3>1, Zenon DEF Range
    <3> QED BY <3>2, Zenon
  <2>2. ASSUME NEW m \in {t.n : t \in Range(T)} PROVE m \in Queued(J, p)
    <3>1. PICK i \in DOMAIN T : m = T[i].n
      BY <2>2, Zenon DEF Range
    <3>2. J[i] \in Range(J) /\ J[i].of = p /\ m = J[i].n
      BY <1>2, <1>6, <3>1, Zenon DEF Range
    <3> QED BY <3>2, Zenon DEF Queued
  <2> QED BY <2>1, <2>2
<1>8. ASSUME NEW k \in Promises, k # p PROVE Queued(J, k) = {} /\ Ordered(J, k)
  <2>1. \A j \in Range(J) : j.of # k
    BY <1>2, <1>6, <1>8, Zenon DEF Range
  <2>2. \A m : m \notin Queued(J, k)
    BY <2>1, QueuedMember
  <2>3. Ordered(J, k)
    BY <1>2, <1>6, <1>8, Zenon DEF Ordered
  <2> QED BY <2>2, <2>3
<1>9. (\A i, j \in DOMAIN T : i < j => T[i].n < T[j].n) => Ordered(J, p)
    BY <1>2, <1>6, Zenon DEF Ordered
<1> QED BY <1>4, <1>5, <1>7, <1>8, <1>9, Zenon DEF J, T, Waiting

-----------------------------------------------------------------------------
\* What a step does to the promises and the queue.

\* The queue without its head, once the head's reaction counts as run.
After(j) == IF j.of = 0 THEN ran ELSE [ran EXCEPT ![j.of] = j.n]

LEMMA AfterIs ==
    ASSUME ran \in [Promises -> Nat], NEW j \in AllJobs
    PROVE  /\ After(j) \in [Promises -> Nat]
           /\ \A p \in Promises : After(j)[p] = IF j.of = p THEN j.n ELSE ran[p]
<1> DEFINE o == j.of
           n == j.n
<1>1. o \in 0 .. MaxPromises /\ n \in Nat
    BY DEF AllJobs
<1> HIDE DEF o, n
<1>2. /\ (IF o = 0 THEN ran ELSE [ran EXCEPT ![o] = n]) \in [Promises -> Nat]
      /\ \A p \in Promises :
            (IF o = 0 THEN ran ELSE [ran EXCEPT ![o] = n])[p] = IF o = p THEN n ELSE ran[p]
    BY <1>1 DEF Promises
<1> QED BY <1>2, Zenon DEF After, o, n

LEMMA PopOrder ==
    ASSUME HeapInv(queue, ran), queue # <<>>, NEW k \in Promises
    PROVE  /\ Order(Tail(queue), After(Head(queue)), k)
           /\ lost = 0 => Whole(Tail(queue), After(Head(queue)), k)
<1> DEFINE j == Head(queue)
           q == Tail(queue)
           r == After(j)
<1>1. queue \in Seq(AllJobs) /\ ran \in [Promises -> Nat] /\ thens \in [Promises -> Nat]
    BY Zenon DEF HeapInv, HeapType
<1>2. Range(queue) = {j} \cup Range(q) /\ j \in AllJobs /\ q \in Seq(AllJobs)
    BY <1>1, TailRange, Zenon
<1>3. Ordered(q, k) /\ (j.of = k => \A m \in Queued(q, k) : j.n < m)
  <2>1. Ordered(queue, k)
    BY Zenon DEF HeapInv, Order
  <2> QED BY <1>1, <2>1, OrderedTail, Zenon
<1>4. /\ j.of = k => Queued(queue, k) = Queued(q, k) \cup {j.n}
      /\ j.of # k => Queued(queue, k) = Queued(q, k)
    BY <1>1, QueuedTail, Zenon
<1>5. Order(queue, ran, k) /\ (lost = 0 => Whole(queue, ran, k))
    BY Zenon DEF HeapInv
<1>6. CASE j.of = k
  <2>1. r[k] = j.n /\ j.n \in Nat
    <3>1. j.n \in Nat
      BY <1>2 DEF AllJobs
    <3> QED BY <1>1, <1>2, <1>6, <3>1, AfterIs, Zenon
  <2>2. \A n \in Waiting(k) : j.n < n
    BY <1>4, <1>5, <1>6, Zenon DEF Order
  <2>3. \A m \in Queued(q, k) : r[k] < m /\ \A n \in Waiting(k) : m < n
    <3>1. \A m \in Queued(q, k) : r[k] < m
      BY <1>3, <1>6, <2>1, Zenon
    <3>2. \A m \in Queued(q, k) : m \in Queued(queue, k)
      BY <1>4, <1>6
    <3> QED BY <1>5, <3>1, <3>2, Zenon DEF Order
  <2>4. \A n \in Waiting(k) : r[k] < n
    BY <2>1, <2>2, Zenon
  <2>5. Order(q, r, k)
    BY <1>3, <1>5, <2>3, <2>4, Zenon DEF Order
  <2>6. ASSUME lost = 0 PROVE Whole(q, r, k)
    <3>1. Queued(q, k) \cup {j.n} \cup Waiting(k) = ran[k] + 1 .. thens[k]
      BY <1>4, <1>5, <1>6, <2>6, Zenon DEF Whole
    <3>2. \A m \in Queued(q, k) \cup Waiting(k) : j.n < m
      BY <1>3, <1>6, <2>2, Zenon
    <3>3. Queued(q, k) \cup Waiting(k) = j.n + 1 .. thens[k]
      <4>1. ran[k] \in Nat /\ thens[k] \in Nat
        BY <1>1
      <4> DEFINE a == ran[k]
                 b == thens[k]
                 c == j.n
                 Q == Queued(q, k)
                 W == Waiting(k)
      <4>2. c \in Nat
        BY <2>1, Zenon
      <4>3. Q \cup {c} \cup W = a + 1 .. b /\ \A m \in Q \cup W : c < m
        BY <3>1, <3>2, Zenon
      <4> HIDE DEF a, b, c, Q, W
      <4>4. Q \cup W = c + 1 .. b
        <5>1. a \in Nat /\ b \in Nat
          BY <4>1, Zenon DEF a, b
        <5>2. c \in a + 1 .. b
          BY <4>3
        <5>3. a + 1 \in Q \cup {c} \cup W
          BY <4>3, <5>1, <5>2
        <5>4. c = a + 1
          BY <4>3, <5>1, <5>2, <5>3
        <5>5. \A m \in Q \cup W : m \in c + 1 .. b
          BY <4>3, <5>1, <5>4
        <5>6. \A m \in c + 1 .. b : m \in Q \cup W
          BY <4>3, <5>1, <5>4
        <5> QED BY <5>5, <5>6
      <4> QED BY <4>4, Zenon DEF b, c, Q, W
    <3> QED BY <2>1, <3>3, Zenon DEF Whole
  <2> QED BY <2>5, <2>6, Zenon
<1>7. CASE j.of # k
  <2>1. r[k] = ran[k]
    BY <1>1, <1>2, <1>7, AfterIs, Zenon
  <2>2. Order(q, r, k)
    BY <1>3, <1>4, <1>5, <1>7, <2>1, Zenon DEF Order
  <2>3. lost = 0 => Whole(q, r, k)
    BY <1>4, <1>5, <1>7, <2>1, Zenon DEF Whole
  <2> QED BY <2>2, <2>3, Zenon
<1> QED BY <1>6, <1>7, Zenon

LEMMA PopHeap ==
    ASSUME HeapInv(queue, ran), queue # <<>>
    PROVE  /\ Head(queue) \in AllJobs /\ JobOK(Head(queue))
           /\ HeapInv(Tail(queue), After(Head(queue)))
<1> DEFINE j == Head(queue)
           q == Tail(queue)
           r == After(j)
<1>1. queue \in Seq(AllJobs) /\ ran \in [Promises -> Nat] /\ thens \in [Promises -> Nat]
    BY Zenon DEF HeapInv, HeapType
<1>2. Range(queue) = {j} \cup Range(q) /\ j \in AllJobs /\ q \in Seq(AllJobs)
    BY <1>1, TailRange, Zenon
<1>3. JobOK(j) /\ \A x \in Range(q) : JobOK(x)
    BY <1>2, Zenon DEF HeapInv
<1>4. r \in [Promises -> Nat]
    BY <1>1, <1>2, AfterIs, Zenon
<1>5. HeapType(q, r)
    BY <1>2, <1>4, Zenon DEF HeapInv, HeapType
<1>6. Settled(r)
  <2> SUFFICES ASSUME NEW p \in Promises
               PROVE  (state[p] = "pending" => r[p] = 0) /\ r[p] <= thens[p]
    BY Zenon DEF HeapInv, Settled
  <2>1. (state[p] = "pending" => ran[p] = 0) /\ ran[p] <= thens[p]
    BY Zenon DEF HeapInv, Settled
  <2>2. j.of = p => state[p] # "pending" /\ j.n <= thens[p]
    <3>1. 0 \notin Promises
      BY DEF Promises
    <3> QED BY <1>3, <3>1, Zenon DEF JobOK
  <2>3. r[p] = IF j.of = p THEN j.n ELSE ran[p]
    BY <1>1, <1>2, AfterIs, Zenon
  <2> QED BY <2>1, <2>2, <2>3, Zenon
<1>7. \A p \in Promises : Order(q, r, p) /\ (lost = 0 => Whole(q, r, p))
    BY PopOrder, Zenon
<1> QED BY <1>2, <1>3, <1>5, <1>6, <1>7, Zenon DEF HeapInv

\* A job is dropped at the limit.
LEMMA DropHeap ==
    ASSUME HeapInv(queue, ran), queue # <<>>, queue' = Tail(queue), lost' = lost + 1,
           UNCHANGED <<boxes, already, held, lock, thens, ran, threw>>
    PROVE  HeapInv(queue, ran)'
<1> DEFINE j == Head(queue)
           q == Tail(queue)
<1>1. queue \in Seq(AllJobs) /\ ran \in [Promises -> Nat] /\ lost \in Nat
    BY Zenon DEF HeapInv, HeapType
<1>2. Range(queue) = {j} \cup Range(q) /\ q \in Seq(AllJobs)
    BY <1>1, TailRange, Zenon
<1>3. lost' \in Nat /\ lost' # 0
    BY <1>1
<1>4. ASSUME NEW p \in Promises PROVE Order(q, ran, p)
  <2>1. Ordered(q, p)
    BY <1>1, OrderedTail, Zenon DEF HeapInv, Order
  <2>2. \A m \in Queued(q, p) : m \in Queued(queue, p)
    BY <1>1, QueuedTail
  <2> QED BY <2>1, <2>2, Zenon DEF HeapInv, Order
<1>5. /\ state' = state /\ result' = result /\ reactions' = reactions /\ already' = already
      /\ held' = held /\ lock' = lock /\ thens' = thens /\ ran' = ran /\ threw' = threw
    BY Zenon DEF boxes
<1>6. HeapType(queue, ran)'
    BY <1>2, <1>3, <1>5, Zenon DEF HeapInv, HeapType
<1>7. (\A x \in Range(queue) : JobOK(x))'
    BY <1>2, <1>5, ZenonT(60) DEF HeapInv, JobOK
<1>8. (\A p \in Promises : \A t \in Range(reactions[p]) : ThenOK(p, t))'
    BY <1>5, Zenon DEF HeapInv, ThenOK
<1>9. Flags' /\ Settled(ran)' /\ AdoptsOutcome'
  <2>1. Flags'
    BY <1>5, Zenon DEF HeapInv, Flags
  <2>2. Settled(ran)'
    BY <1>5, Zenon DEF HeapInv, Settled
  <2>3. AdoptsOutcome'
    BY <1>5, Zenon DEF HeapInv, AdoptsOutcome
  <2> QED BY <2>1, <2>2, <2>3, Zenon
<1>10. (\A p \in Promises : Order(queue, ran, p) /\ (lost = 0 => Whole(queue, ran, p)))'
    BY <1>3, <1>4, <1>5, Zenon DEF Order, Waiting
<1> QED BY <1>6, <1>7, <1>8, <1>9, <1>10, Zenon DEF HeapInv

\* Members of a well-typed queue and of the reactions.
LEMMA Members ==
    ASSUME NEW q, NEW r, HeapType(q, r)
    PROVE  /\ \A x \in Range(q) : x \in AllJobs /\ x.to \in Promises /\ x.n \in Nat
           /\ \A k \in Promises : \A t \in Range(reactions[k]) :
                t \in Thens /\ t.to \in Promises /\ t.n \in Nat
<1>1. q \in Seq(AllJobs) /\ \A k \in Promises : reactions[k] \in Seq(Thens)
    BY Zenon DEF HeapType
<1>2. \A x \in Range(q) : x \in AllJobs
    BY <1>1 DEF Range
<1>3. \A k \in Promises : \A t \in Range(reactions[k]) : t \in Thens
    BY <1>1 DEF Range
<1>4. \A x \in AllJobs : x.to \in Promises /\ x.n \in Nat
    BY DEF AllJobs
<1>5. \A t \in Thens : t.to \in Promises /\ t.n \in Nat
    BY DEF Thens
<1> QED BY <1>2, <1>3, <1>4, <1>5, Zenon

\* Nothing happens to the promises; more of them may have a delegated pair.
LEMMA SameHeap ==
    ASSUME NEW q, NEW r, HeapInv(q, r), queue' = q, ran' = r,
           UNCHANGED <<boxes, already, lock, thens, threw, lost>>,
           held' \subseteq Promises, \A p \in held' : already[p] /\ lock[p] = 0
    PROVE  HeapInv(queue, ran)'
<1>1. /\ state' = state /\ result' = result /\ reactions' = reactions /\ already' = already
      /\ lock' = lock /\ thens' = thens /\ threw' = threw /\ lost' = lost
    BY Zenon DEF boxes
<1>2. HeapType(queue, ran)'
    BY <1>1, Zenon DEF HeapInv, HeapType
<1>3. (\A x \in Range(queue) : JobOK(x))'
  <2> SUFFICES ASSUME NEW x \in Range(q) PROVE JobOK(x)'
    BY Zenon
  <2>1. JobOK(x)
    BY Zenon DEF HeapInv
  <2> QED BY <1>1, <2>1, Zenon DEF JobOK
<1>4. (\A p \in Promises : \A t \in Range(reactions[p]) : ThenOK(p, t))'
  <2> SUFFICES ASSUME NEW p \in Promises, NEW t \in Range(reactions[p]) PROVE ThenOK(p, t)'
    BY <1>1, Zenon
  <2>1. ThenOK(p, t)
    BY Zenon DEF HeapInv
  <2> QED BY <1>1, <2>1, Zenon DEF ThenOK
<1>5. Flags'
    BY <1>1, Zenon DEF HeapInv, Flags
<1>6. Settled(ran)'
    BY <1>1, Zenon DEF HeapInv, Settled
<1>7. AdoptsOutcome'
    BY <1>1, Zenon DEF HeapInv, AdoptsOutcome
<1>8. (\A p \in Promises : Order(queue, ran, p) /\ (lost = 0 => Whole(queue, ran, p)))'
    BY <1>1, Zenon DEF HeapInv, Order, Whole, Waiting
<1> QED BY <1>2, <1>3, <1>4, <1>5, <1>6, <1>7, <1>8, Zenon DEF HeapInv

\* How a promise may be settled.
Outcome(s, v) == (s = "fulfilled" /\ v = Value) \/ (s = "rejected" /\ v = Error)

\* p may be settled so: whoever settles it has its functions, a delegated pair
\* of it or is its executor, and an adopted promise has that outcome itself.
MaySettle(p, s, v) ==
    /\ already' \in [Promises -> BOOLEAN] /\ \A k \in Promises : already[k] => already'[k]
    /\ threw \subseteq threw' /\ threw' \subseteq Promises
    /\ already'[p] \/ p \in threw'
    /\ p \in threw' \/ lock[p] = 0 \/ (state[lock[p]] = s /\ result[lock[p]] = v)

LEMMA SettledBefore ==
    ASSUME NEW p \in Promises, NEW s, NEW v, NEW q, NEW r, HeapInv(q, r),
           state[p] # "pending", Settle(p, s, v, q), ran' = r, MaySettle(p, s, v),
           UNCHANGED <<held, lock, thens, lost>>
    PROVE  HeapInv(queue, ran)'
<1>1. /\ state' = state /\ result' = result /\ reactions' = reactions /\ queue' = q
      /\ held' = held /\ lock' = lock /\ thens' = thens /\ lost' = lost
    BY Zenon DEF Settle, boxes
<1>2. /\ already' \in [Promises -> BOOLEAN] /\ \A k \in Promises : already[k] => already'[k]
      /\ threw \subseteq threw' /\ threw' \subseteq Promises
    BY Zenon DEF MaySettle
<1>3. HeapType(queue, ran)'
    BY <1>1, <1>2, Zenon DEF HeapInv, HeapType
<1>4. (\A x \in Range(queue) : JobOK(x))'
  <2> SUFFICES ASSUME NEW x \in Range(q) PROVE JobOK(x)'
    BY <1>1, Zenon
  <2>1. JobOK(x) /\ x.to \in Promises
    BY Members, Zenon DEF HeapInv
  <2> QED BY <1>1, <1>2, <2>1, Zenon DEF JobOK
<1>5. (\A k \in Promises : \A t \in Range(reactions[k]) : ThenOK(k, t))'
  <2> SUFFICES ASSUME NEW k \in Promises, NEW t \in Range(reactions[k]) PROVE ThenOK(k, t)'
    BY <1>1, Zenon
  <2>1. ThenOK(k, t) /\ t.to \in Promises
    BY Members, Zenon DEF HeapInv
  <2> QED BY <1>1, <1>2, <2>1, Zenon DEF ThenOK
<1>6. Flags'
  <2>1. Flags /\ held \subseteq Promises
    BY Zenon DEF HeapInv, HeapType
  <2> QED BY <1>1, <1>2, <2>1, Zenon DEF Flags
<1>7. Settled(ran)'
    BY <1>1, Zenon DEF HeapInv, Settled
<1>8. AdoptsOutcome'
    BY <1>1, <1>2, Zenon DEF HeapInv, AdoptsOutcome
<1>9. (\A k \in Promises : Order(queue, ran, k) /\ (lost = 0 => Whole(queue, ran, k)))'
    BY <1>1, Zenon DEF HeapInv, Order, Whole, Waiting
<1> QED BY <1>3, <1>4, <1>5, <1>6, <1>7, <1>8, <1>9, Zenon DEF HeapInv

LEMMA SettlesNow ==
    ASSUME NEW p \in Promises, NEW s, NEW v, NEW q, NEW r, HeapInv(q, r), Outcome(s, v),
           state[p] = "pending", Settle(p, s, v, q), ran' = r, MaySettle(p, s, v),
           UNCHANGED <<held, lock, thens, lost>>
    PROVE  HeapInv(queue, ran)'
<1> DEFINE f == s = "fulfilled"
           J == Jobs(p, f, v)
<1>1. /\ state' = [state EXCEPT ![p] = s] /\ result' = [result EXCEPT ![p] = v]
      /\ reactions' = [reactions EXCEPT ![p] = <<>>] /\ queue' = q \o J
      /\ held' = held /\ lock' = lock /\ thens' = thens /\ lost' = lost
    BY Zenon DEF Settle
<1>2. /\ already' \in [Promises -> BOOLEAN] /\ \A k \in Promises : already[k] => already'[k]
      /\ threw \subseteq threw' /\ threw' \subseteq Promises
    BY Zenon DEF MaySettle
<1>3. HeapType(q, r)
    BY Zenon DEF HeapInv
<1>4. /\ q \in Seq(AllJobs) /\ reactions \in [Promises -> Seq(Thens)]
      /\ state \in [Promises -> {"pending", "fulfilled", "rejected"}]
      /\ result \in [Promises -> {Value, Error}]
    BY <1>3, Zenon DEF HeapType
<1>5. s \in {"fulfilled", "rejected"} /\ s # "pending" /\ v \in {Value, Error} /\ f \in BOOLEAN
      /\ (s = "fulfilled" => v = Value) /\ (s = "rejected" => v = Error)
    BY Zenon DEF Outcome
<1>6. /\ state'[p] = s /\ result'[p] = v /\ reactions'[p] = <<>>
      /\ \A k \in Promises : k # p =>
            state'[k] = state[k] /\ result'[k] = result[k] /\ reactions'[k] = reactions[k]
    BY <1>1, <1>4, Zenon
<1> HIDE DEF f
<1>7. /\ J \in Seq(AllJobs)
      /\ \A j \in Range(J) : \E t \in Range(reactions[p]) : j = Reaction(p, t, f, v)
      /\ Queued(J, p) = Waiting(p)
      /\ \A k \in Promises : k # p => Queued(J, k) = {} /\ Ordered(J, k)
      /\ (\A i, j \in DOMAIN reactions[p] : i < j => reactions[p][i].n < reactions[p][j].n)
            => Ordered(J, p)
  <2>1. f \in BOOLEAN /\ v \in {Value, Error} /\ reactions \in [Promises -> Seq(Thens)]
    BY <1>4, <1>5, Zenon
  <2> QED BY <2>1, JobsFacts, ZenonT(60)
<1> HIDE DEF J
<1>8. queue' \in Seq(AllJobs) /\ Range(queue') = Range(q) \cup Range(J)
    BY <1>1, <1>4, <1>7, ConcatRange, ZenonT(60)
<1>9. \A x \in Range(q) : JobOK(x) /\ x.of # p
  <2>1. p # 0
    BY DEF Promises
  <2> SUFFICES ASSUME NEW x \in Range(q) PROVE JobOK(x) /\ x.of # p
    BY Zenon
  <2>2. JobOK(x)
    BY Zenon DEF HeapInv
  <2> QED BY <2>1, <2>2, Zenon DEF JobOK
<1>10. HeapType(queue, ran)'
  <2>1. /\ state' \in [Promises -> {"pending", "fulfilled", "rejected"}]
        /\ result' \in [Promises -> {Value, Error}]
        /\ reactions' \in [Promises -> Seq(Thens)]
    BY <1>1, <1>4, <1>5
  <2> QED BY <1>1, <1>2, <1>3, <1>8, <2>1, Zenon DEF HeapType
<1>11. (\A x \in Range(queue) : JobOK(x))'
  <2> SUFFICES ASSUME NEW x \in Range(queue') PROVE JobOK(x)'
    BY Zenon
  <2>1. CASE x \in Range(q)
    <3>1. JobOK(x) /\ x.of # p /\ x.to \in Promises
      BY <1>3, <1>9, <2>1, Members, Zenon
    <3>2. x.kind # "thenable" => state'[x.of] = state[x.of] /\ result'[x.of] = result[x.of]
      BY <1>6, <3>1, Zenon DEF JobOK
    <3>3. already[x.to] => already'[x.to]
      BY <1>2, <3>1, Zenon
    <3> QED BY <1>1, <3>1, <3>2, <3>3, Zenon DEF JobOK
  <2>2. CASE x \in Range(J)
    <3>1. PICK t \in Range(reactions[p]) : x = Reaction(p, t, f, v)
      BY <1>7, <2>2, Zenon
    <3>2. ThenOK(p, t) /\ t \in Thens /\ t.to \in Promises
      BY <1>3, Members, Zenon DEF HeapInv
    <3>3. /\ x.of = p /\ x.arg = v /\ x.n = t.n /\ x.to = t.to /\ x.fulfill = f
          /\ x.kind = IF f THEN t.onFulfilled ELSE t.onRejected
      BY <3>1 DEF Reaction
    <3>4. t.onFulfilled # "thenable" /\ t.onRejected # "thenable"
      BY <3>2 DEF Thens, Handlers
    <3>5. x.kind # "thenable" /\ (x.kind = "delegate" => t.onFulfilled = "delegate")
      BY <3>2, <3>3, <3>4, Zenon DEF ThenOK
    <3>6. x.fulfill <=> state'[x.of] = "fulfilled"
      BY <1>6, <3>3, Zenon DEF f
    <3> QED BY <1>1, <1>2, <1>5, <1>6, <3>2, <3>3, <3>5, <3>6, Zenon DEF JobOK, ThenOK
  <2> QED BY <1>8, <2>1, <2>2, Zenon
<1>12. (\A k \in Promises : \A t \in Range(reactions[k]) : ThenOK(k, t))'
  <2> SUFFICES ASSUME NEW k \in Promises, NEW t \in Range(reactions'[k]) PROVE ThenOK(k, t)'
    BY Zenon
  <2>1. k # p /\ t \in Range(reactions[k])
    <3>1. Range(<<>>) = {}
      BY DEF Range
    <3> QED BY <1>6, <3>1, Zenon
  <2>2. ThenOK(k, t) /\ t.to \in Promises
    BY <1>3, <2>1, Members, Zenon DEF HeapInv
  <2> QED BY <1>1, <1>2, <2>2, Zenon DEF ThenOK
<1>13. Flags'
  <2>1. Flags /\ held \subseteq Promises
    BY Zenon DEF HeapInv, HeapType
  <2> QED BY <1>1, <1>2, <1>6, <2>1, ZenonT(60) DEF Flags, MaySettle
<1>14. Settled(ran)'
  <2>1. Settled(r)
    BY Zenon DEF HeapInv
  <2> QED BY <1>1, <1>5, <1>6, <2>1, Zenon DEF Settled
<1>15. AdoptsOutcome'
  <2> SUFFICES ASSUME NEW k \in Promises \ threw', lock[k] # 0, state'[k] # "pending"
               PROVE  state'[lock[k]] = state'[k] /\ result'[lock[k]] = result'[k]
    BY <1>1, Zenon DEF AdoptsOutcome
  <2>1. lock[k] \in Promises
    BY <1>3 DEF HeapType, Promises
  <2>2. CASE k = p
    <3>1. state[lock[k]] = s /\ result[lock[k]] = v
      BY <2>2, Zenon DEF MaySettle
    <3> QED BY <1>5, <1>6, <2>1, <2>2, <3>1, Zenon
  <2>3. CASE k # p
    <3>1. state[lock[k]] = state[k] /\ result[lock[k]] = result[k] /\ state[k] # "pending"
      BY <1>2, <1>6, <2>3, Zenon DEF HeapInv, AdoptsOutcome
    <3>2. lock[k] # p
      BY <3>1, Zenon
    <3> QED BY <1>6, <2>1, <2>3, <3>1, <3>2, Zenon
  <2> QED BY <2>2, <2>3
<1>16. ASSUME NEW k \in Promises PROVE (Order(queue, ran, k) /\ (lost = 0 => Whole(queue, ran, k)))'
  <2>1. Order(q, r, k) /\ (lost = 0 => Whole(q, r, k))
    BY Zenon DEF HeapInv
  <2>2. Queued(queue', k) = Queued(q, k) \cup Queued(J, k)
    <3>1. q \in Seq(AllJobs) /\ J \in Seq(AllJobs) /\ queue' = q \o J
      BY <1>1, <1>4, <1>7, Zenon
    <3>2. Queued(q \o J, k) = Queued(q, k) \cup Queued(J, k)
      BY <3>1, QueuedConcat
    <3> QED BY <3>1, <3>2, Zenon
  <2>3. Range(<<>>) = {}
    BY DEF Range
  <2>4. \A A, B : A = B \cup {} => A = B
    OBVIOUS
  <2>5. \A A, B : A = {} \cup B => A = B
    OBVIOUS
  <2>6. CASE k = p
    <3>1. Queued(q, p) = {}
      <4>1. \A m : m \notin Queued(q, p)
        BY <1>9, QueuedMember
      <4> QED BY <4>1
    <3>2. Queued(queue', p) = Waiting(p)
      BY <1>7, <2>2, <2>5, <2>6, <3>1, Zenon
    <3>3. Waiting(p)' = {}
      BY <1>6, <2>3, Zenon DEF Waiting
    <3>4. Ordered(queue', p)
      <4>1. Ordered(q, p) /\ Ordered(J, p)
        BY <1>7, <2>1, <2>6, Zenon DEF Order
      <4>2. \A m \in Queued(q, p), n \in Queued(J, p) : m < n
        BY <3>1, Zenon
      <4> QED BY <1>1, <1>4, <1>7, <4>1, <4>2, OrderedConcat, Zenon
    <3>5. \A m \in Queued(queue', p) : r[p] < m
      BY <2>1, <2>6, <3>2, Zenon DEF Order
    <3>6. DOMAIN reactions'[p] = {}
      BY <1>6
    <3>7. Order(queue, ran, p)'
      BY <3>3, <3>4, <3>5, <3>6, Zenon DEF Order
    <3>8. ASSUME lost' = 0 PROVE Whole(queue, ran, p)'
      <4>1. {} \cup Waiting(p) = r[p] + 1 .. thens[p]
        BY <1>1, <2>1, <2>6, <3>1, <3>8, Zenon DEF Whole
      <4>2. \A A : A \cup {} = {} \cup A
        OBVIOUS
      <4>3. Queued(queue', p) \cup Waiting(p)' = r[p] + 1 .. thens[p]
        BY <3>2, <3>3, <4>1, <4>2, Zenon
      <4> QED BY <1>1, <4>3, Zenon DEF Whole
    <3> QED BY <2>6, <3>7, <3>8, Zenon
  <2>7. CASE k # p
    <3>1. Queued(queue', k) = Queued(q, k)
      BY <1>7, <2>2, <2>4, <2>7, Zenon
    <3>2. Waiting(k)' = Waiting(k) /\ reactions'[k] = reactions[k]
      BY <1>6, <2>7, Zenon DEF Waiting
    <3>3. Ordered(queue', k)
      <4>1. Ordered(q, k) /\ Ordered(J, k) /\ Queued(J, k) = {}
        BY <1>7, <2>1, <2>7, Zenon DEF Order
      <4>2. \A m \in Queued(q, k), n \in Queued(J, k) : m < n
        BY <4>1, Zenon
      <4> QED BY <1>1, <1>4, <1>7, <4>1, <4>2, OrderedConcat, Zenon
    <3>4. Order(queue, ran, k)'
      BY <2>1, <3>1, <3>2, <3>3, Zenon DEF Order
    <3>5. (lost = 0 => Whole(queue, ran, k))'
      BY <1>1, <2>1, <3>1, <3>2, Zenon DEF Whole
    <3> QED BY <3>4, <3>5, Zenon
  <2> QED BY <2>6, <2>7
<1> QED BY <1>10, <1>11, <1>12, <1>13, <1>14, <1>15, <1>16, Zenon DEF HeapInv

LEMMA SettleHeap ==
    ASSUME NEW p \in Promises, NEW s, NEW v, NEW q, NEW r, HeapInv(q, r), Outcome(s, v),
           Settle(p, s, v, q), ran' = r, MaySettle(p, s, v), UNCHANGED <<held, lock, thens, lost>>
    PROVE  HeapInv(queue, ran)'
BY SettledBefore, SettlesNow, Zenon

\* The then of x is to be called with a pair of p: when p is first resolved, or
\* by a pair that it already has, and then it has adopted no promise.
LEMMA DelegateHeap ==
    ASSUME NEW p \in Promises, NEW x \in Promises \cup {Thenable}, NEW q, NEW r, HeapInv(q, r),
           queue' = Append(q, ThenableJob(p, x)), ran' = r,
           UNCHANGED <<boxes, held, thens, threw, lost>>,
           already' \in [Promises -> BOOLEAN], lock' \in [Promises -> 0 .. MaxPromises], already'[p],
           \A k \in Promises : k # p => already'[k] = already[k] /\ lock'[k] = lock[k],
           \/ already[p] /\ lock[p] = 0 /\ lock'[p] = 0
           \/ ~already[p] /\ lock'[p] \in {0, x}
    PROVE  HeapInv(queue, ran)'
<1> DEFINE J == ThenableJob(p, x)
<1>1. /\ state' = state /\ result' = result /\ reactions' = reactions
      /\ held' = held /\ thens' = thens /\ threw' = threw /\ lost' = lost
    BY Zenon DEF boxes
<1>2. HeapType(q, r)
    BY Zenon DEF HeapInv
<1>3. /\ J \in AllJobs
      /\ J.kind = "thenable" /\ J.of = 0 /\ J.arg = x /\ J.to = p
  <2>1. x \in Int
    BY DEF Promises, Thenable
  <2> QED BY <2>1, PromisesAssumption DEF ThenableJob, AllJobs, Handlers
<1> HIDE DEF J
<1>4. q \in Seq(AllJobs) /\ queue' = Append(q, J)
    BY <1>2, Zenon DEF HeapType, J
<1>5. queue' \in Seq(AllJobs) /\ Range(queue') = Range(q) \cup {J}
  <2>1. Append(q, J) \in Seq(AllJobs) /\ Range(Append(q, J)) = Range(q) \cup {J}
    BY <1>3, <1>4, AppendRange
  <2> QED BY <1>4, <2>1, Zenon
\* Whoever has something to do with p knows that its functions were called.
<1>6. \A k \in Promises : already[k] => already'[k] /\ lock'[k] = lock[k]
    BY Zenon
<1>7. HeapType(queue, ran)'
    BY <1>1, <1>2, <1>5, Zenon DEF HeapType
<1>8. (\A j \in Range(queue) : JobOK(j))'
  <2> SUFFICES ASSUME NEW j \in Range(queue') PROVE JobOK(j)'
    BY Zenon
  <2>1. CASE j \in Range(q)
    <3>1. JobOK(j) /\ j.to \in Promises
      BY <1>2, <2>1, Members, Zenon DEF HeapInv
    <3>2. already[j.to] => already'[j.to] /\ lock'[j.to] = lock[j.to]
      BY <1>6, <3>1, Zenon
    <3> QED BY <1>1, <3>1, <3>2, Zenon DEF JobOK
  <2>2. CASE j = J
    <3>1. lock'[p] # 0 => lock'[p] = x
      BY Zenon
    <3>2. j.kind # "delegate"
      BY <1>3, <2>2
    <3> QED BY <1>3, <2>2, <3>1, <3>2, Zenon DEF JobOK
  <2> QED BY <1>5, <2>1, <2>2, Zenon
<1>9. (\A k \in Promises : \A t \in Range(reactions[k]) : ThenOK(k, t))'
  <2> SUFFICES ASSUME NEW k \in Promises, NEW t \in Range(reactions[k]) PROVE ThenOK(k, t)'
    BY <1>1, Zenon
  <2>1. ThenOK(k, t) /\ t.to \in Promises
    BY <1>2, Members, Zenon DEF HeapInv
  <2>2. already[t.to] => already'[t.to] /\ lock'[t.to] = lock[t.to]
    BY <1>6, <2>1, Zenon
  <2> QED BY <1>1, <2>1, <2>2, Zenon DEF ThenOK
<1>10. Flags'
  <2>1. Flags /\ held \subseteq Promises
    BY <1>2, Zenon DEF HeapInv, HeapType
  <2>2. \A k \in Promises : lock'[k] # 0 => already'[k]
    BY <2>1, Zenon DEF Flags
  <2>3. \A k \in Promises \ threw : ~already'[k] => state[k] = "pending"
    BY <1>6, <2>1, Zenon DEF Flags
  <2>4. \A k \in held : already'[k] /\ lock'[k] = 0
    BY <1>6, <2>1, Zenon DEF Flags
  <2> QED BY <1>1, <2>2, <2>3, <2>4, Zenon DEF Flags
<1>11. Settled(ran)'
    BY <1>1, Zenon DEF HeapInv, Settled
<1>12. AdoptsOutcome'
  <2> SUFFICES ASSUME NEW k \in Promises \ threw, lock'[k] # 0, state[k] # "pending"
               PROVE  state[lock'[k]] = state[k] /\ result[lock'[k]] = result[k]
    BY <1>1, Zenon DEF AdoptsOutcome
  <2>1. already[k]
    BY Zenon DEF HeapInv, Flags
  <2>2. lock'[k] = lock[k]
    BY <1>6, <2>1, Zenon
  <2>3. state[lock[k]] = state[k] /\ result[lock[k]] = result[k]
    BY <2>2, Zenon DEF HeapInv, AdoptsOutcome
  <2> QED BY <2>2, <2>3, Zenon
<1>13. ASSUME NEW k \in Promises PROVE (Order(queue, ran, k) /\ (lost = 0 => Whole(queue, ran, k)))'
  <2>1. Order(q, r, k) /\ (lost = 0 => Whole(q, r, k))
    BY Zenon DEF HeapInv
  <2>2. J.of # k
    BY <1>3 DEF Promises
  <2>3. Queued(queue', k) = Queued(q, k)
    <3>1. Queued(Append(q, J), k) = Queued(q, k)
      BY <1>3, <1>4, <2>2, QueuedAppend
    <3> QED BY <1>4, <3>1, Zenon
  <2>4. Ordered(queue', k)
    BY <1>3, <1>4, <2>1, <2>2, OrderedAppend, Zenon DEF Order
  <2> QED BY <1>1, <2>1, <2>3, <2>4, Zenon DEF Order, Whole, Waiting
<1> QED BY <1>7, <1>8, <1>9, <1>10, <1>11, <1>12, <1>13, Zenon DEF HeapInv

\* A then of p is registered, or its job is queued.
LEMMA ReactHeap ==
    ASSUME NEW p \in Promises, NEW u \in Thens, NEW q, NEW r, HeapInv(q, r), React(p, u, q), ran' = r,
           thens' = [thens EXCEPT ![p] = @ + 1], u.n = thens[p] + 1,
           UNCHANGED <<state, result, already, held, lock, threw, lost>>,
           u.onFulfilled = "delegate" <=> u.onRejected = "delegate",
           u.onFulfilled = "delegate" => already[u.to] /\ (lock[u.to] # 0 => lock[u.to] = p)
    PROVE  HeapInv(queue, ran)'
<1> DEFINE f == state[p] = "fulfilled"
           J == Reaction(p, u, f, result[p])
<1>1. /\ state' = state /\ result' = result /\ already' = already /\ held' = held
      /\ lock' = lock /\ threw' = threw /\ lost' = lost
    BY Zenon
<1>2. HeapType(q, r)
    BY Zenon DEF HeapInv
<1>3. /\ q \in Seq(AllJobs) /\ reactions \in [Promises -> Seq(Thens)]
      /\ thens \in [Promises -> Nat] /\ r \in [Promises -> Nat] /\ result \in [Promises -> {Value, Error}]
    BY <1>2, Zenon DEF HeapType
<1>4. /\ thens' \in [Promises -> Nat] /\ thens'[p] = thens[p] + 1 /\ thens[p] \in Nat /\ r[p] \in Nat
      /\ \A k \in Promises : k # p => thens'[k] = thens[k]
      /\ \A k \in Promises : thens[k] \in Nat /\ thens[k] <= thens'[k]
    BY <1>3
<1>5. /\ J \in AllJobs /\ J.of = p /\ J.n = u.n /\ J.arg = result[p] /\ J.to = u.to
      /\ (J.fulfill <=> f) /\ J.kind # "thenable"
      /\ (J.kind = "delegate" => u.onFulfilled = "delegate")
  <2>1. f \in BOOLEAN
    OBVIOUS
  <2>2. result[p] \in {Value, Error}
    BY <1>3, Zenon
  <2> HIDE DEF f
  <2>3. J \in AllJobs /\ J.of = p /\ J.n = u.n /\ J.arg = result[p] /\ J.to = u.to
    BY <2>1, <2>2 DEF Reaction, AllJobs, Thens, Handlers, Promises, Value, Error
  <2>4. J.fulfill <=> f
    BY <2>1 DEF Reaction
  <2>5. J.kind = IF f THEN u.onFulfilled ELSE u.onRejected
    BY <2>1 DEF Reaction
  <2>6. u.onFulfilled # "thenable" /\ u.onRejected # "thenable"
    BY DEF Thens, Handlers
  <2> HIDE DEF J
  <2> QED BY <2>3, <2>4, <2>5, <2>6, Zenon
<1> HIDE DEF J
\* What is there keeps its numbers, all of them smaller.
<1>6. \A j \in Range(q) : JobOK(j)'
  <2> SUFFICES ASSUME NEW j \in Range(q) PROVE JobOK(j)'
    OBVIOUS
  <2>1. JobOK(j) /\ j.n \in Nat
    BY <1>2, Members, Zenon DEF HeapInv
  <2>2. j.kind # "thenable" => j.of \in Promises /\ j.n <= thens[j.of]
    BY <2>1, Zenon DEF JobOK
  <2>3. \A a, b, c \in Nat : a <= b /\ b <= c => a <= c
    OBVIOUS
  <2>4. \A k \in Promises : thens'[k] \in Nat
    BY <1>4
  <2>5. j.kind # "thenable" => j.n <= thens'[j.of]
    BY <1>4, <2>1, <2>2, <2>3, <2>4, Zenon
  <2> QED BY <1>1, <2>1, <2>5, Zenon DEF JobOK
<1>7. \A k \in Promises : \A t \in Range(reactions[k]) : ThenOK(k, t)'
  <2> SUFFICES ASSUME NEW k \in Promises, NEW t \in Range(reactions[k]) PROVE ThenOK(k, t)'
    OBVIOUS
  <2>1. ThenOK(k, t) /\ t.n \in Nat
    BY <1>2, Members, Zenon DEF HeapInv
  <2>2. t.n <= thens[k]
    BY <2>1, Zenon DEF ThenOK
  <2>3. \A a, b, c \in Nat : a <= b /\ b <= c => a <= c
    OBVIOUS
  <2>4. thens'[k] \in Nat
    BY <1>4
  <2>5. t.n <= thens'[k]
    BY <1>4, <2>1, <2>2, <2>3, <2>4, Zenon
  <2> QED BY <1>1, <2>1, <2>5, Zenon DEF ThenOK
<1>8. \A m \in Queued(q, p) \cup Waiting(p) : m < u.n
  <2>1. \A a \in Nat : a <= thens[p] => a < u.n
    BY <1>4
  <2>2. ASSUME NEW m \in Queued(q, p) PROVE m < u.n
    <3>1. PICK j \in Range(q) : j.of = p /\ m = j.n
      BY <2>2, QueuedMember
    <3>2. JobOK(j) /\ j.n \in Nat
      BY <1>2, Members, Zenon DEF HeapInv
    <3>3. p # 0
      BY DEF Promises
    <3>4. j.n <= thens[p]
      BY <3>1, <3>2, <3>3, Zenon DEF JobOK
    <3> QED BY <2>1, <3>1, <3>2, <3>4, Zenon
  <2>3. ASSUME NEW m \in Waiting(p) PROVE m < u.n
    <3>1. PICK t \in Range(reactions[p]) : m = t.n
      BY <2>3, Zenon DEF Waiting
    <3>2. ThenOK(p, t) /\ t.n \in Nat
      BY <1>2, Members, Zenon DEF HeapInv
    <3> QED BY <2>1, <3>1, <3>2, Zenon DEF ThenOK
  <2> QED BY <2>2, <2>3, Zenon
<1>9. r[p] < u.n
  <2>1. r[p] <= thens[p]
    BY Zenon DEF HeapInv, Settled
  <2> QED BY <1>3, <2>1
<1>10. /\ Flags' /\ AdoptsOutcome'
  <2>1. Flags'
    BY <1>1, Zenon DEF HeapInv, Flags
  <2>2. AdoptsOutcome'
    BY <1>1, Zenon DEF HeapInv, AdoptsOutcome
  <2> QED BY <2>1, <2>2
<1>11. ThenOK(p, u)'
  <2>1. u.n <= thens'[p]
    BY <1>4
  <2> QED BY <1>1, <2>1, Zenon DEF ThenOK
<1>12. \A k \in Promises : /\ Order(q, r, k) /\ (lost = 0 => Whole(q, r, k))
                           /\ (state[k] = "pending" => r[k] = 0) /\ r[k] <= thens'[k]
                           /\ state[k] = "fulfilled" => result[k] = Value
                           /\ state[k] = "rejected" => result[k] = Error
                           /\ state[k] # "pending" => reactions[k] = <<>>
  <2>1. \A k \in Promises : r[k] <= thens[k]
    BY Zenon DEF HeapInv, Settled
  <2>2. \A k \in Promises : r[k] <= thens'[k]
    BY <1>3, <1>4, <2>1
  <2> QED BY <2>2, Zenon DEF HeapInv, Settled
<1>13. ASSUME lost = 0 PROVE (Queued(q, p) \cup Waiting(p)) \cup {u.n} = r[p] + 1 .. thens'[p]
  <2> DEFINE S == Queued(q, p) \cup Waiting(p)
             n == thens[p]
             a == r[p]
  <2>1. S = a + 1 .. n
    BY <1>12, <1>13, Zenon DEF Whole
  <2>2. a \in Nat /\ n \in Nat /\ a < n + 1 /\ u.n = n + 1 /\ thens'[p] = n + 1
    BY <1>4, <1>9, Zenon
  <2> HIDE DEF S, n, a
  <2>3. S \cup {n + 1} = a + 1 .. n + 1
    BY <2>1, <2>2
  <2> QED BY <2>2, <2>3, Zenon DEF S, a
<1>14. CASE state[p] = "pending"
  <2> DEFINE R == reactions[p]
             T == Append(R, u)
  <2>1. reactions' = [reactions EXCEPT ![p] = T] /\ queue' = q
    BY <1>14, Zenon DEF React
  <2>2. R \in Seq(Thens)
    BY <1>3, Zenon
  <2>3. T \in Seq(Thens) /\ Range(T) = Range(R) \cup {u}
    BY <2>2, AppendRange
  <2>4. \A i, j \in DOMAIN T : i < j => T[i].n < T[j].n
    <3>1. /\ Len(T) = Len(R) + 1 /\ T[Len(R) + 1] = u /\ \A i \in 1 .. Len(R) : T[i] = R[i]
      BY <2>2, AppendProperties
    <3>2. /\ Len(R) \in Nat /\ DOMAIN R = 1 .. Len(R) /\ DOMAIN T = 1 .. Len(R) + 1
      BY <2>2, <2>3, <3>1
    <3> HIDE DEF T
    <3> SUFFICES ASSUME NEW i \in 1 .. Len(R) + 1, NEW j \in 1 .. Len(R) + 1, i < j
                 PROVE  T[i].n < T[j].n
      BY <3>2, Zenon
    <3>3. i \in 1 .. Len(R) /\ (j = Len(R) + 1 \/ j \in 1 .. Len(R))
      BY <3>2
    <3>4. CASE j \in 1 .. Len(R)
      <4>1. R[i].n < R[j].n
        BY <1>12, <3>2, <3>3, <3>4, Zenon DEF Order
      <4> QED BY <3>1, <3>3, <3>4, <4>1, Zenon
    <3>5. CASE j = Len(R) + 1
      <4>1. R[i] \in Range(R)
        BY <3>2, <3>3, Zenon DEF Range
      <4>2. R[i].n \in Waiting(p)
        BY <4>1, Zenon DEF Waiting
      <4>3. R[i].n < u.n
        BY <1>8, <4>2, Zenon
      <4> QED BY <3>1, <3>3, <3>5, <4>3, Zenon
    <3> QED BY <3>3, <3>4, <3>5
  <2> HIDE DEF T
  <2>5. reactions'[p] = T /\ \A k \in Promises : k # p => reactions'[k] = reactions[k]
    BY <1>3, <2>1, Zenon
  <2>6. HeapType(queue, ran)'
    <3>1. reactions' \in [Promises -> Seq(Thens)]
      BY <1>3, <2>1, <2>3
    <3> QED BY <1>1, <1>2, <1>4, <2>1, <3>1, Zenon DEF HeapType
  <2>7. (\A j \in Range(queue) : JobOK(j))'
    BY <1>6, <2>1, Zenon
  <2>8. (\A k \in Promises : \A t \in Range(reactions[k]) : ThenOK(k, t))'
    <3> SUFFICES ASSUME NEW k \in Promises, NEW t \in Range(reactions'[k]) PROVE ThenOK(k, t)'
      BY Zenon
    <3>1. CASE k = p
      <4>1. t \in Range(R) \/ t = u
        BY <2>3, <2>5, <3>1, Zenon
      <4> QED BY <1>7, <1>11, <3>1, <4>1, Zenon
    <3>2. CASE k # p
      BY <1>7, <2>5, <3>2, Zenon
    <3> QED BY <3>1, <3>2
  <2>9. Settled(ran)'
    <3> SUFFICES ASSUME NEW k \in Promises PROVE state[k] # "pending" => reactions'[k] = <<>>
      BY <1>1, <1>12, Zenon DEF Settled
    <3> QED BY <1>12, <1>14, <2>5, Zenon
  <2>10. Waiting(p)' = Waiting(p) \cup {u.n}
    <3>1. \A m : m \in Waiting(p)' <=> \E t \in Range(T) : m = t.n
      BY <2>5, Zenon DEF Waiting
    <3>2. \A m : m \in Waiting(p) <=> \E t \in Range(R) : m = t.n
      BY Zenon DEF Waiting
    <3>3. \A m : m \in Waiting(p)' <=> m \in Waiting(p) \cup {u.n}
      BY <2>3, <3>1, <3>2, Zenon
    <3> QED BY <3>3, SetEquality, Zenon
  <2>11. ASSUME NEW k \in Promises PROVE (Order(queue, ran, k) /\ (lost = 0 => Whole(queue, ran, k)))'
    <3>1. CASE k = p
      <4>1. \A m \in Queued(queue', p) : r[p] < m /\ \A n \in Waiting(p)' : m < n
        <5>1. \A m \in Queued(q, p) : r[p] < m /\ (\A n \in Waiting(p) : m < n) /\ m < u.n
          BY <1>8, <1>12, Zenon DEF Order
        <5> QED BY <2>1, <2>10, <5>1, Zenon
      <4>2. \A n \in Waiting(p)' : r[p] < n
        BY <1>9, <1>12, <2>10, Zenon DEF Order
      <4>3. Ordered(queue', p)
        BY <1>12, <2>1, Zenon DEF Order
      <4>4. Order(queue, ran, p)'
        BY <2>4, <2>5, <4>1, <4>2, <4>3, Zenon DEF Order
      <4>5. ASSUME lost' = 0 PROVE Whole(queue, ran, p)'
        <5>1. (Queued(q, p) \cup Waiting(p)) \cup {u.n} = r[p] + 1 .. thens'[p]
          BY <1>1, <1>13, <4>5, Zenon
        <5>2. \A A, B, C : A \cup (B \cup C) = (A \cup B) \cup C
          OBVIOUS
        <5>3. Queued(queue', p) \cup Waiting(p)' = r[p] + 1 .. thens'[p]
          BY <2>1, <2>10, <5>1, <5>2, Zenon
        <5> QED BY <5>3, Zenon DEF Whole
      <4> QED BY <3>1, <4>4, <4>5, Zenon
    <3>2. CASE k # p
      <4>1. Waiting(k)' = Waiting(k) /\ reactions'[k] = reactions[k] /\ thens'[k] = thens[k]
        BY <1>4, <2>5, <3>2, Zenon DEF Waiting
      <4>2. Order(q, r, k) /\ (lost = 0 => Whole(q, r, k))
        BY <1>12, Zenon
      <4>3. Order(queue, ran, k)'
        BY <2>1, <4>1, <4>2, Zenon DEF Order
      <4>4. (lost = 0 => Whole(queue, ran, k))'
        BY <1>1, <2>1, <4>1, <4>2, Zenon DEF Whole
      <4> QED BY <4>3, <4>4, Zenon
    <3> QED BY <3>1, <3>2
  <2> QED BY <1>10, <2>6, <2>7, <2>8, <2>9, <2>11, Zenon DEF HeapInv
<1>15. CASE state[p] # "pending"
  <2>1. reactions' = reactions /\ queue' = Append(q, J)
    BY <1>15, Zenon DEF React, J
  <2>2. queue' \in Seq(AllJobs) /\ Range(queue') = Range(q) \cup {J}
    <3>1. q \in Seq(AllJobs) /\ J \in AllJobs
      BY <1>3, <1>5, Zenon
    <3>2. Append(q, J) \in Seq(AllJobs) /\ Range(Append(q, J)) = Range(q) \cup {J}
      BY <3>1, AppendRange
    <3> QED BY <2>1, <3>2, Zenon
  <2>3. HeapType(queue, ran)'
    BY <1>1, <1>2, <1>4, <2>1, <2>2, Zenon DEF HeapType
  <2>4. (\A j \in Range(queue) : JobOK(j))'
    <3> SUFFICES ASSUME NEW j \in Range(queue') PROVE JobOK(j)'
      BY Zenon
    <3>2. CASE j = J
      <4>1. u.n <= thens'[p]
        BY <1>4
      <4>2. j.kind = "delegate" => already[j.to] /\ (lock[j.to] # 0 => j.of = lock[j.to])
        BY <1>5, <3>2, Zenon
      <4>3. j.fulfill <=> state[j.of] = "fulfilled"
        BY <1>5, <3>2, Zenon DEF f
      <4>4. /\ j.of \in Promises /\ state[j.of] # "pending" /\ j.arg = result[j.of]
            /\ j.n <= thens'[j.of] /\ j.kind # "thenable"
        BY <1>5, <1>15, <3>2, <4>1, Zenon
      <4> QED BY <1>1, <4>2, <4>3, <4>4, Zenon DEF JobOK
    <3>3. CASE j \in Range(q)
      BY <1>6, <3>3, Zenon
    <3> QED BY <2>2, <3>2, <3>3, Zenon
  <2>5. (\A k \in Promises : \A t \in Range(reactions[k]) : ThenOK(k, t))'
    BY <1>7, <2>1, Zenon
  <2>6. Settled(ran)'
    BY <1>1, <1>12, <2>1, Zenon DEF Settled
  <2>7. Waiting(p) = {}
    <3>1. Range(<<>>) = {}
      BY DEF Range
    <3>2. Range(reactions[p]) = {}
      BY <1>12, <1>15, <3>1, Zenon
    <3> QED BY <3>2, Zenon DEF Waiting
  <2>8. ASSUME NEW k \in Promises PROVE (Order(queue, ran, k) /\ (lost = 0 => Whole(queue, ran, k)))'
    <3>1. Waiting(k)' = Waiting(k)
      BY <2>1, Zenon DEF Waiting
    <3>2. Ordered(queue', k)
      <4>1. J.of = k => \A m \in Queued(q, k) : m < J.n
        BY <1>5, <1>8, Zenon
      <4> QED BY <1>3, <1>5, <1>12, <2>1, <4>1, OrderedAppend, Zenon DEF Order
    <3>3. CASE k = p
      <4>1. Queued(queue', p) = Queued(q, p) \cup {u.n}
        BY <1>3, <1>5, <2>1, QueuedAppend, ZenonT(60)
      <4>2. \A m \in Queued(queue', p) : r[p] < m
        BY <1>9, <1>12, <4>1, Zenon DEF Order
      <4>3. Order(queue, ran, p)'
        <5>1. \A i, j \in DOMAIN reactions'[p] : i < j => reactions'[p][i].n < reactions'[p][j].n
          BY <1>12, <2>1, ZenonT(60) DEF Order
        <5>2. Waiting(p)' = {} /\ Ordered(queue', p)
          BY <2>7, <3>1, <3>2, <3>3, Zenon
        <5> QED BY <4>2, <5>1, <5>2, Zenon DEF Order
      <4>4. ASSUME lost' = 0 PROVE Whole(queue, ran, p)'
        <5>1. (Queued(q, p) \cup Waiting(p)) \cup {u.n} = r[p] + 1 .. thens'[p]
          BY <1>1, <1>13, <4>4, Zenon
        <5>2. \A A, B, C : (A \cup C) \cup B = (A \cup B) \cup C
          OBVIOUS
        <5>3. Queued(queue', p) \cup Waiting(p)' = r[p] + 1 .. thens'[p]
          BY <3>1, <3>3, <4>1, <5>1, <5>2, ZenonT(60)
        <5> QED BY <5>3, Zenon DEF Whole
      <4> QED BY <3>3, <4>3, <4>4, Zenon
    <3>4. CASE k # p
      <4>1. Queued(queue', k) = Queued(q, k)
        BY <1>3, <1>5, <2>1, <3>4, QueuedAppend, Zenon
      <4>2. Order(q, r, k) /\ (lost = 0 => Whole(q, r, k))
        BY <1>12, Zenon
      <4>3. thens'[k] = thens[k]
        BY <1>4, <3>4, Zenon
      <4>4. Order(queue, ran, k)'
        BY <2>1, <3>1, <3>2, <4>1, <4>2, Zenon DEF Order
      <4>5. (lost = 0 => Whole(queue, ran, k))'
        BY <1>1, <3>1, <4>1, <4>2, <4>3, Zenon DEF Whole
      <4> QED BY <4>4, <4>5, Zenon
    <3> QED BY <3>3, <3>4
  <2> QED BY <1>10, <2>3, <2>4, <2>5, <2>6, <2>8, Zenon DEF HeapInv
<1> QED BY <1>14, <1>15

-----------------------------------------------------------------------------
\* The functions that settle promises.

\* What user code can resolve a promise with.
Values == {Value, Thenable, Broken} \cup Promises

LEMMA FlagFacts ==
    ASSUME NEW q, NEW r, HeapInv(q, r)
    PROVE  /\ already \in [Promises -> BOOLEAN] /\ lock \in [Promises -> 0 .. MaxPromises]
           /\ threw \subseteq Promises /\ held \subseteq Promises
           /\ \A p \in Promises : ~already[p] => lock[p] = 0
           /\ \A p \in held : already[p] /\ lock[p] = 0
BY Zenon DEF HeapInv, HeapType, Flags

\* resolve_promise, called for a promise whose functions were called.
LEMMA ResolvePromiseHeap ==
    ASSUME NEW p \in Promises, NEW x \in Values, NEW q, NEW r, HeapInv(q, r), ResolvePromise(p, x, q),
           ran' = r, UNCHANGED <<held, thens, threw, lost>>,
           already' \in [Promises -> BOOLEAN], lock' \in [Promises -> 0 .. MaxPromises],
           already'[p], lock[p] = 0,
           \A k \in Promises : k # p => already'[k] = already[k] /\ lock'[k] = lock[k],
           IF already[p] THEN lock'[p] = 0 ELSE lock'[p] = IF x \in Promises \ {p} THEN x ELSE 0
    PROVE  HeapInv(queue, ran)'
<1>1. /\ already \in [Promises -> BOOLEAN] /\ lock \in [Promises -> 0 .. MaxPromises]
      /\ threw \subseteq Promises
    BY FlagFacts, Zenon
<1>2. ASSUME lock'[p] = 0 PROVE lock' = lock
  <2>1. \A k \in Promises : lock'[k] = lock[k]
    BY <1>2, Zenon
  <2> QED BY <1>1, <2>1
<1>3. \A s, v : MaySettle(p, s, v)
  <2> SUFFICES ASSUME NEW s, NEW v PROVE MaySettle(p, s, v)
    OBVIOUS
  <2>1. \A k \in Promises : already[k] => already'[k]
    BY Zenon
  <2> QED BY <1>1, <2>1, Zenon DEF MaySettle
<1>4. CASE x = p \/ x = Broken
  <2>1. Settle(p, "rejected", Error, q)
    BY <1>4, Zenon DEF ResolvePromise
  <2>2. x \notin Promises \ {p}
    BY <1>4 DEF Broken, Promises
  <2>3. lock' = lock
    BY <1>2, <2>2, Zenon
  <2>4. Outcome("rejected", Error)
    BY Zenon DEF Outcome
  <2>5. UNCHANGED <<held, lock, thens, lost>>
    BY <2>3, Zenon
  <2> QED BY <1>3, <2>1, <2>4, <2>5, SettleHeap, Zenon
<1>5. CASE x # p /\ x \in Promises \cup {Thenable}
  <2>1. x # Broken
    BY <1>5 DEF Broken, Thenable, Promises
  <2>2. queue' = Append(q, ThenableJob(p, x)) /\ UNCHANGED boxes
    BY <1>5, <2>1, Zenon DEF ResolvePromise
  <2>3. already[p] \in BOOLEAN
    BY <1>1, Zenon
  <2>4. \/ already[p] /\ lock[p] = 0 /\ lock'[p] = 0
        \/ ~already[p] /\ lock'[p] \in {0, x}
    BY <2>3, Zenon
  <2>5. UNCHANGED <<boxes, held, thens, threw, lost>>
    BY <2>2, Zenon DEF boxes
  <2> QED BY <1>5, <2>2, <2>4, <2>5, DelegateHeap, Zenon
<1>6. CASE x = Value
  <2>1. x # p /\ x # Broken /\ x # Thenable /\ x \notin Promises
    BY <1>6 DEF Value, Broken, Thenable, Promises
  <2>2. Settle(p, "fulfilled", Value, q)
    BY <1>6, <2>1, Zenon DEF ResolvePromise
  <2>3. lock' = lock
    BY <1>2, <2>1, Zenon
  <2>4. Outcome("fulfilled", Value)
    BY Zenon DEF Outcome
  <2>5. UNCHANGED <<held, lock, thens, lost>>
    BY <2>3, Zenon
  <2> QED BY <1>3, <2>2, <2>4, <2>5, SettleHeap, Zenon
<1> QED BY <1>4, <1>5, <1>6, Zenon DEF Values

\* promise_resolve_closure of a capability.
LEMMA ResolveHeap ==
    ASSUME NEW p \in Promises, NEW x \in Values, NEW q, NEW r, HeapInv(q, r), ResolveClosure(p, x, q),
           ran' = r, UNCHANGED <<held, thens, threw, lost>>
    PROVE  HeapInv(queue, ran)'
<1>1. /\ already \in [Promises -> BOOLEAN] /\ lock \in [Promises -> 0 .. MaxPromises]
      /\ held \subseteq Promises /\ \A k \in held : already[k] /\ lock[k] = 0
      /\ ~already[p] => lock[p] = 0
    BY FlagFacts, Zenon
<1>2. CASE already[p]
  <2>1. queue' = q /\ UNCHANGED <<boxes, already, lock, thens, threw, lost>> /\ held' = held
    BY <1>2, Zenon DEF ResolveClosure
  <2>2. held' \subseteq Promises /\ \A k \in held' : already[k] /\ lock[k] = 0
    BY <1>1, <2>1, Zenon
  <2> QED BY <2>1, <2>2, SameHeap, Zenon
<1>3. CASE ~already[p]
  <2>1. /\ already' = [already EXCEPT ![p] = TRUE] /\ ResolvePromise(p, x, q)
        /\ lock' = [lock EXCEPT ![p] = IF x \in Promises \ {p} THEN x ELSE 0]
    BY <1>3, Zenon DEF ResolveClosure
  <2>2. /\ already' \in [Promises -> BOOLEAN] /\ already'[p]
        /\ \A k \in Promises : k # p => already'[k] = already[k]
    BY <1>1, <2>1, Zenon
  <2>3. /\ lock'[p] = IF x \in Promises \ {p} THEN x ELSE 0
        /\ \A k \in Promises : k # p => lock'[k] = lock[k]
    BY <1>1, <2>1, Zenon
  <2>4. lock' \in [Promises -> 0 .. MaxPromises]
    BY <1>1, <2>1, PromisesAssumption DEF Promises
  <2>5. IF already[p] THEN lock'[p] = 0 ELSE lock'[p] = IF x \in Promises \ {p} THEN x ELSE 0
    BY <1>3, <2>3, Zenon
  <2>6. lock[p] = 0 /\ \A k \in Promises : k # p => already'[k] = already[k] /\ lock'[k] = lock[k]
    BY <1>1, <1>3, <2>2, <2>3, Zenon
  <2> QED BY <2>1, <2>2, <2>4, <2>5, <2>6, ResolvePromiseHeap, Zenon
<1> QED BY <1>2, <1>3

\* promise_reject_closure of a capability.
LEMMA RejectHeap ==
    ASSUME NEW p \in Promises, NEW q, NEW r, HeapInv(q, r), RejectClosure(p, q),
           ran' = r, UNCHANGED <<held, thens, threw, lost>>
    PROVE  HeapInv(queue, ran)'
<1>1. /\ already \in [Promises -> BOOLEAN] /\ threw \subseteq Promises
      /\ held \subseteq Promises /\ \A k \in held : already[k] /\ lock[k] = 0
      /\ ~already[p] => lock[p] = 0
    BY FlagFacts, Zenon
<1>2. CASE already[p]
  <2>1. queue' = q /\ UNCHANGED <<boxes, already, lock, thens, threw, lost>> /\ held' = held
    BY <1>2, Zenon DEF RejectClosure
  <2>2. held' \subseteq Promises /\ \A k \in held' : already[k] /\ lock[k] = 0
    BY <1>1, <2>1, Zenon
  <2> QED BY <2>1, <2>2, SameHeap, Zenon
<1>3. CASE ~already[p]
  <2>1. already' = [already EXCEPT ![p] = TRUE] /\ Settle(p, "rejected", Error, q) /\ lock' = lock
    BY <1>3, Zenon DEF RejectClosure
  <2>2. /\ already' \in [Promises -> BOOLEAN] /\ already'[p]
        /\ \A k \in Promises : already[k] => already'[k]
    BY <1>1, <2>1, Zenon
  <2>3. MaySettle(p, "rejected", Error)
    BY <1>1, <1>3, <2>2, Zenon DEF MaySettle
  <2>4. Outcome("rejected", Error) /\ UNCHANGED <<held, lock, thens, lost>>
    BY <2>1, Zenon DEF Outcome
  <2> QED BY <2>1, <2>3, <2>4, SettleHeap, Zenon
<1> QED BY <1>2, <1>3

-----------------------------------------------------------------------------
\* The actions.

LEMMA InitOK == Init => IInv
<1> SUFFICES ASSUME Init PROVE IInv
    OBVIOUS
<1>1. RunInv
    BY PromisesAssumption DEF Init, RunInv
<1>2. HeapType(queue, ran)
    BY PromisesAssumption DEF Init, HeapType, Value, Error
<1>3. Range(queue) = {} /\ \A p \in Promises : reactions[p] = <<>> /\ Range(reactions[p]) = {}
  <2>1. Range(<<>>) = {}
    BY DEF Range
  <2>2. \A p \in Promises : reactions[p] = <<>>
    BY DEF Init
  <2> QED BY <2>1, <2>2, Zenon DEF Init
<1>4. /\ \A p \in Promises : /\ state[p] = "pending" /\ lock[p] = 0 /\ ran[p] = 0 /\ thens[p] = 0
                             /\ Queued(queue, p) = {} /\ Waiting(p) = {} /\ DOMAIN reactions[p] = {}
      /\ held = {} /\ DOMAIN queue = {}
  <2>1. \A p \in Promises : /\ state[p] = "pending" /\ lock[p] = 0 /\ ran[p] = 0 /\ thens[p] = 0
                            /\ DOMAIN reactions[p] = {}
    BY DEF Init
  <2>2. \A p \in Promises : Queued(queue, p) = {} /\ Waiting(p) = {}
    BY <1>3 DEF Queued, Waiting
  <2>3. held = {} /\ DOMAIN queue = {}
    BY DEF Init
  <2> QED BY <2>1, <2>2, <2>3, Zenon
<1>5. Flags
    BY <1>4, Zenon DEF Flags
<1>6. Settled(ran)
    BY <1>3, <1>4 DEF Settled
<1>7. AdoptsOutcome
    BY <1>4, Zenon DEF AdoptsOutcome
<1>8. \A p \in Promises : Order(queue, ran, p)
    BY <1>4, Zenon DEF Order, Ordered
<1>9. \A p \in Promises : Whole(queue, ran, p)
  <2>1. {} \cup {} = 0 + 1 .. 0
    OBVIOUS
  <2> QED BY <1>4, <2>1, Zenon DEF Whole
<1> QED BY <1>1, <1>2, <1>3, <1>5, <1>6, <1>7, <1>8, <1>9, Zenon DEF IInv, HeapInv

\* The argument of a call is a value that exists.
LEMMA ArgumentsAreValues ==
    ASSUME RunInv, NEW x \in Arguments
    PROVE  x \in Values
<1>1. made \in 0 .. MaxPromises
    BY Zenon DEF RunInv
<1> QED BY <1>1, PromisesAssumption DEF Arguments, Values, Promises

\* Nothing at all happens to the promises.
LEMMA Untouched ==
    ASSUME HeapInv(queue, ran), UNCHANGED <<boxes, already, queue, held, past>>
    PROVE  HeapInv(queue, ran)'
<1>1. /\ queue' = queue /\ ran' = ran /\ held' = held
      /\ UNCHANGED <<boxes, already, lock, thens, threw, lost>>
    BY Zenon DEF past
<1>2. held' \subseteq Promises /\ \A p \in held' : already[p] /\ lock[p] = 0
    BY <1>1, FlagFacts, Zenon
<1> QED BY <1>1, <1>2, SameHeap, Zenon

\* A user's call leaves what runs as it is.
LEMMA CallRunInv ==
    ASSUME RunInv, UserCall, UNCHANGED <<own, held, executors>>, made' \in 0 .. MaxPromises
    PROVE  RunInv'
BY Zenon DEF RunInv, UserCall

LEMMA NewPromiseOK == IInv /\ NewPromise => IInv'
<1> SUFFICES ASSUME RunInv, HeapInv(queue, ran), NewPromise PROVE RunInv' /\ HeapInv(queue, ran)'
    BY Zenon DEF IInv
<1>1. HeapInv(queue, ran)'
  <2>1. UNCHANGED <<boxes, already, queue, held, past>>
    BY Zenon DEF NewPromise, UserCall, past
  <2> QED BY <2>1, Untouched, Zenon
<1>2. made' \in 0 .. MaxPromises /\ made + 1 \in Promises /\ made' = made + 1
    BY PromisesAssumption DEF RunInv, NewPromise, Promises
<1>3. own' \subseteq Promises
    BY <1>2 DEF RunInv, NewPromise
<1>4. executors' \in Seq(Promises)
  <2>1. executors \in Seq(Promises) /\ executors' = <<made + 1>> \o executors
    BY Zenon DEF RunInv, NewPromise
  <2>2. <<made + 1>> \in Seq(Promises)
    BY <1>2
  <2>3. \A s, t \in Seq(Promises) : s \o t \in Seq(Promises)
    OBVIOUS
  <2> QED BY <2>1, <2>2, <2>3, Zenon
<1>5. RunInv'
    BY <1>2, <1>3, <1>4, Zenon DEF RunInv, NewPromise, UserCall
<1> QED BY <1>1, <1>5

LEMMA CallResolveOK == ASSUME NEW p \in Promises, NEW x \in Arguments, IInv, CallResolve(p, x) PROVE IInv'
<1>1. RunInv /\ HeapInv(queue, ran)
    BY Zenon DEF IInv
<1>2. UserCall /\ ResolveClosure(p, x, queue) /\ UNCHANGED <<made, own, held, thens, executors, threw>>
    BY Zenon DEF CallResolve
<1>3. RunInv'
  <2>1. made' \in 0 .. MaxPromises
    BY <1>1, <1>2, Zenon DEF RunInv
  <2> QED BY <1>1, <1>2, <2>1, CallRunInv, Zenon
<1>4. HeapInv(queue, ran)'
  <2>1. ran' = ran /\ UNCHANGED <<held, thens, threw, lost>>
    BY <1>2, Zenon DEF UserCall
  <2>2. x \in Values
    BY <1>1, ArgumentsAreValues, Zenon
  <2> QED BY <1>1, <1>2, <2>1, <2>2, ResolveHeap, Zenon
<1> QED BY <1>3, <1>4, Zenon DEF IInv

LEMMA CallRejectOK == ASSUME NEW p \in Promises, IInv, CallReject(p) PROVE IInv'
<1>1. RunInv /\ HeapInv(queue, ran)
    BY Zenon DEF IInv
<1>2. UserCall /\ RejectClosure(p, queue) /\ UNCHANGED <<made, own, held, thens, executors, threw>>
    BY Zenon DEF CallReject
<1>3. RunInv'
  <2>1. made' \in 0 .. MaxPromises
    BY <1>1, <1>2, Zenon DEF RunInv
  <2> QED BY <1>1, <1>2, <2>1, CallRunInv, Zenon
<1>4. HeapInv(queue, ran)'
  <2>1. ran' = ran /\ UNCHANGED <<held, thens, threw, lost>>
    BY <1>2, Zenon DEF UserCall
  <2> QED BY <1>1, <1>2, <2>1, RejectHeap, Zenon
<1> QED BY <1>3, <1>4, Zenon DEF IInv

LEMMA CallDelegatedResolveOK ==
    ASSUME NEW p \in Promises, NEW x \in Arguments, IInv, CallDelegatedResolve(p, x) PROVE IInv'
<1>1. RunInv /\ HeapInv(queue, ran)
    BY Zenon DEF IInv
<1>2. /\ UserCall /\ p \in held /\ ResolvePromise(p, x, queue)
      /\ UNCHANGED <<made, own, already, held, lock, thens, executors, threw>>
    BY Zenon DEF CallDelegatedResolve
<1>3. RunInv'
  <2>1. made' \in 0 .. MaxPromises /\ UNCHANGED <<own, held, executors>>
    BY <1>1, <1>2, Zenon DEF RunInv
  <2> QED BY <1>1, <1>2, <2>1, CallRunInv, Zenon
<1>4. HeapInv(queue, ran)'
  <2>1. ran' = ran /\ UNCHANGED <<held, thens, threw, lost>> /\ already' = already /\ lock' = lock
    BY <1>2, Zenon DEF UserCall
  <2>2. x \in Values
    BY <1>1, ArgumentsAreValues, Zenon
  <2>3. /\ already' \in [Promises -> BOOLEAN] /\ lock' \in [Promises -> 0 .. MaxPromises]
        /\ already'[p] /\ lock[p] = 0 /\ lock'[p] = 0 /\ already[p]
    BY <1>1, <1>2, <2>1, FlagFacts, Zenon
  <2>4. \A k \in Promises : k # p => already'[k] = already[k] /\ lock'[k] = lock[k]
    BY <2>1, Zenon
  <2>5. IF already[p] THEN lock'[p] = 0 ELSE lock'[p] = IF x \in Promises \ {p} THEN x ELSE 0
    BY <2>3, Zenon
  <2> QED BY <1>1, <1>2, <2>1, <2>2, <2>3, <2>4, <2>5, ResolvePromiseHeap, Zenon
<1> QED BY <1>3, <1>4, Zenon DEF IInv

\* A promise that has a pair is rejected.
LEMMA PairRejects ==
    ASSUME NEW p \in held, HeapInv(queue, ran), Settle(p, "rejected", Error, queue),
           UNCHANGED <<already, held, lock, thens, ran, threw, lost>>
    PROVE  HeapInv(queue, ran)'
<1>1. /\ already \in [Promises -> BOOLEAN] /\ threw \subseteq Promises /\ p \in Promises
      /\ already[p] /\ lock[p] = 0
    BY FlagFacts, Zenon
<1>2. already' = already /\ threw' = threw /\ ran' = ran
    BY Zenon
<1>3. MaySettle(p, "rejected", Error)
    BY <1>1, <1>2, Zenon DEF MaySettle
<1>4. Outcome("rejected", Error) /\ UNCHANGED <<held, lock, thens, lost>>
    BY Zenon DEF Outcome
<1> QED BY <1>1, <1>2, <1>3, <1>4, SettleHeap, Zenon

LEMMA CallDelegatedRejectOK == ASSUME NEW p \in Promises, IInv, CallDelegatedReject(p) PROVE IInv'
<1>1. RunInv /\ HeapInv(queue, ran)
    BY Zenon DEF IInv
<1>2. /\ UserCall /\ p \in held /\ Settle(p, "rejected", Error, queue)
      /\ UNCHANGED <<made, own, already, held, lock, thens, executors, threw>>
    BY Zenon DEF CallDelegatedReject
<1>3. RunInv'
  <2>1. made' \in 0 .. MaxPromises /\ UNCHANGED <<own, held, executors>>
    BY <1>1, <1>2, Zenon DEF RunInv
  <2> QED BY <1>1, <1>2, <2>1, CallRunInv, Zenon
<1>4. UNCHANGED <<already, held, lock, thens, ran, threw, lost>>
    BY <1>2, Zenon DEF UserCall
<1> QED BY <1>1, <1>2, <1>3, <1>4, PairRejects, Zenon DEF IInv

LEMMA CallThenOK ==
    ASSUME NEW p \in Promises, NEW f \in {"user", "none"}, NEW g \in {"user", "none"}, IInv,
           CallThen(p, f, g)
    PROVE  IInv'
<1>1. RunInv /\ HeapInv(queue, ran)
    BY Zenon DEF IInv
<1>2. /\ UserCall /\ made < MaxPromises /\ made' = made + 1
      /\ thens' = [thens EXCEPT ![p] = @ + 1]
      /\ React(p, Then(f, g, thens[p] + 1, made + 1), queue)
      /\ UNCHANGED <<own, state, result, already, held, lock, executors, threw>>
    BY Zenon DEF CallThen
<1>3. made' \in 0 .. MaxPromises /\ made + 1 \in Promises
    BY <1>1, <1>2, PromisesAssumption DEF RunInv, Promises
<1>4. RunInv'
  <2>1. UNCHANGED <<own, held, executors>>
    BY <1>2, Zenon
  <2> QED BY <1>1, <1>2, <1>3, <2>1, CallRunInv, Zenon
<1>5. thens[p] + 1 \in Nat
  <2>1. thens \in [Promises -> Nat]
    BY <1>1, Zenon DEF HeapInv, HeapType
  <2> QED BY <2>1
<1>6. PICK u : u = Then(f, g, thens[p] + 1, made + 1)
    OBVIOUS
<1>7. u \in Thens /\ u.n = thens[p] + 1 /\ u.onFulfilled # "delegate" /\ u.onRejected # "delegate"
    BY <1>3, <1>5, <1>6 DEF Then, Thens, Handlers
<1>8. HeapInv(queue, ran)'
  <2>1. ran' = ran /\ UNCHANGED <<state, result, already, held, lock, threw, lost>>
    BY <1>2, Zenon DEF UserCall
  <2>2. React(p, u, queue)
    BY <1>2, <1>6, Zenon
  <2> QED BY <1>1, <1>2, <1>7, <2>1, <2>2, ReactHeap, Zenon
<1> QED BY <1>4, <1>8, Zenon DEF IInv

LEMMA ExecutorReturnsOK == IInv /\ ExecutorReturns => IInv'
<1> SUFFICES ASSUME RunInv, HeapInv(queue, ran), ExecutorReturns PROVE RunInv' /\ HeapInv(queue, ran)'
    BY Zenon DEF IInv
<1>1. executors' \in Seq(Promises)
    BY DEF RunInv, ExecutorReturns
<1>2. RunInv'
    BY <1>1, Zenon DEF RunInv, ExecutorReturns
<1>3. UNCHANGED <<boxes, already, queue, held, past>>
    BY Zenon DEF ExecutorReturns
<1> QED BY <1>2, <1>3, Untouched, Zenon

LEMMA ExecutorThrowsOK == IInv /\ ExecutorThrows => IInv'
<1> SUFFICES ASSUME RunInv, HeapInv(queue, ran), ExecutorThrows PROVE RunInv' /\ HeapInv(queue, ran)'
    BY Zenon DEF IInv
<1>1. executors' \in Seq(Promises) /\ Head(executors) \in Promises
    BY DEF RunInv, ExecutorThrows
<1>2. RunInv'
    BY <1>1, Zenon DEF RunInv, ExecutorThrows
<1>3. PICK p \in Promises : p = Head(executors)
    BY <1>1
<1>4. /\ Settle(p, "rejected", Error, queue) /\ threw' = threw \cup {p} /\ already' = already
      /\ ran' = ran /\ UNCHANGED <<held, lock, thens, lost>>
    BY <1>3, Zenon DEF ExecutorThrows
<1>5. already \in [Promises -> BOOLEAN] /\ threw \subseteq Promises
    BY FlagFacts, Zenon
<1>6. MaySettle(p, "rejected", Error)
    BY <1>4, <1>5, Zenon DEF MaySettle
<1>7. Outcome("rejected", Error)
    BY Zenon DEF Outcome
<1> QED BY <1>2, <1>4, <1>6, <1>7, SettleHeap, Zenon

\* The steps that only change what runs.
LEMMA QuietOK == IInv /\ (ScriptEnds \/ DrainEnds \/ ThenReturns \/ Turn) => IInv'
<1> SUFFICES ASSUME RunInv, HeapInv(queue, ran), ScriptEnds \/ DrainEnds \/ ThenReturns \/ Turn
             PROVE  RunInv' /\ HeapInv(queue, ran)'
    BY Zenon DEF IInv
<1>1. /\ UNCHANGED <<boxes, already, queue, held, past>> /\ UNCHANGED <<made, own, executors>>
      /\ phase' \in {"script", "drain", "idle"} /\ settles' \in {settles, 0}
    BY Zenon DEF ScriptEnds, DrainEnds, ThenReturns, Turn
<1>2. settles' \in 0 .. MaxPromises
    BY <1>1, PromisesAssumption DEF RunInv
<1>3. /\ phase' \in {"script", "drain", "handler", "then", "idle"}
      /\ phase' # "handler" /\ phase' # "then"
    BY <1>1
<1>4. RunInv'
    BY <1>1, <1>2, <1>3, Zenon DEF RunInv
<1> QED BY <1>1, <1>4, Untouched, Zenon

\* A handler or a then is over: nothing runs but the drain.
LEMMA BackToDrain ==
    ASSUME RunInv, phase' = "drain", settles' = 0, UNCHANGED <<made, own, executors>>
    PROVE  RunInv'
<1>1. /\ settles' \in 0 .. MaxPromises /\ phase' \in {"script", "drain", "handler", "then", "idle"}
      /\ phase' # "handler" /\ phase' # "then"
    BY PromisesAssumption
<1> QED BY <1>1, Zenon DEF RunInv

LEMMA HandlerReturnsOK == ASSUME NEW x \in Arguments, IInv, HandlerReturns(x) PROVE IInv'
<1>1. RunInv /\ HeapInv(queue, ran)
    BY Zenon DEF IInv
<1>2. /\ settles \in Promises /\ ResolveClosure(settles, x, queue) /\ phase' = "drain" /\ settles' = 0
      /\ UNCHANGED <<made, own, executors>> /\ ran' = ran /\ UNCHANGED <<held, thens, threw, lost>>
    BY <1>1, Zenon DEF HandlerReturns, RunInv
<1>3. RunInv'
    BY <1>1, <1>2, BackToDrain, Zenon
<1>4. x \in Values
    BY <1>1, ArgumentsAreValues, Zenon
<1> QED BY <1>1, <1>2, <1>3, <1>4, ResolveHeap, Zenon DEF IInv

LEMMA HandlerThrowsOK == IInv /\ HandlerThrows => IInv'
<1> SUFFICES ASSUME RunInv, HeapInv(queue, ran), HandlerThrows PROVE RunInv' /\ HeapInv(queue, ran)'
    BY Zenon DEF IInv
<1>1. /\ settles \in Promises /\ RejectClosure(settles, queue) /\ phase' = "drain" /\ settles' = 0
      /\ UNCHANGED <<made, own, executors>> /\ ran' = ran /\ UNCHANGED <<held, thens, threw, lost>>
    BY Zenon DEF HandlerThrows, RunInv
<1>2. RunInv'
    BY <1>1, BackToDrain, Zenon
<1> QED BY <1>1, <1>2, RejectHeap, Zenon

LEMMA ThenThrowsOK == IInv /\ ThenThrows => IInv'
<1> SUFFICES ASSUME RunInv, HeapInv(queue, ran), ThenThrows PROVE RunInv' /\ HeapInv(queue, ran)'
    BY Zenon DEF IInv
<1>1. /\ settles \in held /\ Settle(settles, "rejected", Error, queue) /\ phase' = "drain" /\ settles' = 0
      /\ UNCHANGED <<made, own, executors>>
      /\ UNCHANGED <<already, held, lock, thens, ran, threw, lost>>
    BY Zenon DEF ThenThrows, RunInv, past
<1>2. RunInv'
    BY <1>1, BackToDrain, Zenon
<1> QED BY <1>1, <1>2, PairRejects, Zenon

LEMMA DrainAbortsOK == IInv /\ DrainAborts => IInv'
<1> SUFFICES ASSUME RunInv, HeapInv(queue, ran), DrainAborts PROVE RunInv' /\ HeapInv(queue, ran)'
    BY Zenon DEF IInv
<1>1. phase' \in {"script", "drain", "handler", "then", "idle"} /\ phase' # "handler" /\ phase' # "then"
    BY DEF DrainAborts
<1>2. RunInv'
    BY <1>1, Zenon DEF RunInv, DrainAborts
<1>3. /\ queue # <<>> /\ queue' = Tail(queue) /\ lost' = lost + 1
      /\ UNCHANGED <<boxes, already, held, lock, thens, ran, threw>>
    BY Zenon DEF DrainAborts
<1> QED BY <1>2, <1>3, DropHeap, Zenon

LEMMA RunHandlerOK == IInv /\ RunHandler => IInv'
<1> SUFFICES ASSUME RunInv, HeapInv(queue, ran), RunHandler PROVE RunInv' /\ HeapInv(queue, ran)'
    BY Zenon DEF IInv
<1>1. /\ queue # <<>> /\ queue' = Tail(queue) /\ ran' = After(Head(queue))
      /\ settles' = Head(queue).to /\ phase' = "handler" /\ UNCHANGED <<made, own, executors>>
      /\ UNCHANGED <<boxes, already, lock, thens, threw, lost>> /\ held' = held
    BY Zenon DEF RunHandler, Popped, Ran, After
<1>2. Head(queue) \in AllJobs /\ HeapInv(Tail(queue), After(Head(queue)))
    BY <1>1, PopHeap, Zenon
<1>3. HeapInv(queue, ran)'
  <2>1. held' \subseteq Promises /\ \A p \in held' : already[p] /\ lock[p] = 0
    BY <1>1, FlagFacts, Zenon
  <2> QED BY <1>1, <1>2, <2>1, SameHeap, Zenon
<1>4. settles' \in Promises
  <2>1. \A j \in AllJobs : j.to \in Promises
    BY DEF AllJobs
  <2> QED BY <1>1, <1>2, <2>1, Zenon
<1>5. settles' \in 0 .. MaxPromises
    BY <1>4, PromisesAssumption DEF Promises
<1>6. phase' \in {"script", "drain", "handler", "then", "idle"} /\ phase' # "then"
    BY <1>1
<1>7. RunInv'
    BY <1>1, <1>4, <1>5, <1>6, Zenon DEF RunInv
<1> QED BY <1>3, <1>7

LEMMA PassThroughOK == IInv /\ PassThrough => IInv'
<1> SUFFICES ASSUME RunInv, HeapInv(queue, ran), PassThrough PROVE RunInv' /\ HeapInv(queue, ran)'
    BY Zenon DEF IInv
<1>1. RunInv'
    BY Zenon DEF RunInv, PassThrough
<1>2. PICK j : j = Head(queue)
    OBVIOUS
<1>3. /\ queue # <<>> /\ j.kind \in {"none"} /\ ran' = After(j) /\ UNCHANGED <<held, thens, threw, lost>>
      /\ IF j.fulfill THEN ResolveClosure(j.to, j.arg, Tail(queue)) ELSE RejectClosure(j.to, Tail(queue))
    BY <1>2, Zenon DEF PassThrough, Popped, Ran, After
<1>4. j \in AllJobs /\ JobOK(j) /\ HeapInv(Tail(queue), After(j))
    BY <1>2, <1>3, PopHeap, Zenon
<1>5. j.to \in Promises
    BY <1>4 DEF AllJobs
<1>6. CASE j.fulfill
  <2>1. j.kind # "thenable"
    BY <1>3
  <2>2. j.arg = Value
    BY <1>4, <1>6, <2>1, Zenon DEF JobOK, HeapInv, Settled
  <2>3. j.arg \in Values
    BY <2>2, Zenon DEF Values
  <2> QED BY <1>1, <1>3, <1>4, <1>5, <1>6, <2>3, ResolveHeap, Zenon
<1>7. CASE ~j.fulfill
    BY <1>1, <1>3, <1>4, <1>5, <1>7, RejectHeap, Zenon
<1> QED BY <1>6, <1>7

LEMMA RunDelegateOK == IInv /\ RunDelegate => IInv'
<1> SUFFICES ASSUME RunInv, HeapInv(queue, ran), RunDelegate PROVE RunInv' /\ HeapInv(queue, ran)'
    BY Zenon DEF IInv
<1>1. RunInv'
    BY Zenon DEF RunInv, RunDelegate
<1>2. PICK j : j = Head(queue)
    OBVIOUS
<1>3. /\ queue # <<>> /\ j.kind = "delegate" /\ ran' = After(j)
      /\ UNCHANGED <<held, lock, thens, lost>> /\ already' = already /\ threw' = threw
      /\ IF j.fulfill THEN ResolvePromise(j.to, j.arg, Tail(queue))
                      ELSE Settle(j.to, "rejected", j.arg, Tail(queue))
    BY <1>2, Zenon DEF RunDelegate, Popped, Ran, After
<1>4. j \in AllJobs /\ JobOK(j) /\ HeapInv(Tail(queue), After(j))
    BY <1>2, <1>3, PopHeap, Zenon
<1>5. j.to \in Promises
    BY <1>4 DEF AllJobs
<1>6. j.kind # "thenable"
    BY <1>3
<1>7. /\ j.of \in Promises /\ state[j.of] # "pending" /\ j.arg = result[j.of]
      /\ (j.fulfill <=> state[j.of] = "fulfilled")
      /\ already[j.to] /\ (lock[j.to] # 0 => j.of = lock[j.to])
    BY <1>3, <1>4, <1>6, Zenon DEF JobOK
<1>8. already \in [Promises -> BOOLEAN] /\ threw \subseteq Promises
    BY FlagFacts, Zenon
<1>9. \A s : state[j.of] = s => MaySettle(j.to, s, j.arg)
    BY <1>3, <1>7, <1>8, Zenon DEF MaySettle
<1>10. CASE j.fulfill
  <2>1. state[j.of] = "fulfilled" /\ j.arg = Value
    BY <1>7, <1>10, Zenon DEF HeapInv, Settled
  <2>2. Value # j.to /\ Value # Broken /\ Value # Thenable /\ Value \notin Promises
    BY <1>5 DEF Value, Broken, Thenable, Promises
  <2>3. Settle(j.to, "fulfilled", j.arg, Tail(queue))
    BY <1>3, <1>10, <2>1, <2>2, Zenon DEF ResolvePromise
  <2>4. Outcome("fulfilled", j.arg) /\ MaySettle(j.to, "fulfilled", j.arg)
    BY <1>9, <2>1, Zenon DEF Outcome
  <2> QED BY <1>1, <1>3, <1>4, <1>5, <2>3, <2>4, SettleHeap, Zenon
<1>11. CASE ~j.fulfill
  <2>1. state[j.of] = "rejected"
    <3>1. state[j.of] \in {"pending", "fulfilled", "rejected"}
      BY <1>7, Zenon DEF HeapInv, HeapType
    <3> QED BY <1>7, <1>11, <3>1, Zenon
  <2>2. j.arg = Error
    BY <1>7, <2>1, Zenon DEF HeapInv, Settled
  <2>3. Settle(j.to, "rejected", j.arg, Tail(queue))
    BY <1>3, <1>11, Zenon
  <2>4. Outcome("rejected", j.arg) /\ MaySettle(j.to, "rejected", j.arg)
    BY <1>9, <2>1, <2>2, Zenon DEF Outcome
  <2> QED BY <1>1, <1>3, <1>4, <1>5, <2>3, <2>4, SettleHeap, Zenon
<1> QED BY <1>10, <1>11

LEMMA RunPromiseThenOK == IInv /\ RunPromiseThen => IInv'
<1> SUFFICES ASSUME RunInv, HeapInv(queue, ran), RunPromiseThen PROVE RunInv' /\ HeapInv(queue, ran)'
    BY Zenon DEF IInv
<1>1. RunInv'
    BY Zenon DEF RunInv, RunPromiseThen
<1>2. PICK j : j = Head(queue)
    OBVIOUS
<1>3. /\ queue # <<>> /\ j.kind = "thenable" /\ j.arg \in Promises /\ ran' = ran
      /\ UNCHANGED <<state, result, already, held, lock, threw, lost>>
      /\ React(j.arg, Then("delegate", "delegate", thens[j.arg] + 1, j.to), Tail(queue))
      /\ thens' = [thens EXCEPT ![j.arg] = @ + 1]
    BY <1>2, Zenon DEF RunPromiseThen, Popped
<1>4. j \in AllJobs /\ JobOK(j) /\ HeapInv(Tail(queue), After(j))
    BY <1>2, <1>3, PopHeap, Zenon
<1>5. j.to \in Promises
    BY <1>4 DEF AllJobs
<1>6. j.of = 0 /\ already[j.to] /\ (lock[j.to] # 0 => j.arg = lock[j.to])
    BY <1>3, <1>4, Zenon DEF JobOK
<1>7. ran' = After(j)
    BY <1>3, <1>6, Zenon DEF After
<1>8. thens[j.arg] + 1 \in Nat
  <2>1. thens \in [Promises -> Nat]
    BY Zenon DEF HeapInv, HeapType
  <2> QED BY <1>3, <2>1
<1>9. PICK u : u = Then("delegate", "delegate", thens[j.arg] + 1, j.to)
    OBVIOUS
<1>10. /\ u \in Thens /\ u.n = thens[j.arg] + 1 /\ u.to = j.to
       /\ u.onFulfilled = "delegate" /\ u.onRejected = "delegate"
    BY <1>5, <1>8, <1>9 DEF Then, Thens, Handlers
<1>11. React(j.arg, u, Tail(queue))
    BY <1>3, <1>9, Zenon
<1>12. u.onFulfilled = "delegate" => already[u.to] /\ (lock[u.to] # 0 => lock[u.to] = j.arg)
    BY <1>6, <1>10, Zenon
<1> QED BY <1>1, <1>3, <1>4, <1>7, <1>10, <1>11, <1>12, ReactHeap, Zenon

LEMMA RunUserThenOK == IInv /\ RunUserThen => IInv'
<1> SUFFICES ASSUME RunInv, HeapInv(queue, ran), RunUserThen PROVE RunInv' /\ HeapInv(queue, ran)'
    BY Zenon DEF IInv
<1>1. PICK j : j = Head(queue)
    OBVIOUS
<1>2. /\ queue # <<>> /\ queue' = Tail(queue) /\ j.kind = "thenable" /\ j.arg = Thenable
      /\ settles' = j.to /\ phase' = "then" /\ held' = held \cup {j.to} /\ ran' = ran
      /\ UNCHANGED <<made, own, executors>> /\ UNCHANGED <<boxes, already, lock, thens, threw, lost>>
    BY <1>1, Zenon DEF RunUserThen, Popped, past
<1>3. j \in AllJobs /\ JobOK(j) /\ HeapInv(Tail(queue), After(j))
    BY <1>1, <1>2, PopHeap, Zenon
<1>4. j.to \in Promises
    BY <1>3 DEF AllJobs
<1>5. j.of = 0 /\ already[j.to] /\ (lock[j.to] # 0 => j.arg = lock[j.to])
    BY <1>2, <1>3, Zenon DEF JobOK
<1>6. lock[j.to] = 0
  <2>1. lock[j.to] \in 0 .. MaxPromises
    BY <1>4, FlagFacts, Zenon
  <2> QED BY <1>2, <1>5, <2>1 DEF Thenable
<1>7. HeapInv(queue, ran)'
  <2>1. ran' = After(j)
    BY <1>2, <1>5, Zenon DEF After
  <2>2. held' \subseteq Promises /\ \A p \in held' : already[p] /\ lock[p] = 0
    BY <1>2, <1>4, <1>5, <1>6, FlagFacts, Zenon
  <2> QED BY <1>2, <1>3, <2>1, <2>2, SameHeap, Zenon
<1>8. settles' \in 0 .. MaxPromises /\ settles' \in held'
    BY <1>2, <1>4, PromisesAssumption DEF Promises
<1>9. phase' \in {"script", "drain", "handler", "then", "idle"} /\ phase' # "handler"
    BY <1>2
<1>10. RunInv'
    BY <1>2, <1>8, <1>9, Zenon DEF RunInv
<1> QED BY <1>7, <1>10

-----------------------------------------------------------------------------

LEMMA NextOK == IInv /\ [Next]_vars => IInv'
<1> SUFFICES ASSUME IInv, [Next]_vars PROVE IInv'
    OBVIOUS
<1>1. CASE UserStep
    BY <1>1, NewPromiseOK, CallRejectOK, CallResolveOK, CallThenOK, CallDelegatedRejectOK,
       CallDelegatedResolveOK, Zenon DEF UserStep
<1>2. CASE UserReturns
    BY <1>2, ExecutorReturnsOK, ExecutorThrowsOK, QuietOK, HandlerThrowsOK, ThenThrowsOK,
       HandlerReturnsOK, Zenon DEF UserReturns
<1>3. CASE DrainStep
    BY <1>3, QuietOK, DrainAbortsOK, RunHandlerOK, PassThroughOK, RunDelegateOK, RunPromiseThenOK,
       RunUserThenOK, Zenon DEF DrainStep
<1>4. CASE Turn
    BY <1>4, QuietOK, Zenon
<1>5. CASE UNCHANGED vars
  <2>1. RunInv /\ HeapInv(queue, ran)
    BY Zenon DEF IInv
  <2>2. RunInv'
    BY <1>5, <2>1, Zenon DEF RunInv, vars, run
  <2>3. UNCHANGED <<boxes, already, queue, held, past>>
    BY <1>5, Zenon DEF vars
  <2> QED BY <2>1, <2>2, <2>3, Untouched, Zenon DEF IInv
<1> QED BY <1>1, <1>2, <1>3, <1>4, <1>5, Zenon DEF Next

LEMMA Inductive == Spec => []IInv
BY InitOK, NextOK, PTL DEF Spec

\* The reactions of a promise run at most once each and in the order of the
\* calls of then, whatever is called meanwhile and however the promise settles.
THEOREM InTheirOrder == Spec => []ReactionsInOrder
<1>1. IInv => ReactionsInOrder
    BY Zenon DEF IInv, HeapInv, Order, ReactionsInOrder
<1> QED BY <1>1, Inductive, PTL

\* As long as no drain has reached its limit, each reaction has run, is queued
\* or waits for its promise.
THEOREM NoneForgotten == Spec => []NoReactionForgotten
<1>1. IInv => NoReactionForgotten
    BY Zenon DEF IInv, HeapInv, Whole, NoReactionForgotten
<1> QED BY <1>1, Inductive, PTL

\* A promise resolved with another one is settled as that one is, if it is
\* settled at all and its executor has not thrown.
THEOREM Adopts == Spec => []AdoptsOutcome
<1>1. IInv => AdoptsOutcome
    BY Zenon DEF IInv, HeapInv
<1> QED BY <1>1, Inductive, PTL

-----------------------------------------------------------------------------
\* A settled promise stays as it is.

Kept ==
    \A p \in Promises : state[p] # "pending" =>
        state'[p] = state[p] /\ result'[p] = result[p] /\ reactions'[p] = <<>>

\* What every step does to the promises: nothing, one of them is settled, or a
\* then is registered.
Touches ==
    \/ UNCHANGED boxes
    \/ \E p \in Promises : \E s, v, q : Settle(p, s, v, q)
    \/ \E p \in Promises : \E u, q : React(p, u, q) /\ UNCHANGED <<state, result>>

LEMMA TouchesKept ==
    ASSUME IInv, Touches
    PROVE  Kept
<1>1. /\ state \in [Promises -> {"pending", "fulfilled", "rejected"}]
      /\ result \in [Promises -> {Value, Error}] /\ reactions \in [Promises -> Seq(Thens)]
      /\ \A p \in Promises : state[p] # "pending" => reactions[p] = <<>>
    BY Zenon DEF IInv, HeapInv, HeapType, Settled
<1>2. CASE UNCHANGED boxes
    BY <1>1, <1>2, Zenon DEF boxes, Kept
<1>3. ASSUME NEW p \in Promises, NEW s, NEW v, NEW q, Settle(p, s, v, q) PROVE Kept
  <2>1. CASE state[p] # "pending"
    BY <1>1, <1>3, <2>1, Zenon DEF Settle, boxes, Kept
  <2>2. CASE state[p] = "pending"
    <3>1. /\ state' = [state EXCEPT ![p] = s] /\ result' = [result EXCEPT ![p] = v]
          /\ reactions' = [reactions EXCEPT ![p] = <<>>]
      BY <1>3, <2>2, Zenon DEF Settle
    <3> QED BY <1>1, <2>2, <3>1, Zenon DEF Kept
  <2> QED BY <2>1, <2>2
<1>4. ASSUME NEW p \in Promises, NEW u, NEW q, React(p, u, q), UNCHANGED <<state, result>> PROVE Kept
  <2>1. CASE state[p] # "pending"
    BY <1>1, <1>4, <2>1, Zenon DEF React, Kept
  <2>2. CASE state[p] = "pending"
    <3>1. reactions' = [reactions EXCEPT ![p] = Append(@, u)]
      BY <1>4, <2>2, Zenon DEF React
    <3> QED BY <1>1, <1>4, <2>2, <3>1, Zenon DEF Kept
  <2> QED BY <2>1, <2>2
<1> QED BY <1>2, <1>3, <1>4, Zenon DEF Touches

\* Each of the functions that settle a promise settles that one or none.
LEMMA ClosuresTouch ==
    ASSUME NEW p \in Promises, NEW x, NEW q,
           ResolvePromise(p, x, q) \/ ResolveClosure(p, x, q) \/ RejectClosure(p, q)
    PROVE  Touches
<1>1. ASSUME ResolvePromise(p, x, q) PROVE Touches
    BY <1>1, Zenon DEF ResolvePromise, Touches
<1>2. ASSUME ResolveClosure(p, x, q) PROVE Touches
  <2>1. CASE already[p]
    BY <1>2, <2>1, Zenon DEF ResolveClosure, Touches
  <2>2. CASE ~already[p]
    BY <1>1, <1>2, <2>2, Zenon DEF ResolveClosure
  <2> QED BY <2>1, <2>2
<1>3. ASSUME RejectClosure(p, q) PROVE Touches
  <2>1. CASE already[p]
    BY <1>3, <2>1, Zenon DEF RejectClosure, Touches
  <2>2. CASE ~already[p]
    BY <1>3, <2>2, Zenon DEF RejectClosure, Touches
  <2> QED BY <2>1, <2>2
<1> QED BY <1>1, <1>2, <1>3

LEMMA NextTouches == ASSUME IInv, [Next]_vars PROVE Touches
<1>1. RunInv /\ HeapInv(queue, ran)
    BY Zenon DEF IInv
<1>2. held \subseteq Promises
    BY <1>1, FlagFacts, Zenon
<1>3. CASE UserStep
  <2>1. ASSUME NEW p \in Promises, CallReject(p) \/ \E x \in Arguments : CallResolve(p, x) PROVE Touches
    BY <2>1, ClosuresTouch, Zenon DEF CallReject, CallResolve
  <2>2. ASSUME NEW p \in Promises, \E x \in Arguments : CallDelegatedResolve(p, x) PROVE Touches
    BY <2>2, ClosuresTouch, Zenon DEF CallDelegatedResolve
  <2>3. ASSUME NEW p \in Promises, CallDelegatedReject(p) PROVE Touches
    BY <2>3, Zenon DEF CallDelegatedReject, Touches
  <2>4. ASSUME NEW p \in Promises, NEW f, NEW g, CallThen(p, f, g) PROVE Touches
    <3>1. React(p, Then(f, g, thens[p] + 1, made + 1), queue) /\ UNCHANGED <<state, result>>
      BY <2>4, Zenon DEF CallThen
    <3> QED BY <3>1, Zenon DEF Touches
  <2>5. ASSUME NewPromise PROVE Touches
    BY <2>5, Zenon DEF NewPromise, Touches
  <2> QED BY <1>3, <2>1, <2>2, <2>3, <2>4, <2>5, Zenon DEF UserStep
<1>4. CASE UserReturns
  <2>1. ASSUME ExecutorReturns \/ ScriptEnds \/ ThenReturns PROVE Touches
    BY <2>1, Zenon DEF ExecutorReturns, ScriptEnds, ThenReturns, Touches
  <2>2. ASSUME ExecutorThrows PROVE Touches
    <3>1. Head(executors) \in Promises
      BY <1>1, <2>2 DEF RunInv, ExecutorThrows
    <3> QED BY <2>2, <3>1, Zenon DEF ExecutorThrows, Touches
  <2>3. ASSUME HandlerThrows \/ \E x \in Arguments : HandlerReturns(x) PROVE Touches
    <3>1. settles \in Promises
      BY <1>1, <2>3, Zenon DEF RunInv, HandlerThrows, HandlerReturns
    <3> QED BY <2>3, <3>1, ClosuresTouch, Zenon DEF HandlerThrows, HandlerReturns
  <2>4. ASSUME ThenThrows PROVE Touches
    <3>1. settles \in Promises
      BY <1>1, <1>2, <2>4, Zenon DEF RunInv, ThenThrows
    <3> QED BY <2>4, <3>1, Zenon DEF ThenThrows, Touches
  <2> QED BY <1>4, <2>1, <2>2, <2>3, <2>4, Zenon DEF UserReturns
<1>5. CASE DrainStep
  <2>1. ASSUME DrainEnds \/ DrainAborts \/ RunHandler \/ RunUserThen PROVE Touches
    BY <2>1, Zenon DEF DrainEnds, DrainAborts, RunHandler, RunUserThen, Touches
  <2>2. ASSUME queue # <<>> PROVE Head(queue).to \in Promises
    <3>1. Head(queue) \in AllJobs
      BY <1>1, <2>2, PopHeap, Zenon
    <3> QED BY <3>1 DEF AllJobs
  <2>3. ASSUME PassThrough PROVE Touches
    BY <2>2, <2>3, ClosuresTouch, Zenon DEF PassThrough, Popped
  <2>4. ASSUME RunDelegate PROVE Touches
    <3>1. PICK j : j = Head(queue)
      OBVIOUS
    <3>2. /\ j.to \in Promises
          /\ IF j.fulfill THEN ResolvePromise(j.to, j.arg, Tail(queue))
                          ELSE Settle(j.to, "rejected", j.arg, Tail(queue))
      BY <2>2, <2>4, <3>1, Zenon DEF RunDelegate, Popped
    <3>3. CASE j.fulfill
      BY <3>2, <3>3, ClosuresTouch, Zenon
    <3>4. CASE ~j.fulfill
      BY <3>2, <3>4, Zenon DEF Touches
    <3> QED BY <3>3, <3>4
  <2>5. ASSUME RunPromiseThen PROVE Touches
    BY <2>5, Zenon DEF RunPromiseThen, Touches
  <2> QED BY <1>5, <2>1, <2>3, <2>4, <2>5, Zenon DEF DrainStep
<1>6. CASE Turn \/ UNCHANGED vars
    BY <1>6, Zenon DEF Turn, vars, Touches
<1> QED BY <1>3, <1>4, <1>5, <1>6, Zenon DEF Next

\* A promise settles once: no later call of any of its functions, no executor
\* that throws and no delegate changes its state, its result or its reactions.
THEOREM SettlesOnce == Spec => SettledOnce
<1>1. IInv /\ [Next]_vars => [Kept]_vars
    BY NextTouches, TouchesKept, Zenon
<1>2. [Kept]_vars => [\A p \in Promises : state[p] # "pending" =>
          state'[p] = state[p] /\ result'[p] = result[p] /\ reactions'[p] = <<>>]_vars
    BY Zenon DEF Kept
<1> QED BY <1>1, <1>2, Inductive, PTL DEF Spec, SettledOnce
=============================================================================
