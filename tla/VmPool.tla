------------------------------- MODULE VmPool -------------------------------
(***************************************************************************)
(* The pool of reusable virtual machines (oxide_vm/src/vm_pool.rs) and the *)
(* counters several pools share.                                           *)
(*                                                                         *)
(* A pool is a mutex around (available, total_count) and a condition       *)
(* variable.  What happens under the mutex is split at the atomic counter  *)
(* updates, because PoolCounters is read without the mutex.  A VM is a     *)
(* number drawn from nextVm: a VM that is discarded as dirty is never      *)
(* seen again.  The idle VMs of a pool are a set: the code pops the last   *)
(* of a Vec, the model any of them.                                        *)
(***************************************************************************)
EXTENDS Integers, FiniteSets

CONSTANTS Threads,     \* threads that create pools and borrow VMs
          Pools,       \* pools sharing one PoolCounters
          NoThread,    \* the owner of a free mutex
          MinSize,     \* per pool: VMs warmed up by VmPool::with_counters
          MaxSize,     \* the limit of a pool, Some(max)
          MaxCalls     \* bound of the model: calls of spawn and collect_idle_gc

ASSUME PoolAssumption ==
    /\ IsFiniteSet(Threads) /\ IsFiniteSet(Pools) /\ Pools # {}
    /\ NoThread \notin Threads
    /\ MinSize \in [Pools -> Nat] /\ MaxSize \in Nat /\ MaxCalls \in Nat

NoVm == 0

VARIABLES
    available,   \* per pool: the idle VMs
    total,       \* per pool: total_count
    owner,       \* per pool: who owns the mutex
    built,       \* per pool: with_counters has returned
    counters,    \* PoolCounters: available, total, in_use, peak
    pc,          \* where each thread is
    at,          \* the pool a thread works on
    vm,          \* the VM of a thread's VmGuard
    seen,        \* the in_use value a thread's record_borrow produced
    nextVm,      \* next VM to be created
    calls,       \* calls of spawn and collect_idle_gc so far
    forced,      \* per pool: growths forced by the five second timeout
    highWater    \* history: the largest in_use there has been

poolVars == <<available, total, owner, built>>
history == <<forced, highWater>>
vars == <<poolVars, counters, pc, at, vm, seen, nextVm, calls, history>>

Warm(p) == IF MinSize[p] <= MaxSize THEN MinSize[p] ELSE MaxSize

Max2(a, b) == IF a >= b THEN a ELSE b

\* Program points.  From "reuse" to "peak" on the path that reuses a VM, in
\* "return1", "return2" and "gc" the thread owns its pool's mutex.
Points == {"idle", "warm1", "warm2", "lock", "waiting", "timedout", "reuse", "grow",
           "borrow", "peak", "held", "return1", "return2", "gc"}

Init ==
    /\ available = [p \in Pools |-> {}]
    /\ total = [p \in Pools |-> 0]
    /\ owner = [p \in Pools |-> NoThread]
    /\ built = [p \in Pools |-> FALSE]
    /\ counters = [available |-> 0, total |-> 0, in_use |-> 0, peak |-> 0]
    /\ pc = [t \in Threads |-> "idle"]
    /\ at = [t \in Threads |-> CHOOSE p \in Pools : TRUE]
    /\ vm = [t \in Threads |-> NoVm]
    /\ seen = [t \in Threads |-> 0]
    /\ nextVm = 1
    /\ calls = 0
    /\ forced = [p \in Pools |-> 0]
    /\ highWater = 0

Goto(t, l) == pc' = [pc EXCEPT ![t] = l]
Free(p) == owner[p] = NoThread

\* Nobody is constructing pool p.
Unclaimed(p) == \A u \in Threads : pc[u] \in {"warm1", "warm2"} => at[u] # p

\* Mutant: the pool is handed out before its counters are published.
WithCountersVisible(t, p) ==
    /\ pc[t] = "idle"
    /\ ~built[p] /\ Unclaimed(p)
    /\ available' = [available EXCEPT ![p] = nextVm .. nextVm + Warm(p) - 1]
    /\ total' = [total EXCEPT ![p] = Warm(p)]
    /\ built' = [built EXCEPT ![p] = TRUE]
    /\ nextVm' = nextVm + Warm(p)
    /\ at' = [at EXCEPT ![t] = p]
    /\ Goto(t, "warm1")
    /\ UNCHANGED <<owner, counters, vm, seen, calls, history>>

\* VmPool::with_counters: the pool is not visible to another thread before it
\* returns, so the warm-up under its own mutex is one step.
WithCounters(t, p) ==
    /\ pc[t] = "idle"
    /\ ~built[p] /\ Unclaimed(p)
    /\ available' = [available EXCEPT ![p] = nextVm .. nextVm + Warm(p) - 1]
    /\ total' = [total EXCEPT ![p] = Warm(p)]
    /\ nextVm' = nextVm + Warm(p)
    /\ at' = [at EXCEPT ![t] = p]
    /\ Goto(t, "warm1")
    /\ UNCHANGED <<owner, built, counters, vm, seen, calls, history>>

WarmAvailable(t) ==
    /\ pc[t] = "warm1"
    /\ counters' = [counters EXCEPT !.available = @ + Warm(at[t])]
    /\ Goto(t, "warm2")
    /\ UNCHANGED <<poolVars, at, vm, seen, nextVm, calls, history>>

WarmTotal(t) ==
    /\ pc[t] = "warm2"
    /\ counters' = [counters EXCEPT !.total = @ + Warm(at[t])]
    /\ built' = [built EXCEPT ![at[t]] = TRUE]
    /\ Goto(t, "idle")
    /\ UNCHANGED <<available, total, owner, at, vm, seen, nextVm, calls, history>>

\* VmPool::spawn is called.
SpawnCall(t, p) ==
    /\ pc[t] = "idle"
    /\ built[p]
    /\ calls < MaxCalls
    /\ calls' = calls + 1
    /\ at' = [at EXCEPT ![t] = p]
    /\ Goto(t, "lock")
    /\ UNCHANGED <<poolVars, counters, vm, seen, nextVm, history>>

\* Mutant: the idle VM is looked at, not taken.
SpawnPeek(t) ==
    /\ pc[t] = "lock"
    /\ Free(at[t])
    /\ \E v \in available[at[t]] : vm' = [vm EXCEPT ![t] = v]
    /\ owner' = [owner EXCEPT ![at[t]] = t]
    /\ Goto(t, "reuse")
    /\ UNCHANGED <<available, total, built, counters, at, seen, nextVm, calls, history>>

\* Under the mutex: an idle VM is taken; the mutex stays owned.
SpawnPop(t) ==
    /\ pc[t] = "lock"
    /\ Free(at[t])
    /\ \E v \in available[at[t]] :
         /\ available' = [available EXCEPT ![at[t]] = @ \ {v}]
         /\ vm' = [vm EXCEPT ![t] = v]
    /\ owner' = [owner EXCEPT ![at[t]] = t]
    /\ Goto(t, "reuse")
    /\ UNCHANGED <<total, built, counters, at, seen, nextVm, calls, history>>

\* Mutant: off by one at the limit.
CanGrowAtLimit(p) == total[p] <= MaxSize

CanGrow(p) == total[p] < MaxSize

\* Under the mutex: nothing idle and the pool may grow; the mutex is released.
SpawnGrow(t) ==
    /\ pc[t] = "lock"
    /\ Free(at[t])
    /\ available[at[t]] = {}
    /\ CanGrow(at[t])
    /\ total' = [total EXCEPT ![at[t]] = @ + 1]
    /\ Goto(t, "grow")
    /\ UNCHANGED <<available, owner, built, counters, at, vm, seen, nextVm, calls, history>>

\* Under the mutex: nothing idle, the pool is full: wait_timeout.
SpawnWait(t) ==
    /\ pc[t] = "lock"
    /\ Free(at[t])
    /\ available[at[t]] = {}
    /\ ~CanGrow(at[t])
    /\ Goto(t, "waiting")
    /\ UNCHANGED <<poolVars, counters, at, vm, seen, nextVm, calls, history>>

\* A wait may end without a notification and before its timeout.
SpuriousWakeup(t) ==
    /\ pc[t] = "waiting"
    /\ Goto(t, "lock")
    /\ UNCHANGED <<poolVars, counters, at, vm, seen, nextVm, calls, history>>

\* Mutant: a wait without the five second timeout.
WaitForever(t) ==
    /\ pc[t] = "waiting"
    /\ FALSE
    /\ UNCHANGED vars

WaitTimeout(t) ==
    /\ pc[t] = "waiting"
    /\ Goto(t, "timedout")
    /\ UNCHANGED <<poolVars, counters, at, vm, seen, nextVm, calls, history>>

\* Mutant: the forced growth is not counted in total_count.
ForceGrowUncounted(t) ==
    /\ pc[t] = "timedout"
    /\ Free(at[t])
    /\ forced' = [forced EXCEPT ![at[t]] = @ + 1]
    /\ Goto(t, "grow")
    /\ UNCHANGED <<poolVars, counters, at, vm, seen, nextVm, calls, highWater>>

\* The mutex is taken again after a timeout: the pool grows whatever it holds.
ForceGrow(t) ==
    /\ pc[t] = "timedout"
    /\ Free(at[t])
    /\ total' = [total EXCEPT ![at[t]] = @ + 1]
    /\ forced' = [forced EXCEPT ![at[t]] = @ + 1]
    /\ Goto(t, "grow")
    /\ UNCHANGED <<available, owner, built, counters, at, vm, seen, nextVm, calls, highWater>>

CountReuse(t) ==
    /\ pc[t] = "reuse"
    /\ counters' = [counters EXCEPT !.available = @ - 1]
    /\ Goto(t, "borrow")
    /\ UNCHANGED <<poolVars, at, vm, seen, nextVm, calls, history>>

CountGrow(t) ==
    /\ pc[t] = "grow"
    /\ counters' = [counters EXCEPT !.total = @ + 1]
    /\ Goto(t, "borrow")
    /\ UNCHANGED <<poolVars, at, vm, seen, nextVm, calls, history>>

\* PoolCounters::record_borrow, first half.
RecordBorrow(t) ==
    /\ pc[t] = "borrow"
    /\ counters' = [counters EXCEPT !.in_use = @ + 1]
    /\ seen' = [seen EXCEPT ![t] = counters.in_use + 1]
    /\ highWater' = Max2(highWater, counters.in_use + 1)
    /\ Goto(t, "peak")
    /\ UNCHANGED <<poolVars, at, vm, nextVm, calls, forced>>

\* Mutant: the peak is stored, not raised.
RaisePeakStore(peak, in_use) == in_use

\* fetch_max.
RaisePeak(peak, in_use) == Max2(peak, in_use)

\* record_borrow's second half; new_vm on the paths that grew the pool, the
\* mutex is released on the path that reused a VM.
RecordPeak(t) ==
    /\ pc[t] = "peak"
    /\ counters' = [counters EXCEPT !.peak = RaisePeak(@, seen[t])]
    /\ \/ /\ vm[t] = NoVm
          /\ vm' = [vm EXCEPT ![t] = nextVm]
          /\ nextVm' = nextVm + 1
          /\ UNCHANGED owner
       \/ /\ vm[t] # NoVm
          /\ owner' = [owner EXCEPT ![at[t]] = NoThread]
          /\ UNCHANGED <<vm, nextVm>>
    /\ Goto(t, "held")
    /\ UNCHANGED <<available, total, built, at, seen, calls, history>>

\* Mutant: discarding a dirty VM lowers total_count although it is replaced.
DropDirtyShrinks(t) ==
    /\ pc[t] = "held"
    /\ Free(at[t])
    /\ available' = [available EXCEPT ![at[t]] = @ \cup {nextVm}]
    /\ total' = [total EXCEPT ![at[t]] = @ - 1]
    /\ nextVm' = nextVm + 1
    /\ owner' = [owner EXCEPT ![at[t]] = t]
    /\ vm' = [vm EXCEPT ![t] = NoVm]
    /\ Goto(t, "return1")
    /\ UNCHANGED <<built, counters, at, seen, calls, history>>

\* Drop for VmGuard, a clean VM: it goes back after full_reset.
DropClean(t) ==
    /\ pc[t] = "held"
    /\ Free(at[t])
    /\ available' = [available EXCEPT ![at[t]] = @ \cup {vm[t]}]
    /\ owner' = [owner EXCEPT ![at[t]] = t]
    /\ vm' = [vm EXCEPT ![t] = NoVm]
    /\ Goto(t, "return1")
    /\ UNCHANGED <<total, built, counters, at, seen, nextVm, calls, history>>

\* Drop for VmGuard, marked dirty or dropped by a panicking thread: the VM is
\* discarded and a new one takes its place.
DropDirty(t) ==
    /\ pc[t] = "held"
    /\ Free(at[t])
    /\ available' = [available EXCEPT ![at[t]] = @ \cup {nextVm}]
    /\ nextVm' = nextVm + 1
    /\ owner' = [owner EXCEPT ![at[t]] = t]
    /\ vm' = [vm EXCEPT ![t] = NoVm]
    /\ Goto(t, "return1")
    /\ UNCHANGED <<total, built, counters, at, seen, calls, history>>

CountReturn(t) ==
    /\ pc[t] = "return1"
    /\ counters' = [counters EXCEPT !.available = @ + 1]
    /\ Goto(t, "return2")
    /\ UNCHANGED <<poolVars, at, vm, seen, nextVm, calls, history>>

Waiters(p) == {u \in Threads : pc[u] = "waiting" /\ at[u] = p}

\* record_return, notify_one, and the mutex is released.
RecordReturn(t) ==
    /\ pc[t] = "return2"
    /\ counters' = [counters EXCEPT !.in_use = @ - 1]
    /\ owner' = [owner EXCEPT ![at[t]] = NoThread]
    /\ \/ Waiters(at[t]) = {} /\ Goto(t, "idle")
       \/ \E u \in Waiters(at[t]) : pc' = [pc EXCEPT ![t] = "idle", ![u] = "lock"]
    /\ UNCHANGED <<available, total, built, at, vm, seen, nextVm, calls, history>>

\* VmPool::collect_idle_gc holds the mutex while it collects every idle VM.
GcBegin(t, p) ==
    /\ pc[t] = "idle"
    /\ built[p] /\ Free(p)
    /\ calls < MaxCalls
    /\ calls' = calls + 1
    /\ owner' = [owner EXCEPT ![p] = t]
    /\ at' = [at EXCEPT ![t] = p]
    /\ Goto(t, "gc")
    /\ UNCHANGED <<available, total, built, counters, vm, seen, nextVm, history>>

GcEnd(t) ==
    /\ pc[t] = "gc"
    /\ owner' = [owner EXCEPT ![at[t]] = NoThread]
    /\ Goto(t, "idle")
    /\ UNCHANGED <<available, total, built, counters, at, vm, seen, nextVm, calls, history>>

Next ==
    \E t \in Threads :
        \/ \E p \in Pools : WithCounters(t, p) \/ SpawnCall(t, p) \/ GcBegin(t, p)
        \/ WarmAvailable(t) \/ WarmTotal(t)
        \/ SpawnPop(t) \/ SpawnGrow(t) \/ SpawnWait(t)
        \/ SpuriousWakeup(t) \/ WaitTimeout(t) \/ ForceGrow(t)
        \/ CountReuse(t) \/ CountGrow(t) \/ RecordBorrow(t) \/ RecordPeak(t)
        \/ DropClean(t) \/ DropDirty(t) \/ CountReturn(t) \/ RecordReturn(t) \/ GcEnd(t)

Spec == Init /\ [][Next]_vars

\* Inside spawn a thread runs or waits for the mutex, which nobody holds for
\* good; a wait that is not notified ends after five seconds.  Nothing is
\* assumed of the code a VM runs: a guard may be held for ever.
Fairness ==
    \A t \in Threads :
        /\ WF_vars(SpawnPop(t) \/ SpawnGrow(t) \/ SpawnWait(t) \/ ForceGrow(t))
        /\ WF_vars(CountReuse(t) \/ CountGrow(t) \/ RecordBorrow(t) \/ RecordPeak(t))
        /\ WF_vars(CountReturn(t) \/ RecordReturn(t) \/ GcEnd(t))
        /\ SF_vars(WaitTimeout(t))

FairSpec == Spec /\ Fairness

-----------------------------------------------------------------------------
\* Threads that account for one VM of pool p: they hold it, are about to hold
\* it, or have grown the pool for it.
Borrowers(p) ==
    {t \in Threads : at[t] = p /\ pc[t] \in {"reuse", "grow", "borrow", "peak", "held"}}

\* Every variable has its type; total_count, a usize, never goes below zero.
TypeOK ==
    /\ available \in [Pools -> SUBSET Nat]
    /\ total \in [Pools -> Nat]
    /\ owner \in [Pools -> Threads \cup {NoThread}]
    /\ built \in [Pools -> BOOLEAN]
    /\ counters \in [available : Int, total : Int, in_use : Int, peak : Int]
    /\ pc \in [Threads -> Points]
    /\ at \in [Threads -> Pools]
    /\ vm \in [Threads -> Nat]
    /\ seen \in [Threads -> Int]
    /\ nextVm \in Nat \ {0}
    /\ calls \in Nat
    /\ forced \in [Pools -> Nat]
    /\ highWater \in Int

\* A VM is in one place: two guards never share one, a borrowed one is not
\* idle in a pool, and no two pools hold the same (VmGuard's exclusive access).
VmExclusive ==
    /\ \A t, u \in Threads : t # u /\ vm[t] # NoVm => vm[t] # vm[u]
    /\ \A t \in Threads, p \in Pools : vm[t] \notin available[p]
    /\ \A p, q \in Pools : p # q => available[p] \cap available[q] = {}

\* collect_idle_gc runs alone on its pool: nothing is pushed to or popped from
\* the idle VMs it is collecting, whose number it will return.
GcUndisturbed ==
    [][\A t \in Threads : pc[t] = "gc" => available'[at[t]] = available[at[t]]]_vars

\* total_count counts every VM once: the idle ones and the borrowed ones.
Conservation ==
    \A p \in Pools : total[p] = Cardinality(available[p]) + Cardinality(Borrowers(p))

\* The limit is exceeded only by growths a timeout forced.
LimitOrForced == \A p \in Pools : total[p] <= MaxSize + forced[p]

\* The unsigned counters never wrap: nothing is subtracted before it was added.
NoUnderflow == counters.available >= 0 /\ counters.in_use >= 0

\* The idle VMs of the pools P, where A gives the idle ones of each pool.
IdleIn(A, P) == UNION {A[p] : p \in P}

\* One place for every VM that T says each of the pools P accounts for: as many
\* places as the sum of T over P.
PlacesIn(T, P) == UNION {{p} \X (1 .. T[p]) : p \in P}

\* With nobody inside an operation the lock-free counters agree with the pools,
\* in_use is total minus available, and the peak is the real high water mark.
QuietCounters ==
    (\A t \in Threads : pc[t] \in {"idle", "lock", "waiting", "timedout", "held", "gc"}) =>
        /\ counters.total = Cardinality(PlacesIn(total, Pools))
        /\ counters.available = Cardinality(IdleIn(available, Pools))
        /\ counters.in_use = counters.total - counters.available
        /\ counters.peak = highWater

\* spawn always returns, even if no guard is ever dropped.
SpawnReturns == \A t \in Threads : pc[t] = "lock" ~> pc[t] = "held"
=============================================================================
