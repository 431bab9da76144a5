---------------------------- MODULE VmPool_proof ----------------------------
(***************************************************************************)
(* Proofs about the VM pool: type correctness, that a VM is in one place,  *)
(* that only a timeout may take a pool over its limit, that a collection   *)
(* of the idle VMs is not disturbed, that total_count counts every VM, and *)
(* what the counters the pools share count at every moment.                *)
(***************************************************************************)
EXTENDS VmPool, FiniteSetTheorems, TLAPS

\* A step is for Zenon unless it cites SMT, which it does for arithmetic and records.
USE ZenonT(30)

\* Every VM in circulation was created, and only a thread that has borrowed
\* one and not yet returned it has one in its hands.
VmsCreated ==
    /\ \A p \in Pools : available[p] \subseteq 1 .. nextVm - 1
    /\ \A t \in Threads : vm[t] < nextVm
    /\ \A t \in Threads : pc[t] = "held" => vm[t] # NoVm

\* A thread between taking a pool's mutex and releasing it.
Inside(t) ==
    \/ pc[t] \in {"reuse", "return1", "return2", "gc"}
    \/ pc[t] \in {"borrow", "peak"} /\ vm[t] # NoVm

\* What is inside the mutex owns it, and a thread uses only pools that have
\* been constructed.
MutexOwned ==
    \A t \in Threads :
        /\ Inside(t) => owner[at[t]] = t
        /\ pc[t] \notin {"reuse", "borrow", "peak", "held"} => vm[t] = NoVm
        /\ pc[t] \notin {"idle", "warm1", "warm2"} => built[at[t]]

IInv == TypeOK /\ VmsCreated /\ VmExclusive /\ MutexOwned

USE DEF NoVm

\* with_counters gives its pool some number m of fresh VMs, within the limit.
LEMMA Warmed ==
    ASSUME NEW t \in Threads, NEW p \in Pools, WithCounters(t, p)
    PROVE  \E m \in Nat :
             /\ m <= MaxSize
             /\ available' = [available EXCEPT ![p] = nextVm .. nextVm + m - 1]
             /\ total' = [total EXCEPT ![p] = m]
             /\ nextVm' = nextVm + m
<1>1. Warm(p) \in Nat /\ Warm(p) <= MaxSize
    BY PoolAssumption, SMTT(60) DEF Warm
<1> QED BY <1>1 DEF WithCounters

\* TypeOK is preserved by every step of every thread.
LEMMA TypePreserved == TypeOK /\ [Next]_vars => TypeOK'
<1> SUFFICES ASSUME TypeOK, [Next]_vars PROVE TypeOK'
    OBVIOUS
<1> USE PoolAssumption DEF TypeOK, Points, Goto, poolVars, history
<1>1. CASE UNCHANGED vars
    BY <1>1 DEF vars
<1>2. ASSUME NEW t \in Threads, NEW p \in Pools, WithCounters(t, p) PROVE TypeOK'
  <2>1. PICK m \in Nat :
          /\ available' = [available EXCEPT ![p] = nextVm .. nextVm + m - 1]
          /\ total' = [total EXCEPT ![p] = m] /\ nextVm' = nextVm + m
    BY <1>2, Warmed
  <2>2. available' \in [Pools -> SUBSET Nat]
    <3>1. nextVm .. nextVm + m - 1 \in SUBSET Nat
        BY SMTT(60)
    <3> QED BY <2>1, <3>1
  <2>3. total' \in [Pools -> Nat] /\ nextVm' \in Nat \ {0}
    BY <2>1, SMTT(60)
  <2>4. at' \in [Threads -> Pools] /\ pc' \in [Threads -> Points]
    BY <1>2 DEF WithCounters
  <2>5. UNCHANGED <<owner, built, counters, vm, seen, calls, forced, highWater>>
    BY <1>2 DEF WithCounters
  <2> QED BY <2>2, <2>3, <2>4, <2>5
<1>3. ASSUME NEW t \in Threads, NEW p \in Pools, SpawnCall(t, p) PROVE TypeOK'
    BY <1>3, SMTT(30) DEF SpawnCall
<1>4. ASSUME NEW t \in Threads, NEW p \in Pools, GcBegin(t, p) PROVE TypeOK'
    BY <1>4, SMTT(30) DEF GcBegin
<1>5. ASSUME NEW t \in Threads, WarmAvailable(t) PROVE TypeOK'
  <2>1. PICK m \in Nat : m = Warm(at[t])
    BY DEF Warm
  <2> QED BY <1>5, <2>1, SMTT(30) DEF WarmAvailable
<1>6. ASSUME NEW t \in Threads, WarmTotal(t) PROVE TypeOK'
  <2>1. PICK m \in Nat : m = Warm(at[t])
    BY DEF Warm
  <2> QED BY <1>6, <2>1, SMTT(30) DEF WarmTotal
<1>7. ASSUME NEW t \in Threads, SpawnPop(t) PROVE TypeOK'
    BY <1>7, SMTT(30) DEF SpawnPop
<1>8. ASSUME NEW t \in Threads, SpawnGrow(t) PROVE TypeOK'
    BY <1>8, SMTT(30) DEF SpawnGrow
<1>9. ASSUME NEW t \in Threads, SpawnWait(t) PROVE TypeOK'
    BY <1>9, SMTT(30) DEF SpawnWait
<1>10. ASSUME NEW t \in Threads, SpuriousWakeup(t) PROVE TypeOK'
    BY <1>10, SMTT(30) DEF SpuriousWakeup
<1>11. ASSUME NEW t \in Threads, WaitTimeout(t) PROVE TypeOK'
    BY <1>11, SMTT(30) DEF WaitTimeout
<1>12. ASSUME NEW t \in Threads, ForceGrow(t) PROVE TypeOK'
    BY <1>12, SMTT(30) DEF ForceGrow
<1>13. ASSUME NEW t \in Threads, CountReuse(t) PROVE TypeOK'
    BY <1>13, SMTT(30) DEF CountReuse
<1>14. ASSUME NEW t \in Threads, CountGrow(t) PROVE TypeOK'
    BY <1>14, SMTT(30) DEF CountGrow
<1>15. ASSUME NEW t \in Threads, RecordBorrow(t) PROVE TypeOK'
    BY <1>15, SMTT(30) DEF RecordBorrow, Max2
<1>16. ASSUME NEW t \in Threads, RecordPeak(t) PROVE TypeOK'
    BY <1>16, SMTT(30) DEF RecordPeak, Max2, RaisePeak
<1>17. ASSUME NEW t \in Threads, DropClean(t) PROVE TypeOK'
    BY <1>17, SMTT(30) DEF DropClean
<1>18. ASSUME NEW t \in Threads, DropDirty(t) PROVE TypeOK'
    BY <1>18, SMTT(30) DEF DropDirty
<1>19. ASSUME NEW t \in Threads, CountReturn(t) PROVE TypeOK'
    BY <1>19, SMTT(30) DEF CountReturn
<1>20. ASSUME NEW t \in Threads, RecordReturn(t) PROVE TypeOK'
    BY <1>20, SMTT(30) DEF RecordReturn, Waiters
<1>21. ASSUME NEW t \in Threads, GcEnd(t) PROVE TypeOK'
    BY <1>21, SMTT(30) DEF GcEnd
<1> QED
    BY <1>1, <1>2, <1>3, <1>4, <1>5, <1>6, <1>7, <1>8, <1>9, <1>10, <1>11, <1>12, <1>13,
       <1>14, <1>15, <1>16, <1>17, <1>18, <1>19, <1>20, <1>21, ZenonT(60) DEF Next

\* A VM is created before it circulates.
LEMMA VmsCreatedPreserved == IInv /\ [Next]_vars => VmsCreated'
<1> SUFFICES ASSUME IInv, [Next]_vars PROVE VmsCreated'
    OBVIOUS
<1> USE PoolAssumption DEF IInv, TypeOK, VmsCreated, VmExclusive, MutexOwned, Goto, poolVars, history
<1>1. CASE UNCHANGED vars
    BY <1>1 DEF vars
<1>2. ASSUME NEW t \in Threads, NEW p \in Pools, WithCounters(t, p) PROVE VmsCreated'
  <2>1. PICK m \in Nat :
          /\ available' = [available EXCEPT ![p] = nextVm .. nextVm + m - 1]
          /\ nextVm' = nextVm + m
    BY <1>2, Warmed
  <2>2. UNCHANGED vm /\ \A u \in Threads : pc'[u] = "held" => pc[u] = "held"
    BY <1>2 DEF WithCounters
  <2>3. ASSUME NEW r \in Pools PROVE available'[r] \subseteq 1 .. nextVm' - 1
    <3>1. available[r] \subseteq 1 .. nextVm - 1 /\ nextVm \in Nat \ {0}
        OBVIOUS
    <3>2. available'[r] = available[r] \/ available'[r] = nextVm .. nextVm + m - 1
        BY <2>1
    <3>3. nextVm' = nextVm + m
        BY <2>1
    <3>4. CASE available'[r] = available[r]
        BY <3>1, <3>3, <3>4, SMTT(60)
    <3>5. CASE available'[r] = nextVm .. nextVm + m - 1
        BY <3>1, <3>3, <3>5, SMTT(60)
    <3> QED BY <3>2, <3>4, <3>5
  <2>4. ASSUME NEW u \in Threads PROVE vm'[u] < nextVm' /\ (pc'[u] = "held" => vm'[u] # NoVm)
    <3>1. vm[u] \in Nat /\ vm[u] < nextVm /\ (pc[u] = "held" => vm[u] # NoVm)
        OBVIOUS
    <3>2. vm'[u] = vm[u] /\ nextVm' = nextVm + m /\ nextVm \in Nat
        BY <2>1, <2>2
    <3> QED BY <2>2, <3>1, <3>2, SMTT(60)
  <2> QED BY <2>3, <2>4
<1>3. ASSUME NEW t \in Threads, NEW p \in Pools, SpawnCall(t, p) PROVE VmsCreated'
    BY <1>3, SMTT(30) DEF SpawnCall
<1>4. ASSUME NEW t \in Threads, NEW p \in Pools, GcBegin(t, p) PROVE VmsCreated'
    BY <1>4, SMTT(30) DEF GcBegin
<1>5. ASSUME NEW t \in Threads, WarmAvailable(t) PROVE VmsCreated'
    BY <1>5, SMTT(30) DEF WarmAvailable
<1>6. ASSUME NEW t \in Threads, WarmTotal(t) PROVE VmsCreated'
    BY <1>6, SMTT(30) DEF WarmTotal
<1>7. ASSUME NEW t \in Threads, SpawnPop(t) PROVE VmsCreated'
    BY <1>7, SMTT(30) DEF SpawnPop
<1>8. ASSUME NEW t \in Threads, SpawnGrow(t) PROVE VmsCreated'
    BY <1>8, SMTT(30) DEF SpawnGrow
<1>9. ASSUME NEW t \in Threads, SpawnWait(t) PROVE VmsCreated'
    BY <1>9, SMTT(30) DEF SpawnWait
<1>10. ASSUME NEW t \in Threads, SpuriousWakeup(t) PROVE VmsCreated'
    BY <1>10, SMTT(30) DEF SpuriousWakeup
<1>11. ASSUME NEW t \in Threads, WaitTimeout(t) PROVE VmsCreated'
    BY <1>11, SMTT(30) DEF WaitTimeout
<1>12. ASSUME NEW t \in Threads, ForceGrow(t) PROVE VmsCreated'
    BY <1>12, SMTT(30) DEF ForceGrow
<1>13. ASSUME NEW t \in Threads, CountReuse(t) PROVE VmsCreated'
    BY <1>13, SMTT(30) DEF CountReuse
<1>14. ASSUME NEW t \in Threads, CountGrow(t) PROVE VmsCreated'
    BY <1>14, SMTT(30) DEF CountGrow
<1>15. ASSUME NEW t \in Threads, RecordBorrow(t) PROVE VmsCreated'
    BY <1>15, SMTT(30) DEF RecordBorrow
<1>16. ASSUME NEW t \in Threads, RecordPeak(t) PROVE VmsCreated'
  <2>1. CASE vm[t] = NoVm
    <3>1. vm' = [vm EXCEPT ![t] = nextVm] /\ nextVm' = nextVm + 1 /\ available' = available
        BY <1>16, <2>1 DEF RecordPeak
    <3> QED BY <1>16, <3>1, SMTT(30) DEF RecordPeak
  <2>2. CASE vm[t] # NoVm
    <3>1. vm' = vm /\ nextVm' = nextVm /\ available' = available
        BY <1>16, <2>2 DEF RecordPeak
    <3> QED BY <1>16, <2>2, <3>1 DEF RecordPeak
  <2> QED BY <2>1, <2>2
<1>17. ASSUME NEW t \in Threads, DropClean(t) PROVE VmsCreated'
    BY <1>17, SMTT(30) DEF DropClean
<1>18. ASSUME NEW t \in Threads, DropDirty(t) PROVE VmsCreated'
    BY <1>18, SMTT(30) DEF DropDirty
<1>19. ASSUME NEW t \in Threads, CountReturn(t) PROVE VmsCreated'
    BY <1>19, SMTT(30) DEF CountReturn
<1>20. ASSUME NEW t \in Threads, RecordReturn(t) PROVE VmsCreated'
  <2>1. \A u \in Threads : pc'[u] = "held" => pc[u] = "held"
    BY <1>20, SMTT(60) DEF RecordReturn, Waiters
  <2> QED BY <1>20, <2>1 DEF RecordReturn
<1>21. ASSUME NEW t \in Threads, GcEnd(t) PROVE VmsCreated'
    BY <1>21, SMTT(30) DEF GcEnd
<1> QED
    BY <1>1, <1>2, <1>3, <1>4, <1>5, <1>6, <1>7, <1>8, <1>9, <1>10, <1>11, <1>12, <1>13,
       <1>14, <1>15, <1>16, <1>17, <1>18, <1>19, <1>20, <1>21, ZenonT(60) DEF Next

\* A VM stays in one place.
LEMMA ExclusivePreserved == IInv /\ [Next]_vars => VmExclusive'
<1> SUFFICES ASSUME IInv, [Next]_vars PROVE VmExclusive'
    OBVIOUS
<1> USE PoolAssumption DEF IInv, TypeOK, VmsCreated, VmExclusive, MutexOwned, Goto, poolVars, history
<1>1. CASE UNCHANGED vars
    BY <1>1 DEF vars
<1>2. ASSUME NEW t \in Threads, NEW p \in Pools, WithCounters(t, p) PROVE VmExclusive'
  <2>1. PICK m \in Nat :
          /\ available' = [available EXCEPT ![p] = nextVm .. nextVm + m - 1]
          /\ nextVm' = nextVm + m
    BY <1>2, Warmed
  <2>2. UNCHANGED vm
    BY <1>2 DEF WithCounters
  <2>3. \A r \in Pools : available[r] \subseteq 1 .. nextVm - 1
    OBVIOUS
  <2>4. /\ available'[p] = nextVm .. nextVm + m - 1
        /\ \A r \in Pools \ {p} : available'[r] = available[r]
    BY <2>1, SMTT(60)
  <2>5. ASSUME NEW u \in Threads, NEW r \in Pools PROVE vm[u] \notin available'[r]
    <3>1. vm[u] \in Nat /\ vm[u] < nextVm /\ vm[u] \notin available[r] /\ nextVm \in Nat
        OBVIOUS
    <3>2. CASE r = p
      <4>1. available'[r] = nextVm .. nextVm + m - 1
          BY <2>4, <3>2
      <4>2. vm[u] \notin nextVm .. nextVm + m - 1
          BY <3>1, SMTT(60)
      <4> QED BY <4>1, <4>2
    <3>3. CASE r # p
      <4>1. available'[r] = available[r]
          BY <2>4, <3>3
      <4> QED BY <3>1, <4>1
    <3> QED BY <3>2, <3>3
  <2>6. \A r, s \in Pools : r # s => available'[r] \cap available'[s] = {}
    <3>1. ASSUME NEW r \in Pools \ {p} PROVE available[r] \cap available'[p] = {}
      <4>1. available[r] \subseteq 1 .. nextVm - 1 /\ available'[p] = nextVm .. nextVm + m - 1
          BY <2>3, <2>4
      <4>2. nextVm \in Nat
          OBVIOUS
      <4>3. (1 .. nextVm - 1) \cap (nextVm .. nextVm + m - 1) = {}
          BY <4>2, SMTT(60)
      <4> QED BY <4>1, <4>3
    <3>2. \A r, s \in Pools \ {p} : r # s => available'[r] \cap available'[s] = {}
      <4>1. \A r, s \in Pools : r # s => available[r] \cap available[s] = {}
          OBVIOUS
      <4> HIDE DEF IInv
      <4> QED BY <2>4, <4>1
    <3>3. \A r \in Pools \ {p} : available'[r] \cap available'[p] = {}
        BY <2>4, <3>1
    <3> HIDE DEF IInv
    <3> QED BY <3>2, <3>3
  <2> QED BY <2>2, <2>5, <2>6
<1>3. ASSUME NEW t \in Threads, NEW p \in Pools, SpawnCall(t, p) PROVE VmExclusive'
    BY <1>3, SMTT(30) DEF SpawnCall
<1>4. ASSUME NEW t \in Threads, NEW p \in Pools, GcBegin(t, p) PROVE VmExclusive'
    BY <1>4, SMTT(30) DEF GcBegin
<1>5. ASSUME NEW t \in Threads, WarmAvailable(t) PROVE VmExclusive'
    BY <1>5, SMTT(30) DEF WarmAvailable
<1>6. ASSUME NEW t \in Threads, WarmTotal(t) PROVE VmExclusive'
    BY <1>6, SMTT(30) DEF WarmTotal
<1>7. ASSUME NEW t \in Threads, SpawnPop(t) PROVE VmExclusive'
    BY <1>7, SMTT(30) DEF SpawnPop
<1>8. ASSUME NEW t \in Threads, SpawnGrow(t) PROVE VmExclusive'
    BY <1>8, SMTT(30) DEF SpawnGrow
<1>9. ASSUME NEW t \in Threads, SpawnWait(t) PROVE VmExclusive'
    BY <1>9, SMTT(30) DEF SpawnWait
<1>10. ASSUME NEW t \in Threads, SpuriousWakeup(t) PROVE VmExclusive'
    BY <1>10, SMTT(30) DEF SpuriousWakeup
<1>11. ASSUME NEW t \in Threads, WaitTimeout(t) PROVE VmExclusive'
    BY <1>11, SMTT(30) DEF WaitTimeout
<1>12. ASSUME NEW t \in Threads, ForceGrow(t) PROVE VmExclusive'
    BY <1>12, SMTT(30) DEF ForceGrow
<1>13. ASSUME NEW t \in Threads, CountReuse(t) PROVE VmExclusive'
    BY <1>13, SMTT(30) DEF CountReuse
<1>14. ASSUME NEW t \in Threads, CountGrow(t) PROVE VmExclusive'
    BY <1>14, SMTT(30) DEF CountGrow
<1>15. ASSUME NEW t \in Threads, RecordBorrow(t) PROVE VmExclusive'
    BY <1>15, SMTT(30) DEF RecordBorrow
<1>16. ASSUME NEW t \in Threads, RecordPeak(t) PROVE VmExclusive'
  <2>1. CASE vm[t] = NoVm
    <3>1. vm' = [vm EXCEPT ![t] = nextVm] /\ nextVm' = nextVm + 1 /\ available' = available
        BY <1>16, <2>1 DEF RecordPeak
    <3> QED BY <1>16, <3>1, SMTT(30) DEF RecordPeak
  <2>2. CASE vm[t] # NoVm
    <3>1. vm' = vm /\ nextVm' = nextVm /\ available' = available
        BY <1>16, <2>2 DEF RecordPeak
    <3> QED BY <1>16, <2>2, <3>1 DEF RecordPeak
  <2> QED BY <2>1, <2>2
<1>17. ASSUME NEW t \in Threads, DropClean(t) PROVE VmExclusive'
    BY <1>17, SMTT(30) DEF DropClean
<1>18. ASSUME NEW t \in Threads, DropDirty(t) PROVE VmExclusive'
    BY <1>18, SMTT(30) DEF DropDirty
<1>19. ASSUME NEW t \in Threads, CountReturn(t) PROVE VmExclusive'
    BY <1>19, SMTT(30) DEF CountReturn
<1>20. ASSUME NEW t \in Threads, RecordReturn(t) PROVE VmExclusive'
    BY <1>20, SMTT(30) DEF RecordReturn, Waiters
<1>21. ASSUME NEW t \in Threads, GcEnd(t) PROVE VmExclusive'
    BY <1>21, SMTT(30) DEF GcEnd
<1> QED
    BY <1>1, <1>2, <1>3, <1>4, <1>5, <1>6, <1>7, <1>8, <1>9, <1>10, <1>11, <1>12, <1>13,
       <1>14, <1>15, <1>16, <1>17, <1>18, <1>19, <1>20, <1>21, ZenonT(60) DEF Next

\* The mutex is respected.
LEMMA MutexPreserved == IInv /\ [Next]_vars => MutexOwned'
<1> SUFFICES ASSUME IInv, [Next]_vars PROVE MutexOwned'
    OBVIOUS
<1> USE PoolAssumption DEF IInv, TypeOK, VmsCreated, VmExclusive, MutexOwned, Inside, Free, Goto, poolVars,
       history, Points
<1>1. CASE UNCHANGED vars
    BY <1>1 DEF vars
<1>2. ASSUME NEW t \in Threads, NEW p \in Pools, WithCounters(t, p) PROVE MutexOwned'
  <2>1. owner' = owner /\ built' = built /\ vm' = vm /\ pc[t] = "idle" /\ pc'[t] = "warm1"
    BY <1>2 DEF WithCounters
  <2>2. \A u \in Threads : u # t => pc'[u] = pc[u] /\ at'[u] = at[u]
    BY <1>2 DEF WithCounters
  <2>3. MutexOwned
    OBVIOUS
  <2> HIDE DEF IInv
  <2> SUFFICES ASSUME NEW u \in Threads
               PROVE  /\ Inside(u)' => owner[at'[u]] = u
                      /\ pc'[u] \notin {"reuse", "borrow", "peak", "held"} => vm[u] = NoVm
                      /\ pc'[u] \notin {"idle", "warm1", "warm2"} => built[at'[u]]
    BY <2>1
  <2>4. CASE u = t
    BY <2>1, <2>3, <2>4
  <2>5. CASE u # t
    BY <2>1, <2>2, <2>3, <2>5
  <2> QED BY <2>4, <2>5
<1>3. ASSUME NEW t \in Threads, NEW p \in Pools, SpawnCall(t, p) PROVE MutexOwned'
    BY <1>3, SMTT(30) DEF SpawnCall
<1>4. ASSUME NEW t \in Threads, NEW p \in Pools, GcBegin(t, p) PROVE MutexOwned'
    BY <1>4, SMTT(30) DEF GcBegin
<1>5. ASSUME NEW t \in Threads, WarmAvailable(t) PROVE MutexOwned'
    BY <1>5, SMTT(30) DEF WarmAvailable
<1>6. ASSUME NEW t \in Threads, WarmTotal(t) PROVE MutexOwned'
    BY <1>6, SMTT(30) DEF WarmTotal
<1>7. ASSUME NEW t \in Threads, SpawnPop(t) PROVE MutexOwned'
    BY <1>7, SMTT(30) DEF SpawnPop
<1>8. ASSUME NEW t \in Threads, SpawnGrow(t) PROVE MutexOwned'
    BY <1>8, SMTT(30) DEF SpawnGrow
<1>9. ASSUME NEW t \in Threads, SpawnWait(t) PROVE MutexOwned'
    BY <1>9, SMTT(30) DEF SpawnWait
<1>10. ASSUME NEW t \in Threads, SpuriousWakeup(t) PROVE MutexOwned'
    BY <1>10, SMTT(30) DEF SpuriousWakeup
<1>11. ASSUME NEW t \in Threads, WaitTimeout(t) PROVE MutexOwned'
    BY <1>11, SMTT(30) DEF WaitTimeout
<1>12. ASSUME NEW t \in Threads, ForceGrow(t) PROVE MutexOwned'
    BY <1>12, SMTT(30) DEF ForceGrow
<1>13. ASSUME NEW t \in Threads, CountReuse(t) PROVE MutexOwned'
    BY <1>13, SMTT(30) DEF CountReuse
<1>14. ASSUME NEW t \in Threads, CountGrow(t) PROVE MutexOwned'
    BY <1>14, SMTT(30) DEF CountGrow
<1>15. ASSUME NEW t \in Threads, RecordBorrow(t) PROVE MutexOwned'
    BY <1>15, SMTT(30) DEF RecordBorrow
<1>16. ASSUME NEW t \in Threads, RecordPeak(t) PROVE MutexOwned'
    BY <1>16, SMTT(30) DEF RecordPeak
<1>17. ASSUME NEW t \in Threads, DropClean(t) PROVE MutexOwned'
    BY <1>17, SMTT(30) DEF DropClean
<1>18. ASSUME NEW t \in Threads, DropDirty(t) PROVE MutexOwned'
    BY <1>18, SMTT(30) DEF DropDirty
<1>19. ASSUME NEW t \in Threads, CountReturn(t) PROVE MutexOwned'
    BY <1>19, SMTT(30) DEF CountReturn
<1>20. ASSUME NEW t \in Threads, RecordReturn(t) PROVE MutexOwned'
    BY <1>20, SMTT(30) DEF RecordReturn, Waiters
<1>21. ASSUME NEW t \in Threads, GcEnd(t) PROVE MutexOwned'
    BY <1>21, SMTT(30) DEF GcEnd
<1> QED
    BY <1>1, <1>2, <1>3, <1>4, <1>5, <1>6, <1>7, <1>8, <1>9, <1>10, <1>11, <1>12, <1>13,
       <1>14, <1>15, <1>16, <1>17, <1>18, <1>19, <1>20, <1>21, ZenonT(60) DEF Next

\* The inductive invariant holds initially and is preserved.
LEMMA Inductive == Spec => []IInv
<1>1. Init => IInv
  <2> SUFFICES ASSUME Init PROVE IInv
    OBVIOUS
  <2>1. (CHOOSE p \in Pools : TRUE) \in Pools
    BY PoolAssumption
  <2>2. TypeOK
    BY <2>1, PoolAssumption, SMTT(60) DEF Init, TypeOK, Points
  <2> QED BY <2>2, PoolAssumption, SMTT(60) DEF Init, IInv, VmsCreated, VmExclusive, MutexOwned, Inside
<1>2. IInv /\ [Next]_vars => IInv'
    BY TypePreserved, VmsCreatedPreserved, ExclusivePreserved, MutexPreserved DEF IInv
<1> QED BY <1>1, <1>2, PTL DEF Spec

\* Every reachable state is well typed: in particular no total_count becomes
\* negative.
THEOREM TypeCorrect == Spec => []TypeOK
BY Inductive, PTL DEF IInv

\* VmGuard's access is exclusive: whatever threads and pools there are, a VM
\* is never in two places.
THEOREM Exclusive == Spec => []VmExclusive
BY Inductive, PTL DEF IInv

\* Only a timeout takes a pool over its limit.
THEOREM LimitRespected == Spec => []LimitOrForced
<1>1. Init => LimitOrForced
    BY PoolAssumption, SMTT(60) DEF Init, LimitOrForced
<1>2. IInv /\ LimitOrForced /\ [Next]_vars => LimitOrForced'
  <2> SUFFICES ASSUME IInv, LimitOrForced, [Next]_vars PROVE LimitOrForced'
    OBVIOUS
  <2> USE PoolAssumption DEF IInv, TypeOK, LimitOrForced, poolVars, history
  <2>1. ASSUME NEW t \in Threads, NEW p \in Pools, WithCounters(t, p) PROVE LimitOrForced'
    <3>1. PICK m \in Nat : m <= MaxSize /\ total' = [total EXCEPT ![p] = m]
        BY <2>1, Warmed
    <3>2. forced' = forced
        BY <2>1 DEF WithCounters
    <3> QED BY <3>1, <3>2, SMTT(60)
  <2>2. ASSUME NEW t \in Threads, SpawnGrow(t) PROVE LimitOrForced'
    BY <2>2, SMTT(60) DEF SpawnGrow, CanGrow
  <2>3. ASSUME NEW t \in Threads, ForceGrow(t) PROVE LimitOrForced'
    BY <2>3, SMTT(60) DEF ForceGrow
  <2>4. CASE UNCHANGED <<total, forced>>
    BY <2>4
  <2> QED
    BY <2>1, <2>2, <2>3, <2>4, ZenonT(60) DEF Next, vars, SpawnCall, GcBegin, WarmAvailable, WarmTotal, SpawnPop,
       SpawnWait, SpuriousWakeup, WaitTimeout, CountReuse, CountGrow, RecordBorrow, RecordPeak, DropClean,
       DropDirty, CountReturn, RecordReturn, GcEnd
<1> QED BY <1>1, <1>2, Inductive, PTL DEF Spec

\* The collection of a pool's idle VMs is not disturbed: whoever changes
\* them takes the mutex, which the collecting thread owns.
THEOREM GcAlone == Spec => GcUndisturbed
<1>1. IInv /\ [Next]_vars =>
        [\A t \in Threads : pc[t] = "gc" => available'[at[t]] = available[at[t]]]_vars
  <2> SUFFICES ASSUME IInv, [Next]_vars, NEW g \in Threads, pc[g] = "gc"
               PROVE  available'[at[g]] = available[at[g]]
    OBVIOUS
  <2> USE PoolAssumption DEF IInv, TypeOK, MutexOwned, Inside, Free, poolVars, history
  <2>0. owner[at[g]] = g /\ built[at[g]] /\ at[g] \in Pools
    OBVIOUS
  <2>1. ASSUME NEW t \in Threads, NEW p \in Pools, WithCounters(t, p)
        PROVE  available'[at[g]] = available[at[g]]
    BY <2>0, <2>1 DEF WithCounters
  <2>2. ASSUME NEW t \in Threads, SpawnPop(t) PROVE available'[at[g]] = available[at[g]]
    BY <2>0, <2>2, SMTT(60) DEF SpawnPop
  <2>3. ASSUME NEW t \in Threads, DropClean(t) \/ DropDirty(t)
        PROVE  available'[at[g]] = available[at[g]]
    BY <2>0, <2>3, SMTT(60) DEF DropClean, DropDirty
  <2>4. CASE UNCHANGED available
    BY <2>4
  <2> QED
    BY <2>1, <2>2, <2>3, <2>4, ZenonT(60) DEF Next, vars, SpawnCall, GcBegin, WarmAvailable, WarmTotal, SpawnGrow,
       SpawnWait, SpuriousWakeup, WaitTimeout, ForceGrow, CountReuse, CountGrow, RecordBorrow, RecordPeak,
       CountReturn, RecordReturn, GcEnd
<1> QED BY <1>1, Inductive, PTL DEF Spec, GcUndisturbed

\* The idle VMs of a pool are finitely many, and total_count counts every VM.
CountedAt(q) ==
    /\ IsFiniteSet(available[q])
    /\ total[q] = Cardinality(available[q]) + Cardinality(Borrowers(q))

Counted == \A q \in Pools : CountedAt(q)

\* The threads at any point of a pool are finitely many.
LEMMA BorrowersFinite ==
    ASSUME NEW q \in Pools PROVE IsFiniteSet(Borrowers(q))
BY FS_Subset, PoolAssumption DEF Borrowers

\* Cardinality when one element is added or removed.
LEMMA CardAdd ==
    ASSUME NEW S, IsFiniteSet(S), NEW x, x \notin S, NEW T, T = S \cup {x}
    PROVE  IsFiniteSet(T) /\ Cardinality(T) = Cardinality(S) + 1
BY FS_AddElement

LEMMA CardRemove ==
    ASSUME NEW S, IsFiniteSet(S), NEW x \in S, NEW T, T = S \ {x}
    PROVE  IsFiniteSet(T) /\ Cardinality(T) = Cardinality(S) - 1
BY FS_RemoveElement

\* Each step moves a VM between the idle ones and the borrowers, or changes
\* total_count with them.
LEMMA CountedPreserved ==
    ASSUME IInv, [Next]_vars, NEW q \in Pools, CountedAt(q) PROVE CountedAt(q)'
<1> USE PoolAssumption, BorrowersFinite DEF IInv, TypeOK, Goto, poolVars, history
<1> DEFINE B == Borrowers(q)
<1>0. /\ IsFiniteSet(B) /\ Cardinality(B) \in Nat
      /\ IsFiniteSet(available[q]) /\ Cardinality(available[q]) \in Nat
    BY FS_CardinalityType DEF CountedAt
<1>1. ASSUME available'[q] = available[q], total'[q] = total[q], B' = B PROVE CountedAt(q)'
    BY <1>1 DEF CountedAt
<1>2. ASSUME NEW t \in Threads, NEW p \in Pools, WithCounters(t, p) PROVE CountedAt(q)'
  <2>1. B' = B
    BY <1>2 DEF WithCounters, Borrowers
  <2>2. CASE p # q
    BY <1>1, <1>2, <2>1, <2>2 DEF WithCounters
  <2>3. CASE p = q
    <3>1. B = {}
        BY <1>2, <2>3, ZenonT(60) DEF WithCounters, Borrowers, MutexOwned
    <3>2. PICK m \in Nat : available'[q] = nextVm .. nextVm + m - 1 /\ total'[q] = m
        BY <1>2, <2>3, Warmed, SMTT(60)
    <3>3. IsFiniteSet(available'[q]) /\ Cardinality(available'[q]) = m
      <4>1. nextVm \in Int /\ nextVm + m - 1 \in Int
          BY <3>2, SMTT(60)
      <4>2. /\ IsFiniteSet(nextVm .. nextVm + m - 1)
            /\ Cardinality(nextVm .. nextVm + m - 1) =
                 IF nextVm > nextVm + m - 1 THEN 0 ELSE (nextVm + m - 1) - nextVm + 1
          BY <4>1, FS_Interval
      <4>3. Cardinality(nextVm .. nextVm + m - 1) = m
          BY <3>2, <4>2, SMTT(60)
      <4> QED BY <3>2, <4>2, <4>3
    <3> QED BY <2>1, <3>1, <3>2, <3>3, FS_EmptySet, SMTT(60) DEF CountedAt
  <2> QED BY <2>2, <2>3
<1>3. ASSUME NEW t \in Threads, SpawnPop(t) PROVE CountedAt(q)'
  <2>1. CASE at[t] # q
    <3>1. B' = B
        BY <1>3, <2>1 DEF SpawnPop, Borrowers
    <3> QED BY <1>1, <1>3, <2>1, <3>1 DEF SpawnPop
  <2>2. CASE at[t] = q
    <3>1. t \notin B /\ B' = B \cup {t}
        BY <1>3, <2>2, SMTT(60) DEF SpawnPop, Borrowers
    <3>2. PICK v \in available[q] : available'[q] = available[q] \ {v}
        BY <1>3, <2>2 DEF SpawnPop
    <3>3. IsFiniteSet(available'[q]) /\ Cardinality(available'[q]) = Cardinality(available[q]) - 1
        BY <1>0, <3>2, CardRemove
    <3>4. Cardinality(B') = Cardinality(B) + 1
        BY <1>0, <3>1, CardAdd
    <3>5. total'[q] = total[q]
        BY <1>3 DEF SpawnPop
    <3> QED BY <1>0, <3>3, <3>4, <3>5, SMTT(60) DEF CountedAt
  <2> QED BY <2>1, <2>2
<1>4. ASSUME NEW t \in Threads, SpawnGrow(t) \/ ForceGrow(t) PROVE CountedAt(q)'
  <2>1. CASE at[t] # q
    <3>1. B' = B
        BY <1>4, <2>1 DEF SpawnGrow, ForceGrow, Borrowers
    <3> QED BY <1>1, <1>4, <2>1, <3>1 DEF SpawnGrow, ForceGrow
  <2>2. CASE at[t] = q
    <3>1. t \notin B /\ B' = B \cup {t}
        BY <1>4, <2>2, SMTT(60) DEF SpawnGrow, ForceGrow, Borrowers
    <3>2. Cardinality(B') = Cardinality(B) + 1
        BY <1>0, <3>1, CardAdd
    <3>3. total'[q] = total[q] + 1 /\ available'[q] = available[q]
        BY <1>4, <2>2 DEF SpawnGrow, ForceGrow
    <3> QED BY <1>0, <3>2, <3>3, SMTT(60) DEF CountedAt
  <2> QED BY <2>1, <2>2
<1>5. ASSUME NEW t \in Threads, DropClean(t) \/ DropDirty(t) PROVE CountedAt(q)'
  <2>1. CASE at[t] # q
    <3>1. B' = B
        BY <1>5, <2>1 DEF DropClean, DropDirty, Borrowers
    <3> QED BY <1>1, <1>5, <2>1, <3>1 DEF DropClean, DropDirty
  <2>2. CASE at[t] = q
    <3>1. t \in B /\ B' = B \ {t}
        BY <1>5, <2>2, SMTT(60) DEF DropClean, DropDirty, Borrowers
    <3>2. Cardinality(B') = Cardinality(B) - 1
        BY <1>0, <3>1, CardRemove
    <3>3. PICK v : v \notin available[q] /\ available'[q] = available[q] \cup {v}
      <4>1. vm[t] \notin available[q] /\ nextVm \notin available[q]
          BY SMTT(60) DEF VmExclusive, VmsCreated
      <4>2. available'[q] \in {available[q] \cup {vm[t]}, available[q] \cup {nextVm}}
          BY <1>5, <2>2 DEF DropClean, DropDirty
      <4> QED BY <4>1, <4>2
    <3>4. IsFiniteSet(available'[q]) /\ Cardinality(available'[q]) = Cardinality(available[q]) + 1
        BY <1>0, <3>3, CardAdd
    <3>5. total'[q] = total[q]
        BY <1>5 DEF DropClean, DropDirty
    <3> QED BY <1>0, <3>2, <3>4, <3>5, SMTT(60) DEF CountedAt
  <2> QED BY <2>1, <2>2
<1>6. CASE UNCHANGED vars
    BY <1>1, <1>6 DEF vars, Borrowers
<1>7. ASSUME NEW t \in Threads, NEW p \in Pools, SpawnCall(t, p) PROVE CountedAt(q)'
  <2>1. B' = B
    BY <1>7 DEF SpawnCall, Borrowers
  <2> QED BY <1>1, <1>7, <2>1 DEF SpawnCall
<1>8. ASSUME NEW t \in Threads, NEW p \in Pools, GcBegin(t, p) PROVE CountedAt(q)'
  <2>1. B' = B
    BY <1>8 DEF GcBegin, Borrowers
  <2> QED BY <1>1, <1>8, <2>1 DEF GcBegin
<1>9. ASSUME NEW t \in Threads, WarmAvailable(t) PROVE CountedAt(q)'
  <2>1. B' = B
    BY <1>9 DEF WarmAvailable, Borrowers
  <2> QED BY <1>1, <1>9, <2>1 DEF WarmAvailable
<1>10. ASSUME NEW t \in Threads, WarmTotal(t) PROVE CountedAt(q)'
  <2>1. B' = B
    BY <1>10 DEF WarmTotal, Borrowers
  <2> QED BY <1>1, <1>10, <2>1 DEF WarmTotal
<1>11. ASSUME NEW t \in Threads, SpawnWait(t) PROVE CountedAt(q)'
  <2>1. B' = B
    BY <1>11 DEF SpawnWait, Borrowers
  <2> QED BY <1>1, <1>11, <2>1 DEF SpawnWait
<1>12. ASSUME NEW t \in Threads, SpuriousWakeup(t) PROVE CountedAt(q)'
  <2>1. B' = B
    BY <1>12 DEF SpuriousWakeup, Borrowers
  <2> QED BY <1>1, <1>12, <2>1 DEF SpuriousWakeup
<1>13. ASSUME NEW t \in Threads, WaitTimeout(t) PROVE CountedAt(q)'
  <2>1. B' = B
    BY <1>13 DEF WaitTimeout, Borrowers
  <2> QED BY <1>1, <1>13, <2>1 DEF WaitTimeout
<1>14. ASSUME NEW t \in Threads, CountReuse(t) PROVE CountedAt(q)'
  <2>1. B' = B
    BY <1>14 DEF CountReuse, Borrowers
  <2> QED BY <1>1, <1>14, <2>1 DEF CountReuse
<1>15. ASSUME NEW t \in Threads, CountGrow(t) PROVE CountedAt(q)'
  <2>1. B' = B
    BY <1>15 DEF CountGrow, Borrowers
  <2> QED BY <1>1, <1>15, <2>1 DEF CountGrow
<1>16. ASSUME NEW t \in Threads, RecordBorrow(t) PROVE CountedAt(q)'
  <2>1. B' = B
    BY <1>16 DEF RecordBorrow, Borrowers
  <2> QED BY <1>1, <1>16, <2>1 DEF RecordBorrow
<1>17. ASSUME NEW t \in Threads, RecordPeak(t) PROVE CountedAt(q)'
  <2>1. B' = B
    BY <1>17 DEF RecordPeak, Borrowers
  <2> QED BY <1>1, <1>17, <2>1 DEF RecordPeak
<1>18. ASSUME NEW t \in Threads, CountReturn(t) PROVE CountedAt(q)'
  <2>1. B' = B
    BY <1>18 DEF CountReturn, Borrowers
  <2> QED BY <1>1, <1>18, <2>1 DEF CountReturn
<1>19. ASSUME NEW t \in Threads, RecordReturn(t) PROVE CountedAt(q)'
  <2>1. B' = B
    BY <1>19 DEF RecordReturn, Borrowers, Waiters
  <2> QED BY <1>1, <1>19, <2>1 DEF RecordReturn
<1>20. ASSUME NEW t \in Threads, GcEnd(t) PROVE CountedAt(q)'
  <2>1. B' = B
    BY <1>20 DEF GcEnd, Borrowers
  <2> QED BY <1>1, <1>20, <2>1 DEF GcEnd
<1> QED
    BY <1>2, <1>3, <1>4, <1>5, <1>6, <1>7, <1>8, <1>9, <1>10, <1>11, <1>12, <1>13, <1>14,
       <1>15, <1>16, <1>17, <1>18, <1>19, <1>20 DEF Next

\* Every pool is counted, always.
LEMMA CountedAlways == Spec => []Counted
<1>1. Init => Counted
  <2> SUFFICES ASSUME Init, NEW q \in Pools PROVE CountedAt(q)
    BY DEF Counted
  <2>1. Borrowers(q) = {} /\ available[q] = {} /\ total[q] = 0
    BY DEF Init, Borrowers
  <2> QED BY <2>1, FS_EmptySet, SMTT(60) DEF CountedAt
<1>2. IInv /\ Counted /\ [Next]_vars => Counted'
    BY CountedPreserved DEF Counted
<1> QED BY <1>1, <1>2, Inductive, PTL DEF Spec

\* No VM is lost or counted twice: total_count is always the number of idle
\* VMs plus the number of borrowers, through growth, timeouts and discarded
\* dirty VMs.
THEOREM Conserved == Spec => []Conservation
<1>1. Counted => Conservation
    BY DEF Counted, CountedAt, Conservation
<1> QED BY <1>1, CountedAlways, PTL

-----------------------------------------------------------------------------
(***************************************************************************)
(* The shared counters.  They are updated one by one, and by threads that  *)
(* own different mutexes, so what each of them counts is an equation with  *)
(* the threads between two updates.                                        *)
(***************************************************************************)
\* The threads at one of the program points S, and how many they are.
At(S) == {t \in Threads : pc[t] \in S}
Count(S) == Cardinality(At(S))

\* The pools whose warm-up the counters have seen: counters.available (1) and
\* counters.total (2).
Published1 == Pools \ {at[t] : t \in At({"warm1"})}
Published2 == Pools \ {at[t] : t \in At({"warm1", "warm2"})}

\* A pool nobody constructs or has constructed is empty; a pool is constructed
\* by one thread, which has warmed it up.
Construction ==
    /\ \A p \in Pools : ~built[p] /\ Unclaimed(p) => total[p] = 0 /\ available[p] = {}
    /\ \A t \in Threads : pc[t] \in {"warm1", "warm2"} =>
           ~built[at[t]] /\ total[at[t]] = Warm(at[t])
    /\ \A t, u \in Threads :
           pc[t] \in {"warm1", "warm2"} /\ pc[u] \in {"warm1", "warm2"} /\ at[t] = at[u] => t = u

\* The thread that has pushed a VM still owns the mutex: the VM is there.
Pushed == \A t \in Threads : pc[t] = "return1" => available[at[t]] # {}

\* What each counter is at every moment, threads between two updates included.
Books ==
    /\ counters.in_use = Count({"peak", "held", "return1", "return2"})
    /\ counters.available + Count({"return1"}) =
         Cardinality(IdleIn(available, Published1)) + Count({"reuse"})
    /\ counters.total =
         Cardinality(IdleIn(available, Published2)) + Count({"reuse", "borrow", "peak", "held"})
    /\ counters.total + Count({"grow"}) = Cardinality(PlacesIn(total, Published2))
    /\ IsFiniteSet(PlacesIn(total, Published2))

\* The high water mark is the peak, or some thread is about to raise it.
HighWater ==
    /\ counters.peak <= highWater
    /\ \A t \in Threads : pc[t] = "peak" => seen[t] <= highWater
    /\ counters.peak = highWater \/ \E t \in Threads : pc[t] = "peak" /\ seen[t] = highWater

\* Sets with the same elements are the same.
LEMMA SetEquality ==
    ASSUME NEW S, NEW T, \A x : x \in S <=> x \in T PROVE S = T
OBVIOUS

\* The size of the union of two sets that have no element in common.
LEMMA CardUnion ==
    ASSUME NEW S, IsFiniteSet(S), NEW T, IsFiniteSet(T), S \cap T = {}, NEW U, U = S \cup T
    PROVE  IsFiniteSet(U) /\ Cardinality(U) = Cardinality(S) + Cardinality(T)
<1>1. /\ IsFiniteSet(S \cup T)
      /\ Cardinality(S \cup T) = Cardinality(S) + Cardinality(T) - Cardinality(S \cap T)
    BY FS_Union
<1>2. Cardinality(S \cap T) = 0
    BY FS_EmptySet
<1>3. Cardinality(S) \in Nat /\ Cardinality(T) \in Nat
    BY FS_CardinalityType
<1> QED BY <1>1, <1>2, <1>3, SMTT(60)

\* A VM taken out of one of the pools, or put into one.
LEMMA IdleRemove ==
    ASSUME NEW A \in [Pools -> SUBSET Nat], NEW P \in SUBSET Pools, NEW B,
           \A q, r \in Pools : q # r => A[q] \cap A[r] = {},
           IsFiniteSet(IdleIn(A, P)),
           \E p \in P : \E v \in A[p] :
               B[p] = A[p] \ {v} /\ \A q \in Pools \ {p} : B[q] = A[q]
    PROVE  Cardinality(IdleIn(B, P)) = Cardinality(IdleIn(A, P)) - 1
<1>a. PICK p \in P : \E v \in A[p] :
          B[p] = A[p] \ {v} /\ \A q \in Pools \ {p} : B[q] = A[q]
    OBVIOUS
<1>0. PICK v \in A[p] : B[p] = A[p] \ {v} /\ \A q \in Pools \ {p} : B[q] = A[q]
    BY <1>a
<1>1. v \in IdleIn(A, P)
    BY DEF IdleIn
<1>2. B[p] = A[p] \ {v} /\ \A q \in Pools \ {p} : B[q] = A[q] /\ v \notin A[q]
    BY <1>0
<1>3. IdleIn(B, P) = IdleIn(A, P) \ {v}
  <2>1. ASSUME NEW w PROVE w \in IdleIn(B, P) <=> w \in IdleIn(A, P) \ {v}
    <3>1. w \in IdleIn(B, P) <=> \E q \in P : w \in B[q]
        BY SMTT(60) DEF IdleIn
    <3>2. w \in IdleIn(A, P) <=> \E q \in P : w \in A[q]
        BY SMTT(60) DEF IdleIn
    <3>3. \A q \in P : w \in B[q] <=> w \in A[q] /\ w # v
        BY <1>2
    <3> QED BY <3>1, <3>2, <3>3
  <2> QED BY <2>1, SetEquality
<1> QED BY <1>1, <1>3, CardRemove

LEMMA IdleAdd ==
    ASSUME NEW A \in [Pools -> SUBSET Nat], NEW P \in SUBSET Pools, NEW B,
           IsFiniteSet(IdleIn(A, P)),
           \E p \in P : \E v :
               /\ \A q \in Pools : v \notin A[q]
               /\ B[p] = A[p] \cup {v} /\ \A q \in Pools \ {p} : B[q] = A[q]
    PROVE  Cardinality(IdleIn(B, P)) = Cardinality(IdleIn(A, P)) + 1
<1>a. PICK p \in P : \E v :
          /\ \A q \in Pools : v \notin A[q]
          /\ B[p] = A[p] \cup {v} /\ \A q \in Pools \ {p} : B[q] = A[q]
    OBVIOUS
<1>0. PICK v :
          /\ \A q \in Pools : v \notin A[q]
          /\ B[p] = A[p] \cup {v} /\ \A q \in Pools \ {p} : B[q] = A[q]
    BY <1>a
<1>1. v \notin IdleIn(A, P)
    BY <1>0 DEF IdleIn
<1>2. B[p] = A[p] \cup {v} /\ \A q \in Pools \ {p} : B[q] = A[q]
    BY <1>0
<1>3. IdleIn(B, P) = IdleIn(A, P) \cup {v}
  <2>1. ASSUME NEW w PROVE w \in IdleIn(B, P) <=> w \in IdleIn(A, P) \cup {v}
    <3>1. w \in IdleIn(B, P) <=> \E q \in P : w \in B[q]
        BY DEF IdleIn
    <3>2. w \in IdleIn(A, P) <=> \E q \in P : w \in A[q]
        BY DEF IdleIn
    <3>3. \A q \in P \ {p} : w \in B[q] <=> w \in A[q]
        BY <1>2
    <3>4. w \in B[p] <=> w \in A[p] \/ w = v
        BY <1>2
    <3> QED BY <3>1, <3>2, <3>3, <3>4
  <2> QED BY <2>1, SetEquality
<1> QED BY <1>1, <1>3, CardAdd

\* The idle VMs of the pools P and of one more.
LEMMA IdleJoin ==
    ASSUME NEW A \in [Pools -> SUBSET Nat], NEW P \in SUBSET Pools, NEW p \in Pools \ P,
           \A q, r \in Pools : q # r => A[q] \cap A[r] = {},
           IsFiniteSet(IdleIn(A, P)), IsFiniteSet(A[p]), NEW Q, Q = P \cup {p}
    PROVE  Cardinality(IdleIn(A, Q)) = Cardinality(IdleIn(A, P)) + Cardinality(A[p])
<1>1. IdleIn(A, Q) = IdleIn(A, P) \cup A[p]
    BY DEF IdleIn
<1>2. IdleIn(A, P) \cap A[p] = {}
    BY DEF IdleIn
<1> QED BY <1>1, <1>2, CardUnion

\* Idle VMs and places depend on the pools concerned only.
LEMMA IdleSame ==
    ASSUME NEW A, NEW B, NEW P, \A p \in P : A[p] = B[p]
    PROVE  IdleIn(A, P) = IdleIn(B, P)
BY DEF IdleIn

LEMMA PlacesSame ==
    ASSUME NEW A, NEW B, NEW P, \A p \in P : A[p] = B[p]
    PROVE  PlacesIn(A, P) = PlacesIn(B, P)
BY DEF PlacesIn

\* A pool without a VM adds nothing.
LEMMA IdleEmpty ==
    ASSUME NEW A, NEW P, NEW p, A[p] = {}
    PROVE  IdleIn(A, P \ {p}) = IdleIn(A, P)
BY DEF IdleIn

LEMMA PlacesEmpty ==
    ASSUME NEW A, NEW P, NEW p, A[p] = 0
    PROVE  PlacesIn(A, P \ {p}) = PlacesIn(A, P)
<1>1. {p} \X (1 .. A[p]) = {}
    BY SMTT(60)
<1> QED BY <1>1 DEF PlacesIn

\* What a place is.
LEMMA PlaceIs ==
    ASSUME NEW A, NEW P, NEW x
    PROVE  x \in PlacesIn(A, P) <=> \E q \in P : x \in {q} \X (1 .. A[q])
BY DEF PlacesIn

\* One more VM of a pool, and the places of one more pool.
LEMMA PlaceAdd ==
    ASSUME NEW A \in [Pools -> Nat], NEW P \in SUBSET Pools, NEW p \in P,
           IsFiniteSet(PlacesIn(A, P)), NEW B, B = [A EXCEPT ![p] = @ + 1]
    PROVE  /\ IsFiniteSet(PlacesIn(B, P))
           /\ Cardinality(PlacesIn(B, P)) = Cardinality(PlacesIn(A, P)) + 1
<1> DEFINE x == <<p, A[p] + 1>>
<1>1. x \notin PlacesIn(A, P)
  <2>1. \A q \in P : x \notin {q} \X (1 .. A[q])
    BY SMTT(60)
  <2> QED BY <2>1, PlaceIs
<1>2. PlacesIn(B, P) = PlacesIn(A, P) \cup {x}
  <2>1. \A q \in P \ {p} : B[q] = A[q]
    OBVIOUS
  <2>2. ASSUME NEW y PROVE y \in {p} \X (1 .. B[p]) <=> y \in {p} \X (1 .. A[p]) \/ y = x
    <3>1. A[p] \in Nat /\ B[p] = A[p] + 1
        OBVIOUS
    <3>2. \A i : i \in 1 .. B[p] <=> i \in 1 .. A[p] \/ i = A[p] + 1
        BY <3>1, SMTT(60)
    <3>3. \A S : y \in {p} \X S <=> y = <<p, y[2]>> /\ y[2] \in S
        BY SMTT(60)
    <3>4. y \in {p} \X (1 .. B[p]) <=> y = <<p, y[2]>> /\ y[2] \in 1 .. B[p]
        BY <3>3
    <3>5. y \in {p} \X (1 .. A[p]) <=> y = <<p, y[2]>> /\ y[2] \in 1 .. A[p]
        BY <3>3
    <3>6. y = x <=> y = <<p, y[2]>> /\ y[2] = A[p] + 1
        BY SMTT(60)
    <3> QED BY <3>2, <3>4, <3>5, <3>6
  <2>3. ASSUME NEW y PROVE y \in PlacesIn(B, P) <=> y \in PlacesIn(A, P) \cup {x}
    <3> HIDE DEF x
    <3>1. y \in PlacesIn(B, P) <=> \E q \in P : y \in {q} \X (1 .. B[q])
        BY PlaceIs
    <3>2. y \in PlacesIn(A, P) <=> \E q \in P : y \in {q} \X (1 .. A[q])
        BY PlaceIs
    <3>3. \A q \in P \ {p} : y \in {q} \X (1 .. B[q]) <=> y \in {q} \X (1 .. A[q])
        BY <2>1
    <3> QED BY <2>2, <3>1, <3>2, <3>3
  <2> HIDE DEF x
  <2> QED BY <2>3, SetEquality
<1> HIDE DEF x
<1> QED BY <1>1, <1>2, CardAdd

LEMMA PlacesJoin ==
    ASSUME NEW A \in [Pools -> Nat], NEW P \in SUBSET Pools, NEW p \in Pools \ P,
           IsFiniteSet(PlacesIn(A, P)), NEW Q, Q = P \cup {p}
    PROVE  /\ IsFiniteSet(PlacesIn(A, Q))
           /\ Cardinality(PlacesIn(A, Q)) = Cardinality(PlacesIn(A, P)) + A[p]
<1> DEFINE S == {p} \X (1 .. A[p])
<1>1. PlacesIn(A, Q) = PlacesIn(A, P) \cup S
    BY DEF PlacesIn
<1>2. PlacesIn(A, P) \cap S = {}
  <2>1. \A x : \A q \in P : ~(x \in S /\ x \in {q} \X (1 .. A[q]))
    OBVIOUS
  <2> HIDE DEF S
  <2> QED BY <2>1, PlaceIs
<1>3. A[p] \in Nat
    OBVIOUS
<1>4. IsFiniteSet(1 .. A[p]) /\ Cardinality(1 .. A[p]) = A[p]
    BY <1>3, FS_Interval, SMTT(60)
<1>5. IsFiniteSet({p}) /\ Cardinality({p}) = 1
    BY FS_Singleton
<1>6. IsFiniteSet(S) /\ Cardinality(S) = 1 * A[p]
    BY <1>4, <1>5, FS_Product, ZenonT(60)
<1> HIDE DEF S
<1>7. /\ IsFiniteSet(PlacesIn(A, Q))
      /\ Cardinality(PlacesIn(A, Q)) = Cardinality(PlacesIn(A, P)) + Cardinality(S)
    BY <1>1, <1>2, <1>6, CardUnion
<1> QED BY <1>3, <1>6, <1>7, SMTT(60)

\* Thread t goes from point a to point b; it may wake up a waiting thread.
Moves(t, a, b) ==
    /\ pc[t] = a /\ pc'[t] = b
    /\ \A u \in Threads \ {t} : pc'[u] = pc[u] \/ (pc[u] = "waiting" /\ pc'[u] = "lock")

\* How such a step changes the number of threads at the points S.
LEMMA Tally ==
    ASSUME NEW t \in Threads, NEW a, NEW b, Moves(t, a, b),
           NEW S, "waiting" \notin S, "lock" \notin S
    PROVE  /\ Count(S) \in Nat
           /\ a \in S /\ b \in S => Count(S)' = Count(S)
           /\ a \notin S /\ b \notin S => Count(S)' = Count(S)
           /\ a \notin S /\ b \in S => Count(S)' = Count(S) + 1
           /\ a \in S /\ b \notin S => Count(S)' = Count(S) - 1
<1>1. IsFiniteSet(At(S))
    BY FS_Subset, PoolAssumption DEF At
<1>2. Count(S) \in Nat
    BY <1>1, FS_CardinalityType DEF Count
<1>3. \A u \in Threads \ {t} : pc'[u] \in S <=> pc[u] \in S
    BY DEF Moves
<1>4. pc[t] = a /\ pc'[t] = b
    BY DEF Moves
<1>5. CASE (a \in S /\ b \in S) \/ (a \notin S /\ b \notin S)
  <2>1. At(S)' = At(S)
    BY <1>3, <1>4, <1>5 DEF At
  <2>2. Count(S)' = Count(S)
    BY <2>1 DEF Count
  <2> QED BY <1>2, <1>5, <2>2
<1>6. CASE a \notin S /\ b \in S
  <2>1. t \notin At(S) /\ At(S)' = At(S) \cup {t}
    BY <1>3, <1>4, <1>6 DEF At
  <2>2. Cardinality(At(S)') = Cardinality(At(S)) + 1
    BY <1>1, <2>1, CardAdd
  <2>3. Count(S)' = Count(S) + 1
    BY <2>2 DEF Count
  <2> QED BY <1>2, <1>6, <2>3
<1>7. CASE a \in S /\ b \notin S
  <2>1. t \in At(S) /\ At(S)' = At(S) \ {t}
    BY <1>3, <1>4, <1>7 DEF At
  <2>2. Cardinality(At(S)') = Cardinality(At(S)) - 1
    BY <1>1, <2>1, CardRemove
  <2>3. Count(S)' = Count(S) - 1
    BY <2>2 DEF Count
  <2> QED BY <1>2, <1>7, <2>3
<1> QED BY <1>5, <1>6, <1>7

\* The idle VMs of any pools are finitely many.
LEMMA IdleFinite ==
    ASSUME IInv, NEW P \in SUBSET Pools
    PROVE  /\ IsFiniteSet(IdleIn(available, P))
           /\ Cardinality(IdleIn(available, P)) \in Nat
<1>1. IdleIn(available, P) \in SUBSET (1 .. nextVm - 1)
    BY DEF IInv, VmsCreated, IdleIn
<1>2. nextVm - 1 \in Int
    BY SMTT(60) DEF IInv, TypeOK
<1>3. IsFiniteSet(1 .. nextVm - 1)
    BY <1>2, FS_Interval, SMTT(60)
<1>4. IsFiniteSet(IdleIn(available, P))
    BY <1>1, <1>3, FS_Subset
<1> QED BY <1>4, FS_CardinalityType

\* A pool a thread uses is published.
LEMMA UsedIsPublished ==
    ASSUME IInv, Construction, NEW t \in Threads, pc[t] \notin {"idle", "warm1", "warm2"}
    PROVE  at[t] \in Published1 /\ at[t] \in Published2
BY SMTT(60) DEF IInv, TypeOK, MutexOwned, Construction, Published1, Published2, At

\* The published pools change with the threads that construct one only.
LEMMA PublishedSame ==
    ASSUME \A u \in Threads : \A l \in {"warm1", "warm2"} :
               /\ pc'[u] = l <=> pc[u] = l
               /\ pc[u] = l => at'[u] = at[u]
    PROVE  UNCHANGED <<Published1, Published2>>
<1>1. At({"warm1"})' = At({"warm1"}) /\ At({"warm1", "warm2"})' = At({"warm1", "warm2"})
    BY DEF At
<1>2. \A u \in At({"warm1", "warm2"}) : at'[u] = at[u]
    BY DEF At
<1>3. At({"warm1"}) \subseteq At({"warm1", "warm2"})
    BY DEF At
<1>4. Published1' = Published1
    BY <1>1, <1>2, <1>3 DEF Published1
<1>5. Published2' = Published2
    BY <1>1, <1>2 DEF Published2
<1> QED BY <1>4, <1>5

\* The VMs in the published pools, when no pool changes and none is published.
LEMMA SameStock ==
    ASSUME available' = available, total' = total,
           \A u \in Threads : \A l \in {"warm1", "warm2"} :
               /\ pc'[u] = l <=> pc[u] = l
               /\ pc[u] = l => at'[u] = at[u]
    PROVE  UNCHANGED <<IdleIn(available, Published1), IdleIn(available, Published2),
                       PlacesIn(total, Published2)>>
BY PublishedSame

\* How many more threads are at the points S after one went from a to b.
Delta(S, a, b) == (IF b \in S THEN 1 ELSE 0) - (IF a \in S THEN 1 ELSE 0)

\* A step changes the numbers of threads the books mention accordingly.
LEMMA Tallies ==
    ASSUME NEW t \in Threads, NEW a, NEW b, Moves(t, a, b)
    PROVE  /\ Count({"peak", "held", "return1", "return2"})' =
                Count({"peak", "held", "return1", "return2"}) + Delta({"peak", "held", "return1", "return2"}, a, b)
           /\ Count({"return1"})' = Count({"return1"}) + Delta({"return1"}, a, b)
           /\ Count({"reuse"})' = Count({"reuse"}) + Delta({"reuse"}, a, b)
           /\ Count({"reuse", "borrow", "peak", "held"})' =
                Count({"reuse", "borrow", "peak", "held"}) + Delta({"reuse", "borrow", "peak", "held"}, a, b)
           /\ Count({"grow"})' = Count({"grow"}) + Delta({"grow"}, a, b)
<1>1. ASSUME NEW S, "waiting" \notin S, "lock" \notin S
      PROVE  Count(S)' = Count(S) + Delta(S, a, b)
  <2>1. Count(S) \in Nat
    BY <1>1, Tally
  <2>2. CASE a \in S /\ b \in S
    <3>1. Count(S)' = Count(S)
        BY <1>1, <2>2, Tally
    <3> QED BY <2>1, <2>2, <3>1, SMTT(60) DEF Delta
  <2>3. CASE a \notin S /\ b \notin S
    <3>1. Count(S)' = Count(S)
        BY <1>1, <2>3, Tally
    <3> QED BY <2>1, <2>3, <3>1, SMTT(60) DEF Delta
  <2>4. CASE a \notin S /\ b \in S
    <3>1. Count(S)' = Count(S) + 1
        BY <1>1, <2>4, Tally
    <3> QED BY <2>1, <2>4, <3>1, SMTT(60) DEF Delta
  <2>5. CASE a \in S /\ b \notin S
    <3>1. Count(S)' = Count(S) - 1
        BY <1>1, <2>5, Tally, SMTT(60)
    <3> QED BY <2>1, <2>5, <3>1, SMTT(60) DEF Delta
  <2> QED BY <2>2, <2>3, <2>4, <2>5
<1>2. ASSUME NEW S \in {{"peak", "held", "return1", "return2"}, {"return1"}, {"reuse"},
                        {"reuse", "borrow", "peak", "held"}, {"grow"}}
      PROVE  "waiting" \notin S /\ "lock" \notin S
    BY <1>2
<1> QED BY <1>1, <1>2

\* The points of a thread that no counter tells apart.
Unseen == {"idle", "lock", "waiting", "timedout", "gc"}

\* Threads are finitely many.
LEMMA CountType == ASSUME NEW S PROVE Count(S) \in Nat
<1>1. IsFiniteSet(At(S))
    BY FS_Subset, PoolAssumption DEF At
<1> QED BY <1>1, FS_CardinalityType DEF Count

\* Every step keeps the books: the counter it updates, the threads that move
\* and the VMs and pools they move between change together.
LEMMA BooksPreserved ==
    ASSUME IInv, Construction, Books, Counted, [Next]_vars PROVE Books'
<1> USE PoolAssumption DEF IInv, TypeOK, Goto, poolVars, history
<1>0. /\ \A S : Count(S) \in Nat
      /\ Cardinality(IdleIn(available, Published1)) \in Nat
      /\ Cardinality(IdleIn(available, Published2)) \in Nat
      /\ Cardinality(PlacesIn(total, Published2)) \in Nat
  <2>1. Published1 \in SUBSET Pools /\ Published2 \in SUBSET Pools
    BY DEF Published1, Published2
  <2>2. IsFiniteSet(PlacesIn(total, Published2))
    BY DEF Books
  <2>3. Cardinality(PlacesIn(total, Published2)) \in Nat
    BY <2>2, FS_CardinalityType
  <2>4. \A S : Count(S) \in Nat
    BY CountType
  <2> QED BY <2>1, <2>3, <2>4, IdleFinite
<1>1. ASSUME NEW t \in Threads, CountReuse(t) PROVE Books'
  <2>1. Moves(t, "reuse", "borrow")
    BY <1>1 DEF CountReuse, Moves
  <2>2. /\ Count({"peak", "held", "return1", "return2"})' = Count({"peak", "held", "return1", "return2"})
        /\ Count({"return1"})' = Count({"return1"})
        /\ Count({"reuse"})' = Count({"reuse"}) - 1
        /\ Count({"reuse", "borrow", "peak", "held"})' = Count({"reuse", "borrow", "peak", "held"})
        /\ Count({"grow"})' = Count({"grow"})
    BY <1>0, <2>1, Tallies, SMTT(60) DEF Delta
  <2>3. \A u \in Threads : \A l \in {"warm1", "warm2"} :
          /\ pc'[u] = l <=> pc[u] = l
          /\ pc[u] = l => at'[u] = at[u]
    BY <1>1, <2>1 DEF CountReuse, Moves
  <2>4. available' = available /\ total' = total
    BY <1>1 DEF CountReuse
  <2>5. UNCHANGED <<IdleIn(available, Published1), IdleIn(available, Published2),
                     PlacesIn(total, Published2)>>
    BY <2>3, <2>4, SameStock
  <2> QED BY <1>0, <1>1, <2>2, <2>5, SMTT(60) DEF CountReuse, Books
<1>2. ASSUME NEW t \in Threads, CountGrow(t) PROVE Books'
  <2>1. Moves(t, "grow", "borrow")
    BY <1>2 DEF CountGrow, Moves
  <2>2. /\ Count({"peak", "held", "return1", "return2"})' = Count({"peak", "held", "return1", "return2"})
        /\ Count({"return1"})' = Count({"return1"})
        /\ Count({"reuse"})' = Count({"reuse"})
        /\ Count({"reuse", "borrow", "peak", "held"})' = Count({"reuse", "borrow", "peak", "held"}) + 1
        /\ Count({"grow"})' = Count({"grow"}) - 1
    BY <1>0, <2>1, Tallies, SMTT(60) DEF Delta
  <2>3. \A u \in Threads : \A l \in {"warm1", "warm2"} :
          /\ pc'[u] = l <=> pc[u] = l
          /\ pc[u] = l => at'[u] = at[u]
    BY <1>2, <2>1 DEF CountGrow, Moves
  <2>4. available' = available /\ total' = total
    BY <1>2 DEF CountGrow
  <2>5. UNCHANGED <<IdleIn(available, Published1), IdleIn(available, Published2),
                     PlacesIn(total, Published2)>>
    BY <2>3, <2>4, SameStock
  <2> QED BY <1>0, <1>2, <2>2, <2>5, SMTT(60) DEF CountGrow, Books
<1>3. ASSUME NEW t \in Threads, RecordBorrow(t) PROVE Books'
  <2>1. Moves(t, "borrow", "peak")
    BY <1>3 DEF RecordBorrow, Moves
  <2>2. /\ Count({"peak", "held", "return1", "return2"})' = Count({"peak", "held", "return1", "return2"}) + 1
        /\ Count({"return1"})' = Count({"return1"})
        /\ Count({"reuse"})' = Count({"reuse"})
        /\ Count({"reuse", "borrow", "peak", "held"})' = Count({"reuse", "borrow", "peak", "held"})
        /\ Count({"grow"})' = Count({"grow"})
    BY <1>0, <2>1, Tallies, SMTT(60) DEF Delta
  <2>3. \A u \in Threads : \A l \in {"warm1", "warm2"} :
          /\ pc'[u] = l <=> pc[u] = l
          /\ pc[u] = l => at'[u] = at[u]
    BY <1>3, <2>1 DEF RecordBorrow, Moves
  <2>4. available' = available /\ total' = total
    BY <1>3 DEF RecordBorrow
  <2>5. UNCHANGED <<IdleIn(available, Published1), IdleIn(available, Published2),
                     PlacesIn(total, Published2)>>
    BY <2>3, <2>4, SameStock
  <2> QED BY <1>0, <1>3, <2>2, <2>5 DEF RecordBorrow, Books
<1>4. ASSUME NEW t \in Threads, RecordPeak(t) PROVE Books'
  <2>1. Moves(t, "peak", "held")
    BY <1>4 DEF RecordPeak, Moves
  <2>2. /\ Count({"peak", "held", "return1", "return2"})' = Count({"peak", "held", "return1", "return2"})
        /\ Count({"return1"})' = Count({"return1"})
        /\ Count({"reuse"})' = Count({"reuse"})
        /\ Count({"reuse", "borrow", "peak", "held"})' = Count({"reuse", "borrow", "peak", "held"})
        /\ Count({"grow"})' = Count({"grow"})
    BY <1>0, <2>1, Tallies, SMTT(60) DEF Delta
  <2>3. \A u \in Threads : \A l \in {"warm1", "warm2"} :
          /\ pc'[u] = l <=> pc[u] = l
          /\ pc[u] = l => at'[u] = at[u]
    BY <1>4, <2>1 DEF RecordPeak, Moves
  <2>4. available' = available /\ total' = total
    BY <1>4 DEF RecordPeak
  <2>5. UNCHANGED <<IdleIn(available, Published1), IdleIn(available, Published2),
                     PlacesIn(total, Published2)>>
    BY <2>3, <2>4, SameStock
  <2> QED BY <1>0, <1>4, <2>2, <2>5 DEF RecordPeak, Books
<1>5. ASSUME NEW t \in Threads, CountReturn(t) PROVE Books'
  <2>1. Moves(t, "return1", "return2")
    BY <1>5 DEF CountReturn, Moves
  <2>2. /\ Count({"peak", "held", "return1", "return2"})' = Count({"peak", "held", "return1", "return2"})
        /\ Count({"return1"})' = Count({"return1"}) - 1
        /\ Count({"reuse"})' = Count({"reuse"})
        /\ Count({"reuse", "borrow", "peak", "held"})' = Count({"reuse", "borrow", "peak", "held"})
        /\ Count({"grow"})' = Count({"grow"})
    BY <1>0, <2>1, Tallies, SMTT(60) DEF Delta
  <2>3. \A u \in Threads : \A l \in {"warm1", "warm2"} :
          /\ pc'[u] = l <=> pc[u] = l
          /\ pc[u] = l => at'[u] = at[u]
    BY <1>5, <2>1 DEF CountReturn, Moves
  <2>4. available' = available /\ total' = total
    BY <1>5 DEF CountReturn
  <2>5. UNCHANGED <<IdleIn(available, Published1), IdleIn(available, Published2),
                     PlacesIn(total, Published2)>>
    BY <2>3, <2>4, SameStock
  <2> QED BY <1>0, <1>5, <2>2, <2>5, SMTT(60) DEF CountReturn, Books
<1>6. ASSUME NEW t \in Threads, RecordReturn(t) PROVE Books'
  <2>1. Moves(t, "return2", "idle")
    BY <1>6 DEF RecordReturn, Moves, Waiters
  <2>2. /\ Count({"peak", "held", "return1", "return2"})' = Count({"peak", "held", "return1", "return2"}) - 1
        /\ Count({"return1"})' = Count({"return1"})
        /\ Count({"reuse"})' = Count({"reuse"})
        /\ Count({"reuse", "borrow", "peak", "held"})' = Count({"reuse", "borrow", "peak", "held"})
        /\ Count({"grow"})' = Count({"grow"})
    BY <1>0, <2>1, Tallies, SMTT(60) DEF Delta
  <2>3. \A u \in Threads : \A l \in {"warm1", "warm2"} :
          /\ pc'[u] = l <=> pc[u] = l
          /\ pc[u] = l => at'[u] = at[u]
    BY <1>6, <2>1 DEF RecordReturn, Moves
  <2>4. available' = available /\ total' = total
    BY <1>6 DEF RecordReturn
  <2>5. UNCHANGED <<IdleIn(available, Published1), IdleIn(available, Published2),
                     PlacesIn(total, Published2)>>
    BY <2>3, <2>4, SameStock
  <2> QED BY <1>0, <1>6, <2>2, <2>5 DEF RecordReturn, Books
<1>7. ASSUME NEW t \in Threads, NEW a \in Unseen, NEW b \in Unseen, Moves(t, a, b),
             UNCHANGED <<available, total, counters>>,
             \A u \in Threads : \A l \in {"warm1", "warm2"} :
                 /\ pc'[u] = l <=> pc[u] = l
                 /\ pc[u] = l => at'[u] = at[u]
      PROVE  Books'
  <2>1. /\ Count({"peak", "held", "return1", "return2"})' = Count({"peak", "held", "return1", "return2"})
        /\ Count({"return1"})' = Count({"return1"})
        /\ Count({"reuse"})' = Count({"reuse"})
        /\ Count({"reuse", "borrow", "peak", "held"})' = Count({"reuse", "borrow", "peak", "held"})
        /\ Count({"grow"})' = Count({"grow"})
    BY <1>0, <1>7, Tallies, SMTT(60) DEF Delta, Unseen
  <2>2. UNCHANGED <<IdleIn(available, Published1), IdleIn(available, Published2),
                     PlacesIn(total, Published2)>>
    BY <1>7, SameStock
  <2> QED BY <1>0, <1>7, <2>1, <2>2 DEF Books
<1>8. ASSUME NEW t \in Threads, NEW p \in Pools, SpawnCall(t, p) PROVE Books'
  <2>1. Moves(t, "idle", "lock")
    BY <1>8 DEF SpawnCall, Moves
  <2>2. \A u \in Threads : \A l \in {"warm1", "warm2"} :
          /\ pc'[u] = l <=> pc[u] = l
          /\ pc[u] = l => at'[u] = at[u]
    BY <1>8, <2>1 DEF SpawnCall, Moves
  <2> QED BY <1>8, <1>7, <2>1, <2>2 DEF SpawnCall, Unseen
<1>9. ASSUME NEW t \in Threads, NEW p \in Pools, GcBegin(t, p) PROVE Books'
  <2>1. Moves(t, "idle", "gc")
    BY <1>9 DEF GcBegin, Moves
  <2>2. \A u \in Threads : \A l \in {"warm1", "warm2"} :
          /\ pc'[u] = l <=> pc[u] = l
          /\ pc[u] = l => at'[u] = at[u]
    BY <1>9, <2>1 DEF GcBegin, Moves
  <2> QED BY <1>9, <1>7, <2>1, <2>2 DEF GcBegin, Unseen
<1>10. ASSUME NEW t \in Threads, SpawnWait(t) PROVE Books'
  <2>1. Moves(t, "lock", "waiting")
    BY <1>10 DEF SpawnWait, Moves
  <2>2. \A u \in Threads : \A l \in {"warm1", "warm2"} :
          /\ pc'[u] = l <=> pc[u] = l
          /\ pc[u] = l => at'[u] = at[u]
    BY <1>10, <2>1 DEF SpawnWait, Moves
  <2> QED BY <1>10, <1>7, <2>1, <2>2 DEF SpawnWait, Unseen
<1>11. ASSUME NEW t \in Threads, SpuriousWakeup(t) PROVE Books'
  <2>1. Moves(t, "waiting", "lock")
    BY <1>11 DEF SpuriousWakeup, Moves
  <2>2. \A u \in Threads : \A l \in {"warm1", "warm2"} :
          /\ pc'[u] = l <=> pc[u] = l
          /\ pc[u] = l => at'[u] = at[u]
    BY <1>11, <2>1 DEF SpuriousWakeup, Moves
  <2> QED BY <1>11, <1>7, <2>1, <2>2 DEF SpuriousWakeup, Unseen
<1>12. ASSUME NEW t \in Threads, WaitTimeout(t) PROVE Books'
  <2>1. Moves(t, "waiting", "timedout")
    BY <1>12 DEF WaitTimeout, Moves
  <2>2. \A u \in Threads : \A l \in {"warm1", "warm2"} :
          /\ pc'[u] = l <=> pc[u] = l
          /\ pc[u] = l => at'[u] = at[u]
    BY <1>12, <2>1 DEF WaitTimeout, Moves
  <2> QED BY <1>12, <1>7, <2>1, <2>2 DEF WaitTimeout, Unseen
<1>13. ASSUME NEW t \in Threads, GcEnd(t) PROVE Books'
  <2>1. Moves(t, "gc", "idle")
    BY <1>13 DEF GcEnd, Moves
  <2>2. \A u \in Threads : \A l \in {"warm1", "warm2"} :
          /\ pc'[u] = l <=> pc[u] = l
          /\ pc[u] = l => at'[u] = at[u]
    BY <1>13, <2>1 DEF GcEnd, Moves
  <2> QED BY <1>13, <1>7, <2>1, <2>2 DEF GcEnd, Unseen
<1>14. ASSUME NEW t \in Threads, SpawnPop(t) PROVE Books'
  <2>1. Moves(t, "lock", "reuse")
    BY <1>14 DEF SpawnPop, Moves
  <2>2. /\ Count({"peak", "held", "return1", "return2"})' = Count({"peak", "held", "return1", "return2"})
        /\ Count({"return1"})' = Count({"return1"})
        /\ Count({"reuse"})' = Count({"reuse"}) + 1
        /\ Count({"reuse", "borrow", "peak", "held"})' = Count({"reuse", "borrow", "peak", "held"}) + 1
        /\ Count({"grow"})' = Count({"grow"})
    BY <1>0, <2>1, Tallies, SMTT(60) DEF Delta
  <2>3. UNCHANGED <<Published1, Published2>>
    BY <1>14, <2>1, PublishedSame DEF SpawnPop, Moves
  <2>4. /\ at[t] \in Published1 /\ at[t] \in Published2
        /\ Published1 \in SUBSET Pools /\ Published2 \in SUBSET Pools
    BY <2>1, UsedIsPublished DEF Moves, Published1, Published2
  <2>5. PICK v \in available[at[t]] : available' = [available EXCEPT ![at[t]] = @ \ {v}]
    BY <1>14 DEF SpawnPop
  <2>6. \A q, r \in Pools : q # r => available[q] \cap available[r] = {}
    BY DEF VmExclusive
  <2>7. ASSUME NEW P \in SUBSET Pools, at[t] \in P
        PROVE  Cardinality(IdleIn(available', P)) = Cardinality(IdleIn(available, P)) - 1
    <3>1. available \in [Pools -> SUBSET Nat] /\ IsFiniteSet(IdleIn(available, P))
        BY IdleFinite
    <3>2. /\ available'[at[t]] = available[at[t]] \ {v}
          /\ \A q \in Pools \ {at[t]} : available'[q] = available[q]
        BY <2>5
    <3>3. \E q \in P : \E w \in available[q] :
              available'[q] = available[q] \ {w} /\ \A r \in Pools \ {q} : available'[r] = available[r]
        BY <2>7, <3>2
    <3> HIDE DEF IInv
    <3> QED BY <2>6, <3>1, <3>3, IdleRemove
  <2>8. /\ Cardinality(IdleIn(available', Published1')) = Cardinality(IdleIn(available, Published1)) - 1
        /\ Cardinality(IdleIn(available', Published2')) = Cardinality(IdleIn(available, Published2)) - 1
    BY <2>3, <2>4, <2>7
  <2>9. PlacesIn(total', Published2') = PlacesIn(total, Published2) /\ counters' = counters
    BY <1>14, <2>3 DEF SpawnPop
  <2> QED BY <1>0, <2>2, <2>8, <2>9, SMTT(60) DEF Books
<1>15. ASSUME NEW t \in Threads, SpawnGrow(t) \/ ForceGrow(t) PROVE Books'
  <2>0. pc[t] \in {"lock", "timedout"}
    BY <1>15 DEF SpawnGrow, ForceGrow
  <2>1. Moves(t, pc[t], "grow")
    BY <1>15 DEF SpawnGrow, ForceGrow, Moves
  <2>2. /\ Count({"peak", "held", "return1", "return2"})' = Count({"peak", "held", "return1", "return2"})
        /\ Count({"return1"})' = Count({"return1"})
        /\ Count({"reuse"})' = Count({"reuse"})
        /\ Count({"reuse", "borrow", "peak", "held"})' = Count({"reuse", "borrow", "peak", "held"})
        /\ Count({"grow"})' = Count({"grow"}) + 1
    BY <1>0, <2>0, <2>1, Tallies, SMTT(60) DEF Delta
  <2>3. UNCHANGED <<Published1, Published2>>
    BY <1>15, <2>1, PublishedSame DEF SpawnGrow, ForceGrow, Moves
  <2>4. /\ at[t] \in Published1 /\ at[t] \in Published2
        /\ Published1 \in SUBSET Pools /\ Published2 \in SUBSET Pools
    BY <2>0, UsedIsPublished DEF Moves, Published1, Published2
  <2>5. total' = [total EXCEPT ![at[t]] = @ + 1] /\ available' = available /\ counters' = counters
    BY <1>15 DEF SpawnGrow, ForceGrow
  <2>6. total \in [Pools -> Nat] /\ IsFiniteSet(PlacesIn(total, Published2))
    BY DEF Books
  <2>7. /\ IsFiniteSet(PlacesIn(total', Published2))
        /\ Cardinality(PlacesIn(total', Published2)) = Cardinality(PlacesIn(total, Published2)) + 1
    BY <2>4, <2>5, <2>6, PlaceAdd
  <2>8. /\ IsFiniteSet(PlacesIn(total', Published2'))
        /\ Cardinality(PlacesIn(total', Published2')) = Cardinality(PlacesIn(total, Published2)) + 1
    BY <2>3, <2>7
  <2>9. /\ IdleIn(available', Published1') = IdleIn(available, Published1)
        /\ IdleIn(available', Published2') = IdleIn(available, Published2)
    BY <2>3, <2>5
  <2> QED BY <1>0, <2>2, <2>5, <2>8, <2>9, SMTT(60) DEF Books
<1>16. ASSUME NEW t \in Threads, DropClean(t) \/ DropDirty(t) PROVE Books'
  <2>1. Moves(t, "held", "return1")
    BY <1>16 DEF DropClean, DropDirty, Moves
  <2>2. /\ Count({"peak", "held", "return1", "return2"})' = Count({"peak", "held", "return1", "return2"})
        /\ Count({"return1"})' = Count({"return1"}) + 1
        /\ Count({"reuse"})' = Count({"reuse"})
        /\ Count({"reuse", "borrow", "peak", "held"})' = Count({"reuse", "borrow", "peak", "held"}) - 1
        /\ Count({"grow"})' = Count({"grow"})
    BY <1>0, <2>1, Tallies, SMTT(60) DEF Delta
  <2>3. UNCHANGED <<Published1, Published2>>
    BY <1>16, <2>1, PublishedSame DEF DropClean, DropDirty, Moves
  <2>4. /\ at[t] \in Published1 /\ at[t] \in Published2
        /\ Published1 \in SUBSET Pools /\ Published2 \in SUBSET Pools
    BY <2>1, UsedIsPublished DEF Moves, Published1, Published2
  <2>5. PICK v : /\ \A q \in Pools : v \notin available[q]
                 /\ available' = [available EXCEPT ![at[t]] = @ \cup {v}]
    <3>1. \A q \in Pools : vm[t] \notin available[q] /\ nextVm \notin available[q]
        BY SMTT(60) DEF VmExclusive, VmsCreated
    <3> QED BY <1>16, <3>1 DEF DropClean, DropDirty
  <2>6. ASSUME NEW P \in SUBSET Pools, at[t] \in P
        PROVE  Cardinality(IdleIn(available', P)) = Cardinality(IdleIn(available, P)) + 1
    <3>1. available \in [Pools -> SUBSET Nat] /\ IsFiniteSet(IdleIn(available, P))
        BY IdleFinite
    <3>2. /\ available'[at[t]] = available[at[t]] \cup {v}
          /\ \A q \in Pools \ {at[t]} : available'[q] = available[q]
        BY <2>5
    <3>3. \E q \in P : \E w :
              /\ \A r \in Pools : w \notin available[r]
              /\ available'[q] = available[q] \cup {w} /\ \A r \in Pools \ {q} : available'[r] = available[r]
        BY <2>5, <2>6, <3>2
    <3> HIDE DEF IInv
    <3> QED BY <3>1, <3>3, IdleAdd
  <2>7. /\ Cardinality(IdleIn(available', Published1')) = Cardinality(IdleIn(available, Published1)) + 1
        /\ Cardinality(IdleIn(available', Published2')) = Cardinality(IdleIn(available, Published2)) + 1
    BY <2>3, <2>4, <2>6
  <2>8. PlacesIn(total', Published2') = PlacesIn(total, Published2) /\ counters' = counters
    BY <1>16, <2>3 DEF DropClean, DropDirty
  <2> QED BY <1>0, <2>2, <2>7, <2>8, SMTT(60) DEF Books
<1>17. ASSUME NEW t \in Threads, NEW p \in Pools, WithCounters(t, p) PROVE Books'
  <2>1. Moves(t, "idle", "warm1")
    BY <1>17 DEF WithCounters, Moves
  <2>2. /\ Count({"peak", "held", "return1", "return2"})' = Count({"peak", "held", "return1", "return2"})
        /\ Count({"return1"})' = Count({"return1"})
        /\ Count({"reuse"})' = Count({"reuse"})
        /\ Count({"reuse", "borrow", "peak", "held"})' = Count({"reuse", "borrow", "peak", "held"})
        /\ Count({"grow"})' = Count({"grow"})
    BY <1>0, <2>1, Tallies, SMTT(60) DEF Delta
  <2>3. total[p] = 0 /\ available[p] = {}
    BY <1>17 DEF WithCounters, Construction
  <2>4. Published1' = Published1 \ {p} /\ Published2' = Published2 \ {p}
    <3>1. at' = [at EXCEPT ![t] = p] /\ pc' = [pc EXCEPT ![t] = "warm1"] /\ pc[t] = "idle"
        BY <1>17 DEF WithCounters
    <3>2. At({"warm1"})' = At({"warm1"}) \cup {t} /\ At({"warm1", "warm2"})' = At({"warm1", "warm2"}) \cup {t}
        BY <3>1, SMTT(60) DEF At
    <3>3. t \notin At({"warm1"}) /\ t \notin At({"warm1", "warm2"})
        BY <3>1 DEF At
    <3>4. at'[t] = p /\ \A u \in Threads \ {t} : at'[u] = at[u]
        BY <3>1
    <3>5. At({"warm1"}) \subseteq Threads /\ At({"warm1", "warm2"}) \subseteq Threads
        BY DEF At
    <3>6. Published1' = Published1 \ {p}
        BY <3>2, <3>3, <3>4, <3>5, SMTT(60) DEF Published1
    <3>7. Published2' = Published2 \ {p}
        BY <3>2, <3>3, <3>4, <3>5, SMTT(60) DEF Published2
    <3> QED BY <3>6, <3>7
  <2>5. /\ \A q \in Pools \ {p} : available'[q] = available[q] /\ total'[q] = total[q]
        /\ counters' = counters
    BY <1>17 DEF WithCounters
  <2>6. Published1 \subseteq Pools /\ Published2 \subseteq Pools
    BY DEF Published1, Published2
  <2>7. /\ IdleIn(available', Published1') = IdleIn(available, Published1 \ {p})
        /\ IdleIn(available', Published2') = IdleIn(available, Published2 \ {p})
        /\ PlacesIn(total', Published2') = PlacesIn(total, Published2 \ {p})
    BY <2>4, <2>5, <2>6, IdleSame, PlacesSame, SMTT(60)
  <2>8. /\ IdleIn(available', Published1') = IdleIn(available, Published1)
        /\ IdleIn(available', Published2') = IdleIn(available, Published2)
        /\ PlacesIn(total', Published2') = PlacesIn(total, Published2)
    BY <2>3, <2>7, IdleEmpty, PlacesEmpty
  <2> QED BY <1>0, <2>2, <2>5, <2>8 DEF Books
<1>18. ASSUME NEW t \in Threads, pc[t] \in {"warm1", "warm2"}
       PROVE  /\ total[at[t]] = Warm(at[t]) /\ Warm(at[t]) \in Nat
              /\ IsFiniteSet(available[at[t]]) /\ Cardinality(available[at[t]]) = Warm(at[t])
  <2>1. ~built[at[t]] /\ total[at[t]] = Warm(at[t]) /\ at[t] \in Pools /\ total[at[t]] \in Nat
    BY <1>18 DEF Construction
  <2>2. Borrowers(at[t]) = {}
    BY <2>1 DEF Borrowers, MutexOwned
  <2>3. /\ IsFiniteSet(available[at[t]])
        /\ total[at[t]] = Cardinality(available[at[t]]) + Cardinality(Borrowers(at[t]))
    BY <2>1 DEF Counted, CountedAt
  <2>4. Cardinality(Borrowers(at[t])) = 0
    BY <2>2, FS_EmptySet
  <2>5. Cardinality(available[at[t]]) \in Nat
    BY <2>3, FS_CardinalityType
  <2> QED BY <2>1, <2>3, <2>4, <2>5, SMTT(60)
<1>19. ASSUME NEW t \in Threads, WarmAvailable(t) PROVE Books'
  <2>1. Moves(t, "warm1", "warm2")
    BY <1>19 DEF WarmAvailable, Moves
  <2>2. /\ Count({"peak", "held", "return1", "return2"})' = Count({"peak", "held", "return1", "return2"})
        /\ Count({"return1"})' = Count({"return1"})
        /\ Count({"reuse"})' = Count({"reuse"})
        /\ Count({"reuse", "borrow", "peak", "held"})' = Count({"reuse", "borrow", "peak", "held"})
        /\ Count({"grow"})' = Count({"grow"})
    BY <1>0, <2>1, Tallies, SMTT(60) DEF Delta
  <2>3. /\ at[t] \in Pools \ Published1 /\ Published1' = Published1 \cup {at[t]}
        /\ Published2' = Published2 /\ Published1 \in SUBSET Pools
    <3>1. at' = at /\ pc' = [pc EXCEPT ![t] = "warm2"] /\ pc[t] = "warm1"
        BY <1>19 DEF WarmAvailable
    <3>2. At({"warm1"})' = At({"warm1"}) \ {t} /\ At({"warm1", "warm2"})' = At({"warm1", "warm2"})
        BY <3>1 DEF At
    <3>3. t \in At({"warm1"}) /\ \A u \in At({"warm1"}) : at[u] = at[t] => u = t
        BY <3>1 DEF At, Construction
    <3>4. Published1' = Published1 \cup {at[t]} /\ at[t] \in Pools \ Published1
        BY <3>1, <3>2, <3>3, SMTT(60) DEF Published1
    <3>5. Published2' = Published2
        BY <3>1, <3>2, SMTT(60) DEF Published2
    <3>6. Published1 \in SUBSET Pools
        BY DEF Published1
    <3> QED BY <3>4, <3>5, <3>6
  <2>4. /\ available' = available /\ total' = total
        /\ counters' = [counters EXCEPT !.available = @ + Warm(at[t])]
    BY <1>19 DEF WarmAvailable
  <2>5. /\ IsFiniteSet(available[at[t]]) /\ Cardinality(available[at[t]]) = Warm(at[t])
        /\ Warm(at[t]) \in Nat
    BY <1>18, <1>19 DEF WarmAvailable
  <2>6. Cardinality(IdleIn(available, Published1')) =
          Cardinality(IdleIn(available, Published1)) + Cardinality(available[at[t]])
    <3>1. /\ available \in [Pools -> SUBSET Nat] /\ IsFiniteSet(IdleIn(available, Published1))
          /\ \A q, r \in Pools : q # r => available[q] \cap available[r] = {}
        BY <2>3, IdleFinite DEF VmExclusive
    <3> HIDE DEF IInv
    <3> QED BY <2>3, <2>5, <3>1, IdleJoin
  <2>7. /\ Cardinality(IdleIn(available', Published1')) =
             Cardinality(IdleIn(available, Published1)) + Warm(at[t])
        /\ IdleIn(available', Published2') = IdleIn(available, Published2)
        /\ PlacesIn(total', Published2') = PlacesIn(total, Published2)
    BY <2>3, <2>4, <2>5, <2>6
  <2>8. /\ counters'.available = counters.available + Warm(at[t])
        /\ counters'.total = counters.total /\ counters'.in_use = counters.in_use
        /\ counters.available \in Int
    BY <2>4
  <2>9. PICK m \in Nat : m = Warm(at[t])
    BY <2>5
  <2>10. /\ Cardinality(IdleIn(available', Published1')) = Cardinality(IdleIn(available, Published1)) + m
         /\ counters'.available = counters.available + m
    BY <2>7, <2>8, <2>9
  <2>11. (counters.available + m) + Count({"return1"}) =
           (Cardinality(IdleIn(available, Published1)) + m) + Count({"reuse"})
    <3>1. /\ Count({"return1"}) \in Nat /\ Count({"reuse"}) \in Nat /\ counters.available \in Int
          /\ Cardinality(IdleIn(available, Published1)) \in Nat
          /\ counters.available + Count({"return1"}) = Cardinality(IdleIn(available, Published1)) + Count({"reuse"})
        BY <1>0, <2>8 DEF Books
    <3>2. PICK a \in Int, b \in Nat, c \in Nat, d \in Nat :
             /\ a = counters.available /\ b = Count({"return1"})
             /\ c = Cardinality(IdleIn(available, Published1)) /\ d = Count({"reuse"})
        BY <3>1
    <3>3. a + b = c + d
        BY <3>1, <3>2
    <3>4. (a + m) + b = (c + m) + d
        BY <3>3, SMTT(60)
    <3> QED BY <3>2, <3>4
  <2> HIDE DEF IInv, TypeOK
  <2> QED BY <2>2, <2>7, <2>8, <2>10, <2>11 DEF Books
<1>20. ASSUME NEW t \in Threads, WarmTotal(t) PROVE Books'
  <2>1. Moves(t, "warm2", "idle")
    BY <1>20 DEF WarmTotal, Moves
  <2>2. /\ Count({"peak", "held", "return1", "return2"})' = Count({"peak", "held", "return1", "return2"})
        /\ Count({"return1"})' = Count({"return1"})
        /\ Count({"reuse"})' = Count({"reuse"})
        /\ Count({"reuse", "borrow", "peak", "held"})' = Count({"reuse", "borrow", "peak", "held"})
        /\ Count({"grow"})' = Count({"grow"})
    BY <1>0, <2>1, Tallies, SMTT(60) DEF Delta
  <2>3. /\ at[t] \in Pools \ Published2 /\ Published2' = Published2 \cup {at[t]}
        /\ Published1' = Published1 /\ Published2 \in SUBSET Pools
    <3>1. at' = at /\ pc' = [pc EXCEPT ![t] = "idle"] /\ pc[t] = "warm2"
        BY <1>20 DEF WarmTotal
    <3>2. At({"warm1"})' = At({"warm1"}) /\ At({"warm1", "warm2"})' = At({"warm1", "warm2"}) \ {t}
        BY <3>1 DEF At
    <3>3. t \in At({"warm1", "warm2"}) /\ \A u \in At({"warm1", "warm2"}) : at[u] = at[t] => u = t
        BY <3>1 DEF At, Construction
    <3>4. Published2' = Published2 \cup {at[t]} /\ at[t] \in Pools \ Published2
        BY <3>1, <3>2, <3>3, SMTT(60) DEF Published2
    <3>5. Published1' = Published1
        BY <3>1, <3>2, SMTT(60) DEF Published1
    <3>6. Published2 \in SUBSET Pools
        BY DEF Published2
    <3> QED BY <3>4, <3>5, <3>6
  <2>4. /\ available' = available /\ total' = total
        /\ counters' = [counters EXCEPT !.total = @ + Warm(at[t])]
    BY <1>20 DEF WarmTotal
  <2>5. /\ IsFiniteSet(available[at[t]]) /\ Cardinality(available[at[t]]) = Warm(at[t])
        /\ Warm(at[t]) \in Nat /\ total[at[t]] = Warm(at[t])
    BY <1>18, <1>20 DEF WarmTotal
  <2>6. Cardinality(IdleIn(available, Published2')) =
          Cardinality(IdleIn(available, Published2)) + Cardinality(available[at[t]])
    <3>1. /\ available \in [Pools -> SUBSET Nat] /\ IsFiniteSet(IdleIn(available, Published2))
          /\ \A q, r \in Pools : q # r => available[q] \cap available[r] = {}
        BY <2>3, IdleFinite DEF VmExclusive
    <3> HIDE DEF IInv
    <3> QED BY <2>3, <2>5, <3>1, IdleJoin, SMTT(60)
  <2>7. /\ IsFiniteSet(PlacesIn(total, Published2'))
        /\ Cardinality(PlacesIn(total, Published2')) =
             Cardinality(PlacesIn(total, Published2)) + total[at[t]]
    <3>1. total \in [Pools -> Nat] /\ IsFiniteSet(PlacesIn(total, Published2))
        BY DEF Books
    <3> HIDE DEF IInv
    <3> QED BY <2>3, <3>1, PlacesJoin
  <2>8. /\ Cardinality(IdleIn(available', Published2')) =
             Cardinality(IdleIn(available, Published2)) + Warm(at[t])
        /\ IdleIn(available', Published1') = IdleIn(available, Published1)
        /\ IsFiniteSet(PlacesIn(total', Published2'))
        /\ Cardinality(PlacesIn(total', Published2')) =
             Cardinality(PlacesIn(total, Published2)) + Warm(at[t])
    BY <2>3, <2>4, <2>5, <2>6, <2>7
  <2>9. /\ counters'.total = counters.total + Warm(at[t])
        /\ counters'.available = counters.available /\ counters'.in_use = counters.in_use
        /\ counters.total \in Int
    BY <2>4
  <2>10. PICK m \in Nat : m = Warm(at[t])
    BY <2>5
  <2>11. /\ Cardinality(IdleIn(available', Published2')) = Cardinality(IdleIn(available, Published2)) + m
         /\ Cardinality(PlacesIn(total', Published2')) = Cardinality(PlacesIn(total, Published2)) + m
         /\ counters'.total = counters.total + m
    BY <2>8, <2>9, <2>10
  <2>12. /\ counters.total + m = (Cardinality(IdleIn(available, Published2)) + m)
                                    + Count({"reuse", "borrow", "peak", "held"})
         /\ (counters.total + m) + Count({"grow"}) = Cardinality(PlacesIn(total, Published2)) + m
    <3>1. /\ Count({"reuse", "borrow", "peak", "held"}) \in Nat /\ Count({"grow"}) \in Nat
          /\ Cardinality(IdleIn(available, Published2)) \in Nat
          /\ Cardinality(PlacesIn(total, Published2)) \in Nat /\ counters.total \in Int
          /\ counters.total = Cardinality(IdleIn(available, Published2)) + Count({"reuse", "borrow", "peak", "held"})
          /\ counters.total + Count({"grow"}) = Cardinality(PlacesIn(total, Published2))
        BY <1>0, <2>9 DEF Books
    <3>2. PICK a \in Int, b \in Nat, c \in Nat, d \in Nat, e \in Nat :
             /\ a = counters.total /\ b = Count({"grow"}) /\ c = Cardinality(PlacesIn(total, Published2))
             /\ d = Cardinality(IdleIn(available, Published2)) /\ e = Count({"reuse", "borrow", "peak", "held"})
        BY <3>1
    <3>3. a = d + e /\ a + b = c
        BY <3>1, <3>2
    <3>4. a + m = (d + m) + e /\ (a + m) + b = c + m
        BY <3>3, SMTT(60)
    <3> QED BY <3>2, <3>4
  <2> HIDE DEF IInv, TypeOK
  <2> QED BY <2>2, <2>8, <2>9, <2>11, <2>12 DEF Books
<1>21. CASE UNCHANGED vars
  <2>1. UNCHANGED <<available, total, counters, pc, at>>
    BY <1>21 DEF vars
  <2>2. UNCHANGED <<Published1, Published2>> /\ \A S : Count(S)' = Count(S)
    BY <2>1, SMTT(60) DEF Count, At, Published1, Published2
  <2> QED BY <2>1, <2>2 DEF Books
<1> QED
    BY <1>1, <1>2, <1>3, <1>4, <1>5, <1>6, <1>8, <1>9, <1>10, <1>11, <1>12, <1>13, <1>14, <1>15, <1>16, <1>17,
       <1>19, <1>20, <1>21, ZenonT(60) DEF Next

\* The constructions of pools are kept apart.
LEMMA ConstructionPreserved ==
    ASSUME IInv, Construction, [Next]_vars PROVE Construction'
<1> USE DEF IInv, TypeOK, MutexOwned, Construction, Unclaimed, Goto, poolVars, history
<1>1. CASE UNCHANGED vars
    BY <1>1 DEF vars
<1>2. ASSUME NEW t \in Threads, NEW p \in Pools, WithCounters(t, p) PROVE Construction'
  <2>1. /\ pc[t] = "idle" /\ ~built[p] /\ pc'[t] = "warm1" /\ at'[t] = p
        /\ \A u \in Threads \ {t} : pc'[u] = pc[u] /\ at'[u] = at[u] /\ at[u] \in Pools
        /\ \A u \in Threads : pc[u] \in {"warm1", "warm2"} => at[u] # p
    BY <1>2, SMTT(60) DEF WithCounters, Unclaimed
  <2>2. /\ \A q \in Pools \ {p} : available'[q] = available[q] /\ total'[q] = total[q]
        /\ total'[p] = Warm(p) /\ built' = built
    BY <1>2, SMTT(60) DEF WithCounters
  <2>3. /\ \A q \in Pools : ~built[q] /\ (\A u \in Threads : pc[u] \in {"warm1", "warm2"} => at[u] # q) =>
               total[q] = 0 /\ available[q] = {}
        /\ \A u \in Threads : pc[u] \in {"warm1", "warm2"} => ~built[at[u]] /\ total[at[u]] = Warm(at[u])
        /\ \A u, w \in Threads :
             pc[u] \in {"warm1", "warm2"} /\ pc[w] \in {"warm1", "warm2"} /\ at[u] = at[w] => u = w
    OBVIOUS
  <2> HIDE DEF IInv, Construction
  <2>4. ASSUME NEW q \in Pools, ~built[q], \A u \in Threads : pc'[u] \in {"warm1", "warm2"} => at'[u] # q
        PROVE  total'[q] = 0 /\ available'[q] = {}
    <3>1. q # p
        BY <2>1, <2>4
    <3>2. ASSUME NEW u \in Threads, pc[u] \in {"warm1", "warm2"} PROVE at[u] # q
        BY <2>1, <2>4, <3>2
    <3>3. total'[q] = total[q] /\ available'[q] = available[q]
        BY <2>2, <3>1
    <3>4. total[q] = 0 /\ available[q] = {}
        BY <2>3, <2>4, <3>2
    <3> QED BY <3>3, <3>4
  <2>5. ASSUME NEW u \in Threads, pc'[u] \in {"warm1", "warm2"}
        PROVE  ~built[at'[u]] /\ total'[at'[u]] = Warm(at'[u])
    <3>1. CASE u = t
        BY <2>1, <2>2, <3>1
    <3>2. CASE u # t
      <4>1. at'[u] = at[u] /\ pc[u] \in {"warm1", "warm2"} /\ at[u] \in Pools \ {p}
        BY <2>1, <2>5, <3>2
      <4>2. ~built[at[u]] /\ total[at[u]] = Warm(at[u]) /\ total'[at[u]] = total[at[u]]
        BY <2>2, <2>3, <4>1
      <4> QED BY <4>1, <4>2
    <3> QED BY <3>1, <3>2
  <2>6. ASSUME NEW u \in Threads, NEW w \in Threads,
               pc'[u] \in {"warm1", "warm2"}, pc'[w] \in {"warm1", "warm2"}, at'[u] = at'[w]
        PROVE  u = w
    <3>1. CASE u = t \/ w = t
        BY <2>1, <2>6, <3>1, SMTT(60)
    <3>2. CASE u # t /\ w # t
        BY <2>1, <2>3, <2>6, <3>2
    <3> QED BY <3>1, <3>2
  <2>7. built' = built
    BY <2>2
  <2> QED BY <2>4, <2>5, <2>6, <2>7 DEF Construction
<1>3. ASSUME NEW t \in Threads, NEW p \in Pools, SpawnCall(t, p) PROVE Construction'
    BY <1>3, SMTT(60) DEF SpawnCall
<1>4. ASSUME NEW t \in Threads, NEW p \in Pools, GcBegin(t, p) PROVE Construction'
  <2>1. \A u \in Threads :
          \/ pc'[u] = pc[u] /\ at'[u] = at[u]
          \/ pc[u] \notin {"warm1", "warm2"} /\ pc'[u] \notin {"warm1", "warm2"}
    BY <1>4 DEF GcBegin
  <2>2. UNCHANGED <<available, total, built>>
    BY <1>4 DEF GcBegin
  <2>3. Construction
    OBVIOUS
  <2> HIDE DEF IInv, TypeOK
  <2> QED BY <2>1, <2>2, <2>3, SMTT(60)
<1>5. ASSUME NEW t \in Threads, WarmAvailable(t) PROVE Construction'
    BY <1>5, SMTT(60) DEF WarmAvailable
<1>6. ASSUME NEW t \in Threads, WarmTotal(t) PROVE Construction'
    BY <1>6, SMTT(60) DEF WarmTotal
<1>7. ASSUME NEW t \in Threads, SpawnPop(t) PROVE Construction'
    BY <1>7, SMTT(60) DEF SpawnPop
<1>8. ASSUME NEW t \in Threads, SpawnGrow(t) PROVE Construction'
    BY <1>8, SMTT(60) DEF SpawnGrow
<1>9. ASSUME NEW t \in Threads, SpawnWait(t) PROVE Construction'
    BY <1>9, SMTT(60) DEF SpawnWait
<1>10. ASSUME NEW t \in Threads, SpuriousWakeup(t) PROVE Construction'
    BY <1>10, SMTT(60) DEF SpuriousWakeup
<1>11. ASSUME NEW t \in Threads, WaitTimeout(t) PROVE Construction'
    BY <1>11, SMTT(60) DEF WaitTimeout
<1>12. ASSUME NEW t \in Threads, ForceGrow(t) PROVE Construction'
    BY <1>12, SMTT(60) DEF ForceGrow
<1>13. ASSUME NEW t \in Threads, CountReuse(t) PROVE Construction'
    BY <1>13, SMTT(60) DEF CountReuse
<1>14. ASSUME NEW t \in Threads, CountGrow(t) PROVE Construction'
    BY <1>14, SMTT(60) DEF CountGrow
<1>15. ASSUME NEW t \in Threads, RecordBorrow(t) PROVE Construction'
    BY <1>15, SMTT(60) DEF RecordBorrow
<1>16. ASSUME NEW t \in Threads, RecordPeak(t) PROVE Construction'
    BY <1>16, SMTT(60) DEF RecordPeak
<1>17. ASSUME NEW t \in Threads, DropClean(t) PROVE Construction'
    BY <1>17, SMTT(60) DEF DropClean
<1>18. ASSUME NEW t \in Threads, DropDirty(t) PROVE Construction'
    BY <1>18, SMTT(60) DEF DropDirty
<1>19. ASSUME NEW t \in Threads, CountReturn(t) PROVE Construction'
    BY <1>19, SMTT(60) DEF CountReturn
<1>20. ASSUME NEW t \in Threads, RecordReturn(t) PROVE Construction'
  <2>1. \A u \in Threads :
          pc'[u] = pc[u] \/ (pc[u] \notin {"warm1", "warm2"} /\ pc'[u] \notin {"warm1", "warm2"})
    BY <1>20, SMTT(60) DEF RecordReturn, Waiters
  <2>2. UNCHANGED <<available, total, built, at>>
    BY <1>20 DEF RecordReturn
  <2> QED BY <2>1, <2>2
<1>21. ASSUME NEW t \in Threads, GcEnd(t) PROVE Construction'
    BY <1>21, SMTT(60) DEF GcEnd
<1> QED
    BY <1>1, <1>2, <1>3, <1>4, <1>5, <1>6, <1>7, <1>8, <1>9, <1>10, <1>11, <1>12, <1>13,
       <1>14, <1>15, <1>16, <1>17, <1>18, <1>19, <1>20, <1>21, ZenonT(60) DEF Next

\* A VM stays where a thread has pushed it until the mutex is released.
LEMMA PushedPreserved ==
    ASSUME IInv, Pushed, [Next]_vars PROVE Pushed'
<1> USE PoolAssumption DEF IInv, TypeOK, MutexOwned, Inside, Free, Pushed, Goto, poolVars, history
<1>1. CASE UNCHANGED vars
    BY <1>1 DEF vars
<1>2. ASSUME NEW t \in Threads, NEW p \in Pools, WithCounters(t, p) PROVE Pushed'
  <2>1. /\ ~built[p] /\ pc'[t] = "warm1"
        /\ \A u \in Threads \ {t} : pc'[u] = pc[u] /\ at'[u] = at[u]
        /\ \A q \in Pools \ {p} : available'[q] = available[q]
    BY <1>2 DEF WithCounters
  <2>2. \A u \in Threads : pc[u] = "return1" => built[at[u]] /\ at[u] \in Pools /\ available[at[u]] # {}
    OBVIOUS
  <2> HIDE PoolAssumption
  <2> HIDE DEF IInv, TypeOK, Pushed
  <2>3. ASSUME NEW u \in Threads, pc'[u] = "return1" PROVE available'[at'[u]] # {}
    <3>1. pc[u] = "return1" /\ at'[u] = at[u]
      <4>1. u # t
        BY <2>1, <2>3
      <4> QED BY <2>1, <2>3, <4>1
    <3>2. built[at[u]] /\ at[u] \in Pools /\ available[at[u]] # {}
        BY <2>2, <3>1
    <3>3. available'[at[u]] = available[at[u]]
        BY <2>1, <3>2
    <3> QED BY <3>1, <3>2, <3>3
  <2> QED BY <2>3 DEF Pushed
<1>3. ASSUME NEW t \in Threads, NEW p \in Pools, SpawnCall(t, p) PROVE Pushed'
    BY <1>3 DEF SpawnCall
<1>4. ASSUME NEW t \in Threads, NEW p \in Pools, GcBegin(t, p) PROVE Pushed'
    BY <1>4 DEF GcBegin
<1>5. ASSUME NEW t \in Threads, WarmAvailable(t) PROVE Pushed'
    BY <1>5, SMTT(60) DEF WarmAvailable
<1>6. ASSUME NEW t \in Threads, WarmTotal(t) PROVE Pushed'
    BY <1>6, SMTT(60) DEF WarmTotal
<1>7. ASSUME NEW t \in Threads, SpawnPop(t) PROVE Pushed'
    BY <1>7, SMTT(60) DEF SpawnPop
<1>8. ASSUME NEW t \in Threads, SpawnGrow(t) PROVE Pushed'
    BY <1>8, SMTT(60) DEF SpawnGrow
<1>9. ASSUME NEW t \in Threads, SpawnWait(t) PROVE Pushed'
    BY <1>9, SMTT(60) DEF SpawnWait
<1>10. ASSUME NEW t \in Threads, SpuriousWakeup(t) PROVE Pushed'
    BY <1>10, SMTT(60) DEF SpuriousWakeup
<1>11. ASSUME NEW t \in Threads, WaitTimeout(t) PROVE Pushed'
    BY <1>11, SMTT(60) DEF WaitTimeout
<1>12. ASSUME NEW t \in Threads, ForceGrow(t) PROVE Pushed'
    BY <1>12, SMTT(60) DEF ForceGrow
<1>13. ASSUME NEW t \in Threads, CountReuse(t) PROVE Pushed'
    BY <1>13, SMTT(60) DEF CountReuse
<1>14. ASSUME NEW t \in Threads, CountGrow(t) PROVE Pushed'
    BY <1>14, SMTT(60) DEF CountGrow
<1>15. ASSUME NEW t \in Threads, RecordBorrow(t) PROVE Pushed'
    BY <1>15, SMTT(60) DEF RecordBorrow
<1>16. ASSUME NEW t \in Threads, RecordPeak(t) PROVE Pushed'
    BY <1>16, SMTT(60) DEF RecordPeak
<1>17. ASSUME NEW t \in Threads, DropClean(t) PROVE Pushed'
  <2> DEFINE v == vm[t]
  <2>1. /\ available' = [available EXCEPT ![at[t]] = @ \cup {v}] /\ at' = at
        /\ \A u \in Threads \ {t} : pc'[u] = pc[u]
    BY <1>17, SMTT(60) DEF DropClean
  <2> HIDE DEF v
  <2>2. /\ available'[at[t]] = available[at[t]] \cup {v}
        /\ \A q \in Pools \ {at[t]} : available'[q] = available[q]
    BY <2>1
  <2>3. available'[at[t]] # {} /\ \A q \in Pools \ {at[t]} : available'[q] = available[q]
    BY <2>2
  <2>4. ASSUME NEW u \in Threads, pc'[u] = "return1" PROVE available'[at'[u]] # {}
    <3>1. CASE at[u] = at[t]
        BY <2>1, <2>3, <3>1
    <3>2. CASE at[u] # at[t]
      <4>1. pc[u] = "return1" /\ at[u] \in Pools
          BY <2>1, <2>4, <3>2
      <4> QED BY <2>1, <2>3, <3>2, <4>1, SMTT(60)
    <3> QED BY <3>1, <3>2
  <2> QED BY <2>4
<1>18. ASSUME NEW t \in Threads, DropDirty(t) PROVE Pushed'
  <2> DEFINE v == nextVm
  <2>1. /\ available' = [available EXCEPT ![at[t]] = @ \cup {v}] /\ at' = at
        /\ \A u \in Threads \ {t} : pc'[u] = pc[u]
    BY <1>18, SMTT(60) DEF DropDirty
  <2> HIDE DEF v
  <2>2. /\ available'[at[t]] = available[at[t]] \cup {v}
        /\ \A q \in Pools \ {at[t]} : available'[q] = available[q]
    BY <2>1
  <2>3. available'[at[t]] # {} /\ \A q \in Pools \ {at[t]} : available'[q] = available[q]
    BY <2>2
  <2>4. ASSUME NEW u \in Threads, pc'[u] = "return1" PROVE available'[at'[u]] # {}
    <3>1. CASE at[u] = at[t]
        BY <2>1, <2>3, <3>1
    <3>2. CASE at[u] # at[t]
      <4>1. pc[u] = "return1" /\ at[u] \in Pools
          BY <2>1, <2>4, <3>2
      <4> QED BY <2>1, <2>3, <3>2, <4>1, SMTT(60)
    <3> QED BY <3>1, <3>2
  <2> QED BY <2>4
<1>19. ASSUME NEW t \in Threads, CountReturn(t) PROVE Pushed'
    BY <1>19, SMTT(60) DEF CountReturn
<1>20. ASSUME NEW t \in Threads, RecordReturn(t) PROVE Pushed'
    BY <1>20, SMTT(60) DEF RecordReturn, Waiters
<1>21. ASSUME NEW t \in Threads, GcEnd(t) PROVE Pushed'
    BY <1>21, SMTT(60) DEF GcEnd
<1> QED
    BY <1>1, <1>2, <1>3, <1>4, <1>5, <1>6, <1>7, <1>8, <1>9, <1>10, <1>11, <1>12, <1>13,
       <1>14, <1>15, <1>16, <1>17, <1>18, <1>19, <1>20, <1>21, ZenonT(60) DEF Next

\* The peak is raised by the threads that raised in_use, in any order.
LEMMA HighWaterPreserved ==
    ASSUME IInv, HighWater, [Next]_vars PROVE HighWater'
<1> USE DEF IInv, TypeOK, HighWater, Goto, poolVars, history, Max2, RaisePeak
<1>1. CASE UNCHANGED vars
    BY <1>1 DEF vars
<1>2. ASSUME NEW t \in Threads, NEW p \in Pools, WithCounters(t, p) PROVE HighWater'
    BY <1>2 DEF WithCounters
<1>3. ASSUME NEW t \in Threads, NEW p \in Pools, SpawnCall(t, p) PROVE HighWater'
    BY <1>3 DEF SpawnCall
<1>4. ASSUME NEW t \in Threads, NEW p \in Pools, GcBegin(t, p) PROVE HighWater'
    BY <1>4 DEF GcBegin
<1>5. ASSUME NEW t \in Threads, WarmAvailable(t) PROVE HighWater'
    BY <1>5 DEF WarmAvailable
<1>6. ASSUME NEW t \in Threads, WarmTotal(t) PROVE HighWater'
    BY <1>6 DEF WarmTotal
<1>7. ASSUME NEW t \in Threads, SpawnPop(t) PROVE HighWater'
    BY <1>7 DEF SpawnPop
<1>8. ASSUME NEW t \in Threads, SpawnGrow(t) PROVE HighWater'
    BY <1>8 DEF SpawnGrow
<1>9. ASSUME NEW t \in Threads, SpawnWait(t) PROVE HighWater'
    BY <1>9 DEF SpawnWait
<1>10. ASSUME NEW t \in Threads, SpuriousWakeup(t) PROVE HighWater'
    BY <1>10 DEF SpuriousWakeup
<1>11. ASSUME NEW t \in Threads, WaitTimeout(t) PROVE HighWater'
    BY <1>11 DEF WaitTimeout
<1>12. ASSUME NEW t \in Threads, ForceGrow(t) PROVE HighWater'
    BY <1>12 DEF ForceGrow
<1>13. ASSUME NEW t \in Threads, CountReuse(t) PROVE HighWater'
    BY <1>13 DEF CountReuse
<1>14. ASSUME NEW t \in Threads, CountGrow(t) PROVE HighWater'
    BY <1>14 DEF CountGrow
<1>15. ASSUME NEW t \in Threads, RecordBorrow(t) PROVE HighWater'
    BY <1>15, SMTT(60) DEF RecordBorrow
<1>16. ASSUME NEW t \in Threads, RecordPeak(t) PROVE HighWater'
    BY <1>16, SMTT(60) DEF RecordPeak
<1>17. ASSUME NEW t \in Threads, DropClean(t) PROVE HighWater'
    BY <1>17 DEF DropClean
<1>18. ASSUME NEW t \in Threads, DropDirty(t) PROVE HighWater'
    BY <1>18 DEF DropDirty
<1>19. ASSUME NEW t \in Threads, CountReturn(t) PROVE HighWater'
    BY <1>19 DEF CountReturn
<1>20. ASSUME NEW t \in Threads, RecordReturn(t) PROVE HighWater'
    BY <1>20 DEF RecordReturn, Waiters
<1>21. ASSUME NEW t \in Threads, GcEnd(t) PROVE HighWater'
    BY <1>21 DEF GcEnd
<1> QED
    BY <1>1, <1>2, <1>3, <1>4, <1>5, <1>6, <1>7, <1>8, <1>9, <1>10, <1>11, <1>12, <1>13,
       <1>14, <1>15, <1>16, <1>17, <1>18, <1>19, <1>20, <1>21, ZenonT(60) DEF Next

\* What the shared counters count, always.
LEMMA Bookkeeping == Spec => [](IInv /\ Construction /\ Pushed /\ HighWater /\ Books)
<1>1. Init => Construction /\ Pushed /\ HighWater
    BY SMTT(60) DEF Init, Construction, Pushed, HighWater
<1>2. Init => Books
  <2> SUFFICES ASSUME Init PROVE Books
    OBVIOUS
  <2>1. \A p \in Pools : available[p] = {} /\ total[p] = 0
    BY DEF Init
  <2>2. \A S : "idle" \notin S => Count(S) = 0
    <3>1. \A S : "idle" \notin S => At(S) = {}
        BY DEF Init, At
    <3> QED BY <3>1, FS_EmptySet DEF Count
  <2>3. IdleIn(available, Published1) = {} /\ IdleIn(available, Published2) = {}
    BY <2>1 DEF IdleIn, Published1, Published2
  <2>4. PlacesIn(total, Published2) = {}
    <3>1. \A p \in Published2 : {p} \X (1 .. total[p]) = {}
        BY <2>1, SMTT(60) DEF Published2
    <3> QED BY <3>1 DEF PlacesIn
  <2>5. /\ Count({"peak", "held", "return1", "return2"}) = 0 /\ Count({"return1"}) = 0
        /\ Count({"reuse"}) = 0 /\ Count({"reuse", "borrow", "peak", "held"}) = 0 /\ Count({"grow"}) = 0
    BY <2>2
  <2>6. counters.in_use = 0 /\ counters.available = 0 /\ counters.total = 0
    BY DEF Init
  <2> QED BY <2>3, <2>4, <2>5, <2>6, FS_EmptySet, SMTT(60) DEF Books
<1>3. /\ IInv /\ Counted /\ Construction /\ Pushed /\ HighWater /\ Books
      /\ [Next]_vars
      => Construction' /\ Pushed' /\ HighWater' /\ Books'
    BY ConstructionPreserved, PushedPreserved, HighWaterPreserved, BooksPreserved
<1> QED BY <1>1, <1>2, <1>3, Inductive, CountedAlways, PTL DEF Spec

\* PoolCounters never wraps below zero: nothing is subtracted from available
\* or in_use before it was added, although each pool updates them under a mutex
\* of its own.
THEOREM NeverBelowZero == Spec => []NoUnderflow
<1>1. IInv /\ Construction /\ Pushed /\ Books => NoUnderflow
  <2> SUFFICES ASSUME IInv, Construction, Pushed, Books PROVE NoUnderflow
    OBVIOUS
  <2> DEFINE R == At({"return1"})
             I == IdleIn(available, Published1)
             f == [t \in R |-> CHOOSE v \in available[at[t]] : TRUE]
  <2>1. \A t \in R : /\ t \in Threads /\ at[t] \in Published1 /\ at[t] \in Pools
                     /\ owner[at[t]] = t /\ available[at[t]] # {}
    <3>1. \A t \in R : t \in Threads /\ pc[t] = "return1"
        BY DEF At
    <3>2. \A t \in R : at[t] \in Published1
        BY <3>1, UsedIsPublished
    <3> QED BY <3>1, <3>2 DEF IInv, TypeOK, MutexOwned, Inside, Pushed
  <2>2. \A t \in R : f[t] \in available[at[t]]
    BY <2>1
  <2>3. f \in [R -> I]
    <3>1. \A t \in R : (CHOOSE v \in available[at[t]] : TRUE) \in I
        BY <2>1 DEF IdleIn
    <3> QED BY <3>1
  <2>4. \A t, u \in R : f[t] = f[u] => t = u
    BY <2>1, <2>2, SMTT(60) DEF IInv, VmExclusive
  <2>5. f \in Injection(R, I)
    <3> HIDE DEF f, R, I
    <3> QED BY <2>3, <2>4 DEF Injection, IsInjective
  <2>6. IsFiniteSet(I) /\ Cardinality(I) \in Nat
    BY IdleFinite DEF Published1
  <2>7. Cardinality(R) <= Cardinality(I)
    <3> HIDE DEF f, R, I
    <3> QED BY <2>5, <2>6, FS_Injection
  <2>8. Count({"return1"}) <= Cardinality(I)
    BY <2>7 DEF Count
  <2>9. \A S : Count(S) \in Nat
    BY CountType
  <2>10. counters.available \in Int
    BY DEF IInv, TypeOK
  <2> HIDE DEF f, R
  <2> QED BY <2>6, <2>8, <2>9, <2>10, SMTT(60) DEF Books, NoUnderflow
<1> QED BY <1>1, Bookkeeping, PTL

\* Whenever no thread is inside an operation, the counters read without any
\* mutex agree with the pools, and the peak they report is the real one.
THEOREM CountersAgree == Spec => []QuietCounters
<1>1. IInv /\ HighWater /\ Books => QuietCounters
  <2> SUFFICES ASSUME IInv, HighWater, Books,
                      \A t \in Threads : pc[t] \in {"idle", "lock", "waiting", "timedout", "held", "gc"}
               PROVE  /\ counters.total = Cardinality(PlacesIn(total, Pools))
                      /\ counters.available = Cardinality(IdleIn(available, Pools))
                      /\ counters.in_use = counters.total - counters.available
                      /\ counters.peak = highWater
    BY DEF QuietCounters
  <2>1. Published1 = Pools /\ Published2 = Pools
    <3>1. At({"warm1"}) = {} /\ At({"warm1", "warm2"}) = {}
        BY DEF At
    <3> QED BY <3>1 DEF Published1, Published2
  <2>2. At({"return1"}) = {} /\ At({"reuse"}) = {} /\ At({"grow"}) = {}
    BY DEF At
  <2>3. Count({"return1"}) = 0 /\ Count({"reuse"}) = 0 /\ Count({"grow"}) = 0
    BY <2>2, FS_EmptySet DEF Count
  <2>4. At({"peak", "held", "return1", "return2"}) = At({"reuse", "borrow", "peak", "held"})
    BY DEF At
  <2>5. Count({"peak", "held", "return1", "return2"}) = Count({"reuse", "borrow", "peak", "held"})
    BY <2>4 DEF Count
  <2>6. \A S : Count(S) \in Nat
    BY CountType
  <2>7. Cardinality(IdleIn(available, Pools)) \in Nat
    BY IdleFinite
  <2>8. counters.available \in Int /\ counters.total \in Int
    BY DEF IInv, TypeOK
  <2>9. /\ counters.in_use = Count({"peak", "held", "return1", "return2"})
        /\ counters.available + 0 = Cardinality(IdleIn(available, Pools)) + 0
        /\ counters.total =
             Cardinality(IdleIn(available, Pools)) + Count({"reuse", "borrow", "peak", "held"})
        /\ counters.total + 0 = Cardinality(PlacesIn(total, Pools))
    BY <2>1, <2>3 DEF Books
  <2>10. counters.peak = highWater
    BY DEF HighWater
  <2> QED BY <2>5, <2>6, <2>7, <2>8, <2>9, <2>10, SMTT(60)
<1> QED BY <1>1, Bookkeeping, PTL

=============================================================================
