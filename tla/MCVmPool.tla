------------------------------ MODULE MCVmPool ------------------------------
\* Instances of VmPool: p1 starts with one VM, p2 with none.
EXTENDS VmPool

CONSTANTS p1, p2

MinSizes == [p \in Pools |-> IF p = p1 THEN 1 ELSE 0]
=============================================================================
