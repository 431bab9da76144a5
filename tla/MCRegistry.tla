----------------------------- MODULE MCRegistry -----------------------------
\* Instances of Registry: p1 and p2 share a Unix socket, p3 and p4 a TCP port,
\* the cleanup is configured with the socket.  p2 and p4 are of another
\* version; p3 has the process id of p1.
EXTENDS Registry

CONSTANTS p1, p2, p3, p4, c1, v1, v2, k1, k2, k3, e1, e2

TwoEndpoints == [a \in Actors |-> IF a \in {p3, p4} THEN e2 ELSE e1]
Versions == [p \in Procs |-> IF p \in {p2, p4} THEN v2 ELSE v1]
Pids == [p \in Procs |-> IF p = p2 THEN k2 ELSE IF p = p4 THEN k3 ELSE k1]
=============================================================================
