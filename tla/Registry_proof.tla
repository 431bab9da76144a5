--------------------------- MODULE Registry_proof ---------------------------
(***************************************************************************)
(* Proofs about server registration, for any set of servers and cleanups,  *)
(* of endpoints, versions and process ids, and startups that overlap in    *)
(* any way: a server whose own startup overlapped no other is the only one *)
(* registered, can be reached, and is not killed by the startups after it; *)
(* what a crash leaves behind stops nobody who starts alone.               *)
(***************************************************************************)
EXTENDS Registry, TLAPS

\* A step is for Zenon unless it cites SMT, which it does for arithmetic and records.
USE ZenonT(30)

Points == ScanPoints \cup ClaimPoints \cup BindPoints \cup ServePoints
          \cup {"off", "refused", "kill_failed", "yield_failed", "bind_failed", "dead", "cleaned"}

Owners == Procs \cup {NoProc}

StartPoints == ScanPoints \cup ClaimPoints \cup BindPoints

\* The points at which a startup has found no server that answers.
KillPoints == {"scan_pid", "zombie_wait", "zombie_kill"}

\* The points after it has removed a stale sidecar.
RemovedPoints == {"stale_socket", "recreate"}

\* The points it reaches only when it has found another process.
OtherPoints == {"zombie_wait", "zombie_kill", "zombie_exit", "yield", "yield_connect", "yield_wait"}

TypeOK ==
    /\ pc \in [Actors -> Points]
    /\ seen \in [Actors -> Owners]
    /\ took \in [Procs -> BOOLEAN]
    /\ owner \in Owners
    /\ complete \in BOOLEAN
    /\ sock \in [Endpoints -> Owners]
    /\ cuts \in Nat
    /\ clean \subseteq Procs
    /\ alone \subseteq Procs

\* The points between the creation of the sidecar and its removal.
HoldPoints == {"write", "chmod", "serving", "unlink_socket", "unlink_sidecar"} \cup BindPoints
Holds(p) == pc[p] \in HoldPoints

\* The points at which a process has read the sidecar and acts on it.
ReadPoints == (ScanPoints \ {"scan_read"}) \cup {"claim_probe", "claim_pid", "stale_sidecar", "stale_socket"}

\* The points at which it removes files that are not its own.
RemovePoints == {"orphan", "rm_socket", "rm_sidecar", "stale_sidecar", "stale_socket"}

\* The points before a process creates the sidecar.
BeforePoints == {"off"} \cup ScanPoints \cup (ClaimPoints \ {"write", "chmod"})

\* While a clean process starts nobody else does, and the servers that run
\* are clean.
OneStarting ==
    \A q \in clean : Starting(q) => /\ \A a \in Actors : Starting(a) => a = q
                                    /\ \A r \in Procs : Alive(r) => r \in clean

\* A clean process between creation and removal has the sidecar, with its
\* content once it is written.
HolderOwns == \A p \in clean : Holds(p) => owner = p /\ (pc[p] # "write" => complete)

\* Nobody else is then between creation and removal.
OneHolder == \A p \in Procs, q \in clean : Holds(p) /\ Holds(q) => p = q

\* What a process read is still the one clean process that can have the sidecar.
ReadHolds == \A a \in Actors, q \in clean : pc[a] \in ReadPoints /\ Holds(q) => q = seen[a]

\* Files are removed only when no clean process has the sidecar.
RemovesStale == \A a \in Actors, q \in clean : pc[a] \in RemovePoints => ~Holds(q)

\* A clean process that serves is bound to its endpoint unless its file was deleted.
Bound == \A p \in clean : pc[p] = "serving" /\ cuts = 0 => sock[Endpoint[p]] = p

\* A startup about to kill has found no clean server that can be reached.
NoneReached == \A p \in Procs, q \in clean : pc[p] \in KillPoints => ~Answers(q)

\* Nobody has asked for a takeover before it starts or meets its own name
\* before it has created the sidecar, and a process is looked up only if one
\* was read.
NotYetNamed ==
    \A p \in Procs : /\ pc[p] \in BeforePoints => owner # p /\ seen[p] # p
                     /\ pc[p] = "claim_pid" => seen[p] # NoProc
                     /\ pc[p] = "off" => ~took[p]

\* A port is bound by a process that runs.
PortHeld == \A e \in Endpoints : e \notin UnixEndpoints /\ sock[e] # NoProc => pc[sock[e]] \in ServePoints

\* A process that starts alone finds nobody, and what it removed stays removed.
StartsAlone ==
    \A p \in alone : Starting(p) =>
        /\ p \in clean
        /\ \A b \in Actors : Alive(b) => b = p
        /\ pc[p] \notin OtherPoints /\ ~took[p]
        /\ pc[p] \in RemovedPoints => owner = NoProc

IInv ==
    /\ TypeOK /\ OneStarting /\ HolderOwns /\ OneHolder /\ ReadHolds /\ RemovesStale
    /\ Bound /\ NoneReached /\ NotYetNamed /\ PortHeld /\ StartsAlone

-----------------------------------------------------------------------------
USE RegistryAssumption DEF Actors, Owners, Starting, Holds

LEMMA PointFacts ==
    /\ StartPoints = ScanPoints \cup ClaimPoints \cup BindPoints
    /\ ReadPoints \subseteq StartPoints
    /\ RemovePoints \subseteq StartPoints
    /\ KillPoints \subseteq StartPoints
    /\ RemovedPoints \subseteq StartPoints
    /\ StartPoints \subseteq Points
    /\ StartPoints \cap ServePoints = {}
    /\ HoldPoints \cap ReadPoints = {}
    /\ HoldPoints \cap RemovePoints = {}
    /\ HoldPoints \cap BeforePoints = {}
    /\ HoldPoints \cap RemovedPoints = {}
    /\ HoldPoints \subseteq StartPoints \cup ServePoints
    /\ "serving" \in HoldPoints \ StartPoints
    /\ "dead" \in Points /\ "dead" \notin StartPoints \cup HoldPoints \cup BeforePoints \cup ServePoints
BY DEF StartPoints, ScanPoints, ClaimPoints, BindPoints, ServePoints, ReadPoints, RemovePoints, KillPoints,
       RemovedPoints, HoldPoints, BeforePoints, Points

LEMMA EndpointType == ASSUME NEW a \in Actors PROVE Endpoint[a] \in Endpoints
BY DEF Endpoints

\* A step of a, which runs, that takes it to the point l; others stay, or die
\* if they do not serve yet.
Moves(a, l) ==
    /\ Alive(a)
    /\ l \in Points \ {"off"}
    /\ pc' \in [Actors -> Points]
    /\ pc'[a] = l
    /\ \A b \in Actors : b # a => pc'[b] = pc[b] \/ (pc'[b] = "dead" /\ pc[b] \notin ServePoints)
    /\ seen' \in [Actors -> Owners]
    /\ \A b \in Actors : b # a => seen'[b] = seen[b]
    /\ took' \in [Procs -> BOOLEAN]
    /\ \A b \in Procs : b # a => took'[b] = took[b]
    /\ clean' = clean /\ alone' = alone

\* What the step owes the others.
SparesOthers(a) ==
    /\ owner' \in Owners /\ owner' \in {owner, NoProc, a}
    /\ complete' \in BOOLEAN
    /\ \A q \in clean : q # a /\ Holds(q) => owner' = q /\ (complete => complete')
    /\ sock' \in [Endpoints -> Owners]
    /\ \A q \in clean : q # a /\ pc[q] = "serving" => (sock'[Endpoint[q]] = q <=> sock[Endpoint[q]] = q)
    /\ \A e \in Endpoints : sock'[e] \in {NoProc, sock[e], a}
    /\ cuts' = cuts

\* What the new point asks of the step.
Entitled(a, l) ==
    /\ l \in StartPoints => Starting(a)
    /\ l \in HoldPoints => /\ a \in Procs /\ (a \in clean => owner' = a /\ (l # "write" => complete'))
                           /\ Holds(a) \/ (Starting(a) /\ owner = NoProc)
    /\ l \in ReadPoints => \A q \in clean : q # a /\ Holds(q) => q = seen'[a]
    /\ l \in RemovePoints => \A q \in clean : q # a => ~Holds(q)
    /\ l = "serving" => Starting(a) /\ sock'[Endpoint[a]] = a
    /\ a \in Procs /\ l \in KillPoints => \A q \in clean : q # a => ~Answers(q)
    /\ a \in Procs /\ l \in BeforePoints => owner' # a /\ seen'[a] # a
    /\ l = "claim_pid" => seen'[a] # NoProc
    /\ \A e \in Endpoints : e \notin UnixEndpoints /\ sock'[e] = a => l \in ServePoints
    /\ a \in alone /\ l \in StartPoints => /\ l \notin OtherPoints /\ ~took'[a]
                                           /\ l \in RemovedPoints => owner' = NoProc

LEMMA StepOK ==
    ASSUME IInv, NEW a \in Actors, NEW l, Moves(a, l), SparesOthers(a), Entitled(a, l)
    PROVE  IInv'
<1> USE PointFacts
<1>1. TypeOK'
    BY DEF IInv, TypeOK, Moves, SparesOthers
<1>2. /\ clean' = clean /\ alone' = alone /\ clean \subseteq Procs /\ alone \subseteq Procs
      /\ \A b \in Actors : b # a => /\ pc'[b] = pc[b] \/ (pc'[b] = "dead" /\ pc[b] \notin ServePoints)
                                    /\ seen'[b] = seen[b]
    BY DEF Moves, IInv, TypeOK
<1>3. pc'[a] = l /\ l \in Points /\ l # "off" /\ pc[a] \in StartPoints \cup ServePoints
    BY DEF Moves, Alive
<1>4. ASSUME NEW q \in clean, pc[q] \in StartPoints
      PROVE  /\ \A b \in Actors : pc[b] \in StartPoints => b = q
             /\ \A r \in Procs : pc[r] \in StartPoints \cup ServePoints => r \in clean
    BY <1>4 DEF IInv, OneStarting, Alive
<1>5. l \in StartPoints => pc[a] \in StartPoints
    BY DEF Entitled
<1>5a. \A b \in Actors : /\ pc'[b] \in StartPoints => pc[b] \in StartPoints
                         /\ pc'[b] \in StartPoints \cup ServePoints => pc[b] \in StartPoints \cup ServePoints
    BY <1>2, <1>3, <1>5
<1>6. OneStarting'
  <2>1. ASSUME NEW q \in clean, pc'[q] \in StartPoints
        PROVE  /\ \A b \in Actors : pc'[b] \in StartPoints => b = q
               /\ \A r \in Procs : pc'[r] \in StartPoints \cup ServePoints => r \in clean
    <3>1. pc[q] \in StartPoints
      BY <1>2, <1>5a, <2>1
    <3> QED BY <1>4, <1>5a, <3>1
  <2> QED BY <1>2, <2>1 DEF OneStarting, Alive
<1>7. HolderOwns'
  <2>1. ASSUME NEW q \in clean, pc'[q] \in HoldPoints
        PROVE  owner' = q /\ (pc'[q] # "write" => complete')
    <3>1. CASE q = a
      BY <1>3, <2>1, <3>1 DEF Entitled
    <3>2. CASE q # a
      <4>1. pc'[q] = pc[q]
        BY <1>2, <2>1, <3>2
      <4> QED BY <2>1, <3>2, <4>1 DEF IInv, HolderOwns, SparesOthers
    <3> QED BY <3>1, <3>2
  <2> QED BY <1>2, <2>1 DEF HolderOwns
<1>7a. OneHolder'
  <2>1. ASSUME NEW p \in Procs, NEW q \in clean, pc'[p] \in HoldPoints, pc'[q] \in HoldPoints
        PROVE  p = q
    <3>1. SUFFICES ASSUME p # q PROVE FALSE
      OBVIOUS
    <3>2. CASE p # a /\ q # a
      <4>1. pc[p] \in HoldPoints /\ pc[q] \in HoldPoints
        BY <1>2, <2>1, <3>2
      <4> QED BY <3>1, <4>1 DEF IInv, OneHolder
    <3>3. CASE p = a
      <4>1. l \in HoldPoints /\ pc[q] \in HoldPoints
        BY <1>2, <1>3, <2>1, <3>1, <3>3
      <4>2. owner = q /\ q # NoProc
        BY <1>2, <4>1 DEF IInv, HolderOwns
      <4>3. pc[a] \in HoldPoints
        BY <4>1, <4>2 DEF Entitled
      <4> QED BY <3>1, <3>3, <4>1, <4>3 DEF IInv, OneHolder
    <3>4. CASE q = a
      <4>1. l \in HoldPoints /\ pc[p] \in HoldPoints
        BY <1>2, <1>3, <2>1, <3>1, <3>4
      <4>2. CASE pc[a] \in HoldPoints
        BY <2>1, <3>1, <3>4, <4>1, <4>2 DEF IInv, OneHolder
      <4>3. CASE pc[a] \in StartPoints /\ owner = NoProc
        <5>1. p \in clean
          BY <1>4, <2>1, <3>4, <4>1, <4>3
        <5>2. owner = p
          BY <4>1, <5>1 DEF IInv, HolderOwns
        <5> QED BY <4>3, <5>2
      <4> QED BY <4>1, <4>2, <4>3 DEF Entitled
    <3> QED BY <3>2, <3>3, <3>4
  <2> QED BY <1>2, <2>1 DEF OneHolder
\* A clean process is not between creation and removal for the first time
\* while another one starts.
<1>7b. ASSUME NEW b \in Actors, b # a, pc[b] \in StartPoints, NEW q \in clean, pc'[q] \in HoldPoints
       PROVE  pc[q] \in HoldPoints
  <2>1. CASE q = a
    <3>1. l \in HoldPoints
      BY <1>3, <1>7b, <2>1
    <3>2. pc[a] \notin StartPoints
      BY <1>4, <1>7b, <2>1
    <3> QED BY <2>1, <3>1, <3>2 DEF Entitled
  <2>2. CASE q # a
    BY <1>2, <1>7b, <2>2
  <2> QED BY <2>1, <2>2
<1>8. ReadHolds'
  <2>1. ASSUME NEW b \in Actors, NEW q \in clean, pc'[b] \in ReadPoints, pc'[q] \in HoldPoints
        PROVE  q = seen'[b]
    <3>1. CASE b = a
      <4>1. q # a
        BY <2>1, <3>1
      <4>2. pc'[q] = pc[q]
        BY <1>2, <2>1, <4>1
      <4> QED BY <1>3, <2>1, <3>1, <4>1, <4>2 DEF Entitled
    <3>2. CASE b # a
      <4>1. pc[b] \in ReadPoints /\ seen'[b] = seen[b]
        BY <1>2, <2>1, <3>2
      <4>2. pc[q] \in HoldPoints
        BY <1>7b, <2>1, <3>2, <4>1
      <4> QED BY <4>1, <4>2 DEF IInv, ReadHolds
    <3> QED BY <3>1, <3>2
  <2> QED BY <1>2, <2>1 DEF ReadHolds
<1>9. RemovesStale'
  <2>1. ASSUME NEW b \in Actors, NEW q \in clean, pc'[b] \in RemovePoints, pc'[q] \in HoldPoints
        PROVE  FALSE
    <3>1. CASE b = a
      <4>1. q # a
        BY <2>1, <3>1
      <4>2. pc'[q] = pc[q]
        BY <1>2, <2>1, <4>1
      <4> QED BY <1>3, <2>1, <3>1, <4>1, <4>2 DEF Entitled
    <3>2. CASE b # a
      <4>1. pc[b] \in RemovePoints
        BY <1>2, <2>1, <3>2
      <4>2. pc[q] \in HoldPoints
        BY <1>7b, <2>1, <3>2, <4>1
      <4> QED BY <4>1, <4>2 DEF IInv, RemovesStale
    <3> QED BY <3>1, <3>2
  <2> QED BY <1>2, <2>1 DEF RemovesStale
<1>10. Bound'
  <2>1. ASSUME NEW q \in clean, pc'[q] = "serving", cuts' = 0 PROVE sock'[Endpoint[q]] = q
    <3>1. CASE q = a
      BY <1>3, <2>1, <3>1 DEF Entitled
    <3>2. CASE q # a
      <4>1. pc[q] = "serving" /\ cuts = 0
        BY <1>2, <2>1, <3>2 DEF SparesOthers
      <4>2. sock[Endpoint[q]] = q
        BY <4>1 DEF IInv, Bound
      <4> QED BY <3>2, <4>1, <4>2 DEF SparesOthers
    <3> QED BY <3>1, <3>2
  <2> QED BY <1>2, <2>1 DEF Bound
<1>11. NoneReached'
  <2>1. ASSUME NEW p \in Procs, NEW q \in clean, pc'[p] \in KillPoints, pc'[q] = "serving"
        PROVE  sock'[Endpoint[q]] # q
    <3>1. CASE q = a
      <4>1. p # a /\ pc[a] \in StartPoints
        BY <1>3, <2>1, <3>1 DEF Entitled
      <4>2. pc[p] \in StartPoints
        BY <1>2, <2>1, <4>1
      <4> QED BY <1>4, <3>1, <4>1, <4>2
    <3>2. CASE q # a
      <4>1. pc[q] = "serving"
        BY <1>2, <2>1, <3>2
      <4>2. sock[Endpoint[q]] # q
        <5>1. CASE p = a
          BY <1>3, <2>1, <3>2, <4>1, <5>1 DEF Entitled, Answers
        <5>2. CASE p # a
          <6>1. pc[p] \in KillPoints
            BY <1>2, <2>1, <5>2
          <6> QED BY <4>1, <6>1 DEF IInv, NoneReached, Answers
        <5> QED BY <5>1, <5>2
      <4> QED BY <3>2, <4>1, <4>2 DEF SparesOthers
    <3> QED BY <3>1, <3>2
  <2> QED BY <1>2, <2>1 DEF NoneReached, Answers
<1>12. NotYetNamed'
  <2>1. ASSUME NEW p \in Procs, pc'[p] = "claim_pid" PROVE seen'[p] # NoProc
    <3>1. CASE p = a
      BY <1>3, <2>1, <3>1 DEF Entitled
    <3>2. CASE p # a
      <4>1. pc[p] = "claim_pid" /\ seen'[p] = seen[p]
        BY <1>2, <2>1, <3>2
      <4> QED BY <4>1 DEF IInv, NotYetNamed
    <3> QED BY <3>1, <3>2
  <2>2. ASSUME NEW p \in Procs, pc'[p] \in BeforePoints PROVE owner' # p /\ seen'[p] # p
    <3>1. CASE p = a
      BY <1>3, <2>2, <3>1 DEF Entitled
    <3>2. CASE p # a
      <4>1. pc[p] \in BeforePoints /\ seen'[p] = seen[p]
        BY <1>2, <2>2, <3>2
      <4>2. owner # p /\ seen[p] # p
        BY <4>1 DEF IInv, NotYetNamed
      <4>3. owner' # p
        BY <3>2, <4>2, SMTT(60) DEF SparesOthers
      <4> QED BY <4>1, <4>2, <4>3
    <3> QED BY <3>1, <3>2
  <2>3. ASSUME NEW p \in Procs, pc'[p] = "off" PROVE ~took'[p]
    <3>1. p # a /\ pc[p] = "off"
      BY <1>2, <1>3, <2>3
    <3>2. took'[p] = took[p]
      BY <3>1 DEF Moves
    <3> QED BY <3>1, <3>2 DEF IInv, NotYetNamed
  <2> QED BY <2>1, <2>2, <2>3 DEF NotYetNamed
<1>13. PortHeld'
  <2>1. ASSUME NEW e \in Endpoints, e \notin UnixEndpoints, sock'[e] # NoProc
        PROVE  pc'[sock'[e]] \in ServePoints
    <3>1. CASE sock'[e] = a
      BY <1>3, <2>1, <3>1 DEF Entitled
    <3>2. CASE sock'[e] # a
      <4>1. sock'[e] = sock[e]
        BY <2>1, <3>2 DEF SparesOthers
      <4>2. sock[e] \in Actors /\ pc[sock[e]] \in ServePoints
        BY <2>1, <4>1 DEF IInv, TypeOK, PortHeld
      <4>3. \A b \in Actors : b # a /\ pc[b] \in ServePoints => pc'[b] = pc[b]
        BY <1>2
      <4>4. pc'[sock[e]] = pc[sock[e]]
        BY <3>2, <4>1, <4>2, <4>3
      <4> QED BY <4>1, <4>2, <4>4
    <3> QED BY <3>1, <3>2
  <2> QED BY <2>1 DEF PortHeld
<1>14. StartsAlone'
  <2>1. ASSUME NEW p \in alone, pc'[p] \in StartPoints
        PROVE  /\ p \in clean
               /\ \A b \in Actors : pc'[b] \in StartPoints \cup ServePoints => b = p
               /\ pc'[p] \notin OtherPoints /\ ~took'[p]
               /\ pc'[p] \in RemovedPoints => owner' = NoProc
    <3>1. p \in Procs /\ pc[p] \in StartPoints
      BY <1>2, <1>5a, <2>1
    <3>2. p \in clean /\ \A b \in Actors : pc[b] \in StartPoints \cup ServePoints => b = p
      BY <2>1, <3>1 DEF IInv, StartsAlone, Alive
    <3>3. p = a
      BY <1>3, <3>2
    <3>4. /\ l \notin OtherPoints /\ ~took'[a]
          /\ l \in RemovedPoints => owner' = NoProc
      BY <1>3, <2>1, <3>3 DEF Entitled
    <3> QED BY <1>3, <1>5a, <3>2, <3>3, <3>4
  <2> QED BY <1>2, <2>1 DEF StartsAlone, Alive
<1> QED BY <1>1, <1>6, <1>7, <1>7a, <1>8, <1>9, <1>10, <1>11, <1>12, <1>13, <1>14 DEF IInv

LEMMA GotoMoves ==
    ASSUME IInv, NEW a \in Actors, Alive(a), NEW l \in Points \ {"off"}, Goto(a, l), UNCHANGED <<seen, took, history>>
    PROVE  Moves(a, l)
BY DEF IInv, TypeOK, Goto, Moves, history

LEMMA FilesKept ==
    ASSUME IInv, NEW a \in Actors, UNCHANGED <<files, cuts>>
    PROVE  SparesOthers(a)
<1>1. owner' = owner /\ complete' = complete /\ sock' = sock /\ cuts' = cuts
    BY DEF files
<1> QED BY <1>1 DEF IInv, TypeOK, HolderOwns, SparesOthers

\* A step that only goes from one point to another.
LEMMA GotoOK ==
    ASSUME IInv, NEW a \in Actors, Alive(a), NEW l \in Points \ {"off"}, Goto(a, l),
           UNCHANGED <<seen, took, files, cuts, history>>, Entitled(a, l)
    PROVE  IInv'
BY GotoMoves, FilesKept, StepOK

\* No port is bound by a process that does not serve.
LEMMA NoPort ==
    ASSUME IInv, NEW a \in Actors, pc[a] \notin ServePoints
    PROVE  \A e \in Endpoints : e \notin UnixEndpoints => sock[e] # a
<1>1. SUFFICES ASSUME NEW e \in Endpoints, e \notin UnixEndpoints, sock[e] = a PROVE FALSE
    OBVIOUS
<1>2. sock[e] # NoProc
    BY <1>1
<1> QED BY <1>1, <1>2 DEF IInv, PortHeld

\* A process that starts alone meets no server and no other process.
LEMMA AloneMeets ==
    ASSUME IInv, NEW p \in alone, Starting(p)
    PROVE  /\ p \in clean /\ pc[p] \notin OtherPoints /\ ~took[p]
           /\ \A e \in Endpoints : ~Listening(e)
           /\ \A q \in Procs : q # p => ~SameProcess(q)
<1>1. /\ p \in clean /\ pc[p] \notin OtherPoints /\ ~took[p]
      /\ \A b \in Actors : Alive(b) => b = p
    BY DEF IInv, StartsAlone
<1>2. ASSUME NEW e \in Endpoints, Listening(e) PROVE FALSE
  <2>1. sock[e] \in Procs /\ pc[sock[e]] \in ServePoints
    BY <1>2 DEF Listening, IInv, TypeOK
  <2>2. sock[e] = p
    BY <1>1, <2>1 DEF Alive
  <2> QED BY <2>1, <2>2, PointFacts
<1>3. \A q \in Procs : q # p => ~SameProcess(q)
    BY <1>1 DEF SameProcess
<1> QED BY <1>1, <1>2, <1>3

LEMMA ProbedType == ASSUME IInv, NEW a \in Actors PROVE Probed(a) \in Endpoints
<1>1. seen[a] \in Owners
    BY DEF IInv, TypeOK
<1> QED BY <1>1, EndpointType DEF Probed

USE DEF StartPoints, ScanPoints, ClaimPoints, BindPoints, ServePoints, ReadPoints, RemovePoints,
        KillPoints, RemovedPoints, OtherPoints, HoldPoints, BeforePoints, Points

\* What a step of a process that is starting leaves as it was when it touches
\* no file.
Unaltered(a) ==
    /\ owner' = owner /\ complete' = complete
    /\ a \in Procs /\ pc[a] \in BeforePoints => owner' # a
    /\ \A e \in Endpoints : e \notin UnixEndpoints => sock'[e] # a
    /\ a \in alone => ~took'[a]

LEMMA KeepsFiles ==
    ASSUME IInv, NEW a \in Actors, Starting(a), UNCHANGED <<files, took>>
    PROVE  Unaltered(a)
<1>1. owner' = owner /\ complete' = complete /\ sock' = sock /\ took' = took
    BY DEF files
<1>2. \A e \in Endpoints : e \notin UnixEndpoints => sock'[e] # a
    BY <1>1, NoPort
<1>3. a \in Procs /\ pc[a] \in BeforePoints => owner' # a
    BY <1>1 DEF IInv, NotYetNamed
<1>4. a \in alone => ~took'[a]
    BY <1>1, AloneMeets
<1> QED BY <1>1, <1>2, <1>3, <1>4 DEF Unaltered

\* A process that reads the sidecar reads which clean process has it.
LEMMA ReadIdentityReads ==
    ASSUME IInv, NEW a \in Actors, pc[a] \in {"scan_read", "claim_read", "yield"}, ReadIdentity(a)
    PROVE  /\ seen' \in [Actors -> Owners]
           /\ \A b \in Actors : b # a => seen'[b] = seen[b]
           /\ \A q \in clean : Holds(q) => q = seen'[a]
           /\ a \in Procs => seen'[a] # a
<1>1. seen' \in [Actors -> Owners] /\ seen'[a] = (IF complete THEN owner ELSE NoProc)
      /\ \A b \in Actors : b # a => seen'[b] = seen[b]
    BY DEF IInv, TypeOK, ReadIdentity
<1>2. ASSUME NEW q \in clean, Holds(q) PROVE owner = q /\ complete
  <2>1. pc[q] # "write"
    BY DEF IInv, OneStarting
  <2> QED BY <1>2, <2>1 DEF IInv, HolderOwns
<1>3. a \in Procs => owner # a
    BY DEF IInv, NotYetNamed
<1>4. a \in Procs => a # NoProc
    OBVIOUS
<1> QED BY <1>1, <1>2, <1>3, <1>4

\* A process starts: those that serve and were clean remain clean, and it is
\* clean itself when nobody disturbs it.
LEMMA StartOK == ASSUME IInv, NEW a \in Actors, Start(a) PROVE IInv'
<1>1. /\ pc[a] = "off" /\ pc' = [pc EXCEPT ![a] = "scan_read"]
      /\ clean' = {q \in clean : pc[q] \in ServePoints} \cup (IF Undisturbed THEN {a} \cap Procs ELSE {})
      /\ alone' = IF \A b \in Actors : ~Alive(b) THEN {a} \cap Procs ELSE {}
      /\ seen' = seen /\ took' = took /\ owner' = owner /\ complete' = complete /\ sock' = sock /\ cuts' = cuts
    BY DEF Start, Goto, files
<1>2. pc' \in [Actors -> Points] /\ pc'[a] = "scan_read" /\ \A b \in Actors : b # a => pc'[b] = pc[b]
    BY <1>1 DEF IInv, TypeOK
<1>3. /\ \A q \in clean' : q # a => q \in clean /\ pc[q] \in ServePoints /\ pc'[q] = pc[q]
      /\ a \in clean' => /\ \A b \in Actors : pc[b] \notin StartPoints
                         /\ \A q \in Procs : Alive(q) => q \in clean
  <2>1. clean \subseteq Procs
    BY DEF IInv, TypeOK
  <2>2. ASSUME NEW q \in clean', q # a PROVE q \in clean /\ pc[q] \in ServePoints /\ pc'[q] = pc[q]
    BY <1>1, <1>2, <2>1, <2>2
  <2>3. ASSUME a \in clean' PROVE Undisturbed
    BY <1>1, <2>3
  <2>4. Undisturbed => /\ \A b \in Actors : pc[b] \notin StartPoints
                       /\ \A q \in Procs : Alive(q) => q \in clean
    BY DEF Undisturbed
  <2> QED BY <2>2, <2>3, <2>4
<1>4. TypeOK'
  <2>1. clean' \subseteq Procs /\ alone' \subseteq Procs
    BY <1>1 DEF IInv, TypeOK
  <2> QED BY <1>1, <1>2, <2>1 DEF IInv, TypeOK
<1>5. OneStarting'
  <2>1. ASSUME NEW q \in clean', pc'[q] \in StartPoints
        PROVE  /\ \A b \in Actors : pc'[b] \in StartPoints => b = q
               /\ \A r \in Procs : pc'[r] \in StartPoints \cup ServePoints => r \in clean'
    <3>1. q = a
      BY <1>3, <2>1
    <3>2. \A b \in Actors : pc'[b] \in StartPoints => b = q
      BY <1>2, <1>3, <2>1, <3>1
    <3>3. ASSUME NEW r \in Procs, pc'[r] \in StartPoints \cup ServePoints PROVE r \in clean'
      <4>1. CASE r = a
        BY <2>1, <3>1, <4>1
      <4>2. CASE r # a
        <5>1. pc[r] \in ServePoints
          BY <1>2, <1>3, <2>1, <3>1, <3>3, <4>2
        <5>2. r \in clean
          BY <1>3, <2>1, <3>1, <5>1 DEF Alive
        <5> QED BY <1>1, <5>1, <5>2
      <4> QED BY <4>1, <4>2
    <3> QED BY <3>2, <3>3
  <2> QED BY <2>1 DEF OneStarting, Alive
<1>6. \A q \in clean' : pc'[q] \in HoldPoints => q # a /\ q \in clean /\ pc[q] \in HoldPoints /\ pc'[q] = pc[q]
    BY <1>2, <1>3
<1>7. HolderOwns'
    BY <1>1, <1>6 DEF IInv, HolderOwns
<1>8. OneHolder'
  <2>1. ASSUME NEW p \in Procs, NEW q \in clean', pc'[p] \in HoldPoints, pc'[q] \in HoldPoints PROVE p = q
    <3>1. p # a /\ pc[p] \in HoldPoints
      BY <1>2, <2>1
    <3> QED BY <1>6, <2>1, <3>1 DEF IInv, OneHolder
  <2> QED BY <2>1 DEF OneHolder
<1>9. ReadHolds' /\ RemovesStale'
  <2>1. \A b \in Actors : pc'[b] \in ReadPoints \cup RemovePoints => pc[b] = pc'[b]
    BY <1>2
  <2>2. ReadHolds'
    BY <1>1, <1>6, <2>1 DEF IInv, ReadHolds
  <2>3. RemovesStale'
    BY <1>1, <1>6, <2>1 DEF IInv, RemovesStale
  <2> QED BY <2>2, <2>3
<1>10. Bound'
    BY <1>1, <1>6 DEF IInv, Bound
<1>11. NoneReached'
  <2>1. ASSUME NEW p \in Procs, NEW q \in clean', pc'[p] \in KillPoints, pc'[q] = "serving"
        PROVE  sock'[Endpoint[q]] # q
    <3>1. pc[p] \in KillPoints /\ q \in clean /\ pc[q] = "serving"
      BY <1>2, <1>6, <2>1
    <3> QED BY <1>1, <3>1 DEF IInv, NoneReached, Answers
  <2> QED BY <2>1 DEF NoneReached, Answers
<1>12. NotYetNamed'
    BY <1>1, <1>2 DEF IInv, NotYetNamed
<1>13. PortHeld'
  <2>1. ASSUME NEW e \in Endpoints, e \notin UnixEndpoints, sock[e] # NoProc PROVE pc'[sock[e]] \in ServePoints
    <3>1. sock[e] \in Actors /\ pc[sock[e]] \in ServePoints
      BY <2>1 DEF IInv, TypeOK, PortHeld
    <3> QED BY <1>1, <1>2, <3>1
  <2> QED BY <1>1, <2>1 DEF PortHeld
<1>14. StartsAlone'
  <2>1. ASSUME NEW p \in alone', pc'[p] \in StartPoints
        PROVE  /\ p \in clean'
               /\ \A b \in Actors : pc'[b] \in StartPoints \cup ServePoints => b = p
               /\ pc'[p] \notin OtherPoints /\ ~took'[p]
               /\ pc'[p] \in RemovedPoints => owner' = NoProc
    <3>1. p = a /\ a \in Procs /\ \A b \in Actors : ~Alive(b)
      BY <1>1, <2>1
    <3>2. Undisturbed
      BY <3>1 DEF Undisturbed, Alive
    <3>3. \A b \in Actors : pc'[b] \in StartPoints \cup ServePoints => b = p
      BY <1>2, <3>1 DEF Alive
    <3>4. ~took[a]
      BY <1>1, <3>1 DEF IInv, NotYetNamed
    <3> QED BY <1>1, <1>2, <3>1, <3>2, <3>3, <3>4
  <2> QED BY <2>1 DEF StartsAlone, Alive
<1> QED BY <1>4, <1>5, <1>7, <1>8, <1>9, <1>10, <1>11, <1>12, <1>13, <1>14 DEF IInv

LEMMA ScanReadOK == ASSUME IInv, NEW a \in Actors, ScanRead(a) PROVE IInv'
<1>0. pc[a] = "scan_read" /\ ReadIdentity(a) /\ Goto(a, "scan_exists") /\ UNCHANGED <<took, files, cuts, history>>
    BY DEF ScanRead
<1>u. Unaltered(a)
    BY <1>0, KeepsFiles
<1>1. Moves(a, "scan_exists")
    BY <1>0, ReadIdentityReads DEF IInv, TypeOK, Goto, Moves, Alive, history
<1>2. SparesOthers(a)
    BY <1>0, FilesKept
<1>3. Entitled(a, "scan_exists")
    BY <1>0, ReadIdentityReads, <1>u DEF Entitled, Unaltered
<1> QED BY <1>1, <1>2, <1>3, StepOK

LEMMA ScanExistsOK == ASSUME IInv, NEW a \in Actors, ScanExists(a) PROVE IInv'
<1>0. pc[a] = "scan_exists" /\ Goto(a, "scan_probe") /\ UNCHANGED <<seen, took, files, cuts, history>>
      /\ UNCHANGED seen
    BY DEF ScanExists
<1>u. Unaltered(a)
    BY <1>0, KeepsFiles
<1>1. Entitled(a, "scan_probe")
    BY <1>0, <1>u DEF Entitled, Unaltered, IInv, ReadHolds, NotYetNamed
<1> QED BY <1>0, <1>1, GotoOK DEF Alive

\* An endpoint that does not answer is no clean server's.
LEMMA NotReached ==
    ASSUME IInv, NEW a \in Actors, pc[a] \in ReadPoints, ~Listening(Probed(a)), NEW q \in clean
    PROVE  ~Answers(q)
<1>1. SUFFICES ASSUME pc[q] = "serving" PROVE sock[Endpoint[q]] # q
    BY DEF Answers
<1>2. q = seen[a] /\ q # NoProc
    BY <1>1 DEF IInv, ReadHolds, TypeOK
<1>3. Probed(a) = Endpoint[q]
    BY <1>2 DEF Probed
<1> QED BY <1>1, <1>2, <1>3 DEF Listening

LEMMA ScanProbeOK == ASSUME IInv, NEW a \in Actors, ScanProbe(a) PROVE IInv'
<1>0. /\ pc[a] = "scan_probe" /\ UNCHANGED <<seen, took, files, cuts, history>> /\ UNCHANGED seen
      /\ a \in Procs => seen[a] # a
      /\ \A q \in clean : Holds(q) => q = seen[a]
    BY DEF ScanProbe, IInv, NotYetNamed, ReadHolds
<1>u. Unaltered(a)
    BY <1>0, KeepsFiles
<1>1. CASE Goto(a, "create") /\ a \in Procs
  <2>1. Entitled(a, "create")
    BY <1>0, <1>u DEF Entitled, Unaltered
  <2> QED BY <1>0, <1>1, <2>1, GotoOK DEF Alive
<1>2. CASE Goto(a, "zombie_kill") /\ a \in Cleaners
  <2>1. a \notin Procs /\ a \notin alone
    BY <1>2 DEF IInv, TypeOK
  <2>2. Entitled(a, "zombie_kill")
    BY <1>0, <2>1, <1>u DEF Entitled, Unaltered
  <2> QED BY <1>0, <1>2, <2>2, GotoOK DEF Alive
<1>3. CASE Goto(a, "refused")
  <2>1. Entitled(a, "refused")
    BY <1>0, <1>u DEF Entitled, Unaltered
  <2> QED BY <1>0, <1>3, <2>1, GotoOK DEF Alive
<1>4. CASE ~Listening(Probed(a)) /\ Goto(a, "scan_pid")
  <2>1. Entitled(a, "scan_pid")
    BY <1>0, <1>4, NotReached, <1>u DEF Entitled, Unaltered
  <2> QED BY <1>0, <1>4, <2>1, GotoOK DEF Alive
<1> QED BY <1>1, <1>2, <1>3, <1>4 DEF ScanProbe

\* A process that has read the sidecar and found its process gone, or none,
\* may remove the files.
LEMMA GoneHoldsNot ==
    ASSUME IInv, NEW a \in Actors, pc[a] \in ReadPoints, seen[a] \in Procs => ~SameProcess(seen[a])
    PROVE  \A q \in clean : ~Holds(q)
<1>1. SUFFICES ASSUME NEW q \in clean, Holds(q) PROVE FALSE
    OBVIOUS
<1>2. q = seen[a] /\ q \in Procs
    BY <1>1 DEF IInv, ReadHolds, TypeOK
<1>3. Alive(q)
    BY <1>1 DEF Alive
<1> QED BY <1>2, <1>3 DEF SameProcess, PidAlive

LEMMA ScanDecideOK == ASSUME IInv, NEW a \in Actors, ScanDecide(a) PROVE IInv'
<1>0. /\ pc[a] = "scan_pid" /\ UNCHANGED <<seen, took, files, cuts, history>> /\ UNCHANGED seen
      /\ seen[a] \in Owners
    BY DEF ScanDecide, IInv, TypeOK
<1>u. Unaltered(a)
    BY <1>0, KeepsFiles
<1>1. /\ \A q \in clean : Holds(q) => q = seen[a]
      /\ a \in Procs => seen[a] # a
      /\ a \in Procs => \A q \in clean : ~Answers(q)
    BY <1>0 DEF IInv, ReadHolds, NotYetNamed, NoneReached
<1>2. CASE Decide(a, FALSE) = "none" /\ Goto(a, "orphan")
  <2>1. seen[a] = NoProc
    BY <1>2 DEF Decide
  <2>2. \A q \in clean : ~Holds(q)
    BY <1>0, <2>1, GoneHoldsNot
  <2>3. Entitled(a, "orphan")
    BY <1>0, <1>1, <2>2, <1>u DEF Entitled, Unaltered
  <2> QED BY <1>0, <1>2, <2>3, GotoOK DEF Alive
<1>3. CASE Decide(a, FALSE) = "delete" /\ Goto(a, "rm_socket")
  <2>1. seen[a] \in Procs => ~SameProcess(seen[a])
    BY <1>3 DEF Decide
  <2>2. \A q \in clean : ~Holds(q)
    BY <1>0, <2>1, GoneHoldsNot
  <2>3. Entitled(a, "rm_socket")
    BY <1>0, <1>1, <2>2, <1>u DEF Entitled, Unaltered
  <2> QED BY <1>0, <1>3, <2>3, GotoOK DEF Alive
<1>4. CASE Decide(a, FALSE) = "kill" /\ Goto(a, IF a \in Procs THEN "zombie_wait" ELSE "zombie_kill")
  <2>1. seen[a] \in Procs /\ SameProcess(seen[a])
    BY <1>0, <1>4 DEF Decide
  <2>2. a \notin alone
    BY <1>0, <1>1, <2>1, AloneMeets DEF IInv, TypeOK
  <2>3. PICK l \in {"zombie_wait", "zombie_kill"} : Goto(a, l)
    BY <1>4
  <2>4. Entitled(a, l)
    BY <1>0, <1>1, <2>2, <2>3, <1>u DEF Entitled, Unaltered
  <2> QED BY <1>0, <2>3, <2>4, GotoOK DEF Alive
<1> QED BY <1>2, <1>3, <1>4 DEF ScanDecide

LEMMA UnlinkSocketType ==
    ASSUME IInv, NEW a \in Actors, UnlinkSocket(Endpoint[a])
    PROVE  /\ sock' \in [Endpoints -> Owners]
           /\ \A e \in Endpoints : sock'[e] \in {NoProc, sock[e]}
           /\ \A e \in Endpoints : e \notin UnixEndpoints => sock'[e] = sock[e]
BY EndpointType DEF IInv, TypeOK, UnlinkSocket

LEMMA DoneType == ASSUME NEW a \in Actors PROVE Done(a) \in {"create", "cleaned"} /\ (a \in Cleaners => Done(a) = "cleaned")
BY DEF Done

\* Files are removed that no clean process has.
LEMMA RemovesOK ==
    ASSUME IInv, NEW a \in Actors, pc[a] \in RemovePoints, NEW l \in {"create", "cleaned", "rm_sidecar", "stale_socket", "recreate"},
           a \in Cleaners => l \in {"cleaned", "rm_sidecar"},
           l = "rm_sidecar" => pc[a] \in {"rm_socket"},
           Goto(a, l), UNCHANGED <<seen, took, cuts, history>>,
           owner' \in {owner, NoProc}, complete' \in BOOLEAN,
           a \in alone /\ l \in RemovedPoints => owner' = NoProc,
           sock' \in [Endpoints -> Owners],
           \A e \in Endpoints : sock'[e] \in {NoProc, sock[e]}
    PROVE  IInv'
<1>1. Moves(a, l)
    BY GotoMoves DEF Alive
<1>2. \A q \in clean : ~Holds(q)
    BY DEF IInv, RemovesStale
<1>3. seen' = seen /\ took' = took /\ cuts' = cuts
    OBVIOUS
<1>4. SparesOthers(a)
    BY <1>2, <1>3 DEF IInv, TypeOK, SparesOthers
<1>5. \A e \in Endpoints : e \notin UnixEndpoints => sock'[e] # a
  <2>1. ASSUME NEW e \in Endpoints, e \notin UnixEndpoints PROVE sock'[e] # a
    <3>1. sock[e] # a
      BY <2>1, NoPort
    <3>2. NoProc # a
      OBVIOUS
    <3>3. sock'[e] = NoProc \/ sock'[e] = sock[e]
      OBVIOUS
    <3> QED BY <3>1, <3>2, <3>3
  <2> QED BY <2>1
<1>6. a \in Procs => owner # a /\ NoProc # a /\ seen'[a] # a
    BY <1>3 DEF IInv, NotYetNamed
<1>7. a \in Procs => owner' # a
    BY <1>6
<1>8. a \in alone => ~took'[a]
    BY <1>3, AloneMeets
<1>9. Entitled(a, l)
    BY <1>2, <1>3, <1>5, <1>6, <1>7, <1>8 DEF Entitled
<1> QED BY <1>1, <1>4, <1>9, StepOK

LEMMA ScanOrphanOK == ASSUME IInv, NEW a \in Actors, ScanOrphan(a) PROVE IInv'
<1>0. /\ pc[a] = "orphan" /\ UNCHANGED <<seen, took, cuts, history>> /\ UNCHANGED <<owner, complete>>
      /\ Goto(a, Done(a)) /\ UnlinkSocket(Endpoint[a])
    BY DEF ScanOrphan
<1>1. owner' \in {owner, NoProc} /\ complete' \in BOOLEAN
    BY <1>0 DEF IInv, TypeOK
<1> QED BY <1>0, <1>1, UnlinkSocketType, DoneType, RemovesOK

LEMMA ZombieWaitOK == ASSUME IInv, NEW a \in Actors, ZombieWait(a) PROVE IInv'
<1>0. /\ pc[a] = "zombie_wait" /\ UNCHANGED <<seen, took, files, cuts, history>> /\ UNCHANGED seen
    BY DEF ZombieWait
<1>u. Unaltered(a)
    BY <1>0, KeepsFiles
<1>1. /\ \A q \in clean : Holds(q) => q = seen[a]
      /\ a \in Procs => seen[a] # a
      /\ a \in Procs => \A q \in clean : ~Answers(q)
      /\ a \notin alone
    BY <1>0, AloneMeets DEF IInv, ReadHolds, NotYetNamed, NoneReached
<1>2. Entitled(a, "create") /\ Entitled(a, "zombie_kill")
    BY <1>0, <1>1, <1>u DEF Entitled, Unaltered
<1> QED BY <1>0, <1>2, GotoOK DEF ZombieWait, Alive

LEMMA ZombieKillOK == ASSUME IInv, NEW a \in Actors, ZombieKill(a) PROVE IInv'
<1>0. pc[a] = "zombie_kill" /\ UNCHANGED <<seen, took, files, cuts, history>> /\ UNCHANGED <<seen, took>>
    BY DEF ZombieKill
<1>u. Unaltered(a)
    BY <1>0, KeepsFiles
<1>1. /\ \A q \in clean : Holds(q) => q = seen[a]
      /\ a \in Procs => seen[a] # a
      /\ a \notin alone
    BY <1>0, AloneMeets DEF IInv, ReadHolds, NotYetNamed
<1>2. CASE Goto(a, "kill_failed")
  <2>1. Entitled(a, "kill_failed")
    BY <1>0, <1>1, <1>u DEF Entitled, Unaltered
  <2> QED BY <1>0, <1>2, <2>1, GotoOK DEF Alive
<1>3. CASE pc' = [r \in Actors |-> IF r \in Unprotected(seen[a]) THEN "dead"
                                   ELSE IF r = a THEN "zombie_exit" ELSE pc[r]]
  <2> DEFINE l == IF a \in Unprotected(seen[a]) THEN "dead" ELSE "zombie_exit"
  <2>1. Moves(a, l)
    <3>1. pc' \in [Actors -> Points] /\ pc'[a] = l
      BY <1>3 DEF IInv, TypeOK
    <3>2. ASSUME NEW b \in Actors, b # a
          PROVE  pc'[b] = pc[b] \/ (pc'[b] = "dead" /\ pc[b] \notin ServePoints)
      <4>1. CASE b \in Unprotected(seen[a])
        BY <1>3, <4>1 DEF Unprotected
      <4>2. CASE b \notin Unprotected(seen[a])
        BY <1>3, <3>2, <4>2
      <4> QED BY <4>1, <4>2
    <3>3. /\ seen' \in [Actors -> Owners] /\ took' \in [Procs -> BOOLEAN] /\ Alive(a)
          /\ clean' = clean /\ alone' = alone
      BY <1>0 DEF IInv, TypeOK, Alive, history
    <3>4. l \in Points \ {"off"}
      OBVIOUS
    <3> HIDE DEF l
    <3> QED BY <1>0, <3>1, <3>2, <3>3, <3>4 DEF Moves
  <2>2. Entitled(a, l)
    <3>1. l \in {"dead", "zombie_exit"}
      OBVIOUS
    <3> HIDE DEF l
    <3> QED BY <1>0, <1>1, <3>1, <1>u DEF Entitled, Unaltered
  <2>3. SparesOthers(a)
    BY <1>0, FilesKept
  <2> HIDE DEF l
  <2> QED BY <2>1, <2>2, <2>3, StepOK
<1> QED BY <1>2, <1>3 DEF ZombieKill

LEMMA ZombieExitOK == ASSUME IInv, NEW a \in Actors, ZombieExit(a) PROVE IInv'
<1>0. pc[a] = "zombie_exit" /\ UNCHANGED <<seen, took, files, cuts, history>> /\ UNCHANGED seen
    BY DEF ZombieExit
<1>u. Unaltered(a)
    BY <1>0, KeepsFiles
<1>1. /\ a \in Procs => seen[a] # a
      /\ a \notin alone
      /\ \A q \in clean : Holds(q) => q = seen[a]
    BY <1>0, AloneMeets DEF IInv, NotYetNamed, ReadHolds
<1>2. CASE Goto(a, "kill_failed")
  <2>1. Entitled(a, "kill_failed")
    BY <1>0, <1>1, <1>u DEF Entitled, Unaltered
  <2> QED BY <1>0, <1>2, <2>1, GotoOK DEF Alive
<1>3. CASE Goto(a, "rm_socket") /\ ~PidAlive(seen[a])
  <2>1. \A q \in clean : ~Holds(q)
    BY <1>0, <1>3, GoneHoldsNot DEF SameProcess
  <2>2. Entitled(a, "rm_socket")
    BY <1>0, <1>1, <2>1, <1>u DEF Entitled, Unaltered
  <2> QED BY <1>0, <1>3, <2>2, GotoOK DEF Alive
<1> QED BY <1>2, <1>3 DEF ZombieExit

LEMMA RmSocketOK == ASSUME IInv, NEW a \in Actors, RmSocket(a) PROVE IInv'
<1>0. /\ pc[a] = "rm_socket" /\ UNCHANGED <<seen, took, cuts, history>> /\ UNCHANGED <<owner, complete>>
      /\ Goto(a, "rm_sidecar") /\ UnlinkSocket(Endpoint[a])
    BY DEF RmSocket
<1>1. owner' \in {owner, NoProc} /\ complete' \in BOOLEAN
    BY <1>0 DEF IInv, TypeOK
<1> QED BY <1>0, <1>1, UnlinkSocketType, RemovesOK

LEMMA RmSidecarOK == ASSUME IInv, NEW a \in Actors, RmSidecar(a) PROVE IInv'
<1>0. /\ pc[a] = "rm_sidecar" /\ UNCHANGED <<seen, took, cuts, history>> /\ UNCHANGED sock
      /\ Goto(a, Done(a)) /\ UnlinkSidecar
    BY DEF RmSidecar
<1>1. owner' \in {owner, NoProc} /\ complete' \in BOOLEAN
    BY <1>0 DEF UnlinkSidecar
<1>2. sock' \in [Endpoints -> Owners] /\ \A e \in Endpoints : sock'[e] \in {NoProc, sock[e]}
    BY <1>0 DEF IInv, TypeOK
<1> QED BY <1>0, <1>1, <1>2, DoneType, RemovesOK

-----------------------------------------------------------------------------
\* The claim.

LEMMA CreateOK == ASSUME IInv, NEW p \in Procs, Create(p) PROVE IInv'
<1>0. /\ pc[p] \in {"create", "recreate"} /\ UNCHANGED <<seen, took, cuts, history>> /\ UNCHANGED <<seen, took, cuts, sock>>
      /\ owner # p /\ seen[p] # p
    BY DEF Create, IInv, NotYetNamed
<1>1. CASE owner = NoProc /\ owner' = p /\ complete' \in BOOLEAN /\ Goto(p, "write")
  <2>1. Moves(p, "write")
    BY <1>0, <1>1, GotoMoves DEF Alive
  <2>2. \A q \in clean : ~Holds(q)
    BY <1>1 DEF IInv, HolderOwns, TypeOK
  <2>3. SparesOthers(p)
    BY <1>0, <1>1, <2>2 DEF SparesOthers, IInv, TypeOK
  <2>4. \A e \in Endpoints : e \notin UnixEndpoints => sock'[e] # p
    BY <1>0, NoPort
  <2>5. p \in alone => ~took'[p]
    BY <1>0, AloneMeets
  <2>6. Entitled(p, "write")
    BY <1>0, <1>1, <2>4, <2>5 DEF Entitled
  <2> QED BY <2>1, <2>3, <2>6, StepOK
<1>2. CASE UNCHANGED <<owner, complete>>
           /\ \E l \in {"claim_read", "yield_failed", "refused"} : Goto(p, l)
  <2>1. PICK l \in {"claim_read", "yield_failed", "refused"} : Goto(p, l)
    BY <1>2
  <2>2. UNCHANGED <<seen, took, files, cuts, history>>
    BY <1>0, <1>2 DEF files
  <2>3. Unaltered(p)
    BY <1>0, <2>2, KeepsFiles
  <2>4. Entitled(p, l)
    BY <1>0, <2>1, <2>3 DEF Entitled, Unaltered
  <2> QED BY <1>0, <2>1, <2>2, <2>4, GotoOK DEF Alive
<1>3. \/ owner = NoProc /\ owner' = p /\ complete' \in BOOLEAN /\ Goto(p, "write")
      \/ UNCHANGED <<owner, complete>>
         /\ Goto(p, IF pc[p] = "create" THEN "claim_read"
                    ELSE IF took[p] THEN "yield_failed" ELSE "refused")
    BY DEF Create
<1> QED BY <1>1, <1>2, <1>3

LEMMA WriteOK == ASSUME IInv, NEW p \in Procs, Write(p) PROVE IInv'
<1>0. /\ pc[p] = "write" /\ UNCHANGED <<seen, took, cuts, history>> /\ UNCHANGED <<took, owner, sock, cuts>>
      /\ complete' \in BOOLEAN /\ (complete => complete')
      /\ p \in clean => owner = p /\ complete'
  <2>1. pc[p] = "write" /\ (p \in clean => owner = p) /\ UNCHANGED <<seen, took, cuts, history>>
        /\ UNCHANGED <<took, owner, sock, cuts>>
    BY DEF Write, IInv, HolderOwns
  <2>2. complete' = (complete \/ owner = p) /\ complete \in BOOLEAN
    BY DEF Write, IInv, TypeOK
  <2> QED BY <2>1, <2>2
<1>1. Moves(p, "chmod")
    BY <1>0, GotoMoves DEF Write, Alive
<1>2. SparesOthers(p)
    BY <1>0 DEF SparesOthers, IInv, TypeOK, HolderOwns
<1>3. \A e \in Endpoints : e \notin UnixEndpoints => sock'[e] # p
    BY <1>0, NoPort
<1>4. p \in alone => ~took'[p]
    BY <1>0, AloneMeets
<1>5. Entitled(p, "chmod")
    BY <1>0, <1>3, <1>4 DEF Entitled
<1> QED BY <1>1, <1>2, <1>5, StepOK

\* A process gives up before it serves and leaves the files.
LEMMA GivesUpOK ==
    ASSUME IInv, NEW p \in Procs, Starting(p), NEW l \in {"yield_failed", "refused", "rollback"},
           l = "rollback" => pc[p] \in {"handler", "bind"}, Goto(p, l),
           UNCHANGED <<seen, took, files, cuts, history>>
    PROVE  IInv'
<1>1. Unaltered(p)
    BY KeepsFiles
<1>2. l = "rollback" => (p \in clean => owner = p /\ complete)
    BY DEF IInv, HolderOwns
<1>3. Entitled(p, l)
    BY <1>1, <1>2 DEF Entitled, Unaltered
<1> QED BY <1>3, GotoOK DEF Alive

LEMMA WriteFailsOK == ASSUME IInv, NEW p \in Procs, WriteFails(p) PROVE IInv'
<1>1. pc[p] = "write" /\ UNCHANGED <<seen, took, files, cuts, history>>
    BY DEF WriteFails
<1>2. PICK l \in {"yield_failed", "refused"} : Goto(p, l)
    BY DEF WriteFails
<1> QED BY <1>1, <1>2, GivesUpOK

LEMMA ChmodOK == ASSUME IInv, NEW p \in Procs, Chmod(p) PROVE IInv'
<1>1. /\ pc[p] = "chmod" /\ UNCHANGED <<seen, took, files, cuts, history>>
      /\ Goto(p, IF owner # NoProc THEN "handler" ELSE IF took[p] THEN "yield_failed" ELSE "refused")
    BY DEF Chmod
<1>2. CASE Goto(p, "handler")
  <2>1. Unaltered(p)
    BY <1>1, KeepsFiles
  <2>2. p \in clean => owner = p /\ complete
    BY <1>1 DEF IInv, HolderOwns
  <2>3. Entitled(p, "handler")
    BY <1>1, <2>1, <2>2 DEF Entitled, Unaltered
  <2> QED BY <1>1, <1>2, <2>3, GotoOK DEF Alive
<1>3. CASE Goto(p, "yield_failed") \/ Goto(p, "refused")
    BY <1>1, <1>3, GivesUpOK
<1> QED BY <1>1, <1>2, <1>3

\* The claim or the takeover reads the sidecar.
LEMMA ReadsOK ==
    ASSUME IInv, NEW p \in Procs, pc[p] \in {"claim_read", "yield"}, ReadIdentity(p),
           NEW l \in {"claim_probe", "yield_connect"}, l = "yield_connect" => pc[p] = "yield", Goto(p, l),
           UNCHANGED <<took, files, cuts, history>>
    PROVE  IInv'
<1>1. Unaltered(p)
    BY KeepsFiles
<1>2. Moves(p, l)
    BY ReadIdentityReads DEF IInv, TypeOK, Goto, Moves, Alive, history
<1>3. SparesOthers(p)
    BY FilesKept
<1>4. p \in alone => pc[p] \notin OtherPoints
    BY AloneMeets
<1>5. Entitled(p, l)
    BY <1>1, <1>4, ReadIdentityReads DEF Entitled, Unaltered
<1> QED BY <1>2, <1>3, <1>5, StepOK

LEMMA ClaimReadOK == ASSUME IInv, NEW p \in Procs, ClaimRead(p) PROVE IInv'
<1>1. pc[p] = "claim_read" /\ ReadIdentity(p) /\ Goto(p, "claim_probe") /\ UNCHANGED <<took, files, cuts, history>>
    BY DEF ClaimRead
<1> QED BY <1>1, ReadsOK

LEMMA YieldReadOK == ASSUME IInv, NEW p \in Procs, YieldRead(p) PROVE IInv'
<1>1. pc[p] = "yield" /\ ReadIdentity(p) /\ Goto(p, "yield_connect") /\ UNCHANGED <<took, files, cuts, history>>
    BY DEF YieldRead
<1> QED BY <1>1, ReadsOK

LEMMA ClaimProbeOK == ASSUME IInv, NEW p \in Procs, ClaimProbe(p) PROVE IInv'
<1>0. /\ pc[p] = "claim_probe" /\ UNCHANGED <<seen, took, files, cuts, history>> /\ UNCHANGED seen
      /\ seen[p] # p /\ \A q \in clean : Holds(q) => q = seen[p]
    BY DEF ClaimProbe, IInv, NotYetNamed, ReadHolds
<1>u. Unaltered(p)
    BY <1>0, KeepsFiles
<1>1. CASE Goto(p, "yield_failed") \/ Goto(p, "refused")
    BY <1>0, <1>1, GivesUpOK
<1>2. CASE Goto(p, "yield") /\ Listening(Probed(p))
  <2>1. p \notin alone
    BY <1>0, <1>2, ProbedType, AloneMeets
  <2>2. Entitled(p, "yield")
    BY <1>0, <1>u, <2>1 DEF Entitled, Unaltered
  <2> QED BY <1>0, <1>2, <2>2, GotoOK DEF Alive
<1>3. CASE Goto(p, "claim_pid") /\ seen[p] # NoProc
  <2>1. Entitled(p, "claim_pid")
    BY <1>0, <1>u, <1>3 DEF Entitled, Unaltered
  <2> QED BY <1>0, <1>3, <2>1, GotoOK DEF Alive
<1>4. CASE Goto(p, "stale_sidecar") /\ seen[p] = NoProc
  <2>1. \A q \in clean : ~Holds(q)
    BY <1>0, <1>4, GoneHoldsNot
  <2>2. Entitled(p, "stale_sidecar")
    BY <1>0, <1>u, <2>1 DEF Entitled, Unaltered
  <2> QED BY <1>0, <1>4, <2>2, GotoOK DEF Alive
<1>5. \/ Goto(p, "yield_failed") \/ Goto(p, "refused") \/ (Goto(p, "yield") /\ Listening(Probed(p)))
      \/ Goto(p, "claim_pid") /\ seen[p] # NoProc
      \/ Goto(p, "stale_sidecar") /\ seen[p] = NoProc
    BY DEF ClaimProbe
<1> QED BY <1>1, <1>2, <1>3, <1>4, <1>5

LEMMA ClaimPidOK == ASSUME IInv, NEW p \in Procs, ClaimPid(p) PROVE IInv'
<1>0. /\ pc[p] = "claim_pid" /\ UNCHANGED <<seen, took, files, cuts, history>> /\ UNCHANGED seen
      /\ seen[p] # p
    BY DEF ClaimPid, IInv, NotYetNamed
<1>1. CASE Goto(p, "yield_failed") \/ Goto(p, "refused")
    BY <1>0, <1>1, GivesUpOK
<1>2. CASE Goto(p, "stale_sidecar") /\ ~SameProcess(seen[p])
  <2>1. \A q \in clean : ~Holds(q)
    BY <1>0, <1>2, GoneHoldsNot
  <2>2. Unaltered(p)
    BY <1>0, KeepsFiles
  <2>3. Entitled(p, "stale_sidecar")
    BY <1>0, <2>1, <2>2 DEF Entitled, Unaltered
  <2> QED BY <1>0, <1>2, <2>3, GotoOK DEF Alive
<1> QED BY <1>1, <1>2 DEF ClaimPid

LEMMA StaleSidecarOK == ASSUME IInv, NEW p \in Procs, StaleSidecar(p) PROVE IInv'
<1>0. /\ pc[p] = "stale_sidecar" /\ UNCHANGED <<seen, took, cuts, history>> /\ UNCHANGED sock
      /\ Goto(p, "stale_socket") /\ UnlinkSidecar
    BY DEF StaleSidecar
<1>1. owner' = NoProc /\ complete' \in BOOLEAN
    BY <1>0 DEF UnlinkSidecar
<1>2. sock' \in [Endpoints -> Owners] /\ \A e \in Endpoints : sock'[e] \in {NoProc, sock[e]}
    BY <1>0 DEF IInv, TypeOK
<1> QED BY <1>0, <1>1, <1>2, RemovesOK

LEMMA StaleSocketOK == ASSUME IInv, NEW p \in Procs, StaleSocket(p) PROVE IInv'
<1>0. /\ pc[p] = "stale_socket" /\ UNCHANGED <<seen, took, cuts, history>> /\ UNCHANGED <<owner, complete>>
      /\ Goto(p, "recreate") /\ UnlinkSocket(Endpoint[p])
    BY DEF StaleSocket
<1>1. owner' \in {owner, NoProc} /\ complete' \in BOOLEAN
    BY <1>0 DEF IInv, TypeOK
<1>2. p \in alone => owner' = NoProc
    BY <1>0 DEF IInv, StartsAlone
<1> QED BY <1>0, <1>1, <1>2, UnlinkSocketType, RemovesOK

LEMMA YieldOK ==
    ASSUME IInv, NEW p \in Procs, YieldAccepted(p) \/ YieldRejected(p) \/ YieldWait(p)
    PROVE  IInv'
<1>0. /\ pc[p] \in {"yield_connect", "yield_wait"} /\ UNCHANGED <<files, cuts>> /\ UNCHANGED <<seen, history>>
      /\ seen[p] # p /\ p \notin alone
  <2>1. pc[p] \in {"yield_connect", "yield_wait"} /\ UNCHANGED <<files, cuts>> /\ UNCHANGED <<seen, history>>
    BY DEF YieldAccepted, YieldRejected, YieldWait
  <2> QED BY <2>1, AloneMeets DEF IInv, NotYetNamed
<1>1. PICK l \in {"yield_wait", "yield_failed", "create"} : Goto(p, l)
    BY DEF YieldAccepted, YieldRejected, YieldWait
<1>2. took' = took \/ took' = [took EXCEPT ![p] = TRUE]
    BY DEF YieldAccepted, YieldRejected, YieldWait
<1>3. took' \in [Procs -> BOOLEAN] /\ \A b \in Procs : b # p => took'[b] = took[b]
    BY <1>2 DEF IInv, TypeOK
<1>4. Moves(p, l)
    BY <1>0, <1>1, <1>3 DEF IInv, TypeOK, Goto, Moves, Alive, history
<1>5. SparesOthers(p)
    BY <1>0, FilesKept
<1>6. \A e \in Endpoints : e \notin UnixEndpoints => sock'[e] # p
    BY <1>0, NoPort DEF files
<1>7. owner' # p
    BY <1>0 DEF files, IInv, NotYetNamed
<1>8. Entitled(p, l)
    BY <1>0, <1>1, <1>6, <1>7 DEF Entitled
<1> QED BY <1>4, <1>5, <1>8, StepOK

-----------------------------------------------------------------------------
\* After the claim.

LEMMA HandlerOK == ASSUME IInv, NEW p \in Procs, Handler(p) PROVE IInv'
<1>0. pc[p] = "handler" /\ UNCHANGED <<seen, took, files, cuts, history>>
    BY DEF Handler
<1>1. CASE Goto(p, "rollback")
    BY <1>0, <1>1, GivesUpOK
<1>2. CASE Goto(p, "bind")
  <2>1. Unaltered(p)
    BY <1>0, KeepsFiles
  <2>2. p \in clean => owner = p /\ complete
    BY <1>0 DEF IInv, HolderOwns
  <2>3. Entitled(p, "bind")
    BY <1>0, <2>1, <2>2 DEF Entitled, Unaltered
  <2> QED BY <1>0, <1>2, <2>3, GotoOK DEF Alive
<1> QED BY <1>1, <1>2 DEF Handler

\* While a process is between creation and removal no other clean one is.
LEMMA HoldsAlone == ASSUME IInv, NEW p \in Procs, Holds(p) PROVE \A q \in clean : q # p => ~Holds(q)
BY DEF IInv, OneHolder

LEMMA BindOK == ASSUME IInv, NEW p \in Procs, Bind(p) PROVE IInv'
<1>0. /\ pc[p] = "bind" /\ UNCHANGED <<seen, took, cuts, history>> /\ UNCHANGED <<owner, complete, cuts>>
      /\ p \in clean => owner = p /\ complete
      /\ Endpoint[p] \in Endpoints
    BY EndpointType DEF Bind, IInv, HolderOwns
<1>1. CASE sock' = [sock EXCEPT ![Endpoint[p]] = p] /\ Goto(p, "serving")
  <2>1. Moves(p, "serving")
    BY <1>0, <1>1, GotoMoves DEF Alive
  <2>2. \A q \in clean : q # p => ~Holds(q)
    BY <1>0, HoldsAlone
  <2>3. /\ sock' \in [Endpoints -> Owners] /\ sock'[Endpoint[p]] = p
        /\ \A e \in Endpoints : sock'[e] \in {NoProc, sock[e], p}
    BY <1>0, <1>1 DEF IInv, TypeOK
  <2>4. SparesOthers(p)
    BY <1>0, <2>2, <2>3 DEF SparesOthers, IInv, TypeOK
  <2>5. Entitled(p, "serving")
    BY <1>0, <2>3 DEF Entitled
  <2> QED BY <2>1, <2>4, <2>5, StepOK
<1>2. CASE Goto(p, "rollback") /\ UNCHANGED sock
    BY <1>0, <1>2, GivesUpOK DEF files
<1> QED BY <1>1, <1>2 DEF Bind

\* A process that holds the sidecar removes it.
LEMMA OwnSidecarOK ==
    ASSUME IInv, NEW p \in Procs, NEW l \in {"bind_failed", "exiting"}, Holds(p), UnlinkSidecar, Goto(p, l),
           l = "bind_failed" => pc[p] = "rollback",
           UNCHANGED <<seen, took, sock, cuts, history>>
    PROVE  IInv'
<1>1. Moves(p, l)
    BY GotoMoves DEF Alive
<1>2. \A q \in clean : q # p => ~Holds(q)
    BY HoldsAlone
<1>3. owner' = NoProc /\ complete' \in BOOLEAN /\ sock' = sock
    BY DEF UnlinkSidecar
<1>4. SparesOthers(p)
    BY <1>2, <1>3 DEF SparesOthers, IInv, TypeOK
<1>5. l = "bind_failed" => \A e \in Endpoints : e \notin UnixEndpoints => sock'[e] # p
    BY <1>3, NoPort
<1>6. Entitled(p, l)
    BY <1>3, <1>5 DEF Entitled
<1> QED BY <1>1, <1>4, <1>6, StepOK

LEMMA RollbackOK == ASSUME IInv, NEW p \in Procs, Rollback(p) PROVE IInv'
<1>1. pc[p] = "rollback" /\ UnlinkSidecar /\ Goto(p, "bind_failed") /\ UNCHANGED <<seen, took, sock, cuts, history>>
    BY DEF Rollback
<1> QED BY <1>1, OwnSidecarOK

LEMMA ExitSidecarOK == ASSUME IInv, NEW p \in Procs, ExitSidecar(p) PROVE IInv'
<1>1. pc[p] = "unlink_sidecar" /\ UnlinkSidecar /\ Goto(p, "exiting") /\ UNCHANGED <<seen, took, sock, cuts, history>>
    BY DEF ExitSidecar
<1> QED BY <1>1, OwnSidecarOK

LEMMA DrainOK == ASSUME IInv, NEW p \in Procs, Drain(p) PROVE IInv'
<1>0. /\ pc[p] = "serving" /\ Goto(p, "unlink_socket") /\ UNCHANGED <<seen, took, files, cuts, history>>
      /\ UNCHANGED <<owner, complete>>
      /\ p \in clean => owner = p /\ complete
    BY DEF Drain, IInv, HolderOwns, files
<1>1. Entitled(p, "unlink_socket")
    BY <1>0 DEF Entitled
<1> QED BY <1>0, <1>1, GotoOK DEF Alive

LEMMA ExitSocketOK == ASSUME IInv, NEW p \in Procs, ExitSocket(p) PROVE IInv'
<1>0. /\ pc[p] = "unlink_socket" /\ UNCHANGED <<seen, took, cuts, history>> /\ UNCHANGED <<owner, complete, cuts>>
      /\ UnlinkSocket(Endpoint[p])
      /\ p \in clean => owner = p /\ complete
    BY DEF ExitSocket, IInv, HolderOwns
<1>1. Moves(p, "unlink_sidecar")
    BY <1>0, GotoMoves DEF ExitSocket, Alive
<1>2. \A q \in clean : q # p => ~Holds(q)
    BY <1>0, HoldsAlone
<1>3. sock' \in [Endpoints -> Owners] /\ \A e \in Endpoints : sock'[e] \in {NoProc, sock[e], p}
    BY <1>0, UnlinkSocketType
<1>4. SparesOthers(p)
    BY <1>0, <1>2, <1>3 DEF SparesOthers, IInv, TypeOK
<1>5. Entitled(p, "unlink_sidecar")
    BY <1>0 DEF Entitled
<1> QED BY <1>1, <1>4, <1>5, StepOK

\* The death of a process.
LEMMA DiesOK ==
    ASSUME IInv, NEW a \in Actors, Alive(a), sock' = Released(a), Goto(a, "dead"),
           UNCHANGED <<seen, took, owner, complete, cuts, history>>
    PROVE  IInv'
<1>1. Moves(a, "dead")
    BY GotoMoves
<1>2. /\ sock' \in [Endpoints -> Owners]
      /\ \A e \in Endpoints, q \in Procs : q # a => (sock'[e] = q <=> sock[e] = q)
      /\ \A e \in Endpoints : sock'[e] \in {NoProc, sock[e], a}
      /\ \A e \in Endpoints : e \notin UnixEndpoints => sock'[e] # a
    BY DEF Released, IInv, TypeOK
<1>3. SparesOthers(a)
    BY <1>2, EndpointType DEF SparesOthers, IInv, TypeOK, HolderOwns
<1>4. Entitled(a, "dead")
    BY <1>2 DEF Entitled
<1> QED BY <1>1, <1>3, <1>4, StepOK

-----------------------------------------------------------------------------

LEMMA InitOK == Init => IInv
<1> SUFFICES ASSUME Init PROVE IInv
    OBVIOUS
<1>1. TypeOK
  <2>1. cuts \in Nat
    BY SMTT(60) DEF Init
  <2> QED BY <2>1 DEF Init, TypeOK
<1>2. /\ pc = [a \in Actors |-> "off"] /\ owner = NoProc /\ seen = [a \in Actors |-> NoProc]
      /\ took = [p \in Procs |-> FALSE] /\ clean = {} /\ alone = {} /\ sock = [e \in Endpoints |-> NoProc]
    BY DEF Init
<1>3. OneStarting /\ HolderOwns /\ OneHolder /\ ReadHolds /\ RemovesStale /\ Bound /\ NoneReached /\ StartsAlone
    BY <1>2 DEF OneStarting, HolderOwns, OneHolder, ReadHolds, RemovesStale, Bound, NoneReached, StartsAlone
<1>4. NotYetNamed /\ PortHeld
    BY <1>2 DEF NotYetNamed, PortHeld
<1> QED BY <1>1, <1>3, <1>4 DEF IInv

\* A socket file is deleted by somebody else.
LEMMA CutOK == ASSUME IInv, NEW e \in Endpoints, Cut(e) PROVE IInv'
<1>0. /\ pc' = pc /\ seen' = seen /\ took' = took /\ owner' = owner /\ complete' = complete
      /\ clean' = clean /\ alone' = alone /\ cuts' = cuts + 1 /\ cuts \in Nat
      /\ sock' = [sock EXCEPT ![e] = NoProc] /\ e \in UnixEndpoints
    BY DEF Cut, IInv, TypeOK, history
<1>1. TypeOK'
    BY <1>0, SMTT(60) DEF IInv, TypeOK
<1>2. Bound'
    BY <1>0, SMTT(60) DEF Bound
<1>3. \A d \in Endpoints : sock'[d] = NoProc \/ sock'[d] = sock[d]
    BY <1>0 DEF IInv, TypeOK
<1>4. NoneReached'
  <2>1. ASSUME NEW p \in Procs, NEW q \in clean, pc[p] \in KillPoints, pc[q] = "serving"
        PROVE  sock'[Endpoint[q]] # q
    <3>1. q \in Procs /\ Endpoint[q] \in Endpoints /\ sock[Endpoint[q]] # q
      BY <2>1, EndpointType DEF IInv, TypeOK, NoneReached, Answers
    <3>2. q # NoProc
      BY <3>1
    <3>3. sock'[Endpoint[q]] = NoProc \/ sock'[Endpoint[q]] = sock[Endpoint[q]]
      BY <1>3, <3>1
    <3> QED BY <3>1, <3>2, <3>3
  <2> QED BY <1>0, <2>1 DEF NoneReached, Answers
<1>5. PortHeld'
    BY <1>0, <1>3 DEF IInv, PortHeld
<1>6. OneStarting' /\ HolderOwns' /\ OneHolder' /\ ReadHolds' /\ RemovesStale' /\ NotYetNamed' /\ StartsAlone'
    BY <1>0 DEF IInv, OneStarting, HolderOwns, OneHolder, ReadHolds, RemovesStale, NotYetNamed, StartsAlone, Alive
<1> QED BY <1>1, <1>2, <1>4, <1>5, <1>6 DEF IInv

LEMMA UnmovedOK == ASSUME IInv, UNCHANGED <<pc, seen, took, files, cuts, history>> PROVE IInv'
<1>1. /\ pc' = pc /\ seen' = seen /\ took' = took /\ owner' = owner /\ complete' = complete /\ sock' = sock
      /\ cuts' = cuts /\ clean' = clean /\ alone' = alone
    BY DEF files, history
<1> QED BY <1>1, SMTT(60) DEF IInv, TypeOK, OneStarting, HolderOwns, OneHolder, ReadHolds, RemovesStale, Bound,
                              NoneReached, Answers, NotYetNamed, PortHeld, StartsAlone, Alive

LEMMA NextOK == IInv /\ [Next]_vars => IInv'
<1> SUFFICES ASSUME IInv, [Next]_vars PROVE IInv'
    OBVIOUS
<1>1. ASSUME NEW a \in Actors, Start(a) PROVE IInv'
    BY <1>1, StartOK
<1>2. ASSUME NEW a \in Actors, Scan(a) PROVE IInv'
    BY <1>2, ScanReadOK, ScanExistsOK, ScanProbeOK, ScanDecideOK, ScanOrphanOK, ZombieWaitOK, ZombieKillOK,
       ZombieExitOK, RmSocketOK, RmSidecarOK DEF Scan
<1>3. ASSUME NEW a \in Actors, Crash(a) PROVE IInv'
    BY <1>3, DiesOK DEF Crash
<1>4. ASSUME NEW p \in Procs, Claim(p) PROVE IInv'
    BY <1>4, CreateOK, WriteOK, WriteFailsOK, ChmodOK, ClaimReadOK, ClaimProbeOK, ClaimPidOK,
       StaleSidecarOK, StaleSocketOK, YieldReadOK, YieldOK DEF Claim
<1>5. ASSUME NEW p \in Procs, Serve(p) PROVE IInv'
  <2>1. p \in Actors
    OBVIOUS
  <2>2. Exit(p) => IInv'
    BY <2>1, DiesOK DEF Exit, Alive
  <2> QED BY <1>5, <2>2, HandlerOK, BindOK, RollbackOK, DrainOK, ExitSocketOK, ExitSidecarOK DEF Serve
<1>6. ASSUME NEW p \in Procs, Shutdown(p) PROVE IInv'
    BY <1>6, UnmovedOK DEF Shutdown
<1>7. ASSUME NEW e \in Endpoints, Cut(e) PROVE IInv'
    BY <1>7, CutOK
<1>8. CASE UNCHANGED vars
    BY <1>8, UnmovedOK DEF vars
<1> QED BY <1>1, <1>2, <1>3, <1>4, <1>5, <1>6, <1>7, <1>8 DEF Next

LEMMA Inductive == Spec => []IInv
BY InitOK, NextOK, PTL DEF Spec

-----------------------------------------------------------------------------

\* However startups overlap, a process whose own startup overlapped no other
\* is the only one that takes itself for the registered server, whatever
\* crashed at whatever point.
THEOREM Single == Spec => []CleanIsSingle
<1>1. IInv => CleanIsSingle
    BY DEF IInv, OneHolder, CleanIsSingle, Registered
<1> QED BY <1>1, Inductive, PTL

\* While it serves the sidecar names it, and it is bound to its endpoint
\* unless its socket file was deleted by somebody else, whatever the startups
\* and cleanups after it do to each other.
THEOREM Reachable == Spec => []CleanIsReachable
<1>1. IInv => CleanIsReachable
    BY DEF IInv, HolderOwns, Bound, CleanIsReachable
<1> QED BY <1>1, Inductive, PTL

\* No startup sends it SIGTERM while it can be reached, nor a process that has
\* taken over the process id of another.
THEOREM Spared == Spec => ScanSparesClean
<1>1. IInv => [\A p \in Procs, q \in clean : ZombieKill(p) /\ Pid[q] = Pid[seen[p]] => ~Answers(q)]_vars
    BY DEF IInv, NoneReached, ZombieKill
<1> QED BY <1>1, Inductive, PTL DEF ScanSparesClean

\* What crashed servers left behind stops nobody who starts alone: such a
\* startup fails only when it cannot write its file or install its handler, or
\* when it is killed.
THEOREM StaleIsSeenThrough == Spec => StaleNeverBlocks
<1>1. IInv /\ [Next]_vars
        => [\A p \in alone : Starting(p) /\ pc'[p] # pc[p] /\ pc'[p] \in Failures
              => WriteFails(p) \/ Handler(p) \/ Crash(p)]_vars
  <2>1. SUFFICES ASSUME IInv, Next, NEW p \in alone, pc[p] \in StartPoints, pc'[p] # pc[p],
                        pc'[p] \notin {"serving", "bind_failed"}, pc'[p] \notin StartPoints \ {"rollback"},
                        ~WriteFails(p), ~Handler(p), ~Crash(p)
                 PROVE  FALSE
    BY DEF Failures
  <2>2. /\ p \in Procs /\ p \in Actors /\ p \notin Cleaners /\ pc \in [Actors -> Points]
        /\ \A a \in Actors : Alive(a) => a = p
        /\ p \in clean /\ pc[p] \notin OtherPoints /\ ~took[p]
        /\ pc[p] \in RemovedPoints => owner = NoProc
    BY <2>1 DEF IInv, TypeOK, StartsAlone
  <2>3. /\ \A e \in Endpoints : ~Listening(e)
        /\ \A q \in Procs : q # p => ~SameProcess(q)
    BY <2>1, AloneMeets
  \* What p steps to is none of the points it can step to.
  <2>4. \A l \in (StartPoints \ {"rollback"}) \cup {"serving", "bind_failed"} : ~Goto(p, l)
    BY <2>1, <2>2 DEF Goto
  <2>5. \A a \in Actors, l \in Points : a # p => ~Goto(a, l)
    BY <2>1, <2>2 DEF Goto
  <2>6. ~Scan(p)
    <3>1. ~ScanRead(p) /\ ~ScanExists(p) /\ ~RmSocket(p)
      BY <2>4 DEF ScanRead, ScanExists, RmSocket
    <3>2. ~ScanProbe(p)
      BY <2>2, <2>4 DEF ScanProbe
    <3>3. ~ScanDecide(p)
      BY <2>4 DEF ScanDecide
    <3>4. ~ScanOrphan(p) /\ ~RmSidecar(p)
      BY <2>2, <2>4 DEF ScanOrphan, RmSidecar, Done
    <3>5. ~ZombieWait(p) /\ ~ZombieKill(p) /\ ~ZombieExit(p)
      BY <2>2 DEF ZombieWait, ZombieKill, ZombieExit
    <3> QED BY <3>1, <3>2, <3>3, <3>4, <3>5 DEF Scan
  <2>7. ~Claim(p)
    <3>1. ~Create(p)
      BY <2>2, <2>4 DEF Create
    <3>2. ~Chmod(p)
      <4>1. SUFFICES ASSUME Chmod(p) PROVE FALSE
        OBVIOUS
      <4>2. pc[p] = "chmod" /\ owner = p
        BY <2>1, <2>2, <4>1 DEF Chmod, IInv, HolderOwns
      <4>3. owner # NoProc
        BY <2>2, <4>2
      <4>4. Goto(p, "handler")
        BY <4>1, <4>3 DEF Chmod
      <4> QED BY <2>4, <4>4
    <3>3. ~ClaimProbe(p)
      <4>1. Probed(p) \in Endpoints
        BY <2>1, <2>2, ProbedType
      <4>2. ~Listening(Probed(p))
        BY <2>3, <4>1
      <4> QED BY <2>4, <4>2 DEF ClaimProbe
    <3>4. ~ClaimPid(p)
      <4>1. SUFFICES ASSUME ClaimPid(p) PROVE FALSE
        OBVIOUS
      <4>2. seen[p] \in Procs /\ seen[p] # p
        BY <2>1, <2>2, <4>1 DEF ClaimPid, IInv, NotYetNamed, TypeOK
      <4>3. ~SameProcess(seen[p])
        BY <2>3, <4>2
      <4> QED BY <2>4, <4>1, <4>3 DEF ClaimPid
    <3>5. ~Write(p) /\ ~ClaimRead(p) /\ ~StaleSidecar(p) /\ ~StaleSocket(p)
      BY <2>4 DEF Write, ClaimRead, StaleSidecar, StaleSocket
    <3>6. ~YieldRead(p) /\ ~YieldAccepted(p) /\ ~YieldRejected(p) /\ ~YieldWait(p)
      BY <2>2 DEF YieldRead, YieldAccepted, YieldRejected, YieldWait
    <3> QED BY <2>1, <3>1, <3>2, <3>3, <3>4, <3>5, <3>6 DEF Claim
  <2>8. ~Serve(p)
    <3>1. ~Bind(p)
      <4>1. SUFFICES ASSUME Bind(p), Endpoint[p] \notin UnixEndpoints, sock[Endpoint[p]] # NoProc PROVE FALSE
        BY <2>4 DEF Bind
      <4>2. Endpoint[p] \in Endpoints
        BY <2>2, EndpointType
      <4>3. Listening(Endpoint[p])
        BY <2>1, <4>1, <4>2 DEF IInv, PortHeld, Listening
      <4> QED BY <2>3, <4>2, <4>3
    <3>2. ~Rollback(p)
      BY <2>4 DEF Rollback
    <3>3. ~Drain(p) /\ ~ExitSocket(p) /\ ~ExitSidecar(p) /\ ~Exit(p)
      BY <2>1 DEF Drain, ExitSocket, ExitSidecar, Exit
    <3> QED BY <2>1, <3>1, <3>2, <3>3 DEF Serve
  <2>9. ASSUME NEW a \in Actors, Start(a) PROVE FALSE
    BY <2>1, <2>5, <2>9 DEF Start
  <2>10. ASSUME NEW a \in Actors, Scan(a) \/ Crash(a) PROVE FALSE
    <3>1. Alive(a)
      BY <2>10 DEF Scan, Crash, Alive, ScanRead, ScanExists, ScanProbe, ScanDecide, ScanOrphan, ZombieWait, ZombieKill,
                   ZombieExit, RmSocket, RmSidecar
    <3> QED BY <2>1, <2>2, <2>6, <2>10, <3>1
  <2>11. ASSUME NEW q \in Procs, Claim(q) \/ Serve(q) PROVE FALSE
    <3>1. Claim(q) => Alive(q)
      BY DEF Claim, Alive, Create, Write, WriteFails, Chmod, ClaimRead, ClaimProbe, ClaimPid, StaleSidecar, StaleSocket,
             YieldRead, YieldAccepted, YieldRejected, YieldWait
    <3>2. Serve(q) => Alive(q)
      BY DEF Serve, Alive, Handler, Bind, Rollback, Drain, ExitSocket, ExitSidecar, Exit
    <3> QED BY <2>2, <2>7, <2>8, <2>11, <3>1, <3>2
  <2>12. (\A q \in Procs : ~Shutdown(q)) /\ (\A e \in Endpoints : ~Cut(e))
    BY <2>1 DEF Shutdown, Cut
  <2> QED BY <2>1, <2>9, <2>10, <2>11, <2>12 DEF Next
<1> QED BY <1>1, Inductive, PTL DEF Spec, StaleNeverBlocks
=============================================================================
