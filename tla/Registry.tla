------------------------------ MODULE Registry ------------------------------
(***************************************************************************)
(* How server processes become the one registered server: the sidecar file *)
(* and its claim (server/sidecar.rs), the scan at startup (liveness.rs),   *)
(* the takeover of a server of another version and binding (server.rs),    *)
(* and the cleanup command (cleanup.rs).                                   *)
(*                                                                         *)
(* Processes interleave at every system call: create, write, read, exists, *)
(* connect, kill and unlink are separate steps.  A process may crash       *)
(* anywhere; a process id may be reused once its process is gone.          *)
(* Timeouts are choices.  The sidecar holds the process that wrote it,     *)
(* standing for the pid, start time, endpoint, version and token written.  *)
(***************************************************************************)
EXTENDS Naturals, FiniteSets

CONSTANTS Procs,      \* server processes, each started at most once
          Cleaners,   \* runs of the cleanup command
          NoProc,
          Endpoint,   \* the endpoint each process is configured with
          Version,    \* the version of each process
          Pid,        \* process ids; processes that share one do not overlap
          UnixEndpoints,  \* Unix sockets (files); the other endpoints are TCP ports
          Casts,      \* bound of the model: who may be started in one behaviour
          Cuts        \* bound of the model: socket files deleted by others

ASSUME RegistryAssumption ==
    /\ Procs \cap Cleaners = {} /\ NoProc \notin Procs \cup Cleaners
    /\ DOMAIN Endpoint = Procs \cup Cleaners
    /\ DOMAIN Version = Procs /\ DOMAIN Pid = Procs
    /\ Cuts \in Nat

Actors == Procs \cup Cleaners
Endpoints == {Endpoint[a] : a \in Actors}

VARIABLES
    pc,        \* where each process is
    seen,      \* per process: the identity it read, NoProc if missing or unreadable
    exists,    \* per process: the sidecar existed when it looked
    took,      \* per server process: it has asked another server to yield
    down,      \* per server process: its shutdown flag
    owner,     \* the process that created the sidecar file at the path, or NoProc
    complete,  \* the sidecar's content is written
    sock,      \* per endpoint: the process whose listener is bound to it, or NoProc
    cuts,      \* socket files deleted by others so far
    clean,     \* history: the server processes whose startup overlapped no other
    alone      \* history: the server process started when nobody else ran, until somebody does

files == <<owner, complete, sock>>
history == <<clean, alone>>
vars == <<pc, seen, exists, took, down, files, cuts, history>>

ScanPoints == {"scan_read", "scan_exists", "scan_probe", "scan_pid", "orphan", "zombie_wait",
               "zombie_kill", "zombie_exit", "rm_socket", "rm_sidecar"}
ClaimPoints == {"create", "write", "chmod", "claim_read", "claim_probe", "claim_pid", "stale_sidecar",
                "stale_socket", "recreate", "yield", "yield_connect", "yield_wait"}
BindPoints == {"handler", "bind", "rollback"}
ServePoints == {"serving", "unlink_socket", "unlink_sidecar", "exiting"}
\* The other points: "off", "refused", "kill_failed", "yield_failed",
\* "bind_failed", "dead", "cleaned".

Starting(a) == pc[a] \in ScanPoints \cup ClaimPoints \cup BindPoints
Alive(a) == Starting(a) \/ pc[a] \in ServePoints

Init ==
    /\ pc = [a \in Actors |-> "off"]
    /\ seen = [a \in Actors |-> NoProc]
    /\ exists = [a \in Actors |-> FALSE]
    /\ took = [p \in Procs |-> FALSE]
    /\ down = [p \in Procs |-> FALSE]
    /\ owner = NoProc
    /\ complete = FALSE
    /\ sock = [e \in Endpoints |-> NoProc]
    /\ cuts = 0
    /\ clean = {}
    /\ alone = {}

Goto(a, l) == pc' = [pc EXCEPT ![a] = l]

-----------------------------------------------------------------------------
\* The system calls.

\* read_identity: an unreadable or half-written file reads as missing.
ReadIdentity(a) == seen' = [seen EXCEPT ![a] = IF complete THEN owner ELSE NoProc]

\* A connection to endpoint e is completed for a process that listens.
Listening(e) == sock[e] # NoProc /\ pc[sock[e]] \in ServePoints

\* The endpoint that is_server_alive probes: the recorded one, or one's own.
Probed(a) == IF seen[a] # NoProc THEN Endpoint[seen[a]] ELSE Endpoint[a]

\* pid_alive.
PidAlive(q) == \E r \in Procs : Pid[r] = Pid[q] /\ Alive(r)

\* Mutant: the start time is not compared.
SameProcessByPid(q) == PidAlive(q)

\* pid_alive and the recorded start time is the running process's.
SameProcess(q) == PidAlive(q) /\ Alive(q)

\* The path is unlinked; a TCP endpoint has no file.
UnlinkSocket(e) == sock' = IF e \in UnixEndpoints THEN [sock EXCEPT ![e] = NoProc] ELSE sock
UnlinkSidecar == owner' = NoProc /\ complete' = FALSE

\* The running processes with q's process id, and those of them that have no
\* signal handler yet and die of SIGTERM.
Holders(q) == {r \in Procs : Pid[r] = Pid[q] /\ Alive(r)}
Unprotected(q) == {r \in Holders(q) : pc[r] \in ScanPoints \cup ClaimPoints \cup {"handler"}}

-----------------------------------------------------------------------------
\* The table that liveness_scan and cleanup decide by.

Decide(a, alive) ==
    IF alive THEN IF seen[a] # NoProc /\ SameProcess(seen[a]) THEN "kill" ELSE "refuse"
    ELSE IF seen[a] = NoProc THEN IF exists[a] THEN "delete" ELSE "none"
    ELSE IF SameProcess(seen[a]) THEN "kill" ELSE "delete"

\* No startup or cleanup is under way, and none overlapped the startup of a
\* server that runs.
Undisturbed ==
    /\ \A b \in Actors : ~Starting(b)
    /\ \A q \in Procs : Alive(q) => q \in clean

\* A server process or a cleanup starts.
Start(a) ==
    /\ pc[a] = "off"
    /\ \E cast \in Casts : {b \in Actors : pc[b] # "off"} \cup {a} \subseteq cast
    /\ a \in Procs => ~PidAlive(a)
    /\ Goto(a, "scan_read")
    /\ clean' = {q \in clean : pc[q] \in ServePoints} \cup (IF Undisturbed THEN {a} \cap Procs ELSE {})
    /\ alone' = IF \A b \in Actors : ~Alive(b) THEN {a} \cap Procs ELSE {}
    /\ UNCHANGED <<seen, exists, took, down, files, cuts>>

ScanRead(a) ==
    /\ pc[a] = "scan_read"
    /\ ReadIdentity(a)
    /\ Goto(a, "scan_exists")
    /\ UNCHANGED <<exists, took, down, files, cuts, history>>

ScanExists(a) ==
    /\ pc[a] = "scan_exists"
    /\ exists' = [exists EXCEPT ![a] = owner # NoProc]
    /\ Goto(a, "scan_probe")
    /\ UNCHANGED <<seen, took, down, files, cuts, history>>

\* The point at which a scan or a cleanup is done.
Done(a) == IF a \in Procs THEN "create" ELSE "cleaned"

\* Mutant: the endpoint is taken for dead without a probe.
ScanProbeSkipped(a) ==
    /\ pc[a] = "scan_probe"
    /\ Goto(a, "scan_pid")
    /\ UNCHANGED <<seen, exists, took, down, files, cuts, history>>

\* is_server_alive.  A startup leaves a live server to the claim; the cleanup
\* kills it if it is the recorded process and refuses otherwise.
ScanProbe(a) ==
    /\ pc[a] = "scan_probe"
    /\ \/ Listening(Probed(a)) /\ a \in Procs /\ Goto(a, "create")
       \/ /\ Listening(Probed(a)) /\ a \in Cleaners
          /\ Goto(a, IF Decide(a, TRUE) = "kill" THEN "zombie_kill" ELSE "refused")
       \/ ~Listening(Probed(a)) /\ Goto(a, "scan_pid")
    /\ UNCHANGED <<seen, exists, took, down, files, cuts, history>>

ScanDecide(a) ==
    /\ pc[a] = "scan_pid"
    /\ \/ Decide(a, FALSE) = "none" /\ Goto(a, "orphan")
       \/ Decide(a, FALSE) = "delete" /\ Goto(a, "rm_socket")
       \/ Decide(a, FALSE) = "kill" /\ Goto(a, IF a \in Procs THEN "zombie_wait" ELSE "zombie_kill")
    /\ UNCHANGED <<seen, exists, took, down, files, cuts, history>>

\* No sidecar: a socket file on its own is removed.
ScanOrphan(a) ==
    /\ pc[a] = "orphan"
    /\ UnlinkSocket(Endpoint[a])
    /\ Goto(a, Done(a))
    /\ UNCHANGED <<seen, exists, took, down, owner, complete, cuts, history>>

\* kill_zombie waits for the sidecar to disappear, at most ten seconds.
ZombieWait(a) ==
    /\ pc[a] = "zombie_wait"
    /\ \/ owner = NoProc /\ Goto(a, "create")
       \/ owner # NoProc /\ Goto(a, "zombie_kill")
    /\ UNCHANGED <<seen, exists, took, down, files, cuts, history>>

\* send_sigterm, to the process id that was read.
ZombieKill(a) ==
    /\ pc[a] = "zombie_kill"
    /\ \/ /\ ~PidAlive(seen[a])
          /\ Goto(a, "kill_failed")
          /\ UNCHANGED down
       \/ /\ PidAlive(seen[a])
          /\ down' = [r \in Procs |-> down[r] \/ r \in Holders(seen[a])]
          /\ pc' = [r \in Actors |-> IF r \in Unprotected(seen[a]) THEN "dead"
                                     ELSE IF r = a THEN "zombie_exit" ELSE pc[r]]
    /\ UNCHANGED <<seen, exists, took, files, cuts, history>>

\* wait_pid_exit.
ZombieExit(a) ==
    /\ pc[a] = "zombie_exit"
    /\ \/ ~PidAlive(seen[a]) /\ Goto(a, "rm_socket")
       \/ PidAlive(seen[a]) /\ Goto(a, "kill_failed")
    /\ UNCHANGED <<seen, exists, took, down, files, cuts, history>>

\* remove_files: the socket first, then the sidecar.
RmSocket(a) ==
    /\ pc[a] = "rm_socket"
    /\ UnlinkSocket(Endpoint[a])
    /\ Goto(a, "rm_sidecar")
    /\ UNCHANGED <<seen, exists, took, down, owner, complete, cuts, history>>

RmSidecar(a) ==
    /\ pc[a] = "rm_sidecar"
    /\ UnlinkSidecar
    /\ Goto(a, Done(a))
    /\ UNCHANGED <<seen, exists, took, down, sock, cuts, history>>

-----------------------------------------------------------------------------
\* claim_sidecar.

\* Mutant: create instead of create_new.
CreateShared(p) ==
    /\ pc[p] \in {"create", "recreate"}
    /\ owner' = p /\ complete' = FALSE
    /\ Goto(p, "write")
    /\ UNCHANGED <<seen, exists, took, down, sock, cuts, history>>

\* write_exclusive: O_EXCL creation, then the content; re_register is the same
\* after a removal.
Create(p) ==
    /\ pc[p] \in {"create", "recreate"}
    /\ \/ /\ owner = NoProc
          /\ owner' = p /\ complete' = FALSE
          /\ Goto(p, "write")
       \/ /\ owner # NoProc
          /\ Goto(p, IF pc[p] = "create" THEN "claim_read"
                     ELSE IF took[p] THEN "yield_failed" ELSE "refused")
          /\ UNCHANGED <<owner, complete>>
    /\ UNCHANGED <<seen, exists, took, down, sock, cuts, history>>

\* The content goes to the file that was created, which may have been unlinked.
Write(p) ==
    /\ pc[p] = "write"
    /\ complete' = (complete \/ owner = p)
    /\ Goto(p, "chmod")
    /\ UNCHANGED <<seen, exists, took, down, owner, sock, cuts, history>>

\* set_permissions is by path: it fails if the file is gone.
Chmod(p) ==
    /\ pc[p] = "chmod"
    /\ Goto(p, IF owner # NoProc THEN "handler"
               ELSE IF took[p] THEN "yield_failed" ELSE "refused")
    /\ UNCHANGED <<seen, exists, took, down, files, cuts, history>>

WriteFails(p) ==
    /\ pc[p] = "write"
    /\ Goto(p, IF took[p] THEN "yield_failed" ELSE "refused")
    /\ UNCHANGED <<seen, exists, took, down, files, cuts, history>>

ClaimRead(p) ==
    /\ pc[p] = "claim_read"
    /\ ReadIdentity(p)
    /\ Goto(p, "claim_probe")
    /\ UNCHANGED <<exists, took, down, files, cuts, history>>

\* A live server of this version ends the startup; one of another version, or
\* one that cannot be identified, is asked to yield, once.
ClaimProbe(p) ==
    /\ pc[p] = "claim_probe"
    /\ \/ /\ Listening(Probed(p))
          /\ Goto(p, IF took[p] THEN "yield_failed"
                     ELSE IF seen[p] # NoProc /\ Version[seen[p]] = Version[p] THEN "refused"
                     ELSE "yield")
       \/ ~Listening(Probed(p)) /\ Goto(p, IF seen[p] = NoProc THEN "stale_sidecar" ELSE "claim_pid")
    /\ UNCHANGED <<seen, exists, took, down, files, cuts, history>>

\* claim_dead_socket.
ClaimPid(p) ==
    /\ pc[p] = "claim_pid"
    /\ \/ /\ SameProcess(seen[p])
          /\ Goto(p, IF took[p] THEN "yield_failed" ELSE "refused")
       \/ ~SameProcess(seen[p]) /\ Goto(p, "stale_sidecar")
    /\ UNCHANGED <<seen, exists, took, down, files, cuts, history>>

\* remove_stale: the sidecar first, then the socket.
StaleSidecar(p) ==
    /\ pc[p] = "stale_sidecar"
    /\ UnlinkSidecar
    /\ Goto(p, "stale_socket")
    /\ UNCHANGED <<seen, exists, took, down, sock, cuts, history>>

StaleSocket(p) ==
    /\ pc[p] = "stale_socket"
    /\ UnlinkSocket(Endpoint[p])
    /\ Goto(p, "recreate")
    /\ UNCHANGED <<seen, exists, took, down, owner, complete, cuts, history>>

-----------------------------------------------------------------------------
\* yield_and_takeover.

YieldRead(p) ==
    /\ pc[p] = "yield"
    /\ ReadIdentity(p)
    /\ Goto(p, "yield_connect")
    /\ UNCHANGED <<exists, took, down, files, cuts, history>>

\* The connection is to the process's own endpoint; the server there accepts
\* the token of its own sidecar only.
YieldAccepted(p) ==
    /\ pc[p] = "yield_connect"
    /\ LET q == sock[Endpoint[p]] IN
         /\ q # NoProc /\ pc[q] = "serving" /\ seen[p] = q
         /\ down' = [down EXCEPT ![q] = TRUE]
    /\ took' = [took EXCEPT ![p] = TRUE]
    /\ Goto(p, "yield_wait")
    /\ UNCHANGED <<seen, exists, files, cuts, history>>

\* No connection, no confirmation, or no answer in time.
YieldRejected(p) ==
    /\ pc[p] = "yield_connect"
    /\ Goto(p, "yield_failed")
    /\ UNCHANGED <<seen, exists, took, down, files, cuts, history>>

\* Mutant: no deadline.
YieldWaitForever(p) ==
    /\ pc[p] = "yield_wait"
    /\ owner = NoProc
    /\ Goto(p, "create")
    /\ UNCHANGED <<seen, exists, took, down, files, cuts, history>>

\* The sidecar's disappearance is the signal; ten seconds at most.
YieldWait(p) ==
    /\ pc[p] = "yield_wait"
    /\ Goto(p, IF owner = NoProc THEN "create" ELSE "yield_failed")
    /\ UNCHANGED <<seen, exists, took, down, files, cuts, history>>

-----------------------------------------------------------------------------
\* run_server after the claim.

\* install_signal_handler; a failure removes the sidecar.
Handler(p) ==
    /\ pc[p] = "handler"
    /\ Goto(p, "bind") \/ Goto(p, "rollback")
    /\ UNCHANGED <<seen, exists, took, down, files, cuts, history>>

\* bind_listener_endpoint: a Unix path that exists is removed and bound again;
\* a TCP port in use is an error.
Bind(p) ==
    /\ pc[p] = "bind"
    /\ IF sock[Endpoint[p]] = NoProc \/ Endpoint[p] \in UnixEndpoints
       THEN sock' = [sock EXCEPT ![Endpoint[p]] = p] /\ Goto(p, "serving")
       ELSE Goto(p, "rollback") /\ UNCHANGED sock
    /\ UNCHANGED <<seen, exists, took, down, owner, complete, cuts, history>>

Rollback(p) ==
    /\ pc[p] = "rollback"
    /\ UnlinkSidecar
    /\ Goto(p, "bind_failed")
    /\ UNCHANGED <<seen, exists, took, down, sock, cuts, history>>

\* Shutdown, from a client or a signal.
Shutdown(p) ==
    /\ pc[p] = "serving"
    /\ ~down[p]
    /\ down' = [down EXCEPT ![p] = TRUE]
    /\ UNCHANGED <<pc, seen, exists, took, files, cuts, history>>

\* The accept loop and finish_shutdown up to the files (module Server).
Drain(p) ==
    /\ pc[p] = "serving"
    /\ down[p]
    /\ Goto(p, "unlink_socket")
    /\ UNCHANGED <<seen, exists, took, down, files, cuts, history>>

\* Mutant: the sidecar is removed here, too.
ExitSocketSidecarFirst(p) ==
    /\ pc[p] = "unlink_socket"
    /\ UnlinkSidecar
    /\ Goto(p, "unlink_sidecar")
    /\ UNCHANGED <<seen, exists, took, down, sock, cuts, history>>

ExitSocket(p) ==
    /\ pc[p] = "unlink_socket"
    /\ UnlinkSocket(Endpoint[p])
    /\ Goto(p, "unlink_sidecar")
    /\ UNCHANGED <<seen, exists, took, down, owner, complete, cuts, history>>

ExitSidecar(p) ==
    /\ pc[p] = "unlink_sidecar"
    /\ UnlinkSidecar
    /\ Goto(p, "exiting")
    /\ UNCHANGED <<seen, exists, took, down, sock, cuts, history>>

\* What the kernel releases with a process: its port, not a socket file.
Released(p) ==
    [e \in Endpoints |-> IF sock[e] = p /\ e \notin UnixEndpoints THEN NoProc ELSE sock[e]]

\* run_server returns and its listener is dropped.
Exit(p) ==
    /\ pc[p] = "exiting"
    /\ sock' = Released(p)
    /\ Goto(p, "dead")
    /\ UNCHANGED <<seen, exists, took, down, owner, complete, cuts, history>>

\* A crash, a kill, or an early return that leaves the files.
Crash(a) ==
    /\ Alive(a)
    /\ sock' = Released(a)
    /\ Goto(a, "dead")
    /\ UNCHANGED <<seen, exists, took, down, owner, complete, cuts, history>>

\* Somebody else deletes a socket file.
Cut(e) ==
    /\ e \in UnixEndpoints
    /\ cuts < Cuts
    /\ sock[e] # NoProc
    /\ sock' = [sock EXCEPT ![e] = NoProc]
    /\ cuts' = cuts + 1
    /\ UNCHANGED <<pc, seen, exists, took, down, owner, complete, history>>

-----------------------------------------------------------------------------
Scan(a) ==
    \/ ScanRead(a) \/ ScanExists(a) \/ ScanProbe(a) \/ ScanDecide(a) \/ ScanOrphan(a)
    \/ ZombieWait(a) \/ ZombieKill(a) \/ ZombieExit(a) \/ RmSocket(a) \/ RmSidecar(a)

Claim(p) ==
    \/ Create(p) \/ Write(p) \/ WriteFails(p) \/ Chmod(p)
    \/ ClaimRead(p) \/ ClaimProbe(p) \/ ClaimPid(p)
    \/ StaleSidecar(p) \/ StaleSocket(p)
    \/ YieldRead(p) \/ YieldAccepted(p) \/ YieldRejected(p) \/ YieldWait(p)

Serve(p) ==
    \/ Handler(p) \/ Bind(p) \/ Rollback(p)
    \/ Drain(p) \/ ExitSocket(p) \/ ExitSidecar(p) \/ Exit(p)

Next ==
    \/ \E a \in Actors : Start(a) \/ Scan(a) \/ Crash(a)
    \/ \E p \in Procs : Claim(p) \/ Serve(p) \/ Shutdown(p)
    \/ \E e \in Endpoints : Cut(e)

Spec == Init /\ [][Next]_vars

\* What process a does by itself.
Process(a) == Scan(a) \/ (a \in Procs /\ (Claim(a) \/ Serve(a)))

\* Every process that runs goes on running: its waits all have a deadline.
FairSpec == Spec /\ \A a \in Actors : WF_vars(Process(a))

-----------------------------------------------------------------------------

\* A process that takes itself for the registered server.
Registered(p) == pc[p] \in BindPoints \cup {"serving"}

\* There is one registered server: O_EXCL lets one process create the sidecar.
SingleRegistered == \A p, q \in Procs : Registered(p) /\ Registered(q) => p = q

\* A process whose startup overlapped no other is the only one that takes
\* itself for the registered server, whoever starts, scans, cleans up or
\* crashes after it and whatever they find half removed: claim_sidecar takes
\* nothing from it.
CleanIsSingle == \A p \in clean, q \in Procs : Registered(p) /\ Registered(q) => p = q

\* While it serves it can be found and reached, however the startups after it
\* overlap: the sidecar names it, and its socket is at its endpoint unless
\* somebody else deleted it.
CleanIsReachable ==
    \A p \in clean : pc[p] = "serving" =>
        /\ owner = p /\ complete
        /\ cuts = 0 => sock[Endpoint[p]] = p

\* Server q serves and its endpoint answers.
Answers(q) == pc[q] = "serving" /\ sock[Endpoint[q]] = q

\* The startup scan never sends SIGTERM to a server that can be reached.
ScanSparesLive ==
    [][\A p, q \in Procs : ZombieKill(p) /\ Pid[q] = Pid[seen[p]] => ~Answers(q)]_vars

\* It never does so to a server whose own startup overlapped no other: the
\* ten seconds between the probe and the SIGTERM of kill_zombie matter only to
\* a server that was itself starting when it was probed.
ScanSparesClean ==
    [][\A p \in Procs, q \in clean : ZombieKill(p) /\ Pid[q] = Pid[seen[p]] => ~Answers(q)]_vars

\* Where a startup gives up: ClaimRefused and KillFailed, a takeover that
\* failed, the rollback of bind_listener, and death.
Failures == {"refused", "kill_failed", "yield_failed", "rollback", "dead"}

\* What crashed servers left behind, with whatever process ids since reused,
\* stops nobody: a startup with nobody else running fails only when it cannot
\* write its file or install its handler, or when it is killed.
StaleNeverBlocks ==
    [][\A p \in alone : Starting(p) /\ pc'[p] # pc[p] /\ pc'[p] \in Failures
          => WriteFails(p) \/ Handler(p) \/ Crash(p)]_vars

\* Every startup and cleanup ends, however they overlap: the server serves, or
\* the process gives up or dies.  (A process is started at most once, so when
\* each ends there is a time after which none is under way.)
StartupEnds == <>[](\A a \in Actors : ~Starting(a))
=============================================================================
