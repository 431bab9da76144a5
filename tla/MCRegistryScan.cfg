SPECIFICATION Spec
CONSTANTS
    p1 = p1
    p2 = p2
    p3 = p3
    p4 = p4
    c1 = c1
    v1 = v1
    v2 = v2
    k1 = k1
    k2 = k2
    k3 = k3
    e1 = e1
    e2 = e2
    NoProc = NoProc
    Procs = {p1, p2}
    Cleaners = {}
    Endpoint <- TwoEndpoints
    Version <- Versions
    Pid <- Pids
    UnixEndpoints = {e1}
    Casts = {{p1, p2}}
    Cuts = 0
PROPERTY ScanSparesLive
CHECK_DEADLOCK FALSE
