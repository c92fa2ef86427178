\* Three daemons start on a lock left behind: two of them hold it.
SPECIFICATION Spec
CONSTANTS
    p1 = p1
    p2 = p2
    p3 = p3
    k0 = k0
    k1 = k1
    k2 = k2
    k3 = k3
    Nothing = Nothing
    Corrupt = Corrupt
    Earlier = Earlier
    Procs = {p1, p2, p3}
    Restores = {}
    Pids = {k0, k1, k2, k3}
    Pid <- OwnPids
    Inodes = {i1, i2, i3, i4, i5}
    Found <- DeadLock
    ReadsStart = TRUE
    MAX_TAKEOVER_ATTEMPTS = 10
    MaxCrashes = 0
SYMMETRY AnyInode
INVARIANTS
    AtMostOneHolder
