--------------------------- MODULE MCInstanceLock ---------------------------
(* Values of the constants of InstanceLock for the model checker.          *)
EXTENDS InstanceLock, TLC

CONSTANTS p1, p2, p3, k0, k1, k2, k3    \* processes and their pids

\* The lock of a daemon that is dead
DeadLock == {[pid |-> k0, start |-> Earlier, token |-> Earlier]}

OwnPids == [p \in Procs |-> CASE p = p1 -> k1 [] p = p2 -> k2 [] OTHER -> k3]

AnyInode == Permutations(Inodes)
=============================================================================
