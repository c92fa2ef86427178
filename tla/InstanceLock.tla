---------------------------- MODULE InstanceLock ----------------------------
(***************************************************************************)
(* The single-instance lock $DATA_DIR/daemon.lock: src/core/lock.ts, used  *)
(* by the daemon (src/daemon.ts) and by `npm run db:restore'               *)
(* (src/restore.ts).                                                       *)
(*                                                                         *)
(* The contenders are operating-system processes, so every system call on  *)
(* the lock path is an action: link, read, stat, rename, link back,        *)
(* unlink.  What a process does to a file that only it can name (the       *)
(* .tmp- file it links from, the .stale- copy it has moved away) is part   *)
(* of the action before or after.                                          *)
(***************************************************************************)
EXTENDS Integers, FiniteSets

CONSTANTS
    Procs,                  \* process lifetimes: each starts once
    Restores,               \* those that may be a db:restore; the others are daemons
    Pids,
    Pid,                    \* the pid of each lifetime; two may share one
    Inodes,
    Found,                  \* locks an earlier process may have left; Corrupt: unreadable
    ReadsStart,             \* can this host read the start time of a process?
    MAX_TAKEOVER_ATTEMPTS,
    Earlier,                \* start time and token of a process before the first of Procs
    Corrupt,
    Nothing,
    MaxCrashes              \* bound of the model

\* LockFileContent; `start' is processStart, a lifetime standing for its own time.
Content == [pid : Pids, start : Procs \cup {Earlier, Nothing}, token : Procs \cup {Earlier, Nothing}]

ASSUME InstanceLockAssumption ==
    /\ Restores \subseteq Procs
    /\ Pid \in [Procs -> Pids]
    /\ IsFiniteSet(Inodes) /\ IsFiniteSet(Procs)
    /\ Cardinality(Inodes) > Cardinality(Procs) + 1
    /\ ReadsStart \in BOOLEAN
    /\ MAX_TAKEOVER_ATTEMPTS \in Nat \ {0}
    /\ MaxCrashes \in Nat
    /\ {Earlier, Nothing} \cap Procs = {} /\ Earlier # Nothing
    /\ Nothing \notin Inodes /\ Nothing # Corrupt
    /\ Found \subseteq Content \cup {Nothing, Corrupt}
    /\ {Corrupt, Nothing} \cap Content = {}
    \* what is found was written before any of Procs started
    /\ \A c \in Found \cap Content : c.start \notin Procs

VARIABLES
    lock,       \* inode at the lock path; Nothing: no file
    file,       \* what each inode holds
    stale,      \* inode under the .stale- name of a process
    pc,         \* where each process is in acquireDaemonLock and after
    attempt,    \* rounds of its loop
    seen,       \* the snapshot it read (`expected'); Nothing: missing
    before,     \* the inode it found with stat; Nothing: none
    strangers,  \* pids given to processes that are no part of this program
    company,    \* history: the processes that have not run alone since their start
    crashes

local == <<seen, before>>
vars  == <<lock, file, stale, pc, attempt, local, strangers, company, crashes>>

-----------------------------------------------------------------------------
(* Processes and what a lock says about them.                              *)

Runs(p)  == pc[p] \notin {"off", "gone"}
Alive(k) == k \in strangers \/ \E p \in Procs : Pid[p] = k /\ Runs(p)

\* Mutant: whoever has the pid is taken for the holder.
aliveByPid(c) == Alive(c.pid)

\* assessHolder: the pid is alive and started when the lock says; where that
\* cannot be verified the holder is taken to be alive.
HolderAlive(c) ==
    IF c.start = Nothing \/ ~ReadsStart THEN Alive(c.pid)
    ELSE \E p \in Procs : Pid[p] = c.pid /\ Runs(p) /\ c.start = p

Self(p) == [pid |-> Pid[p], start |-> IF ReadsStart THEN p ELSE Nothing, token |-> p]

\* What a read of the path gives
Snapshot == IF lock = Nothing THEN Nothing ELSE file[lock]
IsContent(s) == s \notin {Nothing, Corrupt}

Linked == {lock} \cup {stale[p] : p \in Procs}

Refusing == {"putback-refuse", "refused"}

-----------------------------------------------------------------------------
Goto(p, label) == pc' = [pc EXCEPT ![p] = label]

\* `continue': the next round of the loop, or the error after the last one
Continue(p) ==
    /\ attempt' = [attempt EXCEPT ![p] = @ + 1]
    /\ Goto(p, IF attempt[p] + 1 < MAX_TAKEOVER_ATTEMPTS THEN "create" ELSE "refused")

Start(p) ==
    /\ pc[p] = "off" /\ ~Alive(Pid[p])
    /\ \/ Goto(p, "clean")
       \/ p \in Restores /\ Goto(p, "inspect")
    /\ LET running == {q \in Procs : Runs(q)} IN
       company' = IF running = {} THEN company ELSE company \cup running \cup {p}
    /\ UNCHANGED <<lock, file, stale, attempt, local, strangers, crashes>>

\* db:restore looks before it acquires: a running daemon, or a lock that
\* cannot be read, stops it.
inspectDaemonLock(p) ==
    /\ pc[p] = "inspect"
    /\ Goto(p, IF Snapshot = Corrupt \/ (IsContent(Snapshot) /\ HolderAlive(Snapshot))
               THEN "refused" ELSE "clean")
    /\ UNCHANGED <<lock, file, stale, attempt, local, strangers, company, crashes>>

\* The copies of processes whose pid is not alive are removed.
cleanupLockResidues(p) ==
    /\ pc[p] = "clean"
    /\ stale' = [q \in Procs |-> IF Alive(Pid[q]) THEN stale[q] ELSE Nothing]
    /\ Goto(p, "create")
    /\ UNCHANGED <<lock, file, attempt, local, strangers, company, crashes>>

\* link(tmp, path): appears with its content, or EEXIST.  The inode may be one
\* that was just freed.
tryCreateLockFile(p) ==
    /\ pc[p] \in {"create", "recreate"}
    /\ \/ /\ lock = Nothing
          /\ \E i \in Inodes \ Linked : /\ lock' = i
                                        /\ file' = [file EXCEPT ![i] = Self(p)]
          /\ Goto(p, "verify")
       \/ /\ lock # Nothing
          /\ Goto(p, IF pc[p] = "create" THEN "read" ELSE "raced")
          /\ UNCHANGED <<lock, file>>
    /\ UNCHANGED <<stale, attempt, local, strangers, company, crashes>>

\* The lock just created is read back: another process may have moved it.
ownsLockFile(p) ==
    /\ pc[p] = "verify"
    /\ IF IsContent(Snapshot) /\ Snapshot.token = p
       THEN Goto(p, "holds") /\ UNCHANGED attempt
       ELSE Continue(p)
    /\ UNCHANGED <<lock, file, stale, local, strangers, company, crashes>>

readLockFileSnapshot(p) ==
    /\ pc[p] = "read"
    /\ seen' = [seen EXCEPT ![p] = Snapshot]
    /\ Goto(p, "assess")
    /\ UNCHANGED <<lock, file, stale, attempt, before, strangers, company, crashes>>

\* A live holder: duplicate error.  Anything else is to be taken over.
assessHolder(p) ==
    /\ pc[p] = "assess"
    /\ Goto(p, IF IsContent(seen[p]) /\ HolderAlive(seen[p]) THEN "refused" ELSE "stat")
    /\ UNCHANGED <<lock, file, stale, attempt, local, strangers, company, crashes>>

-----------------------------------------------------------------------------
(* takeOverStaleLock                                                       *)

StatBefore(p) ==
    /\ pc[p] = "stat"
    /\ before' = [before EXCEPT ![p] = lock]
    /\ Goto(p, "rename")
    /\ UNCHANGED <<lock, file, stale, attempt, seen, strangers, company, crashes>>

RenameAway(p) ==
    /\ pc[p] = "rename"
    /\ \/ /\ lock = Nothing
          /\ Continue(p)
          /\ UNCHANGED <<lock, stale>>
       \/ /\ lock # Nothing
          /\ stale' = [stale EXCEPT ![p] = lock]
          /\ lock' = Nothing
          /\ Goto(p, "check")
          /\ UNCHANGED attempt
    /\ UNCHANGED <<file, local, strangers, company, crashes>>

sameFile(p) == before[p] = stale[p]

sameContent(p) ==
    IsContent(seen[p]) =>
       /\ IsContent(file[stale[p]])
       /\ file[stale[p]].pid = seen[p].pid
       /\ file[stale[p]].token = seen[p].token

\* Mutant: what was moved is dropped, whatever it is.
dropsWhatItMoved(p) ==
    /\ pc[p] = "check"
    /\ stale' = [stale EXCEPT ![p] = Nothing] /\ Goto(p, "recreate")
    /\ UNCHANGED <<lock, file, attempt, local, strangers, company, crashes>>

\* After the rename: is it the lock that was judged, and is its holder dead?
CheckMoved(p) ==
    /\ pc[p] = "check"
    /\ LET moved == file[stale[p]] IN
       IF ~sameFile(p) \/ ~sameContent(p)
       THEN Goto(p, "putback") /\ UNCHANGED stale
       ELSE IF IsContent(moved) /\ HolderAlive(moved)
       THEN Goto(p, "putback-refuse") /\ UNCHANGED stale
       ELSE stale' = [stale EXCEPT ![p] = Nothing] /\ Goto(p, "recreate")
    /\ UNCHANGED <<lock, file, attempt, local, strangers, company, crashes>>

\* link(stale, path) does not overwrite: if the path is taken the copy is dropped.
restoreMovedLockFile(p) ==
    /\ pc[p] \in {"putback", "putback-refuse"}
    /\ lock' = IF lock = Nothing THEN stale[p] ELSE lock
    /\ stale' = [stale EXCEPT ![p] = Nothing]
    /\ IF pc[p] = "putback" THEN Continue(p) ELSE Goto(p, "refused") /\ UNCHANGED attempt
    /\ UNCHANGED <<file, local, strangers, company, crashes>>

\* Somebody created a lock between the take-over and the link.
ReadRaced(p) ==
    /\ pc[p] = "raced"
    /\ IF IsContent(Snapshot) /\ HolderAlive(Snapshot)
       THEN Goto(p, "refused") /\ UNCHANGED attempt
       ELSE Continue(p)
    /\ UNCHANGED <<lock, file, stale, local, strangers, company, crashes>>

-----------------------------------------------------------------------------
(* Release, exit and crash.                                                *)

\* releaseDaemonLock reads the lock and unlinks the path if pid and token are
\* its own, in two system calls.
releaseDaemonLock(p) ==
    /\ pc[p] = "holds"
    /\ Goto(p, IF IsContent(Snapshot) /\ Snapshot.pid = Pid[p] /\ Snapshot.token \in {p, Nothing}
               THEN "unlink" ELSE "exiting")
    /\ UNCHANGED <<lock, file, stale, attempt, local, strangers, company, crashes>>

UnlinkLock(p) ==
    /\ pc[p] = "unlink"
    /\ lock' = Nothing
    /\ Goto(p, "exiting")
    /\ UNCHANGED <<file, stale, attempt, local, strangers, company, crashes>>

Exit(p) ==
    /\ pc[p] \in {"refused", "exiting"}
    /\ Goto(p, "gone")
    /\ UNCHANGED <<lock, file, stale, attempt, local, strangers, company, crashes>>

\* Killed, or gone through the process.exit of the shutdown time-out.
Crash(p) ==
    /\ Runs(p) /\ crashes < MaxCrashes
    /\ Goto(p, "gone")
    /\ crashes' = crashes + 1
    /\ UNCHANGED <<lock, file, stale, attempt, local, strangers, company>>

\* External: the system gives a free pid to an unrelated process, or takes it back.
Stranger(k) ==
    /\ \/ ~Alive(k) /\ strangers' = strangers \cup {k}
       \/ k \in strangers /\ strangers' = strangers \ {k}
    /\ UNCHANGED <<lock, file, stale, pc, attempt, local, company, crashes>>

-----------------------------------------------------------------------------
Init ==
    /\ \E s \in Found, i \in Inodes :
          /\ lock = IF s = Nothing THEN Nothing ELSE i
          /\ file = [j \in Inodes |-> IF j = lock THEN s ELSE Corrupt]
    /\ stale = [p \in Procs |-> Nothing]
    /\ pc = [p \in Procs |-> "off"]
    /\ attempt = [p \in Procs |-> 0]
    /\ seen = [p \in Procs |-> Nothing]
    /\ before = [p \in Procs |-> Nothing]
    /\ strangers \in SUBSET Pids
    /\ company = {}
    /\ crashes = 0

acquireDaemonLock(p) ==
    \/ cleanupLockResidues(p) \/ tryCreateLockFile(p) \/ ownsLockFile(p)
    \/ readLockFileSnapshot(p) \/ assessHolder(p)
    \/ StatBefore(p) \/ RenameAway(p) \/ CheckMoved(p) \/ restoreMovedLockFile(p)
    \/ ReadRaced(p)

Next ==
    \/ \E p \in Procs : \/ Start(p) \/ inspectDaemonLock(p) \/ acquireDaemonLock(p)
                        \/ releaseDaemonLock(p) \/ UnlinkLock(p) \/ Exit(p) \/ Crash(p)
    \/ \E k \in Pids : Stranger(k)

Spec == Init /\ [][Next]_vars

-----------------------------------------------------------------------------
(* Properties.                                                             *)

\* No two processes have the data directory at a time, daemons or restores,
\* whatever lock they found (lock.ts:24-28, tests/lock.test.ts:330).
AtMostOneHolder ==
    \A p, q \in Procs : pc[p] = "holds" /\ pc[q] = "holds" => p = q

Refused(p) == pc[p] \notin Refusing /\ pc'[p] \in Refusing

\* A lock that does not say when its holder started names a live pid.
Unverifiable(p) ==
    \E c \in {seen[p]} \cup {file[i] : i \in Inodes} :
       IsContent(c) /\ (c.start = Nothing \/ ~ReadsStart) /\ Alive(c.pid)

\* A daemon that has run alone since its start is not refused, whatever a crash
\* left behind: a lock cut short, a dead holder's, one whose pid a stranger or
\* the daemon itself has now (assessHolder, lock.ts:37-50).
LoneStartSucceeds ==
    [][\A p \in Procs \ Restores : Refused(p) => p \in company \/ Unverifiable(p)]_vars
=============================================================================
