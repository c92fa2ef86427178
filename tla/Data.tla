-------------------------------- MODULE Data --------------------------------
(* The data directory: the database and its write-ahead log, the backups   *)
(* beside it, and the processes that touch them -- the daemon (start,      *)
(* migration, stop), `db:backup' and the daily job, `db:restore'.  Each    *)
(* process may be killed between any two steps.  The lock is the one of    *)
(* InstanceLock, taken here in one step.  What the database holds is the   *)
(* set of writes that reached it.                                          *)
EXTENDS Naturals, FiniteSets, FiniteSetsExt

CONSTANTS
    Writes,             \* what clients ask the daemon to keep
    Builds,             \* the schema version each deployed build supports
    backupKeep,         \* how many published backups are kept
    PARTIAL_STALE,      \* age at which a left-over partial file is removed
    VacuumOutlastsBusy, \* may a VACUUM run longer than the busy timeout?
    MaxClock,           \* bound: seconds
    MaxBackups,         \* bound: backups begun
    MaxRestores,        \* bound: restores begun
    MaxDataFaults       \* bound: kills and failing disk operations

ASSUME DataAssumption ==
    /\ backupKeep \in Nat \ {0}
    /\ Builds \subseteq Nat \ {0} /\ Builds # {}
    /\ VacuumOutlastsBusy \in BOOLEAN

VARIABLES
    db,        \* main file: [state, rows, schema], state none | half | whole
    wal,       \* writes committed to the write-ahead log and not to the main file
    alien,     \* is the log left from a main file that was replaced?
    files,     \* snapshots: [kind, at, n, rows, schema, whole]; half ones are junk
    partials,  \* partial files of backups: [by, at]
    lock,      \* who holds the daemon lock; stale when its owner is gone
    daemon,    \* off | opening | snapshot | migrating | up
    backup,    \* what the job's and the command's backup are doing
    restore,   \* what `db:restore' is doing
    build,     \* schema version of the deployed program
    clock,     \* wall clock, in the seconds of the file names
    acked,     \* writes answered to a client
    warned,    \* writes a restore said it might lose
    begun      \* counters of the bounds: [backups, restores, faults]

dataVars == <<db, wal, alien, files, partials, lock, daemon, backup, restore,
              build, clock, acked, warned, begun>>

Backups == {"job", "cli"}
IdleBackup == [pc |-> "idle", at |-> 0, rows |-> {}, schema |-> 0, whole |-> FALSE]
IdleRestore == [pc |-> "idle", target |-> {}, pre |-> {}, told |-> "nothing"]

DataInit ==
    /\ db = [state |-> "none", rows |-> {}, schema |-> 0] /\ wal = {} /\ alien = FALSE
    /\ files = {} /\ partials = {} /\ lock = "none" /\ daemon = "off"
    /\ backup = [p \in Backups |-> IdleBackup] /\ restore = IdleRestore
    /\ build = Min(Builds) /\ clock = 0 /\ acked = {} /\ warned = {}
    /\ begun = [backups |-> 0, restores |-> 0, faults |-> 0]

Fault == begun.faults < MaxDataFaults /\ begun' = [begun EXCEPT !.faults = @ + 1]

\* A lock file names a process; a dead one's is taken over (InstanceLock).
LockFree ==
    \/ lock = "none"
    \/ lock = "daemon" /\ daemon = "off"
    \/ lock = "restore" /\ restore.pc = "idle"

\* Backups that hold a read transaction on the database.
Readers == {p \in Backups : backup[p].pc = "vacuum"}

\* What a checkpoint may move into the main file while they read.
Backfilled == {w \in wal : \A p \in Readers : w \in backup[p].rows}

\* A file name that is free: the second, then -1, -2...
uniqueFilePath(kind, at) ==
    [kind |-> kind, at |-> at,
     n |-> Cardinality({f \in files : f.kind = kind /\ f.at = at})]

Snapshot(name, rows, schema, whole) ==
    [kind |-> name.kind, at |-> name.at, n |-> name.n,
     rows |-> rows, schema |-> schema, whole |-> whole]

Canonical == {f \in files : f.kind = "backup"}

-----------------------------------------------------------------------------
(* The daemon. *)

refuse == daemon' = "off" /\ lock' = "none"

daemonStart ==
    /\ daemon = "off" /\ LockFree
    /\ daemon' = "opening" /\ lock' = "daemon"
    /\ UNCHANGED <<db, wal, alien, files, partials, backup, restore, build, clock,
                   acked, warned, begun>>

\* openDatabase: no file makes a new one, a newer schema is refused, an older one is
\* copied aside first; a damaged file may or may not be noticed.
openDatabase ==
    /\ daemon = "opening"
    /\ LET found == IF alien /\ wal # {} THEN [db EXCEPT !.state = "half"] ELSE db
       IN \/ /\ found.state = "none"
             /\ db' = [state |-> "whole", rows |-> {}, schema |-> build]
             /\ daemon' = "up" /\ wal' = {} /\ UNCHANGED lock
          \/ /\ found.state = "half"
             /\ db' = found /\ wal' = (IF alien THEN {} ELSE wal)
             /\ refuse \/ (daemon' = "up" /\ UNCHANGED lock)
          \/ /\ found.state = "whole" /\ found.schema > build
             /\ refuse /\ UNCHANGED <<db, wal>>
          \/ /\ found.state = "whole" /\ found.schema = build
             /\ daemon' = "up" /\ UNCHANGED <<db, wal, lock>>
          \/ /\ found.state = "whole" /\ found.schema < build
             /\ daemon' = "snapshot" /\ UNCHANGED <<db, wal, lock>>
    /\ alien' = FALSE
    /\ UNCHANGED <<files, partials, backup, restore, build, clock, acked, warned, begun>>

\* vacuumPreMigrationSnapshot: no snapshot, no migration.
preMigrationSnapshot ==
    /\ daemon = "snapshot"
    /\ \/ /\ files' = files \cup
                 {Snapshot(uniqueFilePath("pre-v", clock), db.rows \cup wal, db.schema, TRUE)}
          /\ daemon' = "migrating" /\ UNCHANGED <<lock, begun>>
       \/ Fault /\ refuse /\ UNCHANGED files
    /\ UNCHANGED <<db, wal, alien, partials, backup, restore, build, clock, acked, warned>>

\* migrate: one transaction, all of it or nothing.
migrate ==
    /\ daemon = "migrating"
    /\ \/ /\ db' = [db EXCEPT !.schema = build]
          /\ daemon' = "up" /\ UNCHANGED <<lock, begun>>
       \/ Fault /\ refuse /\ UNCHANGED db
    /\ UNCHANGED <<wal, alien, files, partials, backup, restore, build, clock, acked, warned>>

DaemonFree == daemon = "up" /\ backup["job"].pc = "idle"

\* A transaction of a tool or a job, and its answer.
withTransaction(w) ==
    /\ DaemonFree /\ w \notin acked
    /\ wal' = wal \cup {w}
    /\ acked' = (IF db.state = "whole" THEN acked \cup {w} ELSE acked)
    /\ UNCHANGED <<db, alien, files, partials, lock, daemon, backup, restore, build,
                   clock, warned, begun>>

\* db.close(): the last connection folds the log into the main file.
daemonStop ==
    /\ DaemonFree
    /\ db' = [db EXCEPT !.rows = @ \cup Backfilled]
    /\ wal' = wal \ Backfilled
    /\ refuse
    /\ UNCHANGED <<alien, files, partials, backup, restore, build, clock, acked, warned, begun>>

daemonKilled ==
    /\ daemon # "off" /\ Fault
    /\ daemon' = "off" /\ backup' = [backup EXCEPT !["job"] = IdleBackup]
    /\ UNCHANGED <<db, wal, alien, files, partials, lock, restore, build, clock, acked, warned>>

\* SQLite's own checkpoint, when the log has grown.
autoCheckpoint ==
    /\ DaemonFree /\ Backfilled # {}
    /\ db' = [db EXCEPT !.rows = @ \cup Backfilled]
    /\ wal' = wal \ Backfilled
    /\ UNCHANGED <<alien, files, partials, lock, daemon, backup, restore, build, clock,
                   acked, warned, begun>>

\* Another build is installed while nothing runs.
deploy ==
    /\ daemon = "off" /\ restore.pc = "idle"
    /\ \E v \in Builds \ {build} : build' = v
    /\ UNCHANGED <<db, wal, alien, files, partials, lock, daemon, backup, restore, clock,
                   acked, warned, begun>>

-----------------------------------------------------------------------------
(* runBackup: VACUUM INTO a partial file, verify, link, prune. *)

partialOf(p) == [by |-> p, at |-> backup[p].at]

fails(p) ==
    /\ backup' = [backup EXCEPT ![p] = IdleBackup]
    /\ partials' = partials \ {partialOf(p)}

runBackup(p) ==
    /\ backup[p].pc = "idle" /\ begun.backups < MaxBackups
    /\ p = "job" => DaemonFree
    /\ db.state # "none"
    /\ backup' = [backup EXCEPT ![p] =
          [pc |-> "vacuum", at |-> clock, rows |-> db.rows \cup wal, schema |-> db.schema,
           whole |-> db.state = "whole" /\ ~(alien /\ wal # {})]]
    /\ partials' = partials \cup {[by |-> p, at |-> clock]}
    /\ begun' = [begun EXCEPT !.backups = @ + 1]
    /\ UNCHANGED <<db, wal, alien, files, lock, daemon, restore, build, clock, acked, warned>>

\* Mutant: what VACUUM wrote is published unread.
unreadCopy(p) == p \in Backups

wholeCopy(p) == backup[p].whole

\* verifyDatabaseFile: quick_check on what VACUUM wrote; a full disk spoils it.
verifyPartial(p) ==
    /\ backup[p].pc = "vacuum"
    /\ \/ /\ wholeCopy(p)
          /\ backup' = [backup EXCEPT ![p].pc = "publish"] /\ UNCHANGED <<partials, begun>>
       \/ /\ ~wholeCopy(p) /\ fails(p) /\ UNCHANGED begun
       \/ Fault /\ fails(p)
    /\ UNCHANGED <<db, wal, alien, files, lock, daemon, restore, build, clock, acked, warned>>

\* publishBackupFile: link never replaces; the four seconds after are tried too.
publishBackupFile(p) ==
    /\ backup[p].pc = "publish"
    /\ LET free == {s \in backup[p].at .. backup[p].at + 4 : \A f \in Canonical : f.at # s}
       IN \/ /\ partialOf(p) \in partials /\ free # {}
             /\ files' = files \cup
                   {Snapshot([kind |-> "backup", at |-> Min(free), n |-> 0],
                             backup[p].rows, backup[p].schema, backup[p].whole)}
             /\ partials' = partials \ {partialOf(p)}
             /\ backup' = [backup EXCEPT ![p].pc = "prune"]
          \/ /\ partialOf(p) \notin partials \/ free = {}
             /\ fails(p) /\ UNCHANGED files
    /\ UNCHANGED <<db, wal, alien, lock, daemon, restore, build, clock, acked, warned, begun>>

\* prune: the newest names stay; of the partial files, the recent ones.
prune(p) ==
    /\ backup[p].pc = "prune"
    /\ files' = files \ {f \in Canonical :
          Cardinality({g \in Canonical : g.at > f.at}) >= backupKeep}
    /\ partials' = {x \in partials : clock - x.at < PARTIAL_STALE}
    /\ backup' = [backup EXCEPT ![p] = IdleBackup]
    /\ UNCHANGED <<db, wal, alien, lock, daemon, restore, build, clock, acked, warned, begun>>

commandKilled ==
    /\ backup["cli"].pc # "idle" /\ Fault
    /\ backup' = [backup EXCEPT !["cli"] = IdleBackup]
    /\ UNCHANGED <<db, wal, alien, files, partials, lock, daemon, restore, build, clock,
                   acked, warned>>

-----------------------------------------------------------------------------
(* runRestore. *)

\* The newest backup that passes the check, or the file the user names.
resolveRestoreTarget ==
    LET good == {f \in Canonical : f.whole}
    IN {f \in good : \A g \in good : g.at <= f.at} \cup {f \in files \ Canonical : f.whole}

restoreBegin ==
    /\ restore.pc = "idle" /\ begun.restores < MaxRestores
    /\ \E f \in resolveRestoreTarget :
          /\ f.schema <= build
          /\ restore' = [IdleRestore EXCEPT !.pc = "lock", !.target = {f}]
    /\ begun' = [begun EXCEPT !.restores = @ + 1]
    /\ UNCHANGED <<db, wal, alien, files, partials, lock, daemon, backup, build, clock,
                   acked, warned>>

restoreEnds == restore' = IdleRestore /\ lock' = "none"

\* Mutant: the lock is looked at once and not taken, as it was before.
restoreLooksOnly ==
    /\ restore.pc = "lock"
    /\ \/ /\ LockFree
          /\ restore' = [restore EXCEPT !.pc = IF db.state = "none" THEN "replace" ELSE "checkpoint"]
       \/ ~LockFree /\ restore' = IdleRestore
    /\ UNCHANGED <<db, wal, alien, files, partials, lock, daemon, backup, build, clock,
                   acked, warned, begun>>

\* The state of the lock is looked at, then the lock is taken for the whole restore.
restoreLock ==
    /\ restore.pc = "lock"
    /\ \/ /\ LockFree /\ lock' = "restore"
          /\ restore' = [restore EXCEPT !.pc = IF db.state = "none" THEN "replace" ELSE "checkpoint"]
       \/ ~LockFree /\ restore' = IdleRestore /\ UNCHANGED lock
    /\ UNCHANGED <<db, wal, alien, files, partials, daemon, backup, build, clock,
                   acked, warned, begun>>

\* wal_checkpoint(TRUNCATE) waits for readers as long as the busy timeout; that it was
\* busy is not looked at, an error is only reported.
checkpointCurrentDatabase ==
    /\ restore.pc = "checkpoint" /\ (Readers = {} \/ VacuumOutlastsBusy)
    /\ \/ /\ db' = [db EXCEPT !.rows = @ \cup Backfilled]
          /\ wal' = wal \ Backfilled /\ UNCHANGED <<warned, begun>>
       \/ Fault /\ warned' = warned \cup wal /\ UNCHANGED <<db, wal>>
    /\ restore' = [restore EXCEPT !.pc = "copy"]
    /\ UNCHANGED <<alien, files, partials, lock, daemon, backup, build, clock, acked>>

copyAside ==
    /\ restore.pc = "copy"
    /\ \/ LET f == Snapshot(uniqueFilePath("pre-restore", clock), db.rows, db.schema,
                             db.state = "whole")
          IN /\ files' = files \cup {f}
             /\ restore' = [restore EXCEPT !.pc = "replace", !.pre = {f}]
             /\ UNCHANGED <<lock, begun>>
       \/ Fault /\ restoreEnds /\ UNCHANGED files
    /\ UNCHANGED <<db, wal, alien, partials, daemon, backup, build, clock, acked, warned>>

Emptied == [state |-> "half", rows |-> {}, schema |-> 0]

\* Backups that read while the file under them changes do not pass their check.
ReadersSpoiled == [p \in Backups |->
    IF p \in Readers THEN [backup[p] EXCEPT !.whole = FALSE] ELSE backup[p]]

\* copyFileSync(target, dbPath) begins: the main file is gone.
replace ==
    /\ restore.pc = "replace"
    /\ \/ /\ restore.target \subseteq files
          /\ db' = Emptied /\ alien' = (wal # {})
          /\ backup' = ReadersSpoiled
          /\ restore' = [restore EXCEPT !.pc = "replacing"] /\ UNCHANGED lock
       \/ /\ ~(restore.target \subseteq files)
          /\ restoreEnds /\ UNCHANGED <<db, alien, backup>>
    /\ UNCHANGED <<wal, files, partials, daemon, build, clock, acked, warned, begun>>

\* It ends: copied, copied with damage, or failed -- which removes the file, outside
\* the block that would put the copy aside back.
replaced ==
    /\ restore.pc = "replacing"
    /\ \E f \in restore.target :
          \/ /\ db' = [state |-> IF f.whole THEN "whole" ELSE "half",
                       rows |-> f.rows, schema |-> f.schema]
             /\ restore' = [restore EXCEPT !.pc = "dropLog"] /\ UNCHANGED <<lock, begun>>
          \/ /\ Fault /\ db' = [state |-> "half", rows |-> f.rows, schema |-> f.schema]
             /\ restore' = [restore EXCEPT !.pc = "dropLog"] /\ UNCHANGED lock
          \/ /\ Fault /\ db' = [Emptied EXCEPT !.state = "none"] /\ restoreEnds
    /\ UNCHANGED <<wal, alien, files, partials, daemon, backup, build, clock, acked, warned>>

dropLog ==
    /\ restore.pc = "dropLog"
    /\ wal' = {} /\ alien' = FALSE
    /\ restore' = [restore EXCEPT !.pc = "verify"]
    /\ UNCHANGED <<db, files, partials, lock, daemon, backup, build, clock, acked, warned, begun>>

restoreVerified == restore.pc = "verify" /\ db.state = "whole"

verifyRestored ==
    /\ restoreVerified
    /\ restore' = [IdleRestore EXCEPT !.told = "restored"] /\ lock' = "none"
    /\ UNCHANGED <<db, wal, alien, files, partials, daemon, backup, build, clock,
                   acked, warned, begun>>

\* The check failed: the copy put aside goes back, if there is one.
rollback ==
    /\ restore.pc = "verify" /\ db.state # "whole"
    /\ db' \in {[state |-> IF f.whole THEN "whole" ELSE "half", rows |-> f.rows,
                 schema |-> f.schema] : f \in restore.pre}
              \cup (IF restore.pre = {} THEN {db} ELSE {})
    /\ restoreEnds
    /\ UNCHANGED <<wal, alien, files, partials, daemon, backup, build, clock, acked,
                   warned, begun>>

restoreKilled ==
    /\ restore.pc # "idle" /\ Fault
    /\ restore' = IdleRestore
    /\ UNCHANGED <<db, wal, alien, files, partials, lock, daemon, backup, build, clock,
                   acked, warned>>

-----------------------------------------------------------------------------
secondPasses ==
    /\ clock < MaxClock /\ clock' = clock + 1
    /\ UNCHANGED <<db, wal, alien, files, partials, lock, daemon, backup, restore, build,
                   acked, warned, begun>>

DaemonStep ==
    \/ daemonStart \/ openDatabase \/ preMigrationSnapshot \/ migrate
    \/ \E w \in Writes : withTransaction(w)
    \/ daemonStop \/ daemonKilled \/ autoCheckpoint \/ deploy

BackupStep ==
    \/ \E p \in Backups : runBackup(p) \/ verifyPartial(p) \/ publishBackupFile(p) \/ prune(p)
    \/ commandKilled

RestoreStep ==
    \/ restoreBegin \/ restoreLock \/ checkpointCurrentDatabase \/ copyAside
    \/ replace \/ replaced \/ dropLog \/ verifyRestored \/ rollback \/ restoreKilled

DataNext == DaemonStep \/ BackupStep \/ RestoreStep \/ secondPasses

DataSpec == DataInit /\ [][DataNext]_dataVars

-----------------------------------------------------------------------------
\* A file under the name of a published backup is whole, whenever the process that
\* wrote it was killed (backup.ts:33: "never a half database under a canonical name").
CanonicalIsWhole == \A f \in Canonical : f.whole

\* What a client was told is kept is in the database, or in a whole file beside it
\* when a restore replaced the database -- at every instant, through kills, upgrades,
\* restores and their failures; but for what the restore's checkpoint warned of.
AcknowledgedIsKept ==
    acked \ warned \subseteq db.rows \cup wal \cup UNION {f.rows : f \in {g \in files : g.whole}}
=============================================================================
