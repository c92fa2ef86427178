------------------------------- MODULE Ledgers -------------------------------
(* Ledgers, who may see and write them, and the default ledger of a profile:
   modules/bookkeeping. Every tool call is one synchronous step, so an action is
   a whole call; a call that is refused changes nothing and has no action. *)
EXTENDS Integers, FiniteSetsExt

CONSTANTS
    Profiles,
    LedgerIds,              \* 1..n; a new ledger takes the next one
    Names,
    FAMILY,                 \* owner_profile_id IS NULL
    NULL

Scopes == Profiles \cup {FAMILY}
Row == [name : Names, owner : Scopes, archived : BOOLEAN]

ASSUME LedgersAssumption ==
    /\ LedgerIds \subseteq Nat
    /\ FAMILY \notin Profiles /\ NULL \notin LedgerIds /\ NULL \notin Row

VARIABLES
    ledger,                 \* rows of `ledgers`: NULL or [name, owner, archived]
    default                 \* setting bookkeeping.default_ledger_id
ledgerVars == <<ledger, default>>

Exists == {l \in LedgerIds : ledger[l] # NULL}
listLedgers(includeArchived) == {l \in Exists : includeArchived \/ ~ledger[l].archived}

activeLedgerWithName(name, owner, exclude) ==
    \E l \in listLedgers(FALSE) \ exclude : ledger[l].name = name /\ ledger[l].owner = owner

isLedgerVisible(l, p) == ledger[l].owner \in {FAMILY, p}
VisibleTo(p) == {l \in Exists : isLedgerVisible(l, p)}
writableLedgers(p) == listLedgers(FALSE) \cap VisibleTo(p)

\* The ledger of an `expense add' without ledger_id, NULL when the call is refused.
resolveAddLedger(p) ==
    LET candidates == writableLedgers(p)
    IN  IF default[p] \in candidates THEN default[p]
        ELSE IF Cardinality(candidates) = 1 THEN CHOOSE l \in candidates : TRUE
        ELSE NULL

LedgersInit ==
    /\ ledger = [l \in LedgerIds |-> NULL]
    /\ default = [p \in Profiles |-> NULL]

ledgerCreate(p, name, personal) ==
    LET owner == IF personal THEN p ELSE FAMILY
        free == LedgerIds \ Exists
    IN  /\ ~activeLedgerWithName(name, owner, {})
        /\ \E l \in free :
              /\ \A k \in free : l <= k
              /\ ledger' = [ledger EXCEPT ![l] =
                              [name |-> name, owner |-> owner, archived |-> FALSE]]
        /\ UNCHANGED default

ledgerRename(p, l, name) ==
    /\ l \in VisibleTo(p)
    /\ ~activeLedgerWithName(name, ledger[l].owner, {l})
    /\ ledger' = [ledger EXCEPT ![l].name = name]
    /\ UNCHANGED default

ledgerArchive(p, l) ==
    /\ l \in VisibleTo(p)
    /\ ledger' = [ledger EXCEPT ![l].archived = TRUE]
    /\ UNCHANGED default

ledgerUnarchive(p, l) ==
    /\ l \in VisibleTo(p)
    /\ ~activeLedgerWithName(ledger[l].name, ledger[l].owner, {l})
    /\ ledger' = [ledger EXCEPT ![l].archived = FALSE]
    /\ UNCHANGED default

\* Only the owner gives a personal ledger away; a family ledger stays one.
ledgerTransfer(p, l, target) ==
    /\ l \in Exists /\ ledger[l].owner = p
    /\ ~activeLedgerWithName(ledger[l].name, target, {l})
    /\ ledger' = [ledger EXCEPT ![l].owner = target]
    /\ UNCHANGED default

expenseSetDefaultLedger(p, l) ==
    /\ l \in writableLedgers(p)
    /\ default' = [default EXCEPT ![p] = l]
    /\ UNCHANGED ledger

ToolCalls(p) ==
    \/ \E n \in Names, personal \in BOOLEAN : ledgerCreate(p, n, personal)
    \/ \E l \in LedgerIds, n \in Names : ledgerRename(p, l, n)
    \/ \E l \in LedgerIds : ledgerArchive(p, l)
    \/ \E l \in LedgerIds : ledgerUnarchive(p, l)
    \/ \E l \in LedgerIds, t \in Scopes : ledgerTransfer(p, l, t)
    \/ \E l \in LedgerIds : expenseSetDefaultLedger(p, l)

LedgersNext == \E p \in Profiles : ToolCalls(p)
LedgersSpec == LedgersInit /\ [][LedgersNext]_ledgerVars

-----------------------------------------------------------------------------
LedgersTypeOK ==
    /\ ledger \in [LedgerIds -> Row \cup {NULL}]
    /\ default \in [Profiles -> LedgerIds \cup {NULL}]

\* The checks of create, rename, restore and transfer refuse whatever the index
\* idx_ledgers_scoped_name would: no call ends in a bare UNIQUE error, and on a
\* restart ensureLedgerNameIndex finds nothing that stops the daemon.
ScopedNamesUnique ==
    \A k, l \in listLedgers(FALSE) :
        k # l => <<ledger[k].name, ledger[k].owner>> # <<ledger[l].name, ledger[l].owner>>
=============================================================================
