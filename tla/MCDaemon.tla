------------------------------ MODULE MCDaemon ------------------------------
(* What the daemon keeps going, for the model checker: the data directory, the
   HTTP service, and the reports of the ledgers.
   They share no variable, so their steps commute and every safety property that
   speaks of one of them holds in their composition if it holds of it alone: a
   behaviour here is one of a single component, the others at rest. *)
EXTENDS Data, Service, Reports

VARIABLE component

Alike == Permutations(Writes) \cup Permutations(Members)

\* Expenses are entered for last month, today or tomorrow.
NearDates == {-MONTH, 0, 1}

UnionInit ==
    /\ component \in {"data", "service", "reports"}
    /\ DataInit
    /\ ServiceInit
    /\ ReportsInit

UnionNext ==
    \/ component = "data" /\ DataNext /\ UNCHANGED <<component, serviceVars, reportVars>>
    \/ component = "service" /\ ServiceNext /\ UNCHANGED <<component, dataVars, reportVars>>
    \/ component = "reports" /\ ReportsNext /\ UNCHANGED <<component, dataVars, serviceVars>>

UnionSpec == UnionInit /\ [][UnionNext]_<<component, dataVars, serviceVars, reportVars>>
=============================================================================
