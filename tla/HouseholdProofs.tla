-------------------------- MODULE HouseholdProofs ---------------------------
(* Theorems about what the daemon keeps beside its notifications: ledgers and
   expenses, recurring bills, the public holidays with a schedule that follows them,
   and the lock of the data directory.  They share no variable but the calendar; each
   property is proved from an invariant of its own. *)
EXTENDS Expenses, Bills, WorkdayFilter, InstanceLock, FiniteSetTheorems, WellFoundedInduction, TLAPS

-----------------------------------------------------------------------------
(* A request id stands for one entry.  A correction writes the entry anew; that it
   keeps the recorder and the id needs the entry to be a record that has them.  *)

EntriesHaveTokens == \A e \in expenses : {"by", "token"} \subseteq DOMAIN e

EntriesOnce == EntriesHaveTokens /\ RequestRecordedOnce

\* An entry comes under an id that no entry of its recorder has, or under none.
LEMMA AddedOnce ==
  ASSUME EntriesOnce, NEW p, NEW l, NEW c, NEW x, NEW ym, NEW r, NEW whole,
         Add(p, l, c, x, ym, r, whole)
  PROVE  EntriesOnce'
  <1>1. CASE UNCHANGED expenses
    BY <1>1 DEF EntriesOnce, EntriesHaveTokens, RequestRecordedOnce
  <1>2. CASE expenses' # expenses
    <2> DEFINE e == [id |-> added, in |-> l, by |-> p, category |-> normalizeCategory(p, c),
                     amount |-> x, ym |-> ym, token |-> r]
    <2>1. expenses' = expenses \cup {e} /\ findExpenseByClientToken(p, r) = {}
      BY <1>2 DEF Add
    <2>2. \A o \in expenses : o.by = p /\ o.token = r => r = NULL
      BY <2>1 DEF findExpenseByClientToken
    <2>3. e.by = p /\ e.token = r /\ {"by", "token"} \subseteq DOMAIN e
      OBVIOUS
    <2> HIDE DEF e
    <2> QED
      BY <2>1, <2>2, <2>3 DEF EntriesOnce, EntriesHaveTokens, RequestRecordedOnce
  <1> QED
    BY <1>1, <1>2

LEMMA CorrectedOnce ==
  ASSUME EntriesOnce, NEW p, NEW e \in expenses, NEW c, NEW x, NEW ym,
         updateExpense(p, e, c, x, ym)
  PROVE  EntriesOnce'
  <1> DEFINE new == [e EXCEPT !.category = c, !.amount = x, !.ym = ym]
  <1>1. expenses' = (expenses \ {e}) \cup {new}
    BY DEF updateExpense
  <1>2. new.by = e.by /\ new.token = e.token /\ {"by", "token"} \subseteq DOMAIN new
    BY DEF EntriesOnce, EntriesHaveTokens
  <1> HIDE DEF new
  <1> QED
    BY <1>1, <1>2 DEF EntriesOnce, EntriesHaveTokens, RequestRecordedOnce

LEMMA EntriesStayOnce ==
  ASSUME EntriesOnce, [ExpensesNext]_expenseVars
  PROVE  EntriesOnce'
  <1>1. CASE \E p, l, c, x, ym, r, whole : Add(p, l, c, x, ym, r, whole)
    BY <1>1, AddedOnce
  <1>2. CASE \E p, c, x, ym : \E e \in expenses : updateExpense(p, e, c, x, ym)
    BY <1>2, CorrectedOnce
  <1>3. CASE \E p : \E e \in expenses : deleteExpense(p, e)
    BY <1>3 DEF deleteExpense, EntriesOnce, EntriesHaveTokens, RequestRecordedOnce
  <1>4. CASE UNCHANGED expenses
    BY <1>4 DEF EntriesOnce, EntriesHaveTokens, RequestRecordedOnce
  <1>5. ASSUME NEW p \in Profiles, CallBy(p)
        PROVE  \/ \E l, c, x, ym, r, whole : Add(p, l, c, x, ym, r, whole)
               \/ \E c, x, ym : \E e \in expenses : updateExpense(p, e, c, x, ym)
               \/ \E e \in expenses : deleteExpense(p, e)
               \/ UNCHANGED expenses
    BY <1>5 DEF CallBy, changeCategoryAlias, clearBudget, setBudget, expenseAdd, quickExpense,
                updateExpenseChecked
  <1> QED
    BY <1>1, <1>2, <1>3, <1>4, <1>5 DEF ExpensesNext, LedgerTool, expenseVars

\* A request id stands for one entry, whatever ledger, default or arguments a
\* repetition meets, as long as the entry is not deleted (bookkeeping/service.ts).
THEOREM OncePerRequest == ExpensesSpec => []RequestRecordedOnce
  <1>1. ExpensesInit => EntriesOnce
    BY DEF ExpensesInit, EntriesOnce, EntriesHaveTokens, RequestRecordedOnce
  <1>2. EntriesOnce /\ [ExpensesNext]_expenseVars => EntriesOnce'
    BY EntriesStayOnce
  <1>3. EntriesOnce => RequestRecordedOnce
    BY DEF EntriesOnce
  <1> QED
    BY <1>1, <1>2, <1>3, PTL DEF ExpensesSpec

-----------------------------------------------------------------------------
(* Names of ledgers. *)

NamedLedgers == LedgersTypeOK /\ ScopedNamesUnique

\* One row changes; if it is in use afterwards, no other one in use has its name.
LEMMA OneRowChanges ==
  ASSUME NamedLedgers, NEW l \in LedgerIds, NEW row \in Row,
         ledger' = [ledger EXCEPT ![l] = row], UNCHANGED default,
         row.archived \/ ~activeLedgerWithName(row.name, row.owner, {l})
  PROVE  NamedLedgers'
  <1>1. LedgersTypeOK'
    BY DEF NamedLedgers, LedgersTypeOK
  <1>2. \A k \in LedgerIds : ledger'[k] = IF k = l THEN row ELSE ledger[k]
    BY DEF NamedLedgers, LedgersTypeOK
  <1>3. ASSUME NEW k \in listLedgers(FALSE)' \ {l}
        PROVE  /\ k \in listLedgers(FALSE) /\ ledger'[k] = ledger[k]
               /\ l \in listLedgers(FALSE)' =>
                     <<ledger'[k].name, ledger'[k].owner>> # <<row.name, row.owner>>
    BY <1>2, <1>3 DEF listLedgers, Exists, activeLedgerWithName
  <1>4. ASSUME NEW j \in listLedgers(FALSE)', NEW k \in listLedgers(FALSE)', j # k
        PROVE  <<ledger'[j].name, ledger'[j].owner>> # <<ledger'[k].name, ledger'[k].owner>>
    <2>1. CASE j # l /\ k # l
      BY <2>1, <1>3, <1>4 DEF NamedLedgers, ScopedNamesUnique
    <2>2. CASE j = l \/ k = l
      BY <2>2, <1>2, <1>3, <1>4 DEF listLedgers, Exists
    <2> QED
      BY <2>1, <2>2
  <1> QED
    BY <1>1, <1>4 DEF NamedLedgers, ScopedNamesUnique

LEMMA NamesStayUnique ==
  ASSUME NamedLedgers, NEW p \in Profiles, ToolCalls(p)
  PROVE  NamedLedgers'
  <1>1. ASSUME NEW n \in Names, NEW personal \in BOOLEAN, ledgerCreate(p, n, personal)
        PROVE  NamedLedgers'
    <2> DEFINE row == [name |-> n, owner |-> IF personal THEN p ELSE FAMILY, archived |-> FALSE]
    <2>1. PICK l \in LedgerIds : ledger' = [ledger EXCEPT ![l] = row] /\ UNCHANGED default
      BY <1>1 DEF ledgerCreate
    <2>2. row \in Row
      BY DEF Row, Scopes
    <2>3. ~activeLedgerWithName(row.name, row.owner, {l})
      BY <1>1 DEF ledgerCreate, activeLedgerWithName
    <2> QED
      BY <2>1, <2>2, <2>3, OneRowChanges
  <1>2. ASSUME NEW l \in LedgerIds, NEW n \in Names, ledgerRename(p, l, n)
        PROVE  NamedLedgers'
    <2> DEFINE row == [ledger[l] EXCEPT !.name = n]
    <2>1. ledger[l] \in Row /\ ledger' = [ledger EXCEPT ![l] = row] /\ UNCHANGED default
      BY <1>2 DEF ledgerRename, VisibleTo, Exists, NamedLedgers, LedgersTypeOK
    <2>2. row \in Row /\ row.name = n /\ row.owner = ledger[l].owner
      BY <2>1 DEF Row
    <2>3. ~activeLedgerWithName(n, ledger[l].owner, {l})
      BY <1>2 DEF ledgerRename
    <2> QED
      BY <2>1, <2>2, <2>3, OneRowChanges
  <1>3. ASSUME NEW l \in LedgerIds, ledgerArchive(p, l)
        PROVE  NamedLedgers'
    <2> DEFINE row == [ledger[l] EXCEPT !.archived = TRUE]
    <2>1. ledger[l] \in Row /\ ledger' = [ledger EXCEPT ![l] = row] /\ UNCHANGED default
      BY <1>3 DEF ledgerArchive, VisibleTo, Exists, NamedLedgers, LedgersTypeOK
    <2>2. row \in Row /\ row.archived
      BY <2>1 DEF Row
    <2> QED
      BY <2>1, <2>2, OneRowChanges
  <1>4. ASSUME NEW l \in LedgerIds, ledgerUnarchive(p, l)
        PROVE  NamedLedgers'
    <2> DEFINE row == [ledger[l] EXCEPT !.archived = FALSE]
    <2>1. ledger[l] \in Row /\ ledger' = [ledger EXCEPT ![l] = row] /\ UNCHANGED default
      BY <1>4 DEF ledgerUnarchive, VisibleTo, Exists, NamedLedgers, LedgersTypeOK
    <2>2. row \in Row /\ row.name = ledger[l].name /\ row.owner = ledger[l].owner
      BY <2>1 DEF Row
    <2>3. ~activeLedgerWithName(ledger[l].name, ledger[l].owner, {l})
      BY <1>4 DEF ledgerUnarchive
    <2> QED
      BY <2>1, <2>2, <2>3, OneRowChanges
  <1>5. ASSUME NEW l \in LedgerIds, NEW t \in Scopes, ledgerTransfer(p, l, t)
        PROVE  NamedLedgers'
    <2> DEFINE row == [ledger[l] EXCEPT !.owner = t]
    <2>1. ledger[l] \in Row /\ ledger' = [ledger EXCEPT ![l] = row] /\ UNCHANGED default
      BY <1>5 DEF ledgerTransfer, Exists, NamedLedgers, LedgersTypeOK
    <2>2. row \in Row /\ row.name = ledger[l].name /\ row.owner = t
      BY <2>1 DEF Row
    <2>3. ~activeLedgerWithName(ledger[l].name, t, {l})
      BY <1>5 DEF ledgerTransfer
    <2> QED
      BY <2>1, <2>2, <2>3, OneRowChanges
  <1>6. ASSUME NEW l \in LedgerIds, expenseSetDefaultLedger(p, l)
        PROVE  NamedLedgers'
    BY <1>6 DEF expenseSetDefaultLedger, NamedLedgers, LedgersTypeOK, ScopedNamesUnique,
                listLedgers, Exists
  <1> QED
    BY <1>1, <1>2, <1>3, <1>4, <1>5, <1>6 DEF ToolCalls

\* No call of a ledger tool runs into the unique index on scope and name of the
\* ledgers in use, and no restart finds rows that stop it (idx_ledgers_scoped_name).
THEOREM NamesAreUnique == ExpensesSpec => []ScopedNamesUnique
  <1>1. ExpensesInit => NamedLedgers
    BY DEF ExpensesInit, NamedLedgers, LedgersTypeOK, ScopedNamesUnique, listLedgers, Exists, Row,
           Scopes
  <1>2. NamedLedgers /\ [ExpensesNext]_expenseVars => NamedLedgers'
    <2> SUFFICES ASSUME NamedLedgers, [ExpensesNext]_expenseVars PROVE NamedLedgers'
      OBVIOUS
    <2>1. CASE UNCHANGED ledgerVars
      BY <2>1 DEF ledgerVars, NamedLedgers, LedgersTypeOK, ScopedNamesUnique, listLedgers, Exists
    <2>2. CASE LedgersNext
      BY <2>2, NamesStayUnique DEF LedgersNext
    <2>3. ASSUME NEW p \in Profiles, CallBy(p) PROVE UNCHANGED ledgerVars
      BY <2>3 DEF CallBy, changeCategoryAlias, clearBudget, setBudget, expenseAdd, quickExpense,
                  updateExpenseChecked, updateExpense, deleteExpense
    <2> QED
      BY <2>1, <2>2, <2>3 DEF ExpensesNext, LedgerTool, expenseVars
  <1>3. NamedLedgers => ScopedNamesUnique
    BY DEF NamedLedgers
  <1> QED
    BY <1>1, <1>2, <1>3, PTL DEF ExpensesSpec

-----------------------------------------------------------------------------
(* The sum of the amounts of a set of entries.                                *)

\* MapThenSumSet is recursive over subsets: a function g that satisfies its equation.
pick(s) == CHOOSE x \in s : TRUE
SumsUp(S, g) ==
    g = [s \in SUBSET S |-> IF s = {} THEN 0 ELSE pick(s).amount + g[s \ {pick(s)}]]
SumOf(S) == MapThenSumSet(LAMBDA e : e.amount, S)

LEMMA SumIsTheLast ==
  ASSUME NEW S
  PROVE  SumOf(S) = (CHOOSE g : SumsUp(S, g))[S]
  BY DEF SumOf, MapThenSumSet, MapThenFoldSet, SumsUp, pick

LEMMA LeastNatural ==
  ASSUME NEW S, S \subseteq Nat, S # {}
  PROVE  \E m \in S : \A n \in S : m <= n
  <1>1. \E m \in S : \A n \in S : ~ (<<n, m>> \in OpToRel(<, Nat))
    BY NatLessThanWellFounded, WFMin
  <1>2. PICK m \in S : \A n \in S : ~ (<<n, m>> \in OpToRel(<, Nat))
    BY <1>1
  <1>3. \A n \in S : ~ (n < m)
    BY <1>2 DEF OpToRel
  <1> QED
    BY <1>3

\* A family of finite sets that is not empty has a member of least cardinality.
LEMMA SmallestSet ==
  ASSUME NEW F, F # {}, \A s \in F : IsFiniteSet(s)
  PROVE  \E s \in F : \A r \in F : Cardinality(s) <= Cardinality(r)
  <1> DEFINE N == {Cardinality(s) : s \in F}
  <1>1. N \subseteq Nat /\ N # {}
    BY FS_CardinalityType
  <1>2. PICK m \in N : \A n \in N : m <= n
    BY <1>1, LeastNatural
  <1> QED
    BY <1>2

LEMMA LessWithout ==
  ASSUME NEW S, IsFiniteSet(S), NEW x \in S
  PROVE  /\ IsFiniteSet(S \ {x}) /\ Cardinality(S \ {x}) < Cardinality(S)
         /\ Cardinality(S \ {x}) \in Nat /\ Cardinality(S) \in Nat
  BY FS_RemoveElement, FS_CardinalityType

LEMMA PickIsIn == \A s : s # {} => pick(s) \in s
  BY DEF pick

LEMMA SumsAgree ==
  ASSUME NEW S, IsFiniteSet(S), NEW g, SumsUp(S, g), NEW R \in SUBSET S, NEW h, SumsUp(R, h)
  PROVE  \A s \in SUBSET R : g[s] = h[s]
  <1> DEFINE F == {s \in SUBSET R : g[s] # h[s]}
  <1> SUFFICES ASSUME F # {} PROVE FALSE
    OBVIOUS
  <1>1. \A s \in F : IsFiniteSet(s)
    BY FS_Subset
  <1>2. PICK s \in F : \A r \in F : Cardinality(s) <= Cardinality(r)
    BY <1>1, SmallestSet
  <1>3. g[s] = IF s = {} THEN 0 ELSE pick(s).amount + g[s \ {pick(s)}]
    BY DEF SumsUp
  <1>4. h[s] = IF s = {} THEN 0 ELSE pick(s).amount + h[s \ {pick(s)}]
    BY DEF SumsUp
  <1>5. s # {} /\ pick(s) \in s
    BY <1>3, <1>4, PickIsIn
  <1>6. s \ {pick(s)} \notin F
    <2>1. IsFiniteSet(s)
      BY <1>1
    <2>2. ~(Cardinality(s) <= Cardinality(s \ {pick(s)}))
      BY <1>5, <2>1, LessWithout
    <2> QED
      BY <1>2, <2>2
  <1> QED
    BY <1>3, <1>4, <1>5, <1>6

LEMMA SumsExist ==
  ASSUME NEW S, IsFiniteSet(S)
  PROVE  \E g : SumsUp(S, g)
  <1> DEFINE F == {s \in SUBSET S : ~\E g : SumsUp(s, g)}
  <1> SUFFICES ASSUME F # {} PROVE FALSE
    OBVIOUS
  <1>1. \A s \in SUBSET S : IsFiniteSet(s)
    BY FS_Subset
  <1>2. PICK t \in F : \A r \in F : Cardinality(t) <= Cardinality(r)
    BY <1>1, SmallestSet
  <1> DEFINE G(s) == CHOOSE g : SumsUp(s, g)
             T(s) == G(s)[s]
  <1>3. ASSUME NEW s \in SUBSET t, s # t
        PROVE  SumsUp(s, G(s))
    <2>1. Cardinality(s) < Cardinality(t) /\ Cardinality(s) \in Nat /\ Cardinality(t) \in Nat
      BY <1>1, <1>3, FS_Subset, FS_CardinalityType
    <2>2. s \notin F
      BY <1>2, <2>1
    <2> QED
      BY <2>2
  <1> DEFINE h == [s \in SUBSET t |-> IF s = {} THEN 0 ELSE pick(s).amount + T(s \ {pick(s)})]
  <1>4. ASSUME NEW s \in SUBSET t, s # {}
        PROVE  h[s \ {pick(s)}] = T(s \ {pick(s)})
    <2> DEFINE r == s \ {pick(s)}
    <2>1. r \in SUBSET t /\ r # t
      BY <1>4, PickIsIn
    <2>2. SumsUp(r, G(r))
      BY <1>3, <2>1
    <2> HIDE DEF r
    <2>3. T(r) = IF r = {} THEN 0 ELSE pick(r).amount + G(r)[r \ {pick(r)}]
      <3> HIDE DEF G
      <3> QED
        BY <2>2 DEF SumsUp
    <2>4. CASE r = {}
      BY <2>1, <2>3, <2>4 DEF r
    <2>5. CASE r # {}
      <3> DEFINE q == r \ {pick(r)}
      <3>1. q \in SUBSET r /\ q \in SUBSET t /\ q # t
        BY <2>1, <2>5, PickIsIn
      <3>2. SumsUp(q, G(q))
        BY <1>3, <3>1
      <3>3. IsFiniteSet(r)
        BY <1>1, <2>1
      <3>4. G(r)[q] = T(q)
        <4> HIDE DEF G, q
        <4> QED
          BY <2>2, <3>1, <3>2, <3>3, SumsAgree
      <3>5. h[r] = pick(r).amount + T(q)
        <4> HIDE DEF T
        <4> QED
          BY <2>1, <2>5
      <3> QED
        BY <2>3, <2>5, <3>4, <3>5 DEF r
    <2> QED
      BY <2>4, <2>5
  <1>5. SumsUp(t, h)
    <2> HIDE DEF T
    <2>1. h = [s \in SUBSET t |-> IF s = {} THEN 0 ELSE pick(s).amount + h[s \ {pick(s)}]]
      <3>1. \A s \in SUBSET t : h[s] = IF s = {} THEN 0 ELSE pick(s).amount + h[s \ {pick(s)}]
        BY <1>4
      <3> HIDE DEF h
      <3>2. h = [s \in SUBSET t |-> h[s]]
        BY DEF h
      <3> QED
        BY <3>1, <3>2
    <2> QED
      BY <2>1 DEF SumsUp
  <1> QED
    BY <1>2, <1>5

LEMMA SumUnfolds ==
  ASSUME NEW S, IsFiniteSet(S)
  PROVE  SumOf(S) = IF S = {} THEN 0 ELSE pick(S).amount + SumOf(S \ {pick(S)})
  <1> DEFINE G(s) == CHOOSE g : SumsUp(s, g)
  <1>1. SumsUp(S, G(S))
    BY SumsExist
  <1>2. SumOf(S) = G(S)[S] /\ SumOf(S \ {pick(S)}) = G(S \ {pick(S)})[S \ {pick(S)}]
    BY SumIsTheLast
  <1>3. IsFiniteSet(S \ {pick(S)})
    BY FS_Subset
  <1>4. SumsUp(S \ {pick(S)}, G(S \ {pick(S)}))
    BY <1>3, SumsExist
  <1> HIDE DEF G
  <1>5. G(S)[S] = IF S = {} THEN 0 ELSE pick(S).amount + G(S)[S \ {pick(S)}]
    BY <1>1 DEF SumsUp
  <1>6. G(S)[S \ {pick(S)}] = G(S \ {pick(S)})[S \ {pick(S)}]
    BY <1>1, <1>4, SumsAgree
  <1> QED
    BY <1>2, <1>5, <1>6

LEMMA SumIsANumber ==
  ASSUME NEW S, IsFiniteSet(S), \A e \in S : e.amount \in Nat
  PROVE  SumOf(S) \in Nat
  <1> DEFINE F == {s \in SUBSET S : SumOf(s) \notin Nat}
  <1> SUFFICES ASSUME F # {} PROVE FALSE
    OBVIOUS
  <1>1. \A s \in SUBSET S : IsFiniteSet(s)
    BY FS_Subset
  <1>2. PICK t \in F : \A r \in F : Cardinality(t) <= Cardinality(r)
    BY <1>1, SmallestSet
  <1>3. SumOf(t) = IF t = {} THEN 0 ELSE pick(t).amount + SumOf(t \ {pick(t)})
    BY <1>1, SumUnfolds
  <1>4. t # {} /\ pick(t) \in t /\ pick(t).amount \in Nat
    BY <1>3, PickIsIn
  <1>5. ~(Cardinality(t) <= Cardinality(t \ {pick(t)}))
    BY <1>1, <1>4, LessWithout
  <1>6. SumOf(t \ {pick(t)}) \in Nat
    BY <1>2, <1>5
  <1> QED
    BY <1>3, <1>4, <1>6

\* Whatever the order, an entry counts once.
LEMMA SumWithout ==
  ASSUME NEW S, IsFiniteSet(S), \A e \in S : e.amount \in Nat, NEW x \in S
  PROVE  SumOf(S) = x.amount + SumOf(S \ {x})
  <1> DEFINE F == {s \in SUBSET S : \E e \in s : SumOf(s) # e.amount + SumOf(s \ {e})}
  <1> SUFFICES ASSUME F # {} PROVE FALSE
    OBVIOUS
  <1>1. \A s \in SUBSET S : IsFiniteSet(s)
    BY FS_Subset
  <1>2. PICK t \in F : \A r \in F : Cardinality(t) <= Cardinality(r)
    BY <1>1, SmallestSet
  <1>3. PICK e \in t : SumOf(t) # e.amount + SumOf(t \ {e})
    OBVIOUS
  <1> DEFINE p == pick(t)
  <1>4. p \in t
    BY PickIsIn
  <1>5. SumOf(t) = p.amount + SumOf(t \ {p})
    BY <1>1, <1>3, SumUnfolds
  <1> HIDE DEF p
  <1>6. p # e
    BY <1>3, <1>5
  <1>7. ASSUME NEW y \in t
        PROVE  ~(Cardinality(t) <= Cardinality(t \ {y}))
    <2>1. IsFiniteSet(t)
      BY <1>1
    <2>2. Cardinality(t \ {y}) < Cardinality(t) /\ Cardinality(t \ {y}) \in Nat /\ Cardinality(t) \in Nat
      BY <2>1, LessWithout
    <2> QED
      BY <2>2
  <1>8. \A y \in t : t \ {y} \notin F
    BY <1>2, <1>7
  <1>9. SumOf(t \ {p}) = e.amount + SumOf((t \ {p}) \ {e})
    BY <1>4, <1>6, <1>8
  <1>10. SumOf(t \ {e}) = p.amount + SumOf((t \ {e}) \ {p})
    BY <1>4, <1>6, <1>8
  <1>11. (t \ {p}) \ {e} = (t \ {e}) \ {p}
    OBVIOUS
  <1>12. SumOf((t \ {p}) \ {e}) \in Nat
    <2>1. IsFiniteSet((t \ {p}) \ {e}) /\ \A y \in (t \ {p}) \ {e} : y.amount \in Nat
      BY <1>1
    <2> QED
      BY <2>1, SumIsANumber
  <1>13. p.amount \in Nat /\ e.amount \in Nat
    BY <1>4
  <1> DEFINE rest == SumOf((t \ {p}) \ {e})
  <1>14. SumOf(t) = p.amount + (e.amount + rest) /\ SumOf(t \ {e}) = p.amount + rest
    BY <1>5, <1>9, <1>10, <1>11
  <1> HIDE DEF rest
  <1> QED
    BY <1>3, <1>12, <1>13, <1>14 DEF rest

-----------------------------------------------------------------------------
(* Budget alerts: the entry that crosses a threshold publishes its alert.  Ids of
   entries are below the counter, so that a new entry is none of the old ones and adds
   its amount to the sum. *)

IsRowOf(e, n) ==
    /\ {"id", "amount"} \subseteq DOMAIN e
    /\ e.id \in Nat /\ e.id < n /\ e.amount \in Nat

AlertsTypeOK ==
    /\ added \in Nat
    /\ IsFiniteSet(expenses) /\ \A e \in expenses : IsRowOf(e, added)
    /\ DOMAIN budget = LedgerIds
    /\ \A l \in LedgerIds : \A s \in DOMAIN budget[l] : budget[l][s] \in Nat

LEMMA AmountsAreNumbers == Amounts \subseteq Nat /\ Limits \subseteq Nat
  BY ExpensesAssumption

LEMMA RowsStayBelow ==
  ASSUME NEW e, NEW n \in Nat, IsRowOf(e, n)
  PROVE  IsRowOf(e, n + 1)
  BY DEF IsRowOf

LEMMA AddTyped ==
  ASSUME AlertsTypeOK, NEW p, NEW l, NEW category, NEW amount \in Amounts, NEW ym, NEW r, NEW whole,
         Add(p, l, category, amount, ym, r, whole), budget' = budget
  PROVE  AlertsTypeOK'
  <1> DEFINE e == [id |-> added, in |-> l, by |-> p, category |-> normalizeCategory(p, category),
                   amount |-> amount, ym |-> ym, token |-> r]
  <1>1. \/ expenses' = expenses /\ added' = added
        \/ expenses' = expenses \cup {e} /\ added' = added + 1
    BY DEF Add
  <1>2. added \in Nat /\ amount \in Nat
    BY AmountsAreNumbers DEF AlertsTypeOK
  <1>3. IsRowOf(e, added + 1)
    BY <1>2 DEF IsRowOf
  <1> HIDE DEF e
  <1>4. CASE expenses' = expenses /\ added' = added
    BY <1>4 DEF AlertsTypeOK
  <1>5. CASE expenses' = expenses \cup {e} /\ added' = added + 1
    <2>1. IsFiniteSet(expenses \cup {e})
      BY FS_AddElement DEF AlertsTypeOK
    <2>2. \A x \in expenses \cup {e} : IsRowOf(x, added + 1)
      BY <1>2, <1>3, RowsStayBelow DEF AlertsTypeOK
    <2> QED
      BY <1>2, <1>5, <2>1, <2>2 DEF AlertsTypeOK
  <1> QED
    BY <1>1, <1>4, <1>5

LEMMA CorrectionTyped ==
  ASSUME AlertsTypeOK, NEW p, NEW e \in expenses, NEW category, NEW amount \in Amounts, NEW ym,
         updateExpense(p, e, category, amount, ym)
  PROVE  AlertsTypeOK'
  <1> DEFINE x == [e EXCEPT !.category = category, !.amount = amount, !.ym = ym]
  <1>1. /\ expenses' = (expenses \ {e}) \cup {x}
        /\ added' = added /\ budget' = budget
    BY DEF updateExpense
  <1>2. IsRowOf(e, added) /\ amount \in Nat
    BY AmountsAreNumbers DEF AlertsTypeOK
  <1>3. {"id", "amount"} \subseteq DOMAIN x /\ x.id = e.id /\ x.amount = amount
    BY <1>2 DEF IsRowOf
  <1> HIDE DEF x
  <1>4. IsRowOf(x, added)
    BY <1>2, <1>3 DEF IsRowOf
  <1>5. IsFiniteSet((expenses \ {e}) \cup {x})
    <2>1. IsFiniteSet(expenses \ {e})
      BY FS_Subset DEF AlertsTypeOK
    <2> QED
      BY <2>1, FS_AddElement
  <1> QED
    BY <1>1, <1>4, <1>5 DEF AlertsTypeOK

LEMMA AlertsTyped ==
  ASSUME AlertsTypeOK, [ExpensesNext]_expenseVars
  PROVE  AlertsTypeOK'
  <1>1. CASE UNCHANGED <<budget, expenses, added>>
    BY <1>1 DEF AlertsTypeOK
  <1>2. ASSUME NEW p \in Profiles, NEW l \in LedgerIds, NEW s \in BudgetScopes, clearBudget(p, l, s)
        PROVE  AlertsTypeOK'
    <2>1. PICK D : budget' = [budget EXCEPT ![l] = Restrict(@, DOMAIN @ \ D)]
      BY <1>2 DEF clearBudget
    <2>2. expenses' = expenses /\ added' = added
      BY <1>2 DEF clearBudget
    <2>3. DOMAIN budget' = LedgerIds
      BY <2>1 DEF AlertsTypeOK
    <2>4. \A k \in LedgerIds : \A c \in DOMAIN budget'[k] : c \in DOMAIN budget[k] /\ budget'[k][c] = budget[k][c]
      BY <2>1 DEF AlertsTypeOK, Restrict
    <2> QED
      BY <2>2, <2>3, <2>4 DEF AlertsTypeOK
  <1>3. ASSUME NEW p \in Profiles, NEW l \in LedgerIds, NEW s \in BudgetScopes, NEW x \in Limits,
               setBudget(p, l, s, x)
        PROVE  AlertsTypeOK'
    <2>1. PICK D, t : /\ D \subseteq DOMAIN budget[l]
                      /\ budget' = [budget EXCEPT ![l] = [c \in D \cup {t} |-> IF c = t THEN x ELSE @[c]]]
      BY <1>3 DEF setBudget
    <2>2. expenses' = expenses /\ added' = added
      BY <1>3 DEF setBudget
    <2>3. DOMAIN budget' = LedgerIds
      BY <2>1 DEF AlertsTypeOK
    <2>4. \A k \in LedgerIds : \A c \in DOMAIN budget'[k] :
             budget'[k][c] = x \/ (c \in DOMAIN budget[k] /\ budget'[k][c] = budget[k][c])
      BY <2>1 DEF AlertsTypeOK
    <2>5. x \in Nat
      BY AmountsAreNumbers
    <2> QED
      BY <2>2, <2>3, <2>4, <2>5 DEF AlertsTypeOK
  <1>4. ASSUME NEW p \in Profiles, NEW l \in VisibleTo(p) \cup {NULL}, NEW c \in Texts,
               NEW x \in Amounts, NEW ym \in YearMonths, NEW r \in RequestIds \cup {NULL},
               NEW whole \in BOOLEAN, expenseAdd(p, l, c, x, ym, r, whole)
        PROVE  AlertsTypeOK'
    BY <1>4, AddTyped DEF expenseAdd
  <1>5. ASSUME NEW p \in Profiles, NEW l \in LedgerIds, NEW c \in Texts, NEW x \in Amounts,
               NEW ym \in YearMonths, NEW whole \in BOOLEAN, NEW answered \in BOOLEAN,
               quickExpense(p, l, c, x, ym, whole, answered)
        PROVE  AlertsTypeOK'
    BY <1>5, AddTyped DEF quickExpense
  <1>6. ASSUME NEW p \in Profiles, NEW e \in expenses, NEW c \in Texts, NEW x \in Amounts,
               NEW ym \in YearMonths, updateExpenseChecked(p, e, c, x, ym)
        PROVE  AlertsTypeOK'
    BY <1>6, CorrectionTyped DEF updateExpenseChecked
  <1>7. ASSUME NEW p \in Profiles, NEW e \in expenses, deleteExpense(p, e)
        PROVE  AlertsTypeOK'
    <2>1. expenses' = expenses \ {e} /\ UNCHANGED <<budget, added>>
      BY <1>7 DEF deleteExpense
    <2>2. IsFiniteSet(expenses \ {e})
      BY FS_Subset DEF AlertsTypeOK
    <2> QED
      BY <2>1, <2>2 DEF AlertsTypeOK
  <1>8. CASE LedgerTool \/ UNCHANGED expenseVars
             \/ \E p \in Profiles : \E c, a \in Texts : changeCategoryAlias(p, c, a)
    BY <1>1, <1>8 DEF LedgerTool, expenseVars, changeCategoryAlias
  <1>9. ASSUME NEW p \in Profiles, CallBy(p)
        PROVE  AlertsTypeOK'
    BY <1>2, <1>3, <1>4, <1>5, <1>6, <1>7, <1>8, <1>9, Zenon DEF CallBy
  <1> QED
    BY <1>8, <1>9 DEF ExpensesNext

\* What an entry adds to the sum of a month and scope.
LEMMA EntryCounts ==
  ASSUME AlertsTypeOK, NEW e, e \notin expenses, e.amount \in Nat, NEW l, NEW ym, NEW s
  PROVE  /\ summarize(expenses, l, ym, s) \in Nat
         /\ summarize(expenses \cup {e}, l, ym, s) =
              IF e.in = l /\ e.ym = ym /\ s \in {TOTAL, e.category}
              THEN summarize(expenses, l, ym, s) + e.amount ELSE summarize(expenses, l, ym, s)
  <1> DEFINE In(R) == {x \in R : x.in = l /\ x.ym = ym /\ s \in {TOTAL, x.category}}
             old == In(expenses)
             new == In(expenses \cup {e})
  <1>1. \A R : summarize(R, l, ym, s) = SumOf(In(R))
    BY DEF summarize, SumOf
  <1>2. IsFiniteSet(old) /\ \A x \in old : x.amount \in Nat
    BY FS_Subset DEF AlertsTypeOK, IsRowOf
  <1>3. SumOf(old) \in Nat
    <2> HIDE DEF old
    <2> QED
      BY <1>2, SumIsANumber
  <1>4. CASE e.in = l /\ e.ym = ym /\ s \in {TOTAL, e.category}
    <2>1. new = old \cup {e} /\ new \ {e} = old
      BY <1>4
    <2> HIDE DEF old, new
    <2>2. IsFiniteSet(new) /\ (\A x \in new : x.amount \in Nat) /\ e \in new
      BY <1>2, <2>1, FS_AddElement
    <2>3. SumOf(new) = e.amount + SumOf(old)
      BY <2>1, <2>2, SumWithout
    <2> QED
      BY <1>1, <1>3, <1>4, <2>3 DEF old, new
  <1>5. CASE ~(e.in = l /\ e.ym = ym /\ s \in {TOTAL, e.category})
    <2>1. new = old
      BY <1>5
    <2> QED
      BY <1>1, <1>3, <1>5, <2>1
  <1> QED
    BY <1>4, <1>5

AlertsAreCrossings ==
    \A l \in LedgerIds, ym \in YearMonths : \A s \in DOMAIN budget[l] :
      LET was == summarize(expenses, l, ym, s)
          is == summarize(expenses', l, ym, s)
          passed == {t \in BUDGET_THRESHOLDS :
                       was * 100 < budget[l][s] * t /\ budget[l][s] * t <= is * 100}
      IN  /\ \A t \in BUDGET_THRESHOLDS :
                AlertKey(l, s, ym, t) \in told' \ told => passed # {} /\ t = Max(passed)
          /\ passed # {} /\ ledger[l].owner = FAMILY
             /\ added' # added /\ ~cutShort' => AlertKey(l, s, ym, Max(passed)) \in told'

\* The alerts of an entry that are judged from the sum behind it are those of its crossings.
LEMMA AddIsJudged ==
  ASSUME AlertsTypeOK, NEW p, NEW k, NEW category, NEW amount \in Amounts, NEW month, NEW r,
         NEW whole \in BOOLEAN, Add(p, k, category, amount, month, r, whole), cutShort' = ~whole,
         expenses' # expenses \/ told' # told
  PROVE  AlertsAreCrossings
  <1> DEFINE e == [id |-> added, in |-> k, by |-> p, category |-> normalizeCategory(p, category),
                   amount |-> amount, ym |-> month, token |-> r]
  <1>1. /\ expenses' = expenses \cup {e} /\ added' = added + 1
        /\ \/ whole /\ told' = told \cup Alerts(e)
           \/ ~whole /\ \E s \in Cuts(e) : told' = told \cup s
    BY DEF Add
  <1>2. told' \subseteq told \cup Alerts(e) /\ (whole => told' = told \cup Alerts(e))
    BY <1>1 DEF Cuts
  <1>3. e \notin expenses
    BY DEF AlertsTypeOK, IsRowOf
  <1>4. e.amount \in Nat /\ e.in = k /\ e.ym = month
    BY AmountsAreNumbers
  <1> HIDE DEF e
  <1>5. SUFFICES ASSUME NEW l \in LedgerIds, NEW ym \in YearMonths, NEW s \in DOMAIN budget[l]
                 PROVE  LET was == summarize(expenses, l, ym, s)
                            is == summarize(expenses', l, ym, s)
                            passed == {t \in BUDGET_THRESHOLDS :
                                         was * 100 < budget[l][s] * t /\ budget[l][s] * t <= is * 100}
                        IN  /\ \A t \in BUDGET_THRESHOLDS :
                                  AlertKey(l, s, ym, t) \in told' \ told => passed # {} /\ t = Max(passed)
                            /\ passed # {} /\ ledger[l].owner = FAMILY
                               /\ added' # added /\ ~cutShort' => AlertKey(l, s, ym, Max(passed)) \in told'
    BY DEF AlertsAreCrossings
  <1> DEFINE Was(sc) == summarize(expenses, e.in, e.ym, sc)
             After(sc) == summarize(expenses \cup {e}, e.in, e.ym, sc)
             Hit(sc) == crossed(IF sc \in {TOTAL, e.category} THEN After(sc) - e.amount ELSE After(sc),
                                After(sc), budget[e.in][sc])
             was == summarize(expenses, l, ym, s)
             is == summarize(expenses \cup {e}, l, ym, s)
             passed == {t \in BUDGET_THRESHOLDS :
                          was * 100 < budget[l][s] * t /\ budget[l][s] * t <= is * 100}
  <1>6. budget[l][s] \in Nat /\ was \in Nat /\ is \in Nat
        /\ is = IF e.in = l /\ e.ym = ym /\ s \in {TOTAL, e.category} THEN was + e.amount ELSE was
    <2>1. was \in Nat /\ is = IF e.in = l /\ e.ym = ym /\ s \in {TOTAL, e.category} THEN was + e.amount ELSE was
      BY <1>3, <1>4, EntryCounts
    <2>2. budget[l][s] \in Nat
      BY DEF AlertsTypeOK
    <2> HIDE DEF was, is
    <2> QED
      BY <1>4, <2>1, <2>2
  <1>7. ASSUME e.in = l, e.ym = ym
        PROVE  Hit(s) = passed
    <2>1. After(s) = is
      BY <1>7
    <2>2. (IF s \in {TOTAL, e.category} THEN is - e.amount ELSE is) = was
      <3> HIDE DEF was, is
      <3> QED
        BY <1>4, <1>6, <1>7
    <2>3. Hit(s) = crossed(was, is, budget[l][s])
      BY <1>7, <2>1, <2>2
    <2>4. crossed(was, is, budget[l][s]) = passed
      <3> HIDE DEF was, is
      <3> QED
        BY <1>6 DEF crossed, BUDGET_THRESHOLDS
    <2> QED
      BY <2>3, <2>4
  <1>8. Alerts(e) = IF ledger[e.in].owner # FAMILY THEN {}
                    ELSE UNION {IF Hit(sc) = {} THEN {} ELSE {AlertKey(e.in, sc, e.ym, Max(Hit(sc)))} :
                                sc \in DOMAIN budget[e.in]}
    BY DEF Alerts, budgetAlertsForEntry
  <1> HIDE DEF Hit, was, is
  <1>9. ASSUME NEW t \in BUDGET_THRESHOLDS, AlertKey(l, s, ym, t) \in told' \ told
        PROVE  passed # {} /\ t = Max(passed)
    <2>1. AlertKey(l, s, ym, t) \in Alerts(e)
      BY <1>2, <1>9
    <2>2. PICK sc \in DOMAIN budget[e.in] : Hit(sc) # {} /\ AlertKey(l, s, ym, t) = AlertKey(e.in, sc, e.ym, Max(Hit(sc)))
      BY <1>8, <2>1
    <2>3. e.in = l /\ s = sc /\ e.ym = ym /\ t = Max(Hit(s))
      <3> DEFINE top == Max(Hit(sc))
      <3> HIDE DEF top
      <3> QED
        BY <2>2 DEF AlertKey, top
    <2> QED
      BY <1>7, <2>2, <2>3
  <1>10. ASSUME passed # {}, ledger[l].owner = FAMILY, ~cutShort'
         PROVE  AlertKey(l, s, ym, Max(passed)) \in told'
    <2>1. e.in = l /\ e.ym = ym
      <3>1. was # is
        BY <1>6, <1>10 DEF BUDGET_THRESHOLDS
      <3> QED
        BY <1>6, <3>1
    <2>2. Hit(s) = passed
      BY <1>7, <2>1
    <2>3. AlertKey(l, s, ym, Max(passed)) \in Alerts(e)
      BY <1>8, <1>10, <2>1, <2>2
    <2> QED
      BY <1>2, <1>10, <2>3
  <1> QED
    BY <1>1, <1>9, <1>10 DEF was, is

\* An alert is published exactly by the entry that takes the month and scope of a budget
\* over its threshold, for the highest one it passes, however many entries, amounts and
\* limits there are, calls cut short and requests repeated (budgetAlertsForEntry).
THEOREM AlertsAreExact == ExpensesSpec => AlertsMatchCrossings
  <1>1. ExpensesInit => AlertsTypeOK
    BY FS_EmptySet DEF ExpensesInit, AlertsTypeOK
  <1>2. AlertsTypeOK /\ [ExpensesNext]_expenseVars => AlertsTypeOK'
    BY AlertsTyped
  <1>3. AlertsTypeOK /\ [ExpensesNext]_expenseVars
          => [<<expenses, told>>' # <<expenses, told>> => AlertsAreCrossings]_expenseVars
    <2> SUFFICES ASSUME AlertsTypeOK, ExpensesNext, <<expenses, told>>' # <<expenses, told>>
                 PROVE  AlertsAreCrossings
      OBVIOUS
    <2>1. expenses' # expenses \/ told' # told
      OBVIOUS
    <2>2. ASSUME told' = told, added' = added
          PROVE  AlertsAreCrossings
      BY <2>2 DEF AlertsAreCrossings
    <2>3. ASSUME NEW p \in Profiles, NEW l \in VisibleTo(p) \cup {NULL}, NEW c \in Texts,
                 NEW x \in Amounts, NEW ym \in YearMonths, NEW r \in RequestIds \cup {NULL},
                 NEW whole \in BOOLEAN, expenseAdd(p, l, c, x, ym, r, whole)
          PROVE  AlertsAreCrossings
      BY <2>1, <2>3, AddIsJudged DEF expenseAdd
    <2>4. ASSUME NEW p \in Profiles, NEW l \in LedgerIds, NEW c \in Texts, NEW x \in Amounts,
                 NEW ym \in YearMonths, NEW whole \in BOOLEAN, NEW answered \in BOOLEAN,
                 quickExpense(p, l, c, x, ym, whole, answered)
          PROVE  AlertsAreCrossings
      BY <2>1, <2>4, AddIsJudged DEF quickExpense
    <2>5. CASE LedgerTool \/ \E p \in Profiles : \/ \E c, a \in Texts : changeCategoryAlias(p, c, a)
                                                \/ \E e \in expenses : deleteExpense(p, e)
      BY <2>2, <2>5 DEF LedgerTool, changeCategoryAlias, deleteExpense
    <2>6. CASE \E p \in Profiles : \/ \E l \in LedgerIds, s \in BudgetScopes : clearBudget(p, l, s)
                                   \/ \E l \in LedgerIds, s \in BudgetScopes, x \in Limits : setBudget(p, l, s, x)
      BY <2>2, <2>6 DEF clearBudget, setBudget
    <2>7. CASE \E p \in Profiles : \E e \in expenses, c \in Texts, x \in Amounts, ym \in YearMonths :
                   updateExpenseChecked(p, e, c, x, ym)
      BY <2>2, <2>7 DEF updateExpenseChecked, updateExpense
    <2>8. ASSUME NEW p \in Profiles, CallBy(p)
          PROVE  AlertsAreCrossings
      BY <2>3, <2>4, <2>5, <2>6, <2>7, <2>8, Zenon DEF CallBy
    <2> QED
      BY <2>5, <2>8 DEF ExpensesNext
  <1> QED
    BY <1>1, <1>2, <1>3, PTL DEF ExpensesSpec, AlertsMatchCrossings, AlertsAreCrossings

-----------------------------------------------------------------------------
(* Recurring bills.                                                         *)

LEMMA MinOfNaturals ==
  ASSUME NEW S, S \subseteq Nat, S # {}
  PROVE  Min(S) \in S /\ \A n \in S : Min(S) <= n
  <1>1. \E m \in S : \A n \in S : m =< n
    BY LeastNatural
  <1> QED
    BY <1>1, Zenon DEF Min

LEMMA MinIs ==
  ASSUME NEW S, S \subseteq Nat, NEW m \in S, \A n \in S : m <= n
  PROVE  Min(S) = m
  <1>1. Min(S) \in S /\ Min(S) <= m
    BY MinOfNaturals
  <1>2. m <= Min(S) /\ Min(S) \in Nat /\ m \in Nat
    BY <1>1
  <1> QED
    BY <1>1, <1>2

\* A bounded set of natural numbers that is not empty has a greatest element.
LEMMA MaxOfBounded ==
  ASSUME NEW S, S \subseteq Nat, S # {}, NEW top \in Nat, \A n \in S : n <= top
  PROVE  Max(S) \in S /\ \A n \in S : n <= Max(S)
  <1> DEFINE T == {top - n : n \in S}
  <1>0. \A n \in S : top - n \in Nat
    OBVIOUS
  <1>1. T \subseteq Nat /\ T # {}
    BY <1>0
  <1>2. PICK t \in T : \A x \in T : t <= x
    BY <1>1, LeastNatural
  <1>3. PICK m \in S : t = top - m
    OBVIOUS
  <1>4. \A n \in S : top - m <= top - n
    BY <1>2, <1>3
  <1>5. \A n \in S : m >= n
    BY <1>4
  <1>6. \E x \in S : \A y \in S : x >= y
    BY <1>5
  <1>7. Max(S) \in S /\ \A y \in S : Max(S) >= y
    BY <1>6, Zenon DEF Max
  <1> QED
    BY <1>7

\* So has a finite one: of the parts without an upper bound none is smallest.
LEMMA MaxOfFinite ==
  ASSUME NEW S, IsFiniteSet(S), S \subseteq Nat, S # {}
  PROVE  Max(S) \in S /\ \A n \in S : n <= Max(S)
  <1> DEFINE Bounded(T) == \E top \in Nat : \A n \in T : n <= top
             F == {T \in SUBSET S : ~Bounded(T)}
  <1>1. ASSUME ~Bounded(S) PROVE FALSE
    <2>1. S \in F /\ \A T \in F : IsFiniteSet(T)
      BY <1>1, FS_Subset
    <2> HIDE DEF F
    <2>2. PICK T \in F : \A R \in F : Cardinality(T) <= Cardinality(R)
      BY <2>1, SmallestSet
    <2> USE DEF F
    <2>3. ~Bounded(T) /\ T \subseteq Nat
      OBVIOUS
    <2>4. T # {}
      <3>1. Bounded({})
        OBVIOUS
      <3> QED
        BY <2>3, <3>1
    <2>5. PICK x \in T : TRUE
      BY <2>4
    <2>6. Cardinality(T \ {x}) < Cardinality(T) /\ Cardinality(T \ {x}) \in Nat /\ Cardinality(T) \in Nat
      BY <2>1, <2>2, LessWithout
    <2>7. T \ {x} \notin F
      <3> HIDE DEF F
      <3> QED
        BY <2>2, <2>6
    <2>8. PICK top \in Nat : \A n \in T \ {x} : n <= top
      BY <2>7
    <2>9. /\ x \in Nat /\ (IF x <= top THEN top ELSE x) \in Nat
          /\ \A n \in T : n <= (IF x <= top THEN top ELSE x)
      BY <2>3, <2>8
    <2> QED
      BY <2>3, <2>9
  <1>2. PICK top \in Nat : \A n \in S : n <= top
    BY <1>1
  <1> QED
    BY <1>2, MaxOfBounded

LEMMA BillsConstants ==
    /\ ScheduleIds \subseteq Nat /\ DueDates \subseteq Nat /\ NEAR_HORIZON_DAYS \in Nat
    /\ Missing \notin ScheduleIds \cup Int /\ Missing \notin ScheduleRow \cup BillRow
  BY BillsAssumption, Zenon DEF BillsAssumption

-----------------------------------------------------------------------------
Statuses == {"pending", "notified", "done", "cancelled"}
Bounded(s) == \E top \in Nat : \A d \in DOMAIN s.event : d <= top
Schedule(s) == s \in ScheduleRow /\ Bounded(s)

LEMMA RowShape ==
  ASSUME NEW s, s \in ScheduleRow
  PROVE  /\ s.status \in {"active", "cancelled"} /\ DOMAIN s.event \subseteq DueDates
         /\ DOMAIN s.event \subseteq Nat
         /\ s.event \in [DOMAIN s.event -> Statuses]
  <1>1. PICK D \in SUBSET DueDates : s.event \in [D -> Statuses]
    BY DEF ScheduleRow, Statuses
  <1> QED
    BY <1>1, BillsConstants DEF ScheduleRow

LEMMA RowMade ==
  ASSUME NEW st \in {"active", "cancelled"}, NEW D \in SUBSET DueDates, NEW f \in [D -> Statuses]
  PROVE  [status |-> st, event |-> f] \in ScheduleRow
  BY DEF ScheduleRow, Statuses

\* Materializing keeps the reminders there are; those it adds are pending, and later than
\* all that were not cancelled.
LEMMA Materialized ==
  ASSUME NEW s, Schedule(s), today \in Nat
  PROVE  /\ Schedule(materialize(s)) /\ materialize(s).status = s.status
         /\ \A d \in DOMAIN s.event : /\ d \in DOMAIN materialize(s).event
                                      /\ materialize(s).event[d] = s.event[d]
         /\ \A d \in DOMAIN materialize(s).event \ DOMAIN s.event :
               \A x \in DOMAIN s.event : s.event[x] # "cancelled" => x < d
  <1> DEFINE e == s.event
             alive == {d \in DOMAIN e : e[d] # "cancelled"}
             after == IF alive = {} THEN today - 1 ELSE Max(alive)
             new == {d \in DueDates \ DOMAIN e : d > after}
             next == IF new = {} \/ \E d \in DOMAIN e : e[d] = "pending" THEN {} ELSE {Min(new)}
             days == {d \in new : d <= today + NEAR_HORIZON_DAYS} \cup next
             f == [d \in DOMAIN e \cup days |-> IF d \in DOMAIN e THEN e[d] ELSE "pending"]
  <1> USE BillsConstants
  <1>0. /\ s.status \in {"active", "cancelled"} /\ DOMAIN e \subseteq DueDates
        /\ e \in [DOMAIN e -> Statuses] /\ DOMAIN e \subseteq Nat
    BY RowShape DEF Schedule
  <1>1. CASE s.status # "active"
    BY <1>1 DEF materialize
  <1>2. CASE s.status = "active"
    <2>1. materialize(s) = [status |-> "active", event |-> f]
      BY <1>2 DEF materialize
    <2>2. next \subseteq new /\ \A d \in next : next = {d}
      BY MinOfNaturals
    <2>3. days \subseteq new /\ new \subseteq DueDates /\ new \cap DOMAIN e = {}
      BY <2>2
    <2>4. f \in [DOMAIN e \cup days -> Statuses]
      BY <1>0 DEF Statuses
    <2>5. [status |-> "active", event |-> f] \in ScheduleRow
      BY <1>0, <2>3, <2>4, RowMade
    <2>6. PICK top \in Nat : \A d \in DOMAIN e : d <= top
      BY DEF Schedule, Bounded
    <2>7. \E last \in Nat : \A d \in DOMAIN e \cup days : d <= last
      <3>1. PICK n \in Nat : \A d \in next : d = n
        BY <2>2, <2>3
      <3>2. \A d \in days : d \in Nat /\ (d <= today + NEAR_HORIZON_DAYS \/ d = n)
        BY <2>3, <3>1
      <3>3. \A d \in DOMAIN e : d \in Nat
        BY <1>0
      <3> HIDE DEF days, e
      <3>4. \A d \in DOMAIN e \cup days : d <= top + today + NEAR_HORIZON_DAYS + n
        BY <2>6, <3>2, <3>3
      <3>5. top + today + NEAR_HORIZON_DAYS + n \in Nat
        OBVIOUS
      <3> QED
        BY <3>4, <3>5
    <2>8. ASSUME NEW d \in days, NEW x \in alive PROVE x < d
      <3>1. x <= Max(alive) /\ Max(alive) \in Nat
        BY <1>0, <2>6, MaxOfBounded
      <3>2. d > Max(alive) /\ d \in Nat
        BY <2>3, <2>8
      <3> QED
        BY <1>0, <3>1, <3>2
    <2> HIDE DEF days, new, next, after
    <2>9. DOMAIN f = DOMAIN e \cup days /\ \A d \in DOMAIN e : f[d] = e[d]
      OBVIOUS
    <2> HIDE DEF f
    <2>10. materialize(s).status = s.status /\ materialize(s).event = f
      BY <2>1, <1>2
    <2>11. Schedule(materialize(s))
      BY <2>1, <2>5, <2>7, <2>9, <2>10 DEF Schedule, Bounded
    <2> QED
      BY <2>8, <2>9, <2>10, <2>11
  <1> QED
    BY <1>1, <1>2

\* A sweep adds nothing and opens nothing.
LEMMA Fired ==
  ASSUME NEW s, Schedule(s)
  PROVE  /\ Schedule(fireDue(s)) /\ fireDue(s).status = s.status
         /\ DOMAIN fireDue(s).event = DOMAIN s.event
         /\ \A d \in DOMAIN s.event :
               /\ fireDue(s).event[d] \in Open => s.event[d] \in Open
               /\ s.event[d] \in Open /\ fireDue(s).event[d] # "cancelled" => fireDue(s).event[d] \in Open
  <1> DEFINE e == s.event
             due == {d \in DOMAIN e : e[d] = "pending" /\ d <= today}
             f == [d \in DOMAIN e |-> IF d \notin due THEN e[d]
                                      ELSE IF d = Max(due) THEN "notified" ELSE "cancelled"]
  <1>0. /\ s.status \in {"active", "cancelled"} /\ DOMAIN e \subseteq DueDates
        /\ e \in [DOMAIN e -> Statuses]
    BY RowShape DEF Schedule
  <1>1. CASE s.status # "active"
    BY <1>0, <1>1 DEF fireDue, Open, Statuses
  <1>2. CASE s.status = "active"
    <2>1. fireDue(s) = [status |-> "active", event |-> f]
      BY <1>2 DEF fireDue
    <2>2. f \in [DOMAIN e -> Statuses]
      BY <1>0 DEF Statuses
    <2>3. [status |-> "active", event |-> f] \in ScheduleRow
      BY <1>0, <2>2, RowMade
    <2>4. \A d \in DOMAIN e : /\ f[d] \in Open => e[d] \in Open
                              /\ e[d] \in Open /\ f[d] # "cancelled" => f[d] \in Open
      BY <1>0 DEF Open, Statuses
    <2> HIDE DEF f
    <2> QED
      BY <1>2, <2>1, <2>2, <2>3, <2>4 DEF Schedule, Bounded
  <1> QED
    BY <1>1, <1>2

LEMMA ClosedRow ==
  ASSUME NEW s \in ScheduleIds, Schedule(sched[s]), NEW d \in DOMAIN sched[s].event,
         NEW how \in Statuses
  PROVE  Schedule(closed(s, d, how)) /\ closed(s, d, how).status = sched[s].status
  <1> DEFINE f == [sched[s].event EXCEPT ![d] = how]
  <1>1. f \in [DOMAIN sched[s].event -> Statuses]
    BY RowShape DEF Schedule
  <1>2. [status |-> sched[s].status, event |-> f] \in ScheduleRow
    BY <1>1, RowMade, RowShape DEF Schedule
  <1> HIDE DEF f
  <1> QED
    BY <1>1, <1>2 DEF closed, Schedule, Bounded, f

LEMMA NewRows ==
  ASSUME today \in Nat
  PROVE  /\ Schedule(createSchedule) /\ createSchedule.status = "active"
         /\ Schedule(deleted) /\ deleted.status = "cancelled"
  <1>1. << >> \in [{} -> Statuses] /\ DOMAIN << >> = {}
    OBVIOUS
  <1>2. \A st \in {"active", "cancelled"} :
           Schedule([status |-> st, event |-> << >>])
    BY <1>1, RowMade DEF Schedule, Bounded
  <1>3. Schedule([status |-> "active", event |-> << >>]) /\ Schedule(deleted)
    BY <1>2 DEF deleted
  <1>4. Schedule(createSchedule) /\ createSchedule.status = "active"
    BY <1>3, Materialized DEF createSchedule
  <1> QED
    BY <1>3, <1>4 DEF deleted

LEMMA FreeIsFree ==
  ASSUME CanCreate
  PROVE  FreeSchedule \in ScheduleIds /\ sched[FreeSchedule] = Missing
  <1> DEFINE F == {s \in ScheduleIds : sched[s] = Missing}
  <1>1. F \subseteq Nat /\ F # {}
    BY BillsConstants DEF CanCreate
  <1>2. Min(F) \in F
    BY <1>1, MinOfNaturals
  <1> QED
    BY <1>2 DEF FreeSchedule

-----------------------------------------------------------------------------
(* The rows.  Each reminding bill refers to a schedule of its own that exists.  *)

BillsTypeOK ==
    /\ today \in Nat
    /\ bill \in [BillIds -> BillRow \cup {Missing}]
    /\ sched \in [ScheduleIds -> ScheduleRow \cup {Missing}]
    /\ \A s \in ScheduleIds : sched[s] # Missing => Bounded(sched[s])

OwnSchedules ==
    /\ \A b \in BillIds : bill[b] # Missing =>
          IF bill[b].autoRemind
          THEN bill[b].schedule \in ScheduleIds /\ sched[bill[b].schedule] # Missing
          ELSE bill[b].schedule = Missing
    /\ \A b, c \in BillIds :
          /\ bill[b] # Missing /\ bill[c] # Missing
          /\ bill[b].schedule = bill[c].schedule /\ bill[b].schedule # Missing
          => b = c

BillsInv == BillsTypeOK /\ OwnSchedules /\ RemindersBelongToBills

LEMMA BillsTyped == BillsInit => BillsInv
  <1> SUFFICES ASSUME BillsInit PROVE BillsInv
    OBVIOUS
  <1>1. BillsTypeOK
    BY BillsConstants DEF BillsInit, BillsTypeOK
  <1>2. (\A b \in BillIds : bill[b] = Missing) /\ (\A s \in ScheduleIds : ~Active(s))
    BY DEF BillsInit, Active
  <1>3. RemindersBelongToBills
    BY <1>2 DEF RemindersBelongToBills
  <1> QED
    BY <1>1, <1>2, <1>3 DEF BillsInv, OwnSchedules

LEMMA RowThere ==
  ASSUME BillsTypeOK, NEW s \in ScheduleIds, sched[s] # Missing
  PROVE  Schedule(sched[s])
  BY DEF BillsTypeOK, Schedule

\* What leaves the bills and the status of every schedule alone changes none of this.
LEMMA OnlyEvents ==
  ASSUME BillsInv, today' \in Nat, bill' = bill, touched' = touched,
         sched' \in [ScheduleIds -> ScheduleRow \cup {Missing}],
         \A s \in ScheduleIds :
            /\ sched'[s] = Missing <=> sched[s] = Missing
            /\ sched[s] # Missing => Schedule(sched'[s]) /\ sched'[s].status = sched[s].status
  PROVE  BillsInv'
  <1>1. BillsTypeOK'
    BY DEF BillsInv, BillsTypeOK, Schedule
  <1>2. \A s \in ScheduleIds : Active(s)' <=> Active(s)
    BY DEF Active
  <1>3. OwnSchedules'
    BY DEF BillsInv, OwnSchedules
  <1>4. ASSUME NEW b \in BillIds, bill[b] # Missing, bill[b].autoRemind
        PROVE  bill[b].schedule \in ScheduleIds
    BY <1>4 DEF BillsInv, OwnSchedules
  <1>5. RemindersBelongToBills'
    BY <1>2, <1>4 DEF BillsInv, RemindersBelongToBills
  <1> QED
    BY <1>1, <1>3, <1>5 DEF BillsInv

\* One schedule gets another row of the same status.
LEMMA OneRow ==
  ASSUME BillsInv, today' = today, bill' = bill, touched' = touched,
         NEW s \in ScheduleIds, sched[s] # Missing,
         NEW row, Schedule(row), row.status = sched[s].status, row # Missing,
         sched' = [sched EXCEPT ![s] = row]
  PROVE  BillsInv'
  BY OnlyEvents, RowThere DEF BillsInv, BillsTypeOK, Schedule

LEMMA RowIsNotMissing == \A r : Schedule(r) => r # Missing
  BY BillsConstants DEF Schedule

\* The schedules of the bills, after schedule s was touched by something else or was new.
LEMMA BillsWithReminders ==
  ASSUME BillsInv, NEW b \in BillIds, NEW remind \in BOOLEAN, NEW crash \in BOOLEAN,
         NewReminders(b, remind, crash),
         bill[b] = Missing \/ (bill[b].status = "paused" /\ bill[b].autoRemind = remind)
  PROVE  BillsInv'
  <1> DEFINE s == FreeSchedule
             row == [status |-> "active", autoRemind |-> remind,
                     schedule |-> IF remind THEN s ELSE Missing]
  <1> USE BillsConstants
  <1>0. BillsTypeOK /\ OwnSchedules /\ RemindersBelongToBills /\ today' = today /\ today \in Nat
    BY DEF BillsInv, NewReminders, BillsTypeOK
  <1>1. remind => /\ s \in ScheduleIds /\ sched[s] = Missing /\ ~Active(s)
                  /\ sched' = [sched EXCEPT ![s] = createSchedule]
    BY FreeIsFree DEF NewReminders, Active
  <1>2. ~remind => sched' = sched
    BY DEF NewReminders
  <1>3. Schedule(createSchedule) /\ createSchedule.status = "active" /\ createSchedule # Missing
    BY <1>0, NewRows, RowIsNotMissing
  <1>4. row \in BillRow /\ row # Missing
    BY <1>1 DEF BillRow
  <1> HIDE DEF row, s
  <1>5. crash => remind /\ touched' = touched \cup {s} /\ bill' = bill
    BY DEF NewReminders, s
  <1>6. ~crash => touched' = touched /\ bill' = [bill EXCEPT ![b] = row]
    BY DEF NewReminders, row, s
  <1>7. BillsTypeOK'
    <2>1. sched' \in [ScheduleIds -> ScheduleRow \cup {Missing}]
      BY <1>0, <1>1, <1>2, <1>3 DEF BillsTypeOK, Schedule
    <2>2. bill' \in [BillIds -> BillRow \cup {Missing}]
      BY <1>0, <1>4, <1>5, <1>6 DEF BillsTypeOK
    <2>3. \A x \in ScheduleIds : sched'[x] # Missing => Bounded(sched'[x])
      BY <1>0, <1>1, <1>2, <1>3 DEF BillsTypeOK, Schedule
    <2> QED
      BY <1>0, <2>1, <2>2, <2>3 DEF BillsTypeOK
  <1>8. \A x \in ScheduleIds : /\ sched[x] # Missing => sched'[x] = sched[x]
                               /\ Active(x)' <=> Active(x) \/ (remind /\ x = s)
    BY <1>0, <1>1, <1>2, <1>3 DEF BillsTypeOK, Active
  <1>9. \A c \in BillIds : c # b \/ crash => bill'[c] = bill[c]
    BY <1>0, <1>5, <1>6 DEF BillsTypeOK
  <1>10. ~crash => bill'[b] = row
    BY <1>0, <1>6 DEF BillsTypeOK
  <1>11. row.autoRemind = remind /\ row.schedule = (IF remind THEN s ELSE Missing) /\ row.status = "active"
    BY DEF row
  <1>12. remind => \A c \in BillIds : bill[c] # Missing => bill[c].schedule # s
    BY <1>0, <1>1 DEF OwnSchedules
  <1>13. OwnSchedules'
    <2>1. ASSUME NEW c \in BillIds, bill'[c] # Missing
          PROVE  IF bill'[c].autoRemind
                 THEN bill'[c].schedule \in ScheduleIds /\ sched'[bill'[c].schedule] # Missing
                 ELSE bill'[c].schedule = Missing
      <3>1. CASE c = b /\ ~crash
        BY <3>1, <1>1, <1>3, <1>0, <1>10, <1>11 DEF BillsTypeOK
      <3>2. CASE c # b \/ crash
        BY <3>2, <2>1, <1>0, <1>8, <1>9 DEF OwnSchedules
      <3> QED
        BY <3>1, <3>2
    <2>2. ASSUME NEW c \in BillIds, NEW d \in BillIds, bill'[c] # Missing, bill'[d] # Missing,
                 bill'[c].schedule = bill'[d].schedule, bill'[c].schedule # Missing
          PROVE  c = d
      <3>1. CASE crash
        BY <3>1, <2>2, <1>0, <1>9 DEF OwnSchedules
      <3>2. CASE ~crash /\ c # b /\ d # b
        BY <3>2, <2>2, <1>0, <1>9 DEF OwnSchedules
      <3>3. CASE ~crash /\ (c = b \/ d = b)
        BY <3>3, <2>2, <1>9, <1>10, <1>11, <1>12
      <3> QED
        BY <3>1, <3>2, <3>3
    <2> QED
      BY <2>1, <2>2 DEF OwnSchedules
  <1>14. ASSUME NEW x \in ScheduleIds, x \notin touched', Active(x)'
         PROVE  \E c \in BillIds : bill'[c] # Missing /\ bill'[c].status = "active" /\ bill'[c].schedule = x
    <2>1. CASE remind /\ x = s
      BY <1>4, <1>5, <1>10, <1>11, <1>14, <2>1
    <2>2. CASE Active(x)
      <3>1. x \notin touched
        BY <1>5, <1>6, <1>14
      <3>2. PICK c \in BillIds : bill[c] # Missing /\ bill[c].status = "active" /\ bill[c].schedule = x
        BY <1>0, <2>2, <3>1 DEF RemindersBelongToBills
      <3> QED
        BY <1>9, <3>2
    <2> QED
      BY <1>8, <1>14, <2>1, <2>2
  <1>15. ASSUME NEW c \in BillIds, bill'[c] # Missing, bill'[c].autoRemind,
                NEW x, x = bill'[c].schedule, x \notin touched'
         PROVE  Active(x)' <=> bill'[c].status = "active"
    <2>1. CASE c = b /\ ~crash
      BY <1>1, <1>8, <1>10, <1>11, <1>15, <2>1
    <2>2. CASE c # b \/ crash
      <3>1. bill'[c] = bill[c] /\ bill[c].schedule \notin touched
        BY <1>5, <1>6, <1>9, <1>15, <2>2
      <3>2. bill[c].schedule \in ScheduleIds /\ (remind => bill[c].schedule # s)
        BY <1>0, <1>12, <1>15, <3>1 DEF OwnSchedules
      <3> QED
        BY <1>0, <1>8, <1>15, <3>1, <3>2 DEF RemindersBelongToBills
    <2> QED
      BY <2>1, <2>2
  <1> QED
    BY <1>7, <1>13, <1>14, <1>15, Zenon DEF BillsInv, RemindersBelongToBills, Active

\* Schedule s alone changes, to a row that is not active; the bills it belongs to follow.
LEMMA ScheduleStops ==
  ASSUME BillsInv, today' = today, NEW s, touched \subseteq touched',
         NEW row, Schedule(row), row # Missing, row.status = "cancelled",
         sched' = IF s \in ScheduleIds THEN [sched EXCEPT ![s] = row] ELSE sched,
         bill' \in [BillIds -> BillRow \cup {Missing}],
         \A c \in BillIds :
            \/ bill'[c] = bill[c] /\ (bill[c] # Missing /\ bill[c].autoRemind /\ bill[c].schedule = s
                                        => s \in touched' \/ bill[c].status # "active")
            \/ /\ bill[c] # Missing /\ bill[c].schedule = s
               /\ bill'[c] = [status |-> "paused", autoRemind |-> bill[c].autoRemind, schedule |-> s]
  PROVE  BillsInv'
  <1> USE BillsConstants
  <1>0. BillsTypeOK /\ OwnSchedules /\ RemindersBelongToBills
    BY DEF BillsInv
  <1>1. BillsTypeOK'
    BY <1>0 DEF BillsTypeOK, Schedule
  <1>2. \A x \in ScheduleIds : /\ sched[x] # Missing => sched'[x] # Missing
                               /\ Active(x)' <=> Active(x) /\ x # s
    BY <1>0 DEF BillsTypeOK, Active
  <1>3. \A c \in BillIds : /\ bill'[c] = Missing <=> bill[c] = Missing
                           /\ bill[c] # Missing => /\ bill'[c].autoRemind = bill[c].autoRemind
                                                   /\ bill'[c].schedule = bill[c].schedule
                                                   /\ bill'[c].status \in {bill[c].status, "paused"}
                                                   /\ bill[c].schedule # s => bill'[c].status = bill[c].status
    <2>1. \A st, re, sc : [status |-> st, autoRemind |-> re, schedule |-> sc] # Missing
                          \/ [status |-> st, autoRemind |-> re, schedule |-> sc] \notin BillRow
      OBVIOUS
    <2> QED
      BY <1>0, <2>1 DEF BillsTypeOK, BillRow
  <1>4. OwnSchedules'
    <2>1. \A c \in BillIds : bill[c] # Missing /\ bill[c].autoRemind =>
             bill[c].schedule \in ScheduleIds /\ sched'[bill[c].schedule] # Missing
      BY <1>0, <1>2 DEF OwnSchedules
    <2> QED
      BY <1>0, <1>3, <2>1 DEF OwnSchedules
  <1>5. ASSUME NEW x \in ScheduleIds, x \notin touched', Active(x)'
        PROVE  \E c \in BillIds : bill'[c] # Missing /\ bill'[c].status = "active" /\ bill'[c].schedule = x
    <2>1. Active(x) /\ x # s /\ x \notin touched
      BY <1>2, <1>5
    <2>2. PICK c \in BillIds : bill[c] # Missing /\ bill[c].status = "active" /\ bill[c].schedule = x
      BY <1>0, <2>1 DEF RemindersBelongToBills
    <2> QED
      BY <1>3, <2>1, <2>2
  <1>6. ASSUME NEW c \in BillIds, bill'[c] # Missing, bill'[c].autoRemind,
               NEW x, x = bill'[c].schedule, x \notin touched'
        PROVE  Active(x)' <=> bill'[c].status = "active"
    <2>1. /\ bill[c] # Missing /\ bill[c].autoRemind /\ bill[c].schedule = x /\ x \in ScheduleIds
          /\ x \notin touched
      BY <1>0, <1>3, <1>6 DEF OwnSchedules
    <2>2. Active(x) <=> bill[c].status = "active"
      BY <1>0, <2>1 DEF RemindersBelongToBills
    <2>3. CASE x # s
      BY <1>2, <1>3, <2>1, <2>2, <2>3
    <2>4. CASE x = s
      <3>1. bill'[c].status # "active"
        BY <2>1, <2>4, <1>6
      <3> QED
        BY <1>2, <2>1, <2>4, <3>1
    <2> QED
      BY <2>3, <2>4
  <1> QED
    BY <1>1, <1>4, <1>5, <1>6, Zenon DEF BillsInv, RemindersBelongToBills, Active

\* A tool of schedules revives schedule s.
LEMMA ScheduleRevives ==
  ASSUME BillsInv, today' = today, bill' = bill, NEW s \in ScheduleIds, sched[s] # Missing,
         touched' = touched \cup {s}, NEW row, Schedule(row), row # Missing,
         sched' = [sched EXCEPT ![s] = row]
  PROVE  BillsInv'
  <1>0. BillsTypeOK /\ OwnSchedules /\ RemindersBelongToBills
    BY DEF BillsInv
  <1>1. BillsTypeOK'
    BY <1>0 DEF BillsTypeOK, Schedule
  <1>2. \A x \in ScheduleIds : /\ sched[x] # Missing => sched'[x] # Missing
                               /\ x # s => (Active(x)' <=> Active(x))
    BY <1>0 DEF BillsTypeOK, Active
  <1>3. OwnSchedules'
    BY <1>0, <1>2 DEF OwnSchedules
  <1>4. ASSUME NEW c \in BillIds, bill[c] # Missing, bill[c].autoRemind
        PROVE  bill[c].schedule \in ScheduleIds
    BY <1>0, <1>4 DEF OwnSchedules
  <1>5. RemindersBelongToBills'
    BY <1>0, <1>2, <1>4 DEF RemindersBelongToBills
  <1> QED
    BY <1>1, <1>3, <1>5 DEF BillsInv

LEMMA OpenSchedule ==
  ASSUME BillsInv, NEW b \in BillIds, bill[b] # Missing, NEW p, p \in OpenOf(b)
  PROVE  /\ bill[b].schedule \in ScheduleIds /\ Active(bill[b].schedule)
         /\ sched[bill[b].schedule] # Missing /\ p \in DOMAIN sched[bill[b].schedule].event
  BY DEF BillsInv, OwnSchedules, OpenOf, Active, OpenDates

LEMMA BillsStep == BillsInv /\ [BillsNext]_billsVars => BillsInv'
  <1> SUFFICES ASSUME BillsInv, [BillsNext]_billsVars PROVE BillsInv'
    OBVIOUS
  <1> USE BillsConstants
  <1>0. BillsTypeOK /\ today \in Nat
    BY DEF BillsInv, BillsTypeOK
  <1>1. ASSUME NEW b \in BillIds, NEW remind \in BOOLEAN, NEW crash \in BOOLEAN,
               createBill(b, remind, crash)
        PROVE  BillsInv'
    BY <1>1, BillsWithReminders DEF createBill
  <1>2. ASSUME NEW b \in BillIds, NEW crash \in BOOLEAN, resumeBill(b, crash) PROVE BillsInv'
    <2>1. bill[b].autoRemind \in BOOLEAN
      BY <1>0, <1>2 DEF resumeBill, BillsTypeOK, BillRow
    <2> QED
      BY <1>2, <2>1, BillsWithReminders DEF resumeBill
  <1>3. ASSUME NEW b \in BillIds, insertFails(b) PROVE BillsInv'
    <2> DEFINE s == FreeSchedule
    <2>1. s \in ScheduleIds /\ sched[s] = Missing /\ sched' = [sched EXCEPT ![s] = deleted]
      BY <1>3, FreeIsFree DEF insertFails
    <2>2. Schedule(deleted) /\ deleted.status = "cancelled" /\ deleted # Missing
      BY <1>0, NewRows, RowIsNotMissing
    <2>3. bill' = bill /\ touched' = touched /\ today' = today
      BY <1>3 DEF insertFails
    <2>4. \A c \in BillIds : bill[c] # Missing /\ bill[c].autoRemind => bill[c].schedule # s
      BY <2>1 DEF BillsInv, OwnSchedules
    <2>5. bill' \in [BillIds -> BillRow \cup {Missing}]
      BY <1>0, <2>3 DEF BillsTypeOK
    <2> HIDE DEF s
    <2> QED
      BY <2>1, <2>2, <2>3, <2>4, <2>5, ScheduleStops
  <1>4. ASSUME NEW b \in BillIds, NEW crash \in BOOLEAN, pauseBill(b, crash) PROVE BillsInv'
    <2> DEFINE s == bill[b].schedule
               row == [status |-> "paused", autoRemind |-> bill[b].autoRemind, schedule |-> s]
    <2>1. bill[b] # Missing /\ bill[b] \in BillRow /\ bill[b].status = "active"
      BY <1>0, <1>4 DEF pauseBill, BillsTypeOK
    <2>2. row \in BillRow /\ row = [bill[b] EXCEPT !.status = "paused"]
      BY <2>1 DEF BillRow
    <2>3. crash => touched' = touched \cup {s} /\ bill' = bill
      BY <1>4 DEF pauseBill
    <2>4. ~crash => touched' = touched /\ bill' = [bill EXCEPT ![b] = row]
      BY <1>4, <2>2 DEF pauseBill
    <2>5. s = Missing \/ s \in ScheduleIds
      BY <2>1 DEF BillRow
    <2>6. today' = today /\ sched' = IF Active(s) THEN [sched EXCEPT ![s] = deleted] ELSE sched
      BY <1>4 DEF pauseBill
    <2>7. Schedule(deleted) /\ deleted.status = "cancelled" /\ deleted # Missing
      BY <1>0, NewRows, RowIsNotMissing
    <2>8. \A c \in BillIds : bill[c] # Missing /\ bill[c].schedule = s /\ s # Missing => c = b
      BY <2>1 DEF BillsInv, OwnSchedules
    <2>9. bill[b].autoRemind => s \in ScheduleIds /\ sched[s] # Missing
      BY <2>1 DEF BillsInv, OwnSchedules
    <2>10. bill' \in [BillIds -> BillRow \cup {Missing}] /\ touched \subseteq touched'
      BY <1>0, <2>2, <2>3, <2>4 DEF BillsTypeOK
    <2>11. \A c \in BillIds : IF c = b /\ ~crash THEN bill'[c] = row ELSE bill'[c] = bill[c]
      BY <1>0, <2>3, <2>4 DEF BillsTypeOK
    <2>12. \A c \in BillIds : bill[c] # Missing /\ bill[c].autoRemind => bill[c].schedule # Missing
      BY DEF BillsInv, OwnSchedules
    <2> HIDE DEF s, row
    <2>13. \A c \in BillIds :
            \/ bill'[c] = bill[c] /\ (bill[c] # Missing /\ bill[c].autoRemind /\ bill[c].schedule = s
                                        => s \in touched' \/ bill[c].status # "active")
            \/ /\ bill[c] # Missing /\ bill[c].schedule = s
               /\ bill'[c] = [status |-> "paused", autoRemind |-> bill[c].autoRemind, schedule |-> s]
      BY <2>1, <2>3, <2>4, <2>8, <2>11, <2>12 DEF s, row
    <2>14. CASE Active(s)
      <3>1. s \in ScheduleIds /\ sched' = [sched EXCEPT ![s] = deleted]
        BY <2>5, <2>6, <2>14 DEF Active
      <3> QED
        BY <2>6, <2>7, <2>10, <2>13, <3>1, ScheduleStops
    <2>15. CASE ~Active(s) /\ s \in ScheduleIds /\ sched[s] # Missing
      <3>1. Schedule(sched[s]) /\ sched[s].status = "cancelled"
        BY <1>0, <2>15, RowThere, RowShape DEF Active, Schedule
      <3>2. sched' = [sched EXCEPT ![s] = sched[s]]
        BY <1>0, <2>6, <2>15 DEF BillsTypeOK
      <3> QED
        BY <2>6, <2>10, <2>13, <2>15, <3>1, <3>2, ScheduleStops
    <2>16. CASE ~Active(s) /\ ~(s \in ScheduleIds /\ sched[s] # Missing)
      <3>1. ~bill[b].autoRemind /\ s = Missing
        BY <2>1, <2>9, <2>16 DEF BillsInv, OwnSchedules, s
      <3>2. sched' = IF s \in ScheduleIds THEN [sched EXCEPT ![s] = deleted] ELSE sched
        BY <2>6, <2>16, <3>1
      <3> QED
        BY <2>6, <2>7, <2>10, <2>13, <3>2, ScheduleStops
    <2> QED
      BY <2>14, <2>15, <2>16
  <1>5. ASSUME NEW b \in BillIds, NEW date, NEW crash \in BOOLEAN, payBill(b, date, crash) PROVE BillsInv'
    <2> DEFINE p == period(b, date)
               s == bill[b].schedule
    <2>1. bill[b] # Missing /\ bill' = bill /\ touched' = touched /\ today' = today
      BY <1>5 DEF payBill
    <2>2. CASE sched' = sched
      BY <1>0, <2>1, <2>2, OnlyEvents, RowThere DEF BillsTypeOK
    <2>3. CASE sched' # sched
      <3>1. p \in OpenOf(b) /\ sched' = [sched EXCEPT ![s] = materialize(closed(s, p, "done"))]
        BY <1>5, <2>3 DEF payBill
      <3>2. s \in ScheduleIds /\ sched[s] # Missing /\ p \in DOMAIN sched[s].event
        BY <2>1, <3>1, OpenSchedule
      <3>3. Schedule(closed(s, p, "done")) /\ closed(s, p, "done").status = sched[s].status
        BY <1>0, <3>2, RowThere, ClosedRow DEF Statuses
      <3> DEFINE row == materialize(closed(s, p, "done"))
      <3>4. Schedule(row) /\ row.status = sched[s].status /\ row # Missing
        BY <1>0, <3>3, Materialized, RowIsNotMissing
      <3> HIDE DEF row, s, p
      <3> QED
        BY <2>1, <3>1, <3>2, <3>4, OneRow DEF row
    <2> QED
      BY <2>2, <2>3
  <1>6. ASSUME NEW s \in ScheduleIds, NEW d, NEW crash \in BOOLEAN, NEW how \in Statuses,
               Active(s), d \in OpenDates(s), sched' = [sched EXCEPT ![s] = closed(s, d, how)],
               UNCHANGED <<today, bill, touched>>
        PROVE  BillsInv'
    <2>1. sched[s] # Missing /\ d \in DOMAIN sched[s].event
      BY <1>6 DEF Active, OpenDates
    <2>2. Schedule(closed(s, d, how)) /\ closed(s, d, how).status = sched[s].status
      BY <1>0, <2>1, RowThere, ClosedRow
    <2> QED
      BY <1>6, <2>1, <2>2, RowIsNotMissing, OneRow
  <1>7. ASSUME NEW s \in ScheduleIds, NEW d, NEW crash \in BOOLEAN, completeSchedule(s, d, crash)
        PROVE  BillsInv'
    BY <1>6, <1>7 DEF completeSchedule, Statuses
  <1>8. ASSUME NEW s \in ScheduleIds, NEW d, skipSchedule(s, d) PROVE BillsInv'
    BY <1>6, <1>8 DEF skipSchedule, Statuses
  <1>9. ASSUME NEW s \in ScheduleIds, scheduleTool(s) PROVE BillsInv'
    <2> DEFINE row == IF Active(s) THEN deleted
                      ELSE materialize([status |-> "active", event |-> sched[s].event])
    <2>1. /\ sched[s] # Missing /\ sched' = [sched EXCEPT ![s] = row]
          /\ touched' = touched \cup {s} /\ bill' = bill /\ today' = today
      BY <1>9 DEF scheduleTool
    <2>2. Schedule([status |-> "active", event |-> sched[s].event])
      BY <1>0, <2>1, RowThere, RowShape, RowMade DEF Schedule, Bounded
    <2>3. Schedule(row) /\ row # Missing
      BY <1>0, <2>2, NewRows, Materialized, RowIsNotMissing
    <2> HIDE DEF row
    <2> QED
      BY <2>1, <2>3, ScheduleRevives
  <1>10. CASE Tick
    <2> DEFINE row(s) == materialize(fireDue(sched[s]))
    <2>1. ASSUME NEW s \in ScheduleIds, sched[s] # Missing
          PROVE  Schedule(row(s)) /\ row(s).status = sched[s].status /\ row(s) # Missing
      BY <1>0, <2>1, RowThere, Fired, Materialized, RowIsNotMissing
    <2>2. /\ sched' = [s \in ScheduleIds |-> IF sched[s] = Missing THEN Missing ELSE row(s)]
          /\ bill' = bill /\ touched' = touched /\ today' = today
      BY <1>10 DEF Tick
    <2> HIDE DEF row
    <2> QED
      BY <1>0, <2>1, <2>2, OnlyEvents DEF Schedule
  <1>11. ASSUME UNCHANGED <<bill, sched, touched>>, today' \in Nat PROVE BillsInv'
    BY <1>0, <1>11, OnlyEvents, RowThere DEF BillsTypeOK
  <1>12. CASE Day
    BY <1>0, <1>11, <1>12 DEF Day
  <1>13. CASE LedgerLost \/ UNCHANGED billsVars \/ (\E b \in BillIds : updateBill(b))
              \/ (\E e \in entries : expenseDelete(e))
    BY <1>0, <1>11, <1>13 DEF LedgerLost, billsVars, updateBill, expenseDelete
  <1> QED
    BY <1>1, <1>2, <1>3, <1>4, <1>5, <1>7, <1>8, <1>9, <1>10, <1>12, <1>13
       DEF BillsNext, BillTool, ScheduleTool

\* For any number of bills and schedules: over failing inserts, pauses, resumes, payments
\* and sweeps, tools of bills leave no reminder without an active bill and no active bill
\* without its reminders (modules/bills/service.ts).
THEOREM RemindersBelong == BillsSpec => []RemindersBelongToBills
  BY BillsTyped, BillsStep, PTL DEF BillsSpec, BillsInv

-----------------------------------------------------------------------------
(* A payment cut between the expense and the reminder.  The period it stood for is
   found again for as long as its reminder is open: what is materialized meanwhile is
   later, and nothing else opens.  *)

CutIsRecorded ==
    cut # Missing =>
        /\ cut.bill \in BillIds /\ bill[cut.bill] # Missing
        /\ cut.date = Missing => OpenOf(cut.bill) # {}
        /\ \E e \in entries : e.key = billRequestId(cut.bill, period(cut.bill, cut.date))

LEMMA CutAtFirst == BillsInit => CutIsRecorded
  BY DEF BillsInit, CutIsRecorded

LEMMA PaymentIsRecorded ==
  ASSUME NEW b, NEW p
  PROVE  \E e \in recorded(b, p) : e.key = billRequestId(b, p)
  <1> DEFINE new == [bill |-> b, spentOn |-> p, key |-> billRequestId(b, p)]
  <1>1. new.key = billRequestId(b, p)
    OBVIOUS
  <1> HIDE DEF new
  <1>2. recorded(b, p) = IF \E e \in entries : e.key = billRequestId(b, p) THEN entries
                         ELSE entries \cup {new}
    BY Zenon DEF recorded, new
  <1> QED
    BY <1>1, <1>2

\* The reminder of p, the earliest that is open, is not given up: it still is the earliest.
LEMMA EarliestStays ==
  ASSUME NEW s, Schedule(s), today \in Nat, NEW p \in DOMAIN s.event,
         s.event[p] \in Open, \A d \in DOMAIN s.event : s.event[d] \in Open => p <= d,
         fireDue(s).event[p] # "cancelled", NEW m, m = materialize(fireDue(s))
  PROVE  /\ p \in DOMAIN m.event /\ m.event[p] \in Open
         /\ \A d \in DOMAIN m.event : m.event[d] \in Open => p <= d
  <1> DEFINE f == fireDue(s)
  <1>1. /\ Schedule(f) /\ DOMAIN f.event = DOMAIN s.event /\ f.event[p] \in Open
        /\ \A d \in DOMAIN f.event : f.event[d] \in Open => p <= d
    BY Fired
  <1> HIDE DEF f
  <1>2. /\ \A d \in DOMAIN f.event : d \in DOMAIN m.event /\ m.event[d] = f.event[d]
        /\ \A d \in DOMAIN m.event \ DOMAIN f.event : p < d
        /\ DOMAIN m.event \subseteq Nat
    BY <1>1, Materialized, RowShape DEF f, Schedule
  <1>3. p \in Nat
    BY RowShape DEF Schedule
  <1> QED
    BY <1>1, <1>2, <1>3

LEMMA CutStep ==
  ASSUME BillsInv, CutIsRecorded, [BillsNext]_billsVars
  PROVE  CutIsRecorded'
  <1> USE BillsConstants
  <1>0. BillsTypeOK /\ today \in Nat
    BY DEF BillsInv, BillsTypeOK
  <1>1. ASSUME NEW b \in BillIds, NEW date, NEW crash \in BOOLEAN, payBill(b, date, crash)
        PROVE  CutIsRecorded'
    <2>1. CASE ~crash
      BY <1>1, <2>1 DEF payBill, CutIsRecorded
    <2>2. CASE crash
      <3>1. /\ bill[b] # Missing /\ period(b, date) \in OpenOf(b)
            /\ cut' = [bill |-> b, date |-> date]
            /\ entries' = recorded(b, period(b, date))
            /\ UNCHANGED <<today, bill, sched>>
        BY <1>1, <2>2 DEF payBill
      <3>2. cut'.bill = b /\ cut'.date = date
        BY <3>1
      <3>3. period(b, date)' = period(b, date) /\ OpenOf(b)' = OpenOf(b)
        BY <3>1 DEF period, OpenOf, Active, OpenDates
      <3>4. \E e \in entries' : e.key = billRequestId(b, period(b, date))
        BY <3>1, PaymentIsRecorded
      <3>5. \E e \in entries' : e.key = billRequestId(b, period(b, date)')
        BY <3>3, <3>4
      <3>6. bill'[b] # Missing /\ OpenOf(b)' # {}
        BY <3>1, <3>3
      <3> QED
        BY <3>2, <3>5, <3>6, Zenon DEF CutIsRecorded, period, OpenOf, Active, OpenDates, billRequestId
    <2> QED
      BY <2>1, <2>2
  <1>2. CASE Day
    <2>1. CASE cut = Missing
      BY <1>2, <2>1 DEF Day, CutIsRecorded
    <2>2. CASE cut # Missing
      <3>1. UNCHANGED <<bill, sched, entries, cut>>
        BY <1>2 DEF Day
      <3>2. OpenOf(cut.bill)' = OpenOf(cut.bill)
        BY <3>1 DEF OpenOf, Active, OpenDates
      <3>3. period(cut.bill, cut.date)' = period(cut.bill, cut.date)
        BY <2>2, <3>1, <3>2 DEF period, CutIsRecorded
      <3> QED
        BY <2>2, <3>1, <3>2, <3>3 DEF CutIsRecorded, billRequestId
    <2> QED
      BY <2>1, <2>2
  <1>3. CASE Tick
    <2>1. CASE cut' = Missing
      BY <2>1 DEF CutIsRecorded
    <2>2. CASE cut' # Missing
      <3> DEFINE b == cut.bill
                 s == bill[b].schedule
                 p == period(b, cut.date)
                 row(x) == materialize(fireDue(sched[x]))
      <3>1. /\ cut' = cut /\ cut # Missing /\ ~SweptAway
            /\ bill' = bill /\ entries' = entries /\ today' = today
            /\ sched' = [x \in ScheduleIds |-> IF sched[x] = Missing THEN Missing ELSE row(x)]
        BY <1>3, <2>2 DEF Tick
      <3>2. b \in BillIds /\ bill[b] # Missing /\ \E e \in entries : e.key = billRequestId(b, p)
        BY <3>1 DEF CutIsRecorded
      <3>3. CASE cut.date # Missing
        <4>1. p = cut.date /\ period(b, cut.date)' = cut.date
          BY <3>1, <3>3 DEF period
        <4> QED
          BY <3>1, <3>2, <3>3, <4>1 DEF CutIsRecorded, billRequestId
      <3>4. CASE cut.date = Missing
        <4>1. OpenOf(b) # {} /\ p = Min(OpenOf(b))
          BY <3>1, <3>4 DEF CutIsRecorded, period
        <4>2. PICK q : q \in OpenOf(b)
          BY <4>1
        <4>3. s \in ScheduleIds /\ Active(s) /\ sched[s] # Missing
          BY <3>2, <4>2, OpenSchedule
        <4>4. Schedule(sched[s]) /\ OpenOf(b) = OpenDates(s)
          BY <1>0, <4>3, RowThere DEF OpenOf
        <4>5. OpenOf(b) \subseteq Nat
          BY <4>4, RowShape DEF OpenDates, Schedule
        <4>6. p \in OpenOf(b) /\ \A d \in OpenOf(b) : p <= d
          BY <4>1, <4>5, MinOfNaturals
        <4>7. fireDue(sched[s]).event[p] # "cancelled"
          BY <3>1, <4>6 DEF SweptAway
        <4>8. sched'[s] = row(s)
          BY <3>1, <4>3
        <4>9. /\ p \in DOMAIN sched'[s].event /\ sched'[s].event[p] \in Open
              /\ \A d \in DOMAIN sched'[s].event : sched'[s].event[d] \in Open => p <= d
          <5>1. /\ p \in DOMAIN sched[s].event /\ sched[s].event[p] \in Open
                /\ \A d \in DOMAIN sched[s].event : sched[s].event[d] \in Open => p <= d
            BY <4>4, <4>6 DEF OpenDates
          <5> HIDE DEF p, s
          <5> QED
            BY <1>0, <4>4, <4>7, <4>8, <5>1, EarliestStays
        <4>10. Schedule(row(s)) /\ row(s).status = sched[s].status /\ row(s) # Missing
          BY <1>0, <4>4, Fired, Materialized, RowIsNotMissing
        <4>11. OpenOf(b)' = {d \in DOMAIN sched'[s].event : sched'[s].event[d] \in Open}
          BY <3>1, <4>3, <4>8, <4>10 DEF OpenOf, Active, OpenDates
        <4>12. DOMAIN sched'[s].event \subseteq Nat
          BY <4>8, <4>10, RowShape DEF Schedule
        <4> HIDE DEF p, s, b
        <4> DEFINE O == {d \in DOMAIN sched'[s].event : sched'[s].event[d] \in Open}
        <4>13. O \subseteq Nat /\ p \in O /\ \A d \in O : p <= d
          BY <4>9, <4>12
        <4>14. Min(O) = p /\ O # {}
          BY <4>13, MinIs
        <4> HIDE DEF O
        <4>15. OpenOf(b)' = O
          BY <4>11 DEF O
        <4>16. period(cut.bill, cut.date)' = p /\ OpenOf(cut.bill)' # {}
          BY <3>1, <3>4, <4>14, <4>15 DEF period, b
        <4> QED
          BY <3>1, <3>2, <3>4, <4>16 DEF CutIsRecorded, billRequestId, b
      <3> QED
        BY <3>3, <3>4
    <2> QED
      BY <2>1, <2>2
  <1>4. CASE UNCHANGED billsVars
    BY <1>4 DEF billsVars, CutIsRecorded, period, OpenOf, Active, OpenDates, billRequestId
  <1>5. ASSUME cut' = Missing PROVE CutIsRecorded'
    BY <1>5 DEF CutIsRecorded
  <1>6. ASSUME NEW b \in BillIds, BillTool(b) PROVE CutIsRecorded'
    BY <1>1, <1>5, <1>6 DEF BillTool, createBill, resumeBill, NewReminders, insertFails, updateBill,
       pauseBill
  <1>7. ASSUME NEW s \in ScheduleIds, ScheduleTool(s) PROVE CutIsRecorded'
    BY <1>5, <1>7 DEF ScheduleTool, scheduleTool, completeSchedule, skipSchedule
  <1>8. CASE LedgerLost \/ \E e \in entries : expenseDelete(e)
    BY <1>5, <1>8 DEF LedgerLost, expenseDelete
  <1> QED
    BY <1>2, <1>3, <1>4, <1>6, <1>7, <1>8 DEF BillsNext

\* A `pay' that died between the expense and the reminder records nothing more when it is
\* said again, over any days and sweeps until its reminder is given up (payBill).
THEOREM RepeatedPayment == BillsSpec => []RepetitionRecordsNothing
  <1>1. CutIsRecorded => RepetitionRecordsNothing
    BY DEF CutIsRecorded, RepetitionRecordsNothing, recorded
  <1> QED
    BY BillsTyped, BillsStep, CutAtFirst, CutStep, <1>1, PTL DEF BillsSpec

-----------------------------------------------------------------------------
(* The public holidays.  No answer of the calendar is a guess, for any calendar and
   files, any number of callers, failures and crashes.  HolidayAnswersTrue is not
   inductive: that a date without a row is an ordinary day needs that no import loses
   a row of another file. *)

\* A row says what the file says that it is filed with.
RowsAreFiled ==
    \A d \in DOMAIN cnDays :
        /\ cnDays[d].year \in Years /\ d \in DOMAIN Files[cnDays[d].year]
        /\ cnDays[d].type = Files[cnDays[d].year][d].type

\* A year is ready when all its dates have rows, of its own file or of another one.
ReadyIsComplete == \A y \in Years : isReady(y) => DOMAIN Files[y] \subseteq DOMAIN cnDays

\* The type read at the beginning of a run of the watch is still true later in it.
WatchIsTrue == watch.left # {} => watch.type = Truth(watch.today)

NoticesAreTrue ==
    \A n \in notices : /\ n.what = "workday" => Truth(n.day) = "workday"
                       /\ n.what = "lastday" => n.note \in {"unknown", Truth(n.day + 1)}

CalendarInv ==
    /\ published \subseteq Years
    /\ RowsAreFiled
    /\ ReadyIsComplete

HolidayInv == CalendarInv /\ WatchIsTrue /\ NoticesAreTrue

-----------------------------------------------------------------------------
(* What is true of a date                                                   *)

\* One file that lists a date settles what it is: all files agree.
LEMMA FiledIsTrue ==
  ASSUME NEW y \in Years, NEW d \in DOMAIN Files[y]
  PROVE  Truth(d) = Files[y][d].type
  <1> DEFINE Says(t) == \E z \in Years : d \in DOMAIN Files[z] /\ Files[z][d].type = t
  <1>1. Files[y][d].type \in {"holiday", "workday"} /\ Says(Files[y][d].type)
    BY HolidayAssumption
  <1>2. \A t : Says(t) => t = Files[y][d].type
    BY HolidayAssumption
  <1>3. Truth(d) = CHOOSE t \in {"holiday", "workday"} : Says(t)
    BY DEF Truth
  <1> HIDE DEF Says
  <1> QED
    BY <1>1, <1>2, <1>3

LEMMA UnfiledIsOrdinary ==
  ASSUME NEW d, \A y \in Years : d \notin DOMAIN Files[y]
  PROVE  Truth(d) = byWeekday(d)
  BY DEF Truth

\* A date whose years are ready and that has no row is listed nowhere.
LEMMA NoRowIsOrdinary ==
  ASSUME CalendarInv, NEW d \in Dates, d \notin DOMAIN cnDays, holidayYearsNeedingData(d) = {}
  PROVE  Truth(d) = byWeekday(d)
  <1>1. SUFFICES ASSUME NEW y \in Years, d \in DOMAIN Files[y] PROVE FALSE
    BY UnfiledIsOrdinary
  <1>2. DateYear[d] \in Nat /\ y \in Nat
    BY HolidayAssumption
  <1>3. DateYear[d] = y \/ (d \in CrossYear /\ DateYear[d] = y - 1)
    BY <1>1, HolidayAssumption
  <1>4. y \in holidayLookupYears(d)
    BY <1>2, <1>3 DEF holidayLookupYears
  <1>5. isReady(y)
    BY <1>4 DEF holidayYearsNeedingData
  <1> QED
    BY <1>1, <1>5 DEF CalendarInv, ReadyIsComplete

LEMMA DayTypeIsTrue ==
  ASSUME CalendarInv, NEW d \in Dates
  PROVE  dayType(d) \in {"unknown", Truth(d)}
  <1>1. CASE d \in DOMAIN cnDays
    <2>1. /\ cnDays[d].year \in Years /\ d \in DOMAIN Files[cnDays[d].year]
          /\ cnDays[d].type = Files[cnDays[d].year][d].type
      BY <1>1 DEF CalendarInv, RowsAreFiled
    <2> QED
      BY <1>1, <2>1, FiledIsTrue DEF dayType
  <1>2. CASE d \notin DOMAIN cnDays
    BY <1>2, NoRowIsOrdinary DEF dayType
  <1> QED
    BY <1>1, <1>2

LEMMA AnswersFollow == ASSUME HolidayInv PROVE HolidayAnswersTrue
  <1>1. \A d \in Dates : dayType(d) \in {"unknown", Truth(d)}
    BY DayTypeIsTrue DEF HolidayInv
  <1>2. ASSUME NEW d \in Dates, monthAction(Month[d]) = {}
        PROVE  Truth(d) = byWeekday(d)
    <2>1. /\ {e \in DOMAIN cnDays : Month[e] = Month[d]} = {}
          /\ monthMissingYears(Month[d]) = {}
      BY <1>2 DEF monthAction
    <2>2. d \notin DOMAIN cnDays
      BY <2>1
    <2>3. holidayYearsNeedingData(d) = {}
      BY <2>1 DEF monthMissingYears
    <2> QED
      BY <2>2, <2>3, NoRowIsOrdinary DEF HolidayInv
  <1> QED
    BY <1>1, <1>2 DEF HolidayInv, NoticesAreTrue, HolidayAnswersTrue

-----------------------------------------------------------------------------
(* The steps                                                                *)

\* An import keeps the rows of other files, and loses no date of its own.
LEMMA ImportKeepsCalendar ==
  ASSUME CalendarInv, NEW y \in Years, importYear(y), published' = published
  PROVE  CalendarInv'
  <1> DEFINE kept == {d \in DOMAIN cnDays : cnDays[d].year # y}
             new == {d \in DOMAIN Files[y] : ~keepsRow(d, y)}
  <1>1. /\ DOMAIN cnDays' = kept \cup new
        /\ \A d \in new : cnDays'[d] = [year |-> y, type |-> Files[y][d].type, names |-> Files[y][d].names]
        /\ \A d \in kept \ new : cnDays'[d] = cnDays[d]
    BY DEF importYear
  <1>2. RowsAreFiled'
    <2> SUFFICES ASSUME NEW d \in DOMAIN cnDays'
                 PROVE  /\ cnDays'[d].year \in Years /\ d \in DOMAIN Files[cnDays'[d].year]
                        /\ cnDays'[d].type = Files[cnDays'[d].year][d].type
      BY DEF RowsAreFiled
    <2>1. CASE d \in new
      <3>1. d \in DOMAIN Files[y]
        BY <2>1
      <3> HIDE DEF new
      <3>2. cnDays'[d] = [year |-> y, type |-> Files[y][d].type, names |-> Files[y][d].names]
        BY <1>1, <2>1
      <3>3. cnDays'[d].year = y /\ cnDays'[d].type = Files[y][d].type
        BY <3>2
      <3> QED
        BY <3>1, <3>3
    <2>2. CASE d \in kept \ new
      BY <1>1, <2>2 DEF CalendarInv, RowsAreFiled
    <2> QED
      BY <1>1, <2>1, <2>2
  <1>3. DOMAIN cnDays \subseteq DOMAIN cnDays'
    <2>1. ASSUME NEW d \in DOMAIN cnDays, cnDays[d].year = y PROVE d \in new
      BY <2>1 DEF CalendarInv, RowsAreFiled, keepsRow
    <2> QED
      BY <1>1, <2>1
  <1>4. DOMAIN Files[y] \subseteq DOMAIN cnDays'
    BY <1>1, <1>3 DEF keepsRow
  <1>5. \A z \in Years : isReady(z)' => z = y \/ isReady(z)
    BY DEF importYear, isReady
  <1> QED
    BY <1>2, <1>3, <1>4, <1>5 DEF CalendarInv, ReadyIsComplete

LEMMA CalendarStep == ASSUME CalendarInv, [HolidayNext]_holidayVars PROVE CalendarInv'
  <1>1. CASE UNCHANGED calendarVars /\ published' \subseteq Years
    BY <1>1 DEF CalendarInv, RowsAreFiled, ReadyIsComplete, isReady, calendarVars
  <1>2. ASSUME NEW c \in Callers, FetchEnds(c) PROVE CalendarInv'
    <2> DEFINE y == ensuring[c].year
    <2>1. published' = published
      BY <1>2 DEF FetchEnds, outsideVars
    <2>2. CASE y \in published /\ importYear(y)
      BY <2>1, <2>2, ImportKeepsCalendar DEF CalendarInv
    <2>3. ASSUME NEW status \in {"pending", "failed"}, recordYearStatus(y, status)
          PROVE  CalendarInv'
      <3>1. cnDays' = cnDays /\ \A z \in Years : isReady(z)' => isReady(z)
        BY <2>3 DEF recordYearStatus, isReady
      <3> QED
        BY <2>1, <3>1 DEF CalendarInv, RowsAreFiled, ReadyIsComplete
    <2> QED
      BY <1>2, <2>2, <2>3 DEF FetchEnds
  <1>3. CASE UNCHANGED holidayVars
    BY <1>1, <1>3 DEF holidayVars, calendarVars, CalendarInv
  <1>4. CASE Publication
    BY <1>1, <1>4 DEF Publication, CalendarInv
  <1>5. ASSUME ~\E c \in Callers : FetchEnds(c), ~Publication, HolidayNext
        PROVE  UNCHANGED <<calendarVars, published>>
    BY <1>5 DEF HolidayNext, ensureYears, runWorkdayWatch, WatchProfile, HolidayCrash,
       HolidayTime, outsideVars
  <1> QED
    BY <1>1, <1>2, <1>3, <1>4, <1>5 DEF CalendarInv

LEMMA WatchStep ==
  ASSUME HolidayInv, [HolidayNext]_holidayVars
  PROVE  WatchIsTrue' /\ NoticesAreTrue'
  <1>1. CASE UNCHANGED <<watch, notices>>
    BY <1>1 DEF HolidayInv, WatchIsTrue, NoticesAreTrue, Truth
  <1>2. ASSUME NEW at, runWorkdayWatch(at) PROVE WatchIsTrue' /\ NoticesAreTrue'
    <2>1. /\ at \in Dates /\ dayType(at) # "unknown" /\ notices' = notices
          /\ watch'.today = at /\ watch'.type = dayType(at)
      BY <1>2 DEF runWorkdayWatch
    <2>2. dayType(at) = Truth(at)
      BY <2>1, DayTypeIsTrue DEF HolidayInv
    <2> QED
      BY <2>1, <2>2 DEF HolidayInv, WatchIsTrue, NoticesAreTrue
  <1>3. ASSUME NEW p \in Readers, WatchProfile(p) PROVE WatchIsTrue' /\ NoticesAreTrue'
    <2> DEFINE t == watch.today
               tomorrow == IF t + 1 \in Dates THEN dayType(t + 1) ELSE "unknown"
    <2>1. watch.type = Truth(t)
      BY <1>3 DEF WatchProfile, HolidayInv, WatchIsTrue
    <2>2. tomorrow \in {"unknown", Truth(t + 1)}
      BY DayTypeIsTrue DEF HolidayInv
    <2>3. watch'.left # {} => watch'.today = t /\ watch'.type = watch.type
      BY <1>3 DEF WatchProfile, NoWatch
    <2>4. ASSUME NEW n \in notices' \ notices
          PROVE  \/ n.what = "workday" /\ n.day = t /\ watch.type = "workday"
                 \/ n.what = "period"
                 \/ n.what = "lastday" /\ n.day = t /\ n.note = tomorrow
      BY <1>3 DEF WatchProfile
    <2>5. \A n \in notices' \ notices :
             /\ n.what = "workday" => Truth(n.day) = "workday"
             /\ n.what = "lastday" => n.note \in {"unknown", Truth(n.day + 1)}
      BY <2>1, <2>2, <2>4
    <2> QED
      BY <2>1, <2>3, <2>5 DEF HolidayInv, WatchIsTrue, NoticesAreTrue
  <1>4. CASE HolidayCrash
    BY <1>4 DEF HolidayCrash, NoWatch, HolidayInv, WatchIsTrue, NoticesAreTrue
  <1>5. ASSUME HolidayNext, ~HolidayCrash, ~\E at : runWorkdayWatch(at),
               ~\E p \in Readers : WatchProfile(p)
        PROVE  UNCHANGED <<watch, notices>>
    BY <1>5 DEF HolidayNext, ensureYears, FetchEnds, Publication, HolidayTime
  <1>6. CASE UNCHANGED holidayVars
    BY <1>1, <1>6 DEF holidayVars
  <1> QED
    BY <1>1, <1>2, <1>3, <1>4, <1>5, <1>6

-----------------------------------------------------------------------------
\* No answer is a guess: the type of a date, that a month has no holidays, and what the
\* reminders say of today and tomorrow are true also of the files still to come, in
\* whatever order years are fetched, fail, are published and replace each other's rows
\* (dayType, importYear, runWorkdayWatch).
THEOREM AnswersAreTrue == HolidaySpec => []HolidayAnswersTrue
  <1>1. HolidayInit => HolidayInv
    BY DEF HolidayInit, HolidayInv, CalendarInv, RowsAreFiled, ReadyIsComplete, isReady,
       WatchIsTrue, NoticesAreTrue, NoWatch
  <1>2. HolidayInv /\ [HolidayNext]_holidayVars => HolidayInv'
    BY CalendarStep, WatchStep DEF HolidayInv
  <1>3. HolidayInv => HolidayAnswersTrue
    BY AnswersFollow
  <1> QED
    BY <1>1, <1>2, <1>3, PTL DEF HolidaySpec

-----------------------------------------------------------------------------
(* A schedule that follows the calendar.  FilterMeansItsDays is not inductive: that a
   wrong row goes when it is looked at again needs its kind to be known by then, and so
   the file of its own year to be in, which is the file the release before guessed by. *)

PendingAreMeant ==
    \A d \in pendingOf(occurrences) :
        \/ workdayFilterMatches(Truth(d))
        \/ LeftBehind(d) /\ isReady(DateYear[d]) /\ DateYear[d] + 1 \notin crossYearRechecked

NoneIsMissing ==
    \A d \in Candidates : \A r \in DOMAIN occurrences :
        /\ thisDay <= d /\ d <= r /\ d \notin DOMAIN occurrences
        /\ workdayFilterMatches(Truth(d))
        => LeftBehind(d)

FilterInv ==
    /\ CalendarInv
    /\ clock \in Nat /\ DOMAIN occurrences \subseteq Candidates
    /\ PendingAreMeant
    /\ NoneIsMissing

LEMMA CandidatesAreDates ==
  ASSUME NEW S \in SUBSET Candidates
  PROVE  IsFiniteSet(S) /\ S \subseteq Nat \ {0} /\ S \subseteq Dates
  <1>1. Candidates \subseteq Dates /\ Dates \subseteq Nat \ {0} /\ IsFiniteSet(Dates)
    BY FilterAssumption, Zenon DEF FilterAssumption
  <1>2. S \subseteq Dates
    BY <1>1
  <1> QED
    BY <1>1, <1>2, FS_Subset

LEMMA FilterConstants ==
  /\ FarHorizon \in Nat /\ NearHorizon \in Nat /\ MidDay \in Nat \ {0}
  /\ EXEMPT_SCAN_ITERATIONS \in Nat /\ MATERIALIZE_ITERATIONS \in Nat
  /\ Dates # {} /\ DateYear \in [Dates -> Nat] /\ Years \subseteq Nat
  /\ \A d, e \in Dates : d <= e => DateYear[d] <= DateYear[e]
  <1>1. /\ FarHorizon \in Nat /\ NearHorizon \in Nat
        /\ EXEMPT_SCAN_ITERATIONS \in Nat /\ MATERIALIZE_ITERATIONS \in Nat \ {0}
        /\ Dates # {} /\ \A d, e \in Dates : d <= e => DateYear[d] <= DateYear[e]
    BY FilterAssumption, Zenon DEF FilterAssumption
  <1>2. MidDay \in Nat \ {0} /\ DateYear \in [Dates -> Nat] /\ Years \subseteq Nat
    BY HolidayAssumption, Zenon DEF HolidayAssumption
  <1> QED
    BY <1>1, <1>2

LEMMA TodayIsANumber == ASSUME clock \in Nat PROVE thisDay \in Nat
  BY FilterConstants DEF thisDay, todayOf

\* The dates a scan takes: each new row is meant, and none behind the start is passed over.
LEMMA ScanIsMeant ==
  ASSUME CalendarInv, clock \in Nat, NEW rows, DOMAIN rows \subseteq Candidates, NEW after \in Int
  PROVE  LET found == materializeSchedule(rows, after).rows
             new == DOMAIN found \ DOMAIN rows
         IN /\ DOMAIN rows \subseteq DOMAIN found /\ DOMAIN found \subseteq Candidates
            /\ \A d \in DOMAIN rows : found[d] = rows[d]
            /\ \A d \in new : workdayFilterMatches(Truth(d))
            /\ \A r \in new : \A d \in Candidates \ DOMAIN found :
                  after < d /\ d < r => ~workdayFilterMatches(Truth(d))
  <1> DEFINE ahead == {d \in Candidates : d > after /\ d <= thisDay + FarHorizon}
             visited == {d \in ahead : visits(rows, ahead, d)}
             opened == {d \in visited : opens(rows, d)}
             found == materializeSchedule(rows, after).rows
             new == DOMAIN found \ DOMAIN rows
  <1>1. found = [d \in DOMAIN rows \cup opened |-> IF d \in opened THEN "pending" ELSE rows[d]]
    BY DEF materializeSchedule
  <1>2. \A d \in opened : d \notin DOMAIN rows /\ workdayFilterMatches(dayType(d))
    BY DEF opens
  <1>3. new = opened /\ opened \subseteq Candidates
    BY <1>1, <1>2
  <1>4. \A d \in Candidates : dayType(d) \in {"unknown", Truth(d)}
    BY CandidatesAreDates, DayTypeIsTrue
  <1>5. \A d \in new : workdayFilterMatches(Truth(d))
    BY <1>2, <1>3, <1>4 DEF workdayFilterMatches
  <1>6. ASSUME NEW r \in new, NEW d \in Candidates \ DOMAIN found, after < d, d < r
        PROVE  ~workdayFilterMatches(Truth(d))
    <2> DEFINE earlier(x) == {c \in ahead : c < x}
               most == IF pendingOf(rows) = {} THEN EXEMPT_SCAN_ITERATIONS ELSE MATERIALIZE_ITERATIONS
    <2>1. /\ r \in ahead /\ visits(rows, ahead, r)
      BY <1>3
    <2>2. /\ d \in Nat /\ r \in Nat /\ ahead \subseteq Nat /\ IsFiniteSet(ahead)
          /\ thisDay \in Int /\ FarHorizon \in Nat /\ NearHorizon \in Nat
          /\ EXEMPT_SCAN_ITERATIONS \in Nat /\ MATERIALIZE_ITERATIONS \in Nat
      <3>1. ahead \in SUBSET Candidates
        OBVIOUS
      <3>2. IsFiniteSet(ahead) /\ ahead \subseteq Nat /\ Candidates \subseteq Nat
        BY <3>1, CandidatesAreDates
      <3> HIDE DEF ahead, found
      <3> QED
        BY <2>1, <3>1, <3>2, FilterConstants, TodayIsANumber
    <2>3. d \in ahead
      <3>1. r <= thisDay + FarHorizon
        BY <2>1
      <3> HIDE DEF found, new
      <3>2. d <= thisDay + FarHorizon /\ d > after
        BY <1>6, <2>2, <3>1
      <3> QED
        BY <3>2
    <2>4. earlier(d) \subseteq earlier(r) /\ d \in earlier(r)
      <3>1. \A c \in ahead : c < d => c < r
        <4> HIDE DEF ahead, found, new
        <4> QED
          BY <1>6, <2>2
      <3> QED
        BY <1>6, <2>3, <3>1
    <2>5. Cardinality(earlier(r)) < most /\ IsFiniteSet(earlier(r))
      BY <2>1, <2>2, FS_Subset DEF visits
    <2>6. Cardinality(earlier(d)) \in Nat /\ Cardinality(earlier(r)) \in Nat /\ most \in Nat
          /\ Cardinality(earlier(d)) <= Cardinality(earlier(r))
      BY <2>2, <2>4, <2>5, FS_Subset, FS_CardinalityType
    <2>7. visits(rows, ahead, d)
      <3>1. Cardinality(earlier(d)) < most
        BY <2>5, <2>6
      <3>2. \A c \in earlier(d) : dayType(c) # "unknown"
        BY <2>1, <2>4 DEF visits
      <3>3. d > thisDay + NearHorizon => pendingOf(rows) = {} /\ \A c \in earlier(d) : ~opens(rows, c)
        BY <1>6, <2>1, <2>2, <2>4 DEF visits
      <3> QED
        BY <3>1, <3>2, <3>3 DEF visits
    <2>8. dayType(d) # "unknown"
      BY <2>1, <2>4 DEF visits
    <2>9. d \notin opened /\ d \notin DOMAIN rows
      BY <1>1
    <2>10. ~workdayFilterMatches(dayType(d))
      BY <2>3, <2>7, <2>9 DEF opens
    <2> QED
      BY <1>4, <2>8, <2>10
  <1> HIDE DEF opened, ahead
  <1>7. /\ DOMAIN rows \subseteq DOMAIN found /\ DOMAIN found \subseteq Candidates
        /\ \A d \in DOMAIN rows : found[d] = rows[d]
    BY <1>1, <1>2, <1>3
  <1> QED
    BY <1>5, <1>6, <1>7

\* What a scan leaves, from a start that lies before today or before no later row only.
LEMMA ScanKeeps ==
  ASSUME FilterInv, NEW rows, DOMAIN rows = DOMAIN occurrences, NEW after \in Int,
         \A d \in Candidates :
            thisDay <= d /\ (\A r \in DOMAIN rows : r < d) => after < d
  PROVE  LET found == materializeSchedule(rows, after).rows
         IN /\ DOMAIN found \subseteq Candidates
            /\ \A d \in pendingOf(found) : d \in pendingOf(rows) \/ workdayFilterMatches(Truth(d))
            /\ \A d \in Candidates : \A r \in DOMAIN found :
                  /\ thisDay <= d /\ d <= r /\ d \notin DOMAIN found
                  /\ workdayFilterMatches(Truth(d))
                  => LeftBehind(d)
  <1> DEFINE found == materializeSchedule(rows, after).rows
             new == DOMAIN found \ DOMAIN rows
  <1>1. CalendarInv /\ clock \in Nat /\ DOMAIN rows \subseteq Candidates /\ NoneIsMissing
    BY DEF FilterInv
  <1>2. /\ DOMAIN rows \subseteq DOMAIN found /\ DOMAIN found \subseteq Candidates
        /\ \A d \in DOMAIN rows : found[d] = rows[d]
        /\ \A d \in new : workdayFilterMatches(Truth(d))
        /\ \A r \in new : \A d \in Candidates \ DOMAIN found :
              after < d /\ d < r => ~workdayFilterMatches(Truth(d))
    BY <1>1, ScanIsMeant
  <1>3. Candidates \subseteq Nat /\ thisDay \in Nat
    BY <1>1, CandidatesAreDates, TodayIsANumber
  <1> HIDE DEF found
  <1>4. \A d \in pendingOf(found) : d \in pendingOf(rows) \/ workdayFilterMatches(Truth(d))
    BY <1>2 DEF pendingOf
  <1>5. ASSUME NEW d \in Candidates, NEW r \in DOMAIN found, thisDay <= d, d <= r,
               d \notin DOMAIN found, workdayFilterMatches(Truth(d))
        PROVE  LeftBehind(d)
    <2>0. d \in Nat /\ r \in Nat /\ DOMAIN rows \subseteq Nat
      BY <1>1, <1>2, <1>3
    <2>1. CASE \E q \in DOMAIN rows : d <= q
      BY <1>1, <1>2, <1>5, <2>1 DEF NoneIsMissing
    <2>2. CASE \A q \in DOMAIN rows : q < d
      <3>1. after < d /\ r \in new /\ d < r
        <4>1. d # r /\ d < r
          BY <1>5, <2>0
        <4>2. r \notin DOMAIN rows
          BY <2>0, <2>2, <4>1
        <4> QED
          BY <1>5, <2>2, <4>1, <4>2
      <3> QED
        BY <1>2, <1>5, <3>1
    <2> QED
      BY <2>0, <2>1, <2>2
  <1> QED
    BY <1>2, <1>4, <1>5 DEF found

LEMMA GoesOnBehind ==
  ASSUME clock \in Nat, NEW rows, DOMAIN rows \subseteq Candidates
  PROVE  /\ goesOnAfter(rows) \in Int
         /\ \A d \in Candidates :
               thisDay <= d /\ (\A r \in DOMAIN rows : r < d) => goesOnAfter(rows) < d
  <1> DEFINE standing == {d \in DOMAIN rows : rows[d] # "cancelled"}
  <1>1. thisDay \in Nat /\ standing \in SUBSET Candidates /\ Candidates \subseteq Nat
    BY TodayIsANumber, CandidatesAreDates
  <1>2. IsFiniteSet(standing) /\ standing \subseteq Nat
    BY <1>1, CandidatesAreDates
  <1>3. CASE standing = {}
    BY <1>1, <1>3 DEF goesOnAfter
  <1>4. CASE standing # {}
    <2>1. Max(standing) \in standing
      BY <1>2, <1>4, MaxOfFinite
    <2>2. goesOnAfter(rows) = Max(standing)
      BY <1>4 DEF goesOnAfter
    <2>3. Max(standing) \in DOMAIN rows /\ Max(standing) \in Nat
      BY <1>2, <2>1
    <2> HIDE DEF standing
    <2> QED
      BY <1>1, <2>2, <2>3
  <1> QED
    BY <1>3, <1>4

LEMMA FilterFollows == FilterInv => FilterMeansItsDays
  <1> SUFFICES ASSUME FilterInv PROVE FilterMeansItsDays
    OBVIOUS
  <1> DEFINE rows == DOMAIN occurrences
  <1>1. /\ rows \in SUBSET Candidates /\ IsFiniteSet(rows) /\ Candidates \subseteq Nat \ {0}
        /\ thisDay \in Nat
    BY CandidatesAreDates, TodayIsANumber DEF FilterInv
  <1>2. IsFiniteSet(rows \cup {0}) /\ rows \cup {0} \subseteq Nat
    <2> HIDE DEF rows
    <2>1. IsFiniteSet(rows \cup {0})
      BY <1>1, FS_AddElement
    <2>2. \A r \in rows : r \in Nat
      BY <1>1
    <2> QED
      BY <2>1, <2>2
  <1>3. Max(rows \cup {0}) \in rows \cup {0}
    BY <1>2, MaxOfFinite
  <1>4. ASSUME NEW d \in (Candidates \cap (thisDay .. Max(rows \cup {0}))) \ rows,
               workdayFilterMatches(Truth(d))
        PROVE  LeftBehind(d)
    <2>1. Max(rows \cup {0}) \in rows /\ thisDay <= d /\ d <= Max(rows \cup {0})
      BY <1>1, <1>3, <1>4
    <2> QED
      BY <1>4, <2>1 DEF FilterInv, NoneIsMissing
  <1>5. \A d \in pendingOf(occurrences) :
           workdayFilterMatches(Truth(d)) \/ (LeftBehind(d) /\ DateYear[d] + 1 \notin crossYearRechecked)
    BY DEF FilterInv, PendingAreMeant
  <1> QED
    BY <1>4, <1>5 DEF FilterMeansItsDays

LEMMA CalendarRests == CalendarInv /\ UNCHANGED <<cnDays, cnYears, published>> => CalendarInv'
  BY DEF CalendarInv, RowsAreFiled, ReadyIsComplete, isReady

LEMMA RowsAreReplaced ==
  ASSUME FilterInv, NEW rows, DOMAIN rows = DOMAIN occurrences, NEW after \in Int,
         \A d \in Candidates :
            thisDay <= d /\ (\A r \in DOMAIN rows : r < d) => after < d,
         \A d \in pendingOf(rows) :
            \/ workdayFilterMatches(Truth(d))
            \/ LeftBehind(d) /\ isReady(DateYear[d]) /\ DateYear[d] + 1 \notin crossYearRechecked',
         occurrences' = materializeSchedule(rows, after).rows,
         UNCHANGED <<workdayFilter, guessed, clock, cnDays, cnYears, published>>
  PROVE  FilterInv'
  <1>1. /\ DOMAIN occurrences' \subseteq Candidates
        /\ \A d \in pendingOf(occurrences') : d \in pendingOf(rows) \/ workdayFilterMatches(Truth(d))
        /\ \A d \in Candidates : \A r \in DOMAIN occurrences' :
              /\ thisDay <= d /\ d <= r /\ d \notin DOMAIN occurrences'
              /\ workdayFilterMatches(Truth(d))
              => LeftBehind(d)
    BY ScanKeeps
  <1>2. /\ \A k : workdayFilterMatches(k)' <=> workdayFilterMatches(k)
        /\ \A d : LeftBehind(d)' <=> LeftBehind(d)
        /\ \A y : isReady(y)' <=> isReady(y)
        /\ thisDay' = thisDay /\ clock' \in Nat
    BY DEF workdayFilterMatches, LeftBehind, isReady, thisDay, FilterInv
  <1>3. PendingAreMeant'
    BY <1>1, <1>2 DEF PendingAreMeant
  <1>4. NoneIsMissing'
    BY <1>1, <1>2 DEF NoneIsMissing
  <1>5. CalendarInv'
    BY CalendarRests DEF FilterInv
  <1> QED
    BY <1>1, <1>2, <1>3, <1>4, <1>5 DEF FilterInv

LEMMA TickStartIsMeant == ASSUME FilterInv, TickStart PROVE FilterInv'
  <1>1. PICK recent \in BOOLEAN :
           occurrences' = materializeSchedule(fireRows(occurrences, recent),
                                              goesOnAfter(fireRows(occurrences, recent))).rows
    BY DEF TickStart
  <1> DEFINE fired == fireRows(occurrences, recent)
  <1>2. DOMAIN fired = DOMAIN occurrences /\ pendingOf(fired) \subseteq pendingOf(occurrences)
    BY DEF fireRows, pendingOf
  <1> HIDE DEF fired
  <1>3. /\ goesOnAfter(fired) \in Int
        /\ \A d \in Candidates :
              thisDay <= d /\ (\A r \in DOMAIN fired : r < d) => goesOnAfter(fired) < d
    BY <1>2, GoesOnBehind DEF FilterInv
  <1>4. UNCHANGED <<workdayFilter, crossYearRechecked, guessed, clock, cnDays, cnYears, published>>
    BY DEF TickStart, calendarVars, outsideVars
  <1>5. \A d \in pendingOf(fired) :
           \/ workdayFilterMatches(Truth(d))
           \/ LeftBehind(d) /\ isReady(DateYear[d]) /\ DateYear[d] + 1 \notin crossYearRechecked'
    BY <1>2, <1>4 DEF FilterInv, PendingAreMeant
  <1>6. occurrences' = materializeSchedule(fired, goesOnAfter(fired)).rows
    BY <1>1 DEF fired
  <1> QED
    BY <1>2, <1>3, <1>4, <1>5, <1>6, RowsAreReplaced

\* The second look at the last days of December: a row that is left says what is true.
LEMMA LookedAtIsTrue ==
  ASSUME CalendarInv, NEW d \in CrossYear \cap Candidates, isReady(DateYear[d]), isReady(DateYear[d] + 1)
  PROVE  dayType(d) = Truth(d) /\ dayType(d) # "unknown"
  <1>1. d \in Dates
    BY CandidatesAreDates
  <1>2. holidayYearsNeedingData(d) = {}
    BY DEF holidayYearsNeedingData, holidayLookupYears
  <1>3. byWeekday(d) # "unknown"
    BY DEF byWeekday
  <1>4. d \in DOMAIN cnDays => cnDays[d].type \in {"holiday", "workday"}
    BY HolidayAssumption DEF CalendarInv, RowsAreFiled
  <1> QED
    BY <1>1, <1>2, <1>3, <1>4, DayTypeIsTrue DEF dayType

LEMMA TickEndIsMeant == ASSUME FilterInv, TickEnd PROVE FilterInv'
  <1> DEFINE next == DateYear[thisDay] + 1
             window == {d \in CrossYear : DateYear[d] = next - 1 /\ dayType(d) # "unknown"}
             wrong == {d \in window \cap pendingOf(occurrences) : ~workdayFilterMatches(dayType(d))}
             rows == [d \in DOMAIN occurrences |-> IF d \in wrong THEN "cancelled" ELSE occurrences[d]]
  <1>1. UNCHANGED <<workdayFilter, guessed, clock, cnDays, cnYears, published>>
    BY DEF TickEnd, holidayVars
  <1>2. CASE UNCHANGED <<occurrences, crossYearRechecked>>
    BY <1>1, <1>2, CalendarRests DEF FilterInv, PendingAreMeant, NoneIsMissing, workdayFilterMatches,
       LeftBehind, isReady, thisDay
  <1>3. CASE /\ isReady(next) /\ occurrences' = recheckCrossYearOccurrences(next).rows
             /\ crossYearRechecked' = crossYearRechecked \cup {next}
    <2>1. \A d \in pendingOf(occurrences) :
             \/ workdayFilterMatches(Truth(d)) \/ d \in wrong
             \/ LeftBehind(d) /\ isReady(DateYear[d]) /\ DateYear[d] + 1 \notin crossYearRechecked'
      <3> SUFFICES ASSUME NEW d \in pendingOf(occurrences), LeftBehind(d), isReady(DateYear[d]),
                          DateYear[d] + 1 = next
                   PROVE  workdayFilterMatches(Truth(d)) \/ d \in wrong
        BY <1>3 DEF FilterInv, PendingAreMeant
      <3>1. d \in CrossYear \cap Candidates /\ CalendarInv
        BY DEF LeftBehind, pendingOf, FilterInv
      <3>2. dayType(d) = Truth(d) /\ dayType(d) # "unknown"
        BY <1>3, <3>1, LookedAtIsTrue
      <3>3. DateYear[d] \in Nat
        BY <3>1, CandidatesAreDates, FilterConstants
      <3>4. d \in window
        BY <3>1, <3>2, <3>3
      <3> QED
        BY <3>2, <3>4
    <2>2. CASE occurrences' = occurrences /\ wrong = {}
      <3>1. PendingAreMeant'
        BY <1>1, <2>1, <2>2 DEF PendingAreMeant, workdayFilterMatches, LeftBehind, isReady
      <3>2. NoneIsMissing' /\ clock' \in Nat /\ CalendarInv'
        BY <1>1, <2>2, CalendarRests DEF FilterInv, NoneIsMissing, workdayFilterMatches, LeftBehind, thisDay
      <3> QED
        BY <2>2, <3>1, <3>2 DEF FilterInv
    <2>3. CASE occurrences' = materializeSchedule(rows, thisDay - 1).rows
      <3>1. DOMAIN rows = DOMAIN occurrences
        OBVIOUS
      <3>2. \A d \in pendingOf(rows) : d \in pendingOf(occurrences) \ wrong
        BY DEF pendingOf
      <3> HIDE DEF rows, wrong
      <3>3. thisDay - 1 \in Int /\ \A d \in Candidates : thisDay <= d => thisDay - 1 < d
        BY CandidatesAreDates, TodayIsANumber DEF FilterInv
      <3> QED
        BY <1>1, <2>1, <2>3, <3>1, <3>2, <3>3, RowsAreReplaced
    <2>4. \/ occurrences' = occurrences /\ wrong = {}
          \/ occurrences' = materializeSchedule(rows, thisDay - 1).rows
      BY <1>3 DEF recheckCrossYearOccurrences
    <2> QED
      BY <2>2, <2>3, <2>4
  <1> QED
    BY <1>2, <1>3 DEF TickEnd

\* The refresh job, publications, days that pass and crashes.
LEMMA OutsideIsMeant ==
  ASSUME FilterInv, HolidayNext, UNCHANGED <<workdayFilter, occurrences, guessed>>,
         crossYearRechecked' \subseteq crossYearRechecked
  PROVE  FilterInv'
  <1>1. CalendarInv'
    BY CalendarStep DEF FilterInv
  <1>2. \A y : isReady(y) => isReady(y)'
    <2>1. CASE \E c \in Callers : FetchEnds(c)
      BY <2>1 DEF FetchEnds, importYear, recordYearStatus, isReady
    <2>2. CASE ~\E c \in Callers : FetchEnds(c)
      <3>1. cnYears' = cnYears
        BY <2>2 DEF HolidayNext, ensureYears, runWorkdayWatch, WatchProfile, Publication,
           HolidayCrash, HolidayTime, calendarVars
      <3> QED
        BY <3>1 DEF isReady
    <2> QED
      BY <2>1, <2>2
  <1>3. clock \in Nat /\ (clock' = clock \/ clock' = clock + 1)
    BY DEF HolidayNext, ensureYears, FetchEnds, runWorkdayWatch, WatchProfile, Publication,
       HolidayCrash, HolidayTime, outsideVars, FilterInv
  <1>4. clock' \in Nat /\ thisDay <= thisDay' /\ thisDay \in Nat /\ thisDay' \in Nat
    BY <1>3, FilterConstants DEF thisDay, todayOf
  <1>5. PendingAreMeant'
    BY <1>2 DEF FilterInv, PendingAreMeant, LeftBehind, workdayFilterMatches
  <1>6. NoneIsMissing'
    <2>1. \A d \in Candidates : thisDay' <= d => thisDay <= d
      BY <1>4, CandidatesAreDates
    <2> QED
      BY <2>1 DEF FilterInv, NoneIsMissing, LeftBehind, workdayFilterMatches
  <1> QED
    BY <1>1, <1>4, <1>5, <1>6 DEF FilterInv

\* The rows of the release before are wrong, or missing, on the last days of December only.
LEMMA GuessedIsMeant == FilterInit => FilterInv
  <1> SUFFICES ASSUME FilterInit PROVE FilterInv
    OBVIOUS
  <1> DEFINE y == DateYear[thisDay]
  <1>1. Dates # {} /\ Dates \subseteq Nat
    BY FilterAssumption, Zenon DEF FilterAssumption
  <1>2. Min(Dates) \in Dates /\ Min(Dates) \in Nat
    BY <1>1, MinOfNaturals
  <1>3. clock \in Nat /\ thisDay = Min(Dates)
    <2> DEFINE m == Min(Dates)
    <2>1. clock = m * MidDay /\ m \in Nat /\ MidDay \in Nat \ {0}
      BY <1>2, FilterConstants DEF FilterInit
    <2> HIDE DEF m
    <2>2. m * MidDay \in Nat /\ (m * MidDay) \div MidDay = m
      BY <2>1
    <2> QED
      BY <2>1, <2>2 DEF thisDay, todayOf, m
  <1>4. CASE guessed = 0
    BY <1>3, <1>4 DEF FilterInit, FilterInv, CalendarInv, RowsAreFiled, ReadyIsComplete, isReady,
       PendingAreMeant, NoneIsMissing, pendingOf
  <1>5. CASE guessed # 0
    <2>1. guessed \in Candidates /\ y \in Years /\ DateYear[guessed] = y
      BY <1>5 DEF FilterInit
    <2>2. /\ published = {y} /\ crossYearRechecked = {}
          /\ cnYears = [z \in {y} |-> [status |-> "ready", last |-> clock]]
          /\ cnDays = [d \in DOMAIN Files[y] |->
                         [year |-> y, type |-> Files[y][d].type, names |-> Files[y][d].names]]
          /\ occurrences = [d \in {c \in Candidates : /\ thisDay <= c /\ c <= guessed
                                                      /\ workdayFilterMatches(Guess(c))} |-> "pending"]
      BY <1>5 DEF FilterInit
    <2>3. CalendarInv
      BY <2>1, <2>2 DEF CalendarInv, RowsAreFiled, ReadyIsComplete, isReady
    <2>4. isReady(y)
      BY <2>2 DEF isReady
    <2>5. ASSUME NEW d \in Candidates, thisDay <= d, d <= guessed
          PROVE  DateYear[d] = y /\ (Guess(d) = Truth(d) \/ LeftBehind(d))
      <3>1. d \in Dates /\ guessed \in Dates /\ thisDay \in Dates
        BY <1>2, <1>3, <2>1, CandidatesAreDates
      <3>2. DateYear[d] = y
        BY <2>1, <2>5, <3>1, FilterConstants
      <3>3. ASSUME d \notin CrossYear PROVE Guess(d) = Truth(d)
        <4>1. CASE d \in DOMAIN Files[y]
          BY <2>1, <2>2, <4>1, FiledIsTrue DEF Guess
        <4>2. CASE d \notin DOMAIN Files[y]
          <5>1. \A z \in Years : d \notin DOMAIN Files[z]
            BY <3>2, <3>3, <4>2, HolidayAssumption
          <5> QED
            BY <2>2, <4>2, <5>1, UnfiledIsOrdinary DEF Guess
        <4> QED
          BY <4>1, <4>2
      <3> QED
        BY <2>5, <3>2, <3>3 DEF LeftBehind
    <2>6. DOMAIN occurrences \subseteq Candidates
      BY <2>2
    <2>7. PendingAreMeant
      <3>1. \A d \in pendingOf(occurrences) :
               /\ d \in Candidates /\ thisDay <= d /\ d <= guessed /\ workdayFilterMatches(Guess(d))
        BY <2>2 DEF pendingOf
      <3> QED
        BY <2>2, <2>4, <2>5, <3>1 DEF PendingAreMeant
    <2>8. NoneIsMissing
      <3> SUFFICES ASSUME NEW d \in Candidates, NEW r \in DOMAIN occurrences, thisDay <= d, d <= r,
                          d \notin DOMAIN occurrences, workdayFilterMatches(Truth(d))
                   PROVE  LeftBehind(d)
        BY DEF NoneIsMissing
      <3>1. r \in Candidates /\ r <= guessed
        BY <2>2
      <3>2. d \in Nat /\ r \in Nat /\ guessed \in Nat
        BY <2>1, <3>1, CandidatesAreDates
      <3>3. d <= guessed
        BY <3>1, <3>2
      <3>4. ~workdayFilterMatches(Guess(d))
        BY <2>2, <3>3
      <3> QED
        BY <2>5, <3>3, <3>4
    <2> QED
      BY <1>3, <2>3, <2>6, <2>7, <2>8 DEF FilterInv
  <1> QED
    BY <1>4, <1>5

-----------------------------------------------------------------------------
\* A schedule that reminds on working days or days off reminds on these, as the files
\* still to come will have it, and passes over none ahead, but for what an earlier
\* release had guessed; its wrong rows go when they are looked at again.  For any
\* calendar, recurrence, horizons and scan limits, over files that come late or fail,
\* crashes and restarts (materializeSchedule, recheckCrossYearOccurrences).
THEOREM RemindsOnItsDays == FilterSpec => []FilterMeansItsDays
  <1>1. FilterInv /\ [FilterNext]_<<holidayVars, filterVars>> => FilterInv'
    <2> SUFFICES ASSUME FilterInv, [FilterNext]_<<holidayVars, filterVars>> PROVE FilterInv'
      OBVIOUS
    <2>1. CASE TickStart
      BY <2>1, TickStartIsMeant
    <2>2. CASE TickEnd
      BY <2>2, TickEndIsMeant
    <2>3. CASE (ensureYears(RefreshJob) \/ FetchEnds(RefreshJob) \/ FetchEnds(SchedulesJob)
                  \/ Publication \/ HolidayTime) /\ UNCHANGED filterVars
      <3>1. RefreshJob \in Callers /\ SchedulesJob \in Callers
        BY HolidayAssumption, FilterAssumption
      <3>2. HolidayNext
        BY <2>3, <3>1 DEF HolidayNext
      <3> QED
        BY <2>3, <3>2, OutsideIsMeant DEF filterVars
    <2>4. CASE FilterCrash
      BY <2>4, OutsideIsMeant DEF FilterCrash, HolidayNext
    <2>5. CASE UNCHANGED <<holidayVars, filterVars>>
      BY <2>5, CalendarRests DEF holidayVars, filterVars, FilterInv, PendingAreMeant, NoneIsMissing,
         workdayFilterMatches, LeftBehind, isReady, thisDay
    <2> QED
      BY <2>1, <2>2, <2>3, <2>4, <2>5 DEF FilterNext
  <1> QED
    BY <1>1, GuessedIsMeant, FilterFollows, PTL DEF FilterSpec

-----------------------------------------------------------------------------
(* The lock of the data directory.  A process that is past its creation of the lock
   has it at the path, or one other process has just moved it away and is about to
   look at it again and put it back.  With a third process at work the path can be
   taken meanwhile, and with the mover killed the lock stays away: then two can hold
   it (the run LockTriple). *)

PathLabels == {"off", "inspect", "clean", "create", "verify", "read", "assess", "stat",
               "rename", "check", "recreate", "putback", "putback-refuse", "raced",
               "refused", "holds", "unlink", "exiting", "gone"}

LockTypeOK ==
    /\ lock \in Inodes \cup {Nothing}
    /\ file \in [Inodes -> Content \cup {Corrupt}]
    /\ stale \in [Procs -> Inodes \cup {Nothing}]
    /\ pc \in [Procs -> PathLabels]
    /\ attempt \in [Procs -> Nat]
    /\ seen \in [Procs -> Content \cup {Corrupt, Nothing}]
    /\ before \in [Procs -> Inodes \cup {Nothing}]
    /\ company \subseteq Procs

LEMMA LockConstants ==
    /\ Restores \subseteq Procs
    /\ Pid \in [Procs -> Pids]
    /\ {Earlier, Nothing} \cap Procs = {} /\ Earlier # Nothing
    /\ Nothing \notin Inodes /\ Nothing # Corrupt
    /\ Found \subseteq Content \cup {Nothing, Corrupt}
    /\ {Corrupt, Nothing} \cap Content = {}
    /\ \A c \in Found \cap Content : c.start \notin Procs
  BY InstanceLockAssumption, Zenon DEF InstanceLockAssumption

LEMMA OwnContent == \A p \in Procs : Self(p) \in Content /\ IsContent(Self(p)) /\ Self(p).token = p
  <1> SUFFICES ASSUME NEW p \in Procs PROVE Self(p) \in Content /\ IsContent(Self(p)) /\ Self(p).token = p
    OBVIOUS
  <1>1. Self(p) \in Content
    BY LockConstants DEF Self, Content
  <1> QED
    BY <1>1, LockConstants DEF Self, IsContent

LEMMA SnapshotType == LockTypeOK => Snapshot \in Content \cup {Corrupt, Nothing}
  BY DEF LockTypeOK, Snapshot

LEMMA LockTyped == Init => LockTypeOK
  BY LockConstants DEF Init, LockTypeOK, PathLabels

LEMMA ContinueTypes ==
  ASSUME LockTypeOK, NEW p \in Procs, Continue(p)
  PROVE  pc' \in [Procs -> PathLabels] /\ attempt' \in [Procs -> Nat]
  BY DEF LockTypeOK, Continue, Goto, PathLabels

LEMMA LockStaysTyped == LockTypeOK /\ [Next]_vars => LockTypeOK'
  <1> SUFFICES ASSUME LockTypeOK, [Next]_vars PROVE LockTypeOK'
    OBVIOUS
  <1> USE LockConstants
  <1>1. ASSUME NEW p \in Procs, Start(p) PROVE LockTypeOK'
    <2>1. company' \subseteq Procs
      BY <1>1 DEF Start, LockTypeOK
    <2> QED
      BY <1>1, <2>1 DEF Start, Goto, LockTypeOK, PathLabels, local
  <1>2. ASSUME NEW p \in Procs, inspectDaemonLock(p) PROVE LockTypeOK'
    BY <1>2 DEF inspectDaemonLock, Goto, LockTypeOK, PathLabels, local
  <1>3. ASSUME NEW p \in Procs, cleanupLockResidues(p) PROVE LockTypeOK'
    BY <1>3 DEF cleanupLockResidues, Goto, LockTypeOK, PathLabels, local
  <1>4. ASSUME NEW p \in Procs, tryCreateLockFile(p) PROVE LockTypeOK'
    BY <1>4, OwnContent DEF tryCreateLockFile, Goto, LockTypeOK, PathLabels, local
  <1>5. ASSUME NEW p \in Procs, ownsLockFile(p) PROVE LockTypeOK'
    BY <1>5, ContinueTypes DEF ownsLockFile, Goto, LockTypeOK, PathLabels, local
  <1>6. ASSUME NEW p \in Procs, readLockFileSnapshot(p) PROVE LockTypeOK'
    BY <1>6, SnapshotType DEF readLockFileSnapshot, Goto, LockTypeOK, PathLabels
  <1>7. ASSUME NEW p \in Procs, assessHolder(p) PROVE LockTypeOK'
    BY <1>7 DEF assessHolder, Goto, LockTypeOK, PathLabels, local
  <1>8. ASSUME NEW p \in Procs, StatBefore(p) PROVE LockTypeOK'
    BY <1>8 DEF StatBefore, Goto, LockTypeOK, PathLabels
  <1>9. ASSUME NEW p \in Procs, RenameAway(p) PROVE LockTypeOK'
    BY <1>9, ContinueTypes DEF RenameAway, Goto, LockTypeOK, PathLabels, local
  <1>10. ASSUME NEW p \in Procs, CheckMoved(p) PROVE LockTypeOK'
    BY <1>10 DEF CheckMoved, Goto, LockTypeOK, PathLabels, local
  <1>11. ASSUME NEW p \in Procs, restoreMovedLockFile(p) PROVE LockTypeOK'
    BY <1>11, ContinueTypes DEF restoreMovedLockFile, Goto, LockTypeOK, PathLabels, local
  <1>12. ASSUME NEW p \in Procs, ReadRaced(p) PROVE LockTypeOK'
    BY <1>12, ContinueTypes DEF ReadRaced, Goto, LockTypeOK, PathLabels, local
  <1>13. ASSUME NEW p \in Procs, releaseDaemonLock(p) PROVE LockTypeOK'
    BY <1>13 DEF releaseDaemonLock, Goto, LockTypeOK, PathLabels, local
  <1>14. ASSUME NEW p \in Procs, UnlinkLock(p) \/ Exit(p) \/ Crash(p) PROVE LockTypeOK'
    BY <1>14 DEF UnlinkLock, Exit, Crash, Goto, LockTypeOK, PathLabels, local
  <1>15. ASSUME NEW k \in Pids, Stranger(k) PROVE LockTypeOK'
    BY <1>15 DEF Stranger, LockTypeOK, local
  <1>16. CASE UNCHANGED vars
    BY <1>16 DEF vars, local, LockTypeOK
  <1> QED
    BY <1>1, <1>2, <1>3, <1>4, <1>5, <1>6, <1>7, <1>8, <1>9, <1>10, <1>11, <1>12, <1>13,
       <1>14, <1>15, <1>16 DEF Next, acquireDaemonLock

-----------------------------------------------------------------------------
Owning == {"verify", "holds", "unlink"}
Moving == {"check", "putback", "putback-refuse"}

HasThePath(p) == lock # Nothing /\ file[lock] = Self(p)
MovedFrom(q, p) ==
    pc[q] \in Moving /\ lock = Nothing /\ stale[q] # Nothing /\ file[stale[q]] = Self(p)

LockIsKept ==
    \A p \in Procs : pc[p] \in Owning =>
        HasThePath(p) \/ \E q \in Procs : q # p /\ MovedFrom(q, p)

AtMostTwoRun ==
    \A p, q, r \in Procs : Runs(p) /\ Runs(q) /\ Runs(r) => p = q \/ q = r \/ p = r

\* No process is killed between its rename and its look at what it moved.
NoMoverKilled == \A q \in Procs : pc[q] \in Moving => pc'[q] # "gone"

LEMMA SelfDiffers == \A p, q \in Procs : Self(p) = Self(q) => p = q
  BY DEF Self

LEMMA OwnersRun ==
  ASSUME LockTypeOK, NEW p \in Procs, pc[p] \in Owning \cup Moving \cup {"create", "recreate", "rename", "clean"}
  PROVE  Runs(p)
  BY DEF Runs, Owning, Moving

\* Of two processes past their creation of the lock one at most is running.
LEMMA OneOwner ==
  ASSUME LockTypeOK, LockIsKept, AtMostTwoRun,
         NEW p \in Procs, NEW q \in Procs, pc[p] \in Owning, pc[q] \in Owning
  PROVE  p = q
  <1> SUFFICES ASSUME p # q PROVE FALSE
    OBVIOUS
  <1>1. ASSUME NEW r \in Procs, NEW o \in Procs, NEW s \in Procs, r # o, o # s, s # r,
               Runs(o), Runs(s), MovedFrom(r, o)
        PROVE  FALSE
    BY <1>1, OwnersRun DEF AtMostTwoRun, MovedFrom
  <1>2. \A r \in Procs : r # p => ~MovedFrom(r, p)
    BY <1>1, OwnersRun DEF MovedFrom, Owning, Moving
  <1>3. \A r \in Procs : r # q => ~MovedFrom(r, q)
    BY <1>1, OwnersRun DEF MovedFrom, Owning, Moving
  <1>4. HasThePath(p) /\ HasThePath(q)
    BY <1>2, <1>3 DEF LockIsKept
  <1> QED
    BY <1>4, SelfDiffers DEF HasThePath

\* While another has its lock, nobody is about to create one or to move one.
LEMMA NobodyElse ==
  ASSUME LockTypeOK, AtMostTwoRun, NEW p \in Procs, NEW q \in Procs, NEW r \in Procs,
         pc[p] \in Owning, q # p, MovedFrom(q, p),
         pc[r] \in Owning \cup Moving \cup {"create", "recreate", "rename", "clean"}
  PROVE  r = p \/ r = q
  BY OwnersRun DEF MovedFrom, AtMostTwoRun

\* A running process is seen as alive through its own lock.
LEMMA OwnerAlive ==
  ASSUME NEW p \in Procs, Runs(p)
  PROVE  HolderAlive(Self(p)) /\ Alive(Pid[p])
  <1>1. Alive(Pid[p])
    BY DEF Alive
  <1>2. Self(p).pid = Pid[p] /\ Self(p).start = (IF ReadsStart THEN p ELSE Nothing)
    BY DEF Self
  <1> QED
    BY <1>1, <1>2 DEF HolderAlive

\* What a process that does none of the things below has stays as it was.
LEMMA Undisturbed ==
  ASSUME LockTypeOK, LockIsKept, lock' = lock, file' = file, NEW s \in Procs,
         \A q \in Procs : q # s => pc'[q] = pc[q] /\ stale'[q] = stale[q],
         pc[s] \notin Moving,
         pc'[s] \in Owning => pc[s] \in Owning
  PROVE  LockIsKept'
  <1> SUFFICES ASSUME NEW p \in Procs, pc'[p] \in Owning
      PROVE (HasThePath(p) \/ \E q \in Procs : q # p /\ MovedFrom(q, p))'
    BY DEF LockIsKept
  <1>1. pc[p] \in Owning
    OBVIOUS
  <1>2. CASE HasThePath(p)
    BY <1>2 DEF HasThePath, Self
  <1>3. CASE \E q \in Procs : q # p /\ MovedFrom(q, p)
    <2>1. PICK q \in Procs : q # p /\ MovedFrom(q, p)
      BY <1>3
    <2>2. q # s
      BY <2>1 DEF MovedFrom
    <2> QED
      BY <2>1, <2>2 DEF MovedFrom, Self
  <1> QED
    BY <1>1, <1>2, <1>3 DEF LockIsKept

LEMMA PcMoves ==
  ASSUME LockTypeOK, NEW p \in Procs, NEW q \in Procs, NEW l
  PROVE  Goto(p, l) => pc'[q] = IF q = p THEN l ELSE pc[q]
  BY DEF LockTypeOK, Goto

LEMMA ContinueMoves ==
  ASSUME LockTypeOK, NEW p \in Procs, NEW q \in Procs, Continue(p)
  PROVE  IF q = p THEN pc'[q] \in {"create", "refused"} ELSE pc'[q] = pc[q]
  BY DEF LockTypeOK, Continue, Goto

LEMMA StaysKept ==
  ASSUME LockTypeOK, LockIsKept, AtMostTwoRun, NoMoverKilled, [Next]_vars
  PROVE  LockIsKept'
  <1> USE LockConstants
  <1> DEFINE Quiet(s) == /\ lock' = lock /\ file' = file
                         /\ \A q \in Procs : q # s => pc'[q] = pc[q] /\ stale'[q] = stale[q]
                         /\ pc[s] \notin Moving
                         /\ pc'[s] \in Owning => pc[s] \in Owning
  <1>0. ASSUME NEW s \in Procs, Quiet(s) PROVE LockIsKept'
    BY <1>0, Undisturbed
  <1> HIDE DEF Quiet
  <1>1. ASSUME NEW p \in Procs,
               \/ Start(p) \/ inspectDaemonLock(p) \/ ownsLockFile(p)
               \/ readLockFileSnapshot(p) \/ assessHolder(p) \/ StatBefore(p)
               \/ ReadRaced(p) \/ releaseDaemonLock(p) \/ Exit(p)
        PROVE  Quiet(p)
    <2>1. CASE Start(p)
      BY <2>1, PcMoves DEF Start, Owning, Moving, Quiet
    <2>2. CASE inspectDaemonLock(p)
      BY <2>2, PcMoves DEF inspectDaemonLock, Owning, Moving, Quiet
    <2>3. CASE ownsLockFile(p)
      BY <2>3, PcMoves, ContinueMoves DEF ownsLockFile, Owning, Moving, Quiet
    <2>4. CASE readLockFileSnapshot(p)
      BY <2>4, PcMoves DEF readLockFileSnapshot, Owning, Moving, Quiet
    <2>5. CASE assessHolder(p)
      BY <2>5, PcMoves DEF assessHolder, Owning, Moving, Quiet
    <2>6. CASE StatBefore(p)
      BY <2>6, PcMoves DEF StatBefore, Owning, Moving, Quiet
    <2>7. CASE ReadRaced(p)
      BY <2>7, PcMoves, ContinueMoves DEF ReadRaced, Owning, Moving, Quiet
    <2>8. CASE releaseDaemonLock(p)
      BY <2>8, PcMoves DEF releaseDaemonLock, Owning, Moving, Quiet
    <2>9. CASE Exit(p)
      BY <2>9, PcMoves DEF Exit, Owning, Moving, Quiet
    <2> QED
      BY <1>1, <2>1, <2>2, <2>3, <2>4, <2>5, <2>6, <2>7, <2>8, <2>9
  <1>2. ASSUME NEW s \in Procs, Crash(s) PROVE LockIsKept'
    <2>1. pc'[s] = "gone" /\ \A q \in Procs : q # s => pc'[q] = pc[q]
      BY <1>2, PcMoves DEF Crash
    <2>2. pc[s] \notin Moving
      BY <2>1 DEF NoMoverKilled
    <2> QED
      BY <1>2, <2>1, <2>2, <1>0 DEF Crash, Quiet, Owning
  <1>3. ASSUME NEW s \in Procs, cleanupLockResidues(s) PROVE LockIsKept'
    <2>1. \A q \in Procs : Runs(q) => stale'[q] = stale[q]
      BY <1>3, OwnerAlive DEF cleanupLockResidues, LockTypeOK
    <2>2. /\ pc[s] = "clean" /\ pc'[s] = "create" /\ lock' = lock /\ file' = file
          /\ \A q \in Procs : q # s => pc'[q] = pc[q]
      BY <1>3, PcMoves DEF cleanupLockResidues
    <2>3. ASSUME NEW p \in Procs, pc'[p] \in Owning
          PROVE  (HasThePath(p) \/ \E q \in Procs : q # p /\ MovedFrom(q, p))'
      <3>1. pc[p] \in Owning
        BY <2>2, <2>3 DEF Owning
      <3>2. CASE HasThePath(p)
        BY <3>2, <2>2 DEF HasThePath, Self
      <3>3. CASE \E q \in Procs : q # p /\ MovedFrom(q, p)
        <4>1. PICK q \in Procs : q # p /\ MovedFrom(q, p)
          BY <3>3
        <4>2. Runs(q) /\ q # s
          BY <4>1, <2>2, OwnersRun DEF MovedFrom, Moving
        <4> QED
          BY <4>1, <4>2, <2>1, <2>2 DEF MovedFrom, Self
      <3> QED
        BY <3>1, <3>2, <3>3 DEF LockIsKept
    <2> QED
      BY <2>3 DEF LockIsKept
  <1>4. ASSUME NEW s \in Procs, tryCreateLockFile(s) PROVE LockIsKept'
    <2>1. CASE lock # Nothing
      BY <2>1, <1>4, <1>0, PcMoves DEF tryCreateLockFile, Quiet, Owning, Moving
    <2>2. CASE lock = Nothing
      <3>1. PICK i \in Inodes \ Linked : lock' = i /\ file' = [file EXCEPT ![i] = Self(s)]
        BY <1>4, <2>2 DEF tryCreateLockFile
      <3>2. pc[s] \in {"create", "recreate"} /\ \A q \in Procs : q # s => pc'[q] = pc[q]
        BY <1>4, <2>2, PcMoves DEF tryCreateLockFile
      <3>3. HasThePath(s)'
        BY <3>1 DEF HasThePath, LockTypeOK, Self
      <3>4. ASSUME NEW p \in Procs, p # s, pc'[p] \in Owning PROVE FALSE
        <4>1. pc[p] \in Owning
          BY <3>2, <3>4
        <4>2. PICK q \in Procs : q # p /\ MovedFrom(q, p)
          BY <4>1, <2>2 DEF LockIsKept, HasThePath
        <4>3. s = p \/ s = q
          BY <4>1, <4>2, <3>2, NobodyElse
        <4> QED
          BY <4>3, <3>4, <4>2, <3>2 DEF MovedFrom, Moving
      <3> QED
        BY <3>3, <3>4 DEF LockIsKept
    <2> QED
      BY <2>1, <2>2
  <1>5. ASSUME NEW s \in Procs, RenameAway(s) PROVE LockIsKept'
    <2>1. CASE lock = Nothing
      BY <2>1, <1>5, <1>0, PcMoves, ContinueMoves DEF RenameAway, Quiet, Owning, Moving
    <2>2. CASE lock # Nothing
      <3>1. /\ pc[s] = "rename" /\ pc'[s] = "check" /\ stale'[s] = lock /\ lock' = Nothing
            /\ file' = file /\ \A q \in Procs : q # s => pc'[q] = pc[q]
        BY <1>5, <2>2, PcMoves DEF RenameAway, LockTypeOK
      <3>2. ASSUME NEW p \in Procs, pc'[p] \in Owning PROVE p # s /\ MovedFrom(s, p)'
        <4>1. pc[p] \in Owning /\ p # s
          BY <3>1, <3>2 DEF Owning
        <4>2. HasThePath(p)
          BY <4>1, <2>2 DEF LockIsKept, MovedFrom
        <4> QED
          BY <4>1, <4>2, <3>1 DEF MovedFrom, HasThePath, Moving, Self
      <3> QED
        BY <3>2 DEF LockIsKept
    <2> QED
      BY <2>1, <2>2
  <1>6. ASSUME NEW s \in Procs, CheckMoved(s) PROVE LockIsKept'
    <2>1. /\ pc[s] = "check" /\ lock' = lock /\ file' = file
          /\ \A q \in Procs : q # s => pc'[q] = pc[q] /\ stale'[q] = stale[q]
          /\ pc'[s] \in {"putback", "putback-refuse", "recreate"}
      BY <1>6, PcMoves DEF CheckMoved, LockTypeOK
    <2>2. ASSUME NEW p \in Procs, pc[p] \in Owning, MovedFrom(s, p)
          PROVE  pc'[s] \in Moving /\ stale'[s] = stale[s]
      <3>1. IsContent(file[stale[s]]) /\ HolderAlive(file[stale[s]])
        BY <2>2, OwnersRun, OwnerAlive, OwnContent DEF MovedFrom
      <3> QED
        BY <3>1, <1>6, PcMoves DEF CheckMoved, Moving
    <2>3. ASSUME NEW p \in Procs, pc'[p] \in Owning
          PROVE  (HasThePath(p) \/ \E q \in Procs : q # p /\ MovedFrom(q, p))'
      <3>1. pc[p] \in Owning /\ p # s
        BY <2>1, <2>3 DEF Owning
      <3>2. CASE HasThePath(p)
        BY <3>2, <2>1 DEF HasThePath, Self
      <3>3. CASE \E q \in Procs : q # p /\ MovedFrom(q, p)
        <4>1. PICK q \in Procs : q # p /\ MovedFrom(q, p)
          BY <3>3
        <4>2. CASE q = s
          BY <4>1, <4>2, <3>1, <2>1, <2>2 DEF MovedFrom, Self
        <4>3. CASE q # s
          BY <4>1, <4>3, <2>1 DEF MovedFrom, Self
        <4> QED
          BY <4>2, <4>3
      <3> QED
        BY <3>1, <3>2, <3>3 DEF LockIsKept
    <2> QED
      BY <2>3 DEF LockIsKept
  <1>7. ASSUME NEW s \in Procs, restoreMovedLockFile(s) PROVE LockIsKept'
    <2>1. /\ pc[s] \in Moving /\ file' = file /\ pc'[s] \notin Owning
          /\ \A q \in Procs : q # s => pc'[q] = pc[q] /\ stale'[q] = stale[q]
          /\ lock' = IF lock = Nothing THEN stale[s] ELSE lock
      BY <1>7, PcMoves, ContinueMoves DEF restoreMovedLockFile, LockTypeOK, Owning, Moving
    <2>2. ASSUME NEW p \in Procs, pc'[p] \in Owning PROVE HasThePath(p)'
      <3>1. pc[p] \in Owning /\ p # s
        BY <2>1, <2>2
      <3>2. CASE HasThePath(p)
        BY <3>2, <2>1 DEF HasThePath, Self
      <3>3. CASE \E q \in Procs : q # p /\ MovedFrom(q, p)
        <4>1. PICK q \in Procs : q # p /\ MovedFrom(q, p)
          BY <3>3
        <4>2. q = s
          BY <4>1, <3>1, <2>1, NobodyElse
        <4> QED
          BY <4>1, <4>2, <2>1 DEF MovedFrom, HasThePath, Self
      <3> QED
        BY <3>1, <3>2, <3>3 DEF LockIsKept
    <2> QED
      BY <2>2 DEF LockIsKept
  <1>8. ASSUME NEW s \in Procs, UnlinkLock(s) PROVE LockIsKept'
    <2>1. ASSUME NEW p \in Procs, pc'[p] \in Owning PROVE FALSE
      <3>1. pc[s] = "unlink" /\ pc[p] \in Owning /\ p # s
        BY <1>8, <2>1, PcMoves DEF UnlinkLock, Owning
      <3> QED
        BY <3>1, OneOwner DEF Owning
    <2> QED
      BY <2>1 DEF LockIsKept
  <1>9. ASSUME NEW k \in Pids, Stranger(k) PROVE LockIsKept'
    BY <1>9 DEF Stranger, LockIsKept, HasThePath, MovedFrom, Self
  <1>10. CASE UNCHANGED vars
    BY <1>10 DEF vars, LockIsKept, HasThePath, MovedFrom, Self
  <1> QED
    BY <1>0, <1>1, <1>2, <1>3, <1>4, <1>5, <1>6, <1>7, <1>8, <1>9, <1>10 DEF Next, acquireDaemonLock

LEMMA KeptAtFirst == Init => LockIsKept
  BY DEF Init, LockIsKept, Owning

LEMMA KeptMeansOne ==
  ASSUME LockTypeOK, LockIsKept, AtMostTwoRun
  PROVE  AtMostOneHolder
  BY OneOwner DEF AtMostOneHolder, Owning

\* Any number of daemons and restores may come one after the other, over any lock and any
\* crash outside the take-over: as long as at most two run at a time and none is killed
\* between the rename of a lock and the look at it, at most one holds the data directory
\* (lock.ts:24-28).
THEOREM OneHolderOfTwo ==
    Init /\ [][Next /\ AtMostTwoRun' /\ NoMoverKilled]_vars => []AtMostOneHolder
  <1> DEFINE Inv == LockTypeOK /\ LockIsKept /\ AtMostTwoRun
  <1>1. Init => Inv
    BY LockTyped, KeptAtFirst DEF Init, AtMostTwoRun, Runs
  <1>2. Inv /\ [Next /\ AtMostTwoRun' /\ NoMoverKilled]_vars => Inv'
    <2>1. CASE UNCHANGED vars
      BY <2>1, LockStaysTyped, StaysKept DEF AtMostTwoRun, Runs, vars, LockIsKept, HasThePath, MovedFrom, Self
    <2> QED
      BY <2>1, LockStaysTyped, StaysKept
  <1>3. Inv => AtMostOneHolder
    BY KeptMeansOne
  <1> QED
    BY <1>1, <1>2, <1>3, PTL

\* Of two processes at most one ever holds the data directory, whatever lock they found
\* and wherever either of them is killed.
THEOREM OneHolder ==
  ASSUME \A p, q, r \in Procs : p = q \/ q = r \/ p = r
  PROVE  Spec => []AtMostOneHolder
  <1> DEFINE Inv == LockTypeOK /\ ((\E q \in Procs : pc[q] = "gone") \/ LockIsKept)
  <1>0. AtMostTwoRun
    BY DEF AtMostTwoRun
  <1>1. Init => Inv
    BY LockTyped, KeptAtFirst
  <1>2. Inv /\ [Next]_vars => Inv'
    <2> SUFFICES ASSUME Inv, [Next]_vars PROVE Inv'
      OBVIOUS
    <2>1. LockTypeOK'
      BY LockStaysTyped
    <2>2. ASSUME NEW q \in Procs, pc[q] = "gone" PROVE pc'[q] = "gone"
      <3> USE PcMoves, ContinueMoves
      <3>1. ASSUME NEW p \in Procs, acquireDaemonLock(p) PROVE pc'[q] = pc[q]
        BY <2>2, <3>1 DEF acquireDaemonLock, cleanupLockResidues, tryCreateLockFile, ownsLockFile,
           readLockFileSnapshot, assessHolder, StatBefore, RenameAway, CheckMoved,
           restoreMovedLockFile, ReadRaced
      <3>2. ASSUME NEW p \in Procs, Start(p) \/ inspectDaemonLock(p) \/ releaseDaemonLock(p)
                                    \/ UnlinkLock(p) \/ Exit(p) \/ Crash(p)
            PROVE pc'[q] = "gone"
        BY <2>2, <3>2 DEF Start, inspectDaemonLock, releaseDaemonLock, UnlinkLock, Exit, Crash
      <3> QED
        BY <2>2, <3>1, <3>2 DEF Next, Stranger, vars
    <2>3. CASE \E q \in Procs : pc[q] = "gone"
      BY <2>1, <2>2, <2>3
    <2>4. CASE LockIsKept /\ NoMoverKilled
      BY <2>1, <2>4, <1>0, StaysKept
    <2>5. CASE ~NoMoverKilled
      BY <2>1, <2>5 DEF NoMoverKilled
    <2> QED
      BY <2>3, <2>4, <2>5
  <1>3. Inv => AtMostOneHolder
    <2>1. CASE \E q \in Procs : pc[q] = "gone"
      BY <2>1 DEF AtMostOneHolder
    <2> QED
      BY <2>1, <1>0, KeptMeansOne
  <1> QED
    BY <1>1, <1>2, <1>3, PTL DEF Spec

-----------------------------------------------------------------------------
(* A daemon that has run alone since its start.  Every lock it can come upon was there
   before it, so none says that it is its own, and what it read stays as it was. *)

Early == {"inspect", "clean", "create", "read", "assess", "stat", "rename", "check", "recreate"}

\* No lock on the disk says that p started it.
NeverWrote(p) == \A i \in Inodes : IsContent(file[i]) => file[i].start # p

AloneWell(p) ==
    /\ \A q \in Procs : q # p => ~Runs(q)
    /\ pc[p] \notin {"raced", "putback"}
    /\ pc[p] \in Early => NeverWrote(p)
    /\ pc[p] \in {"read", "assess", "stat", "rename"} => lock # Nothing
    /\ pc[p] \in {"assess", "stat", "rename"} => seen[p] = file[lock]
    /\ pc[p] = "rename" => before[p] = lock
    /\ pc[p] = "check" => /\ stale[p] \in Inodes /\ before[p] = stale[p]
                          /\ seen[p] = file[stale[p]] /\ lock = Nothing
    /\ pc[p] = "recreate" => lock = Nothing
    /\ pc[p] = "verify" => HasThePath(p)

LoneInv ==
    /\ LockTypeOK
    /\ \A p \in Procs : pc[p] = "off" => NeverWrote(p)
    /\ \A p \in Procs : pc[p] = "inspect" => p \in Restores
    /\ \A p \in Procs : Runs(p) /\ p \notin company => AloneWell(p)

LEMMA LoneAtFirst == Init => LoneInv
  <1> SUFFICES ASSUME Init PROVE LoneInv
    OBVIOUS
  <1>1. LockTypeOK
    BY LockTyped
  <1>2. \A p \in Procs : NeverWrote(p)
    <2>1. PICK s \in Found, i \in Inodes : file = [j \in Inodes |-> IF j = lock THEN s ELSE Corrupt]
      BY DEF Init
    <2>2. s \in Content \/ ~IsContent(s)
      BY LockConstants DEF IsContent
    <2>3. ~IsContent(Corrupt)
      BY DEF IsContent
    <2> QED
      BY <2>1, <2>2, <2>3, LockConstants DEF NeverWrote
  <1>3. \A p \in Procs : pc[p] = "off" /\ ~Runs(p)
    BY DEF Init, Runs
  <1> QED
    BY <1>1, <1>2, <1>3 DEF LoneInv

\* A process that starts, steps or stops writes its own name only.
LEMMA OthersNames ==
  ASSUME LockTypeOK, NEW p \in Procs, NEW q \in Procs, q # p, NeverWrote(p),
         tryCreateLockFile(q) \/ file' = file
  PROVE  NeverWrote(p)'
  <1>1. CASE file' = file
    BY <1>1 DEF NeverWrote, IsContent
  <1>2. CASE tryCreateLockFile(q) /\ file' # file
    <2>1. PICK i \in Inodes : file' = [file EXCEPT ![i] = Self(q)]
      BY <1>2 DEF tryCreateLockFile
    <2>2. Self(q).start # p
      BY LockConstants DEF Self
    <2> QED
      BY <2>1, <2>2 DEF NeverWrote, LockTypeOK, IsContent
  <1> QED
    BY <1>1, <1>2

LEMMA OnlyCreationWrites ==
  ASSUME [Next]_vars
  PROVE  file' = file \/ \E q \in Procs : tryCreateLockFile(q)
  BY DEF Next, acquireDaemonLock, Start, inspectDaemonLock, cleanupLockResidues, ownsLockFile,
     readLockFileSnapshot, assessHolder, StatBefore, RenameAway, CheckMoved, restoreMovedLockFile,
     ReadRaced, releaseDaemonLock, UnlinkLock, Exit, Crash, Stranger, vars

\* The holder a lock names is not p itself, nor another: it cannot be verified.
LEMMA NoneToVerify ==
  ASSUME NEW p \in Procs, AloneWell(p), NEW c, IsContent(c), c.start # p, HolderAlive(c)
  PROVE  (c.start = Nothing \/ ~ReadsStart) /\ Alive(c.pid)
  BY DEF HolderAlive, AloneWell

\* What a step of the process itself does to it while it is alone.
LEMMA AloneStep ==
  ASSUME LockTypeOK, NEW p \in Procs, Runs(p), AloneWell(p), company' = company,
         \/ inspectDaemonLock(p) \/ acquireDaemonLock(p) \/ releaseDaemonLock(p)
         \/ UnlinkLock(p) \/ Exit(p) \/ Crash(p)
  PROVE  /\ Runs(p)' => AloneWell(p)'
         /\ Refused(p) => Unverifiable(p) \/ pc[p] = "inspect"
  <1> USE LockConstants, PcMoves
  <1>0. (\A q \in Procs : q # p => ~Runs(q))'
    <2>1. \A q \in Procs : q # p => pc'[q] = pc[q]
      BY ContinueMoves DEF acquireDaemonLock, cleanupLockResidues, tryCreateLockFile, ownsLockFile,
         readLockFileSnapshot, assessHolder, StatBefore, RenameAway, CheckMoved, restoreMovedLockFile,
         ReadRaced, inspectDaemonLock, releaseDaemonLock, UnlinkLock, Exit, Crash
    <2> QED
      BY <2>1 DEF AloneWell, Runs
  <1>1. CASE inspectDaemonLock(p)
    BY <1>0, <1>1 DEF inspectDaemonLock, AloneWell, Early, NeverWrote, IsContent, Refused, Refusing
  <1>2. CASE cleanupLockResidues(p)
    BY <1>0, <1>2 DEF cleanupLockResidues, AloneWell, Early, NeverWrote, IsContent, Refused, Refusing
  <1>3. CASE tryCreateLockFile(p)
    <2>1. CASE lock = Nothing
      <3>1. PICK i \in Inodes \ Linked : lock' = i /\ file' = [file EXCEPT ![i] = Self(p)]
        BY <1>3, <2>1 DEF tryCreateLockFile
      <3>2. HasThePath(p)' /\ pc'[p] = "verify"
        BY <1>3, <2>1, <3>1 DEF HasThePath, LockTypeOK, Self, tryCreateLockFile
      <3> QED
        BY <1>0, <3>2 DEF AloneWell, Early, Refused, Refusing
    <2>2. CASE lock # Nothing
      <3>1. pc[p] = "create" /\ pc'[p] = "read" /\ lock' = lock /\ file' = file
        BY <1>3, <2>2 DEF tryCreateLockFile, AloneWell
      <3> QED
        BY <1>0, <2>2, <3>1 DEF AloneWell, Early, NeverWrote, IsContent, Refused, Refusing
    <2> QED
      BY <2>1, <2>2
  <1>4. CASE ownsLockFile(p)
    <2>1. IsContent(Snapshot) /\ Snapshot.token = p
      BY <1>4, OwnContent DEF ownsLockFile, AloneWell, HasThePath, Snapshot
    <2>2. pc'[p] = "holds"
      BY <1>4, <2>1 DEF ownsLockFile
    <2> QED
      BY <1>0, <2>2 DEF AloneWell, Early, Refused, Refusing
  <1>5. CASE readLockFileSnapshot(p)
    <2>1. /\ pc[p] = "read" /\ pc'[p] = "assess" /\ lock' = lock /\ file' = file
          /\ seen'[p] = file[lock]
      BY <1>5 DEF readLockFileSnapshot, AloneWell, Snapshot, LockTypeOK
    <2> QED
      BY <1>0, <2>1 DEF AloneWell, Early, NeverWrote, IsContent, Refused, Refusing
  <1>6. CASE assessHolder(p)
    <2>1. /\ pc[p] = "assess" /\ lock' = lock /\ file' = file /\ seen' = seen
          /\ pc'[p] = IF IsContent(seen[p]) /\ HolderAlive(seen[p]) THEN "refused" ELSE "stat"
      BY <1>6 DEF assessHolder, local
    <2>2. CASE IsContent(seen[p]) /\ HolderAlive(seen[p])
      <3>1. seen[p].start # p
        BY <2>1, <2>2 DEF AloneWell, Early, NeverWrote, LockTypeOK
      <3>2. Unverifiable(p)
        BY <2>2, <3>1, NoneToVerify DEF Unverifiable
      <3> QED
        BY <1>0, <2>1, <2>2, <3>2 DEF AloneWell, Early
    <2>3. CASE ~(IsContent(seen[p]) /\ HolderAlive(seen[p]))
      BY <1>0, <2>1, <2>3 DEF AloneWell, Early, NeverWrote, IsContent, Refused, Refusing
    <2> QED
      BY <2>2, <2>3
  <1>7. CASE StatBefore(p)
    <2>1. /\ pc[p] = "stat" /\ pc'[p] = "rename" /\ lock' = lock /\ file' = file
          /\ seen' = seen /\ before'[p] = lock
      BY <1>7 DEF StatBefore, LockTypeOK
    <2> QED
      BY <1>0, <2>1 DEF AloneWell, Early, NeverWrote, IsContent, Refused, Refusing
  <1>8. CASE RenameAway(p)
    <2>1. /\ pc[p] = "rename" /\ pc'[p] = "check" /\ stale'[p] = lock /\ lock \in Inodes
          /\ lock' = Nothing /\ file' = file /\ seen' = seen /\ before' = before
      BY <1>8 DEF RenameAway, LockTypeOK, AloneWell, local
    <2> QED
      BY <1>0, <2>1 DEF AloneWell, Early, NeverWrote, IsContent, Refused, Refusing
  <1>9. CASE CheckMoved(p)
    <2> DEFINE moved == file[stale[p]]
    <2>1. pc[p] = "check" /\ sameFile(p) /\ sameContent(p) /\ lock' = lock /\ file' = file
      BY <1>9 DEF CheckMoved, AloneWell, sameFile, sameContent
    <2>2. CASE IsContent(moved) /\ HolderAlive(moved)
      <3>1. moved.start # p
        BY <2>1, <2>2 DEF AloneWell, Early, NeverWrote
      <3>2. Unverifiable(p)
        BY <2>1, <2>2, <3>1, NoneToVerify DEF Unverifiable, AloneWell
      <3>3. pc'[p] = "putback-refuse"
        BY <1>9, <2>1, <2>2 DEF CheckMoved
      <3> QED
        BY <1>0, <3>2, <3>3 DEF AloneWell, Early
    <2>3. CASE ~(IsContent(moved) /\ HolderAlive(moved))
      <3>1. pc'[p] = "recreate"
        BY <1>9, <2>1, <2>3 DEF CheckMoved
      <3> QED
        BY <1>0, <2>1, <3>1 DEF AloneWell, Early, NeverWrote, IsContent, Refused, Refusing
    <2> QED
      BY <2>2, <2>3
  <1>10. CASE restoreMovedLockFile(p)
    <2>1. pc[p] = "putback-refuse" /\ pc'[p] = "refused"
      BY <1>10 DEF restoreMovedLockFile, AloneWell
    <2> QED
      BY <1>0, <2>1 DEF AloneWell, Early, Refused, Refusing
  <1>11. CASE ReadRaced(p)
    BY <1>11 DEF ReadRaced, AloneWell
  <1>12. CASE releaseDaemonLock(p) \/ UnlinkLock(p) \/ Exit(p) \/ Crash(p)
    <2>1. pc'[p] \in {"unlink", "exiting", "gone"}
      BY <1>12 DEF releaseDaemonLock, UnlinkLock, Exit, Crash
    <2> QED
      BY <1>0, <2>1 DEF AloneWell, Early, Refused, Refusing
  <1> QED
    BY <1>1, <1>2, <1>3, <1>4, <1>5, <1>6, <1>7, <1>8, <1>9, <1>10, <1>11, <1>12
       DEF acquireDaemonLock

ActsIn(q) == \/ inspectDaemonLock(q) \/ acquireDaemonLock(q) \/ releaseDaemonLock(q)
             \/ UnlinkLock(q) \/ Exit(q) \/ Crash(q)

LEMMA ActorRuns ==
  ASSUME LockTypeOK, NEW q \in Procs, ActsIn(q)
  PROVE  /\ Runs(q) /\ company' = company /\ pc'[q] # "inspect" /\ pc'[q] # "off"
         /\ \A p \in Procs : p # q => pc'[p] = pc[p]
  <1> USE PcMoves, ContinueMoves
  <1>1. Runs(q) /\ company' = company
    BY DEF ActsIn, Runs, acquireDaemonLock, cleanupLockResidues, tryCreateLockFile, ownsLockFile,
       readLockFileSnapshot, assessHolder, StatBefore, RenameAway, CheckMoved, restoreMovedLockFile,
       ReadRaced, inspectDaemonLock, releaseDaemonLock, UnlinkLock, Exit, Crash
  <1>2. /\ pc'[q] # "inspect" /\ pc'[q] # "off"
        /\ \A p \in Procs : p # q => pc'[p] = pc[p]
    BY DEF ActsIn, acquireDaemonLock, cleanupLockResidues, tryCreateLockFile, ownsLockFile,
       readLockFileSnapshot, assessHolder, StatBefore, RenameAway, CheckMoved, restoreMovedLockFile,
       ReadRaced, inspectDaemonLock, releaseDaemonLock, UnlinkLock, Exit, Crash
  <1> QED
    BY <1>1, <1>2

LEMMA LoneStep ==
  ASSUME LoneInv, [Next]_vars
  PROVE  /\ LoneInv'
         /\ \A p \in Procs \ Restores : Refused(p) => p \in company \/ Unverifiable(p)
  <1> DEFINE Told(p) == Refused(p) => p \in company \/ Unverifiable(p)
  <1>0. LockTypeOK /\ LockTypeOK'
    BY LockStaysTyped DEF LoneInv
  <1>1. CASE \E s \in Procs : Start(s)
    <2>1. PICK s \in Procs : Start(s)
      BY <1>1
    <2>2. /\ pc[s] = "off" /\ pc'[s] \in {"clean", "inspect"}
          /\ pc'[s] = "inspect" => s \in Restores
          /\ \A q \in Procs : q # s => pc'[q] = pc[q]
          /\ lock' = lock /\ file' = file
      BY <2>1, <1>0, PcMoves DEF Start
    <2>3. /\ company \subseteq company'
          /\ \A q \in Procs : Runs(q) => {q, s} \subseteq company'
      BY <2>1 DEF Start
    <2>4. \A p \in Procs : pc'[p] = "off" => NeverWrote(p)'
      BY <2>2 DEF LoneInv, NeverWrote, IsContent
    <2>5. \A p \in Procs : pc'[p] = "inspect" => p \in Restores
      BY <2>2 DEF LoneInv
    <2>6. ASSUME NEW p \in Procs, Runs(p)', p \notin company' PROVE AloneWell(p)'
      <3>1. p = s
        BY <2>2, <2>6, <2>3, <1>0 DEF Runs, LoneInv, AloneWell
      <3>2. \A q \in Procs : ~Runs(q)
        BY <2>2, <2>6, <2>3, <3>1
      <3>3. NeverWrote(p)'
        BY <2>2, <3>1 DEF LoneInv, NeverWrote, IsContent
      <3> QED
        BY <2>2, <3>1, <3>2, <3>3 DEF AloneWell, Runs, Early
    <2>7. \A p \in Procs : ~Refused(p)
      BY <2>2 DEF Refused, Refusing
    <2> QED
      BY <1>0, <2>4, <2>5, <2>6, <2>7 DEF LoneInv
  <1>2. CASE \E s \in Procs : ActsIn(s)
    <2>1. PICK s \in Procs : ActsIn(s)
      BY <1>2
    <2>2. /\ Runs(s) /\ company' = company /\ pc'[s] # "inspect" /\ pc'[s] # "off"
          /\ \A q \in Procs : q # s => pc'[q] = pc[q]
      BY <2>1, <1>0, ActorRuns
    <2>3. ASSUME NEW p \in Procs, pc'[p] = "off" PROVE NeverWrote(p)'
      <3>1. p # s /\ NeverWrote(p)
        BY <2>2, <2>3 DEF LoneInv
      <3>2. file' = file \/ tryCreateLockFile(s)
        BY <2>1 DEF ActsIn, acquireDaemonLock, inspectDaemonLock, cleanupLockResidues, ownsLockFile,
           readLockFileSnapshot, assessHolder, StatBefore, RenameAway, CheckMoved,
           restoreMovedLockFile, ReadRaced, releaseDaemonLock, UnlinkLock, Exit, Crash
      <3> QED
        BY <1>0, <3>1, <3>2, OthersNames
    <2>4. \A p \in Procs : pc'[p] = "inspect" => p \in Restores
      BY <2>2 DEF LoneInv
    <2>5. CASE s \in company
      <3>1. ASSUME NEW p \in Procs, Runs(p)', p \notin company' PROVE FALSE
        BY <2>2, <2>5, <3>1 DEF LoneInv, AloneWell, Runs
      <3>2. \A p \in Procs : Told(p)
        BY <2>2, <2>5 DEF Refused
      <3> QED
        BY <1>0, <2>3, <2>4, <3>1, <3>2 DEF LoneInv
    <2>6. CASE s \notin company
      <3>1. AloneWell(s)
        BY <2>2, <2>6 DEF LoneInv
      <3>2. Runs(s)' => AloneWell(s)'
        BY <1>0, <2>1, <2>2, <3>1, AloneStep DEF ActsIn
      <3>3. Refused(s) => Unverifiable(s) \/ pc[s] = "inspect"
        BY <1>0, <2>1, <2>2, <3>1, AloneStep DEF ActsIn
      <3>4. ASSUME NEW p \in Procs, Runs(p)', p \notin company' PROVE p = s
        BY <2>2, <3>1, <3>4 DEF AloneWell, Runs
      <3>5. \A p \in Procs \ Restores : Told(p)
        BY <2>2, <3>3 DEF LoneInv, Refused
      <3> QED
        BY <1>0, <2>3, <2>4, <3>2, <3>4, <3>5 DEF LoneInv
    <2> QED
      BY <2>5, <2>6
  <1>3. CASE (\E k \in Pids : Stranger(k)) \/ UNCHANGED vars
    <2>1. UNCHANGED <<lock, file, stale, pc, seen, before, company>>
      BY <1>3 DEF Stranger, vars, local
    <2>2. \A p \in Procs : ~Refused(p)
      BY <2>1 DEF Refused
    <2> QED
      BY <1>0, <2>1, <2>2
         DEF LoneInv, NeverWrote, IsContent, AloneWell, Runs, HasThePath, Self
  <1> QED
    BY <1>1, <1>2, <1>3 DEF Next, ActsIn

\* A daemon that is alone since its start gets the lock, whatever lock it found, through
\* any number of earlier processes and crashes; it gives up only before a lock that does
\* not say when its holder started and names a live pid (assessHolder, lock.ts:37-50).
THEOREM LoneStart == Spec => LoneStartSucceeds
  <1>1. Init => LoneInv
    BY LoneAtFirst
  <1>2. LoneInv /\ [Next]_vars => LoneInv'
    BY LoneStep
  <1>3. LoneInv /\ [Next]_vars
          => [\A p \in Procs \ Restores : Refused(p) => p \in company \/ Unverifiable(p)]_vars
    BY LoneStep
  <1> QED
    BY <1>1, <1>2, <1>3, PTL DEF Spec, LoneStartSucceeds
=============================================================================
