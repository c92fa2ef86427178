------------------------------ MODULE Expenses ------------------------------
(* Expenses with request ids, the category dictionary of each profile, budgets
   and the alerts about them: modules/bookkeeping, and the quick page that adds
   expenses by HTTP (server/quick.ts, server/assets/quick-page.js).

   A tool call runs without an await, but each statement commits on its own: the
   process may die after the entry is inserted and before all is published, and
   the reply may get lost. Texts stand for category texts, their trimmed and
   lower-cased form is categoryKey. Quantities that only bound the model: Calls,
   Submissions. *)
EXTENDS Ledgers, Functions

CONSTANTS
    Texts, categoryKey(_),
    TOTAL,                  \* the empty category of a budget
    Amounts, Limits, YearMonths,
    RequestIds,             \* of MCP callers, who repeat a request under its id
    Calls, Submissions      \* bounds

BUDGET_THRESHOLDS == {80, 100}
BudgetScopes == Texts \cup {TOTAL}

ASSUME ExpensesAssumption ==
    /\ TOTAL \notin Texts
    /\ Amounts \cup Limits \subseteq Nat \ {0}
    /\ Calls \in Nat /\ Submissions \in Nat
    /\ NULL \notin RequestIds /\ RequestIds \cap Nat = {}

VARIABLES
    dict,                   \* setting: category name -> set of its aliases
    budget,                 \* per ledger: scope -> limit in cents
    expenses,               \* rows of the table
    told,                   \* dedupe keys of published notifications
    page,                   \* the form of the quick page, by its profile
    cutShort,               \* the last call died before it had published all
    added,                  \* entries ever added
    calls                   \* tool calls so far
expenseVars == <<ledgerVars, dict, budget, expenses, told, page, cutShort, added, calls>>

PageIds == 1..Submissions   \* newRequestId: another one for each press of the button

-----------------------------------------------------------------------------
(* The category dictionary.                                                  *)

SameKey(a, b) == categoryKey(a) = categoryKey(b)
NamesLike(d, t) == {n \in DOMAIN d : SameKey(n, t)}
OwnersOf(d, t) == {n \in DOMAIN d : \E a \in d[n] : SameKey(a, t)}

normalizeCategory(p, t) ==
    CASE NamesLike(dict[p], t) # {} -> CHOOSE n \in NamesLike(dict[p], t) : TRUE
      [] NamesLike(dict[p], t) = {} /\ OwnersOf(dict[p], t) # {} ->
            CHOOSE n \in OwnersOf(dict[p], t) : TRUE
      [] OTHER -> t

\* What setCategoryDictionary accepts.
Unambiguous(d) ==
    /\ \A n \in DOMAIN d : NamesLike(d, n) = {n} /\ OwnersOf(d, n) = {}
    /\ \A n \in DOMAIN d : \A a, b \in d[n] : OwnersOf(d, a) = {n} /\ (SameKey(a, b) => a = b)

setCategoryDictionary(p, d) ==
    /\ Unambiguous(d)
    /\ dict' = [dict EXCEPT ![p] = d]

RemoveAlias(p, category, alias) ==
    /\ ~SameKey(category, alias)
    /\ \E n \in NamesLike(dict[p], category) :
          setCategoryDictionary(p, [dict[p] EXCEPT ![n] = {a \in @ : ~SameKey(a, alias)}])

AddAlias(p, category, alias) ==
    LET d == dict[p]
        n == IF NamesLike(d, category) = {} THEN category
             ELSE CHOOSE x \in NamesLike(d, category) : TRUE
        old == IF n \in DOMAIN d THEN d[n] ELSE {}
    IN  /\ ~SameKey(category, alias)
        /\ n \in DOMAIN d \/ OwnersOf(d, category) = {}
        /\ NamesLike(d, alias) = {}
        /\ OwnersOf(d, alias) = {}
        /\ setCategoryDictionary(p,
              [x \in DOMAIN d \cup {n} |-> IF x = n THEN old \cup {alias} ELSE d[x]])

changeCategoryAlias(p, category, alias) ==
    /\ AddAlias(p, category, alias) \/ RemoveAlias(p, category, alias)
    /\ UNCHANGED <<ledgerVars, budget, expenses, told, page, added>>
    /\ cutShort' = FALSE

-----------------------------------------------------------------------------
(* Budgets.                                                                  *)

\* Rows of the same meaning that older calls left under another text.
sameScopeAliases(p, l, raw) ==
    IF raw = TOTAL THEN {}
    ELSE LET target == normalizeCategory(p, raw)
         IN  {c \in DOMAIN budget[l] \ {TOTAL, target} : normalizeCategory(p, c) = target}

Target(p, raw) == IF raw = TOTAL THEN TOTAL ELSE normalizeCategory(p, raw)

\* budget with clear
clearBudget(p, l, raw) ==
    /\ l \in VisibleTo(p)
    /\ budget' = [budget EXCEPT ![l] =
          Restrict(@, DOMAIN @ \ (sameScopeAliases(p, l, raw) \cup {raw, Target(p, raw)}))]
    /\ UNCHANGED <<ledgerVars, dict, expenses, told, page, added>>
    /\ cutShort' = FALSE

setBudget(p, l, raw, limit) ==
    /\ l \in VisibleTo(p)
    /\ LET rest == DOMAIN budget[l] \ (sameScopeAliases(p, l, raw) \cup {raw})
       IN  budget' = [budget EXCEPT ![l] =
              [c \in rest \cup {Target(p, raw)} |-> IF c = Target(p, raw) THEN limit ELSE @[c]]]
    /\ UNCHANGED <<ledgerVars, dict, expenses, told, page, added>>
    /\ cutShort' = FALSE

\* summarizeExpenses, of a month
summarize(rows, l, ym, scope) ==
    MapThenSumSet(LAMBDA e : e.amount,
                  {e \in rows : e.in = l /\ e.ym = ym /\ scope \in {TOTAL, e.category}})

AlertKey(l, scope, ym, t) == <<"budget", l, scope, ym, t>>

crossed(before, after, limit) ==
    {t \in BUDGET_THRESHOLDS : before * 100 < limit * t /\ after * 100 >= limit * t}

\* Mutant: before is reckoned from the amount also where the entry does not count.
alertsOfAnyCategory(rows, e) ==
    UNION {LET after == summarize(rows, e.in, e.ym, scope)
               hit == crossed(after - e.amount, after, budget[e.in][scope])
           IN  IF hit = {} THEN {} ELSE {AlertKey(e.in, scope, e.ym, Max(hit))} :
           scope \in DOMAIN budget[e.in]}

budgetAlertsForEntry(rows, e) ==
    UNION {LET after == summarize(rows, e.in, e.ym, scope)
               before == IF scope \in {TOTAL, e.category} THEN after - e.amount ELSE after
               hit == crossed(before, after, budget[e.in][scope])
           IN  IF hit = {} THEN {} ELSE {AlertKey(e.in, scope, e.ym, Max(hit))} :
           scope \in DOMAIN budget[e.in]}

-----------------------------------------------------------------------------
(* Entries.                                                                  *)

findExpenseByClientToken(p, r) == {e \in expenses : e.by = p /\ e.token = r /\ r # NULL}

Alerts(e) == IF ledger[e.in].owner # FAMILY THEN {}
             ELSE budgetAlertsForEntry(expenses \cup {e}, e)

\* What is out when the process dies: the alert of the total comes first.
Cuts(e) == {{}, {n \in Alerts(e) : n[3] = TOTAL}} \ {Alerts(e)}

\* Mutant: the request id is looked up in the ledger of this call.
lookedUpByLedger(p, l, category, amount, ym, r, whole) ==
    LET e == [id |-> added, in |-> l, by |-> p, category |-> normalizeCategory(p, category),
              amount |-> amount, ym |-> ym, token |-> r]
    IN  IF \E x \in findExpenseByClientToken(p, r) : x.in = l
        THEN whole /\ UNCHANGED <<expenses, told, added>>
        ELSE /\ expenses' = expenses \cup {e}
             /\ added' = added + 1
             /\ \/ whole /\ told' = told \cup Alerts(e)
                \/ ~whole /\ \E s \in Cuts(e) : told' = told \cup s

\* addExpenseChecked and what its caller publishes, as far as the process lives.
Add(p, l, category, amount, ym, r, whole) ==
    LET e == [id |-> added, in |-> l, by |-> p, category |-> normalizeCategory(p, category),
              amount |-> amount, ym |-> ym, token |-> r]
    IN  IF findExpenseByClientToken(p, r) # {}
        THEN whole /\ UNCHANGED <<expenses, told, added>>
        ELSE /\ expenses' = expenses \cup {e}
             /\ added' = added + 1
             /\ \/ whole /\ told' = told \cup Alerts(e)
                \/ ~whole /\ \E s \in Cuts(e) : told' = told \cup s

\* The ledger of a call with or without ledger_id.
addLedger(p, given) == IF given = NULL THEN resolveAddLedger(p) ELSE given

expenseAdd(p, given, category, amount, ym, r, whole) ==
    /\ addLedger(p, given) \in writableLedgers(p)
    /\ Add(p, addLedger(p, given), category, amount, ym, r, whole)
    /\ cutShort' = ~whole
    /\ UNCHANGED <<ledgerVars, dict, budget, page>>

\* POST /api/quick/expenses. The form is cleared when the answer arrives.
quickExpense(p, l, category, amount, ym, whole, answered) ==
    LET r == page[p].pressed + 1 IN
    /\ r \in PageIds
    /\ l \in writableLedgers(p)
    /\ answered => whole
    /\ Add(p, l, category, amount, ym, r, whole)
    /\ cutShort' = ~whole
    /\ page' = [page EXCEPT ![p] = [pressed |-> r, made |-> IF answered THEN 0 ELSE @.made + 1]]
    /\ UNCHANGED <<ledgerVars, dict, budget>>

\* Corrections publish nothing and judge no budget.
updateExpense(p, e, category, amount, ym) ==
    /\ e.in \in VisibleTo(p)
    /\ expenses' = (expenses \ {e}) \cup
          {[e EXCEPT !.category = category, !.amount = amount, !.ym = ym]}
    /\ UNCHANGED <<ledgerVars, dict, budget, told, page, added>>
    /\ cutShort' = FALSE

updateExpenseChecked(p, e, category, amount, ym) ==
    \/ updateExpense(p, e, e.category, amount, ym)
    \/ updateExpense(p, e, normalizeCategory(p, category), amount, ym)

deleteExpense(p, e) ==
    /\ e.in \in VisibleTo(p)
    /\ expenses' = expenses \ {e}
    /\ UNCHANGED <<ledgerVars, dict, budget, told, page, added>>
    /\ cutShort' = FALSE

LedgerTool ==
    /\ LedgersNext
    /\ UNCHANGED <<dict, budget, expenses, told, page, added>>
    /\ cutShort' = FALSE

\* A database with one family ledger.
ExpensesInit ==
    /\ \E n \in Names : ledger = [l \in LedgerIds |->
          IF l = 1 THEN [name |-> n, owner |-> FAMILY, archived |-> FALSE] ELSE NULL]
    /\ default = [p \in Profiles |-> NULL]
    /\ dict = [p \in Profiles |-> << >>]
    /\ budget = [l \in LedgerIds |-> << >>]
    /\ expenses = {} /\ told = {}
    /\ page = [p \in Profiles |-> [pressed |-> 0, made |-> 0]]
    /\ cutShort = FALSE /\ added = 0 /\ calls = 0

CallBy(p) ==
    \/ \E c, a \in Texts : changeCategoryAlias(p, c, a)
    \/ \E l \in LedgerIds, s \in BudgetScopes : clearBudget(p, l, s)
    \/ \E l \in LedgerIds, s \in BudgetScopes, x \in Limits : setBudget(p, l, s, x)
    \/ \E l \in VisibleTo(p) \cup {NULL}, c \in Texts, x \in Amounts, ym \in YearMonths,
           r \in RequestIds \cup {NULL}, whole \in BOOLEAN : expenseAdd(p, l, c, x, ym, r, whole)
    \/ \E l \in LedgerIds, c \in Texts, x \in Amounts, ym \in YearMonths,
           whole, answered \in BOOLEAN : quickExpense(p, l, c, x, ym, whole, answered)
    \/ \E e \in expenses, c \in Texts, x \in Amounts, ym \in YearMonths :
           updateExpenseChecked(p, e, c, x, ym)
    \/ \E e \in expenses : deleteExpense(p, e)

ExpensesNext ==
    /\ calls < Calls
    /\ calls' = calls + 1
    /\ LedgerTool \/ \E p \in Profiles : CallBy(p)

ExpensesSpec == ExpensesInit /\ [][ExpensesNext]_expenseVars

-----------------------------------------------------------------------------
\* An alert is published exactly by the entry that takes the month and scope of
\* a budget over its threshold, for the highest one it passes: not by an entry
\* of another category, a correction, a new budget or a repeated request, and
\* an add that is not cut short leaves none out.
AlertsMatchCrossings ==
    [][<<expenses, told>>' # <<expenses, told>> =>
       \A l \in LedgerIds, ym \in YearMonths : \A s \in DOMAIN budget[l] :
         LET was == summarize(expenses, l, ym, s)
             is == summarize(expenses', l, ym, s)
             passed == {t \in BUDGET_THRESHOLDS :
                          was * 100 < budget[l][s] * t /\ budget[l][s] * t <= is * 100}
         IN  /\ \A t \in BUDGET_THRESHOLDS :
                   AlertKey(l, s, ym, t) \in told' \ told => passed # {} /\ t = Max(passed)
             /\ passed # {} /\ ledger[l].owner = FAMILY
                /\ added' # added /\ ~cutShort' => AlertKey(l, s, ym, Max(passed)) \in told']_expenseVars

\* A request id stands for one entry, whatever ledger, default or arguments a
\* repetition meets, as long as the entry is not deleted.
RequestRecordedOnce ==
    \A e, x \in expenses : e.by = x.by /\ e.token = x.token /\ e.token # NULL => e = x
=============================================================================
