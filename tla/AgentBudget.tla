----------------------------- MODULE AgentBudget -----------------------------
(***************************************************************************)
(* What keeps an agent within its budgets and its daily limit: the checks  *)
(* createTransaction makes before it writes the row                        *)
(* (SpendingLimitService.evaluateSpendingLimits,                           *)
(* BudgetService.assertWithinBudget and withAgentBudgetLimit) and          *)
(* the settlement that moves a payment from the rows to Budget.spent       *)
(* (execute and BudgetService.consume).  The transactions are those of one *)
(* agent in one asset, from any of its wallets.  A row goes through DRAFT, *)
(* PENDING and SUBMITTED in this order here; the races over one row are    *)
(* TransactionLifecycle's.                                                 *)
(*                                                                         *)
(* Budget.spent is the sum over the set `consumed`, so that the model can  *)
(* tell which payments a check has seen.                                   *)
(***************************************************************************)
EXTENDS Integers, FiniteSets

CONSTANTS
    Payments,      \* the transactions
    AmountOf,      \* [Payments -> Nat]
    Budgets,       \* budgets, all with the asset's currency
    AgentBudgets,  \* those allocated to the agent and enabled
    BudgetOf,      \* [Payments -> Budgets \cup {NoBudget}]: input.budgetId
    NoBudget,
    LimitOf,       \* [Budgets -> Nat]: Budget.limitAmount
    DailyLimit,    \* configuration.dailyLimit of the agent's policy
    Nobody         \* the agent lock is free

ASSUME BudgetAssumption ==
    /\ IsFiniteSet(Payments) /\ Nobody \notin Payments
    /\ AmountOf \in [Payments -> Nat]
    /\ AgentBudgets \subseteq Budgets
    /\ BudgetOf \in [Payments -> Budgets \cup {NoBudget}]
    /\ LimitOf \in [Budgets -> Nat] /\ DailyLimit \in Nat

VARIABLES
    status,     \* [Payments -> PaymentStatus]
    paid,       \* payments that landed on the ledger
    consumed,   \* payments added to Budget.spent
    agentLock,  \* the holder of lock:agent-budget:{agentId}
    budgetLock, \* [Budgets -> Payments \cup {Nobody}]: lock:budget:consume:{id}
    spentRead,  \* the payments in the Budget.spent the holder of agentLock has read
    missed,     \* history: payments a budget check did not count (see Unseen)
    raced,      \* history: payments a limit check did not count
    step        \* [Payments -> PaymentSteps]

budgetVars == <<status, paid, consumed, agentLock, budgetLock, spentRead, missed, raced, step>>

PaymentStatus == {"NONE", "DRAFT", "PENDING", "SUBMITTED", "COMPLETED", "FAILED", "CANCELLED"}

PaymentSteps ==
    {"limits", "budget", "lock", "readRows", "row",
     "open", "pay", "complete", "consume", "increment", "caught", "done", "refused"}

\* The sum of the amounts: as many as they have units between them.
Total(ps) == Cardinality(UNION {{p} \X (1..AmountOf[p]) : p \in ps})

Step(p, s) == step' = [step EXCEPT ![p] = s]

SetStatus(p, s) == status' = [status EXCEPT ![p] = s]

BudgetInit ==
    /\ status = [p \in Payments |-> "NONE"]
    /\ paid = {}
    /\ consumed = {}
    /\ agentLock = Nobody
    /\ budgetLock = [b \in Budgets |-> Nobody]
    /\ spentRead = {}
    /\ missed = {}
    /\ raced = {}
    /\ step = [p \in Payments |-> "limits"]

SpentOn(b, ps) == {q \in ps : BudgetOf[q] = b}

-----------------------------------------------------------------------------
(* The checks                                                              *)

\* countedStatuses
Counted == {q \in Payments : status[q] \in {"PENDING", "SUBMITTED", "COMPLETED"}}

\* Payments that passed the limit check and are not refused, and which the next
\* limit check does not count.
Uncounted(p) ==
    {q \in Payments \ {p} :
        /\ step[q] \notin {"limits", "refused"}
        /\ q \notin Counted
        /\ status[q] \notin {"FAILED", "CANCELLED"} \/ q \in paid}

\* Mutant: the payment itself is left out of the comparison.
EvaluateLimits_SpentOnly(p) ==
    /\ step[p] = "limits"
    /\ \/ /\ Total(Counted) <= DailyLimit
          /\ raced' = raced \cup Uncounted(p)
          /\ Step(p, "budget")
       \/ /\ Total(Counted) > DailyLimit
          /\ UNCHANGED raced
          /\ Step(p, "refused")
    /\ UNCHANGED <<status, paid, consumed, agentLock, budgetLock, spentRead, missed>>

\* aggregateSpend and the policy evaluation of the aggregates.
EvaluateLimits(p) ==
    /\ step[p] = "limits"
    /\ \/ /\ Total(Counted) + AmountOf[p] <= DailyLimit
          /\ raced' = raced \cup Uncounted(p)
          /\ Step(p, "budget")
       \/ /\ Total(Counted) + AmountOf[p] > DailyLimit
          /\ UNCHANGED raced
          /\ Step(p, "refused")
    /\ UNCHANGED <<status, paid, consumed, agentLock, budgetLock, spentRead, missed>>

\* assertWithinBudget: one read of Budget.spent.  Its lock is released before the
\* row is written, so nothing is left of it but the comparison.
AssertWithinBudget(p) ==
    LET b == BudgetOf[p]
        fits == b # NoBudget => Total(SpentOn(b, consumed)) + AmountOf[p] <= LimitOf[b]
    IN
    /\ step[p] = "budget"
    /\ \/ fits /\ Step(p, "lock")
       \/ ~fits /\ Step(p, "refused")
    /\ UNCHANGED <<status, paid, consumed, agentLock, budgetLock, spentRead, missed, raced>>

\* Mutant: no lock around the check and the insert.
LockAgent_Ignored(p) ==
    /\ step[p] = "lock"
    /\ spentRead' = consumed
    /\ Step(p, "readRows")
    /\ UNCHANGED <<status, paid, consumed, agentLock, budgetLock, missed, raced>>

\* withAgentBudgetLimit: the agent-scoped lock, tried once, and with it the read of
\* Budget.spent (findEnabledByAgentId).
LockAgent(p) ==
    /\ step[p] = "lock"
    /\ \/ /\ agentLock = Nobody
          /\ agentLock' = p
          /\ spentRead' = consumed
          /\ Step(p, "readRows")
       \/ /\ agentLock # Nobody
          /\ UNCHANGED <<agentLock, spentRead>>
          /\ Step(p, "refused")
    /\ UNCHANGED <<status, paid, consumed, budgetLock, missed, raced>>

\* sumUnaccountedSpendByAgent: in-flight rows, and completed ones whose budget is
\* not one of the agent's.
Unaccounted ==
    {q \in Payments :
        \/ status[q] \in {"DRAFT", "PENDING", "SUBMITTED"}
        \/ status[q] = "COMPLETED" /\ BudgetOf[q] \notin AgentBudgets}

\* Payments on the ledger that neither read shows: completed and not yet added to
\* Budget.spent when it was read, or recorded as FAILED.
Unseen == paid \ (Unaccounted \cup spentRead)

ReadRows(p) ==
    LET fits == \A b \in AgentBudgets :
                   Total(SpentOn(b, spentRead)) + Total(Unaccounted) + AmountOf[p] <= LimitOf[b]
    IN
    /\ step[p] = "readRows"
    /\ \/ fits /\ missed' = missed \cup Unseen /\ Step(p, "row") /\ UNCHANGED agentLock
       \/ ~fits /\ agentLock' = Nobody /\ Step(p, "refused") /\ UNCHANGED missed
    /\ spentRead' = {}
    /\ UNCHANGED <<status, paid, consumed, budgetLock, raced>>

\* The row is written and the lock released.
WriteRow(p) ==
    /\ step[p] = "row"
    /\ SetStatus(p, "DRAFT")
    /\ agentLock' = Nobody
    /\ Step(p, "open")
    /\ UNCHANGED <<paid, consumed, budgetLock, spentRead, missed, raced>>

\* The preflight, the velocity limit, the policies or the risk score refuse.
Refuse(p) ==
    /\ step[p] \in {"limits", "budget"}
    /\ Step(p, "refused")
    /\ UNCHANGED <<status, paid, consumed, agentLock, budgetLock, spentRead, missed, raced>>

-----------------------------------------------------------------------------
(* Settlement                                                              *)

\* A transaction that needs approval becomes PENDING; either kind is cancelled or
\* submitted.
MarkPending(p) ==
    /\ step[p] = "open"
    /\ status[p] = "DRAFT"
    /\ SetStatus(p, "PENDING")
    /\ UNCHANGED <<paid, consumed, agentLock, budgetLock, spentRead, missed, raced, step>>

Cancel(p) ==
    /\ step[p] = "open"
    /\ SetStatus(p, "CANCELLED")
    /\ Step(p, "done")
    /\ UNCHANGED <<paid, consumed, agentLock, budgetLock, spentRead, missed, raced>>

SubmitPayment(p) ==
    /\ step[p] = "open"
    /\ SetStatus(p, "SUBMITTED")
    /\ Step(p, "pay")
    /\ UNCHANGED <<paid, consumed, agentLock, budgetLock, spentRead, missed, raced>>

\* submitPayment: the payment lands, or it does not, or it lands and the call
\* throws all the same.
Pay(p) ==
    /\ step[p] = "pay"
    /\ \/ paid' = paid \cup {p} /\ (Step(p, "complete") \/ Step(p, "caught"))
       \/ UNCHANGED paid /\ Step(p, "caught")
    /\ UNCHANGED <<status, consumed, agentLock, budgetLock, spentRead, missed, raced>>

MarkCompleted(p) ==
    /\ step[p] = "complete"
    /\ SetStatus(p, "COMPLETED")
    /\ Step(p, IF BudgetOf[p] = NoBudget THEN "done" ELSE "consume")
    /\ UNCHANGED <<paid, consumed, agentLock, budgetLock, spentRead, missed, raced>>

\* consume: the lock on the budget is tried once, and its refusal is an error of
\* execute's try block.
Consume(p) ==
    LET b == BudgetOf[p] IN
    /\ step[p] = "consume"
    /\ \/ /\ budgetLock[b] = Nobody
          /\ budgetLock' = [budgetLock EXCEPT ![b] = p]
          /\ Step(p, "increment")
       \/ /\ budgetLock[b] # Nobody
          /\ UNCHANGED budgetLock
          /\ Step(p, "caught")
    /\ UNCHANGED <<status, paid, consumed, agentLock, spentRead, missed, raced>>

\* incrementSpent, and the end of the lock.
IncrementSpent(p) ==
    /\ step[p] = "increment"
    /\ consumed' = consumed \cup {p}
    /\ budgetLock' = [budgetLock EXCEPT ![BudgetOf[p]] = Nobody]
    /\ Step(p, "done")
    /\ UNCHANGED <<status, paid, agentLock, spentRead, missed, raced>>

\* execute's catch block: FAILED, also for a payment that landed.
CatchFailure(p) ==
    /\ step[p] = "caught"
    /\ SetStatus(p, "FAILED")
    /\ Step(p, "done")
    /\ UNCHANGED <<paid, consumed, agentLock, budgetLock, spentRead, missed, raced>>

Check(p) ==
    \/ EvaluateLimits(p) \/ AssertWithinBudget(p) \/ LockAgent(p)
    \/ ReadRows(p) \/ Refuse(p)

Settle(p) ==
    \/ MarkPending(p) \/ Cancel(p) \/ SubmitPayment(p) \/ Pay(p) \/ MarkCompleted(p)
    \/ Consume(p) \/ IncrementSpent(p) \/ CatchFailure(p)

BudgetNext == \E p \in Payments : Check(p) \/ WriteRow(p) \/ Settle(p)

BudgetSpec == BudgetInit /\ [][BudgetNext]_budgetVars

-----------------------------------------------------------------------------
(* Properties                                                              *)

\* Statuses, locks and steps keep their types; only payments that landed are
\* consumed.
BudgetTypeOK ==
    /\ status \in [Payments -> PaymentStatus]
    /\ paid \subseteq Payments
    /\ consumed \subseteq paid
    /\ agentLock \in Payments \cup {Nobody}
    /\ budgetLock \in [Budgets -> Payments \cup {Nobody}]
    /\ spentRead \subseteq consumed
    /\ missed \subseteq paid
    /\ raced \subseteq Payments
    /\ step \in [Payments -> PaymentSteps]

\* Money the agent has moved or may still move against budget b: in-flight rows,
\* completed ones outside the agent's budgets, and b's own payments.
Exposure(b) == Unaccounted \cup SpentOn(b, paid)

\* "Checks every active agent allocation against settled and in-flight spend" and
\* "Keeps the budget check and transaction insert in one agent-scoped critical
\* section": the agent exceeds no budget of its own by more than the payments that
\* a check could not see because they were completed but not yet consumed, or
\* recorded as FAILED, when it ran.
AgentWithinBudgets ==
    \A b \in AgentBudgets : Total(Exposure(b)) <= LimitOf[b] + Total(missed)

\* The daily limit holds up to the payments that had passed their own check but
\* were not counted (DRAFT, or not yet written) when another one was checked.
WithinDailyLimit ==
    Total(Counted \cup paid) <= DailyLimit + Total(raced)

\* "Serialize spend increments on the same budget to prevent concurrent agents
\* from overshooting the limit together."
SpentWithinLimit ==
    \A b \in Budgets : Total(SpentOn(b, consumed)) <= LimitOf[b]
=============================================================================
