------------------------- MODULE MCTransactionIntake -------------------------
(***************************************************************************)
(* The intake of payments, for TLC: IdempotentCreate around AgentBudget.   *)
(* The requests of one agent, some of them retries under one key, run      *)
(* createTransaction's checks between the reservation of the key and the   *)
(* row.  The row is written in both at once; settlement goes on after the  *)
(* request has answered (an approval) or before it does (automatic         *)
(* execution).  A request without a key calls createTransaction directly.  *)
(***************************************************************************)
EXTENDS IdempotentCreate, AgentBudget, TLC

-----------------------------------------------------------------------------
(* Values of the constants                                                 *)

CONSTANTS r1, r2, r3, k1, x, own, shared

\* r1 and r2 are two submissions under one key, r3 has none.
MCKeyOf == r1 :> k1 @@ r2 :> k1
MCPayloadOf == r1 :> x @@ r2 :> x
MCAmountOf == r1 :> 1 @@ r2 :> 1 @@ r3 :> 2
MCBudgetOf == r1 :> own @@ r2 :> own @@ r3 :> NoBudget
MCShared == r1 :> shared @@ r2 :> shared @@ r3 :> shared
MCLimitOf == own :> 3 @@ shared :> 2

-----------------------------------------------------------------------------
(* The composition                                                         *)

ASSUME IntakeAssumption == Requests \subseteq Payments

\* Requests without an Idempotency-Key.
Unkeyed == Payments \ Requests

intakeVars == <<idempotencyVars, budgetVars>>

IntakeInit == Init /\ BudgetInit

\* createTransaction up to the row.
RunChecks(r) ==
    /\ pc[r] = "create"
    /\ Check(r)
    /\ UNCHANGED idempotencyVars

RowWritten(r) == CreateRow(r) /\ WriteRow(r)

Refused(r) ==
    /\ step[r] = "refused"
    /\ CreateFails(r)
    /\ UNCHANGED budgetVars

\* A request that died leaves the agent lock to its TTL.
AgentLockExpires ==
    /\ agentLock \in Requests
    /\ pc[agentLock] = "dead"
    /\ agentLock' = Nobody
    /\ UNCHANGED <<idempotencyVars, status, paid, consumed, budgetLock, spentRead, missed, raced, step>>

Proceed(r) ==
    \/ (Reserve(r) \/ Submit(r)) /\ UNCHANGED budgetVars
    \/ RunChecks(r) \/ RowWritten(r) \/ Refused(r)

\* create() without an idempotency key.
CreateDirectly(r) == (Check(r) \/ WriteRow(r)) /\ UNCHANGED idempotencyVars

IntakeNext ==
    \/ \E r \in Requests :
          Proceed(r) \/ (Die(r) /\ UNCHANGED budgetVars)
    \/ \E r \in Unkeyed : CreateDirectly(r)
    \/ \E r \in Payments : Settle(r) /\ UNCHANGED idempotencyVars
    \/ (Cleanup \/ \E k \in Keys : Expire(k)) /\ UNCHANGED budgetVars
    \/ AgentLockExpires

IntakeSpec == IntakeInit /\ [][IntakeNext]_intakeVars

\* A request that does not die goes on, records expire and the cleanup runs every
\* hour.
IntakeFairSpec ==
    /\ IntakeSpec
    /\ \A r \in Requests : WF_intakeVars(Proceed(r))
    /\ \A k \in Keys : WF_intakeVars(Expire(k) /\ UNCHANGED budgetVars)
    /\ WF_intakeVars(Cleanup /\ UNCHANGED budgetVars)

-----------------------------------------------------------------------------
(* Properties                                                              *)

\* The types of both components; a row exists in both or in neither.
IntakeTypeOK ==
    /\ TypeOK
    /\ BudgetTypeOK
    /\ rows = {r \in Requests : status[r] # "NONE"}

\* What limits an agent's payments, across create, execute and consume (see
\* AgentBudget): it exceeds neither a budget of its own nor its daily limit by more
\* than the payments that its checks could not see.
MoneyIsBounded == AgentWithinBudgets /\ WithinDailyLimit
=============================================================================
