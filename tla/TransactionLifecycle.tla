------------------------ MODULE TransactionLifecycle ------------------------
(***************************************************************************)
(* One transaction from its creation to its settlement: the request that   *)
(* creates it (TransactionService.createTransaction), the requests of      *)
(* reviewers who decide its proposal (ApprovalService.decide), execute(),  *)
(* cancel(), and the Stellar ledger as the payments that landed on it.     *)
(*                                                                         *)
(* Every request is a process whose steps are separated by its awaits: each *)
(* step is one database statement (or one SERIALIZABLE unit of work, which *)
(* runWithRetry makes atomic) or one call to Horizon.  Transactions share  *)
(* no row, so one transaction is modelled; what its amount does to budgets *)
(* is the subject of AgentBudget.                                          *)
(***************************************************************************)
EXTENDS Integers, FiniteSets

CONSTANTS
    Creator,      \* the request that creates the transaction
    Approvals,    \* decide() requests with decision APPROVED
    Rejections,   \* decide() requests with decision REJECTED
    Users,        \* the reviewers
    UserOf,       \* UserOf[r]: the reviewer who sent request r
    Faults        \* the faults the environment may inject

Requests == Approvals \cup Rejections

Handlers == {Creator} \cup Requests

\* "stop": a request ends between two steps (the process dies, a statement
\*   outside a try block throws).
\* "ambiguous": submitPayment throws although the payment landed.
\* "settle": a statement after the payment (the COMPLETED write, the budget
\*   consumption) throws.
FaultKinds == {"stop", "ambiguous", "settle"}

ASSUME LifecycleAssumption ==
    /\ Creator \notin Requests
    /\ Approvals \cap Rejections = {}
    /\ IsFiniteSet(Requests)
    /\ UserOf \in [Requests -> Users]
    /\ Faults \subseteq FaultKinds

VARIABLES
    row,         \* Transaction.status, "NONE" before the row exists
    required,    \* Proposal.requiredApprovals, 0 when no approval is required
    proposal,    \* Proposal.status, "NONE" before the row exists
    expired,     \* Proposal.expiresAt has passed
    votes,       \* the requests whose Approval row exists
    spendable,   \* the wallet is ACTIVE
    paid,        \* the requests whose payment landed on the ledger
    lostTrack,   \* history: the row once hid a payment (see Hidden)
    pc           \* [Handlers -> steps]

vars == <<row, required, proposal, expired, votes, spendable, paid, lostTrack, pc>>

RowStatus ==
    {"NONE", "DRAFT", "PENDING", "SUBMITTED", "COMPLETED", "CANCELLED", "FAILED"}

ProposalStatus ==
    {"NONE", "PENDING", "APPROVED", "REJECTED", "EXPIRED", "EXECUTED"}

EXECUTED_STATUSES == {"COMPLETED", "SUBMITTED"}

CANCELLABLE_STATUSES == {"DRAFT", "PENDING"}

\* The step a request is about to take; "done" and "failed" requests have
\* returned a result or an error, "stopped" ones will do neither.
Steps ==
    {"idle", "created", "proposed",
     "expiring", "checking", "voting", "rejecting", "cancelling",
     "counting", "approving",
     "execute", "submit", "pay", "settle", "unsettle", "consume", "caught",
     "executed", "done", "failed", "stopped"}

ApprovalCount == Cardinality(votes \cap Approvals)

HasVoted(u) == \E r \in votes : UserOf[r] = u

\* Requests that have money on the ledger or may still put it there.
Spenders ==
    paid \cup {h \in Handlers : pc[h] \in {"pay", "settle", "consume"}}

\* The row does not show that money moved or is moving.
Hidden == Spenders # {} /\ row \notin EXECUTED_STATUSES

Init ==
    /\ row = "NONE"
    /\ required = 0
    /\ proposal = "NONE"
    /\ expired = FALSE
    /\ votes = {}
    /\ spendable = TRUE
    /\ paid = {}
    /\ lostTrack = FALSE
    /\ pc = [h \in Handlers |-> "idle"]

Goto(h, step) == pc' = [pc EXCEPT ![h] = step]

\* Part of every step: record whether it hides a payment.
Track == lostTrack' = (lostTrack \/ Hidden')

-----------------------------------------------------------------------------
(* createTransaction                                                       *)

\* The checks before the row either throw, leaving nothing, or decide whether
\* and how many approvals are needed; then the DRAFT row is written.
CreateRow ==
    /\ pc[Creator] = "idle"
    /\ row' = "DRAFT"
    /\ required' \in 0..2
    /\ Goto(Creator, IF required' = 0 THEN "execute" ELSE "created")
    /\ UNCHANGED <<proposal, expired, votes, spendable, paid>>
    /\ Track

CreateProposal ==
    /\ pc[Creator] = "created"
    /\ proposal' = "PENDING"
    /\ Goto(Creator, "proposed")
    /\ UNCHANGED <<row, required, expired, votes, spendable, paid>>
    /\ Track

\* The update after createProposal carries no condition on the status it
\* replaces.
MarkPending ==
    /\ pc[Creator] = "proposed"
    /\ row' = "PENDING"
    /\ Goto(Creator, "done")
    /\ UNCHANGED <<required, proposal, expired, votes, spendable, paid>>
    /\ Track

-----------------------------------------------------------------------------
(* ApprovalService.decide                                                  *)

DecideRead(r) ==
    /\ pc[r] = "idle"
    /\ proposal # "NONE"
    /\ Goto(r, IF proposal # "PENDING" THEN "failed"
               ELSE IF expired THEN "expiring" ELSE "checking")
    /\ UNCHANGED <<row, required, proposal, expired, votes, spendable, paid>>
    /\ Track

DecideExpire(r) ==
    /\ pc[r] = "expiring"
    /\ proposal' = "EXPIRED"
    /\ Goto(r, "failed")
    /\ UNCHANGED <<row, required, expired, votes, spendable, paid>>
    /\ Track

\* findApprovalByUser
DecideCheckVote(r) ==
    /\ pc[r] = "checking"
    /\ Goto(r, IF HasVoted(UserOf[r]) THEN "failed" ELSE "voting")
    /\ UNCHANGED <<row, required, proposal, expired, votes, spendable, paid>>
    /\ Track

\* createApproval: the table has no unique constraint on (proposal, user).
DecideVote(r) ==
    /\ pc[r] = "voting"
    /\ votes' = votes \cup {r}
    /\ Goto(r, IF r \in Rejections THEN "rejecting" ELSE "counting")
    /\ UNCHANGED <<row, required, proposal, expired, spendable, paid>>
    /\ Track

DecideReject(r) ==
    /\ pc[r] = "rejecting"
    /\ proposal' = "REJECTED"
    /\ Goto(r, "cancelling")
    /\ UNCHANGED <<row, required, expired, votes, spendable, paid>>
    /\ Track

\* Mutant: every vote counts, rejections included.
DecideCount_AnyDecision(r) ==
    /\ pc[r] = "counting"
    /\ Goto(r, IF Cardinality(votes) < required THEN "done" ELSE "approving")
    /\ UNCHANGED <<row, required, proposal, expired, votes, spendable, paid>>
    /\ Track

DecideCount(r) ==
    /\ pc[r] = "counting"
    /\ Goto(r, IF ApprovalCount < required THEN "done" ELSE "approving")
    /\ UNCHANGED <<row, required, proposal, expired, votes, spendable, paid>>
    /\ Track

DecideApprove(r) ==
    /\ pc[r] = "approving"
    /\ proposal' = "APPROVED"
    /\ Goto(r, "execute")
    /\ UNCHANGED <<row, required, expired, votes, spendable, paid>>
    /\ Track

DecideExecuted(r) ==
    /\ pc[r] = "executed"
    /\ proposal' = "EXECUTED"
    /\ Goto(r, "done")
    /\ UNCHANGED <<row, required, expired, votes, spendable, paid>>
    /\ Track

-----------------------------------------------------------------------------
(* cancel, by the user and by a rejection                                  *)

CancelRow ==
    /\ row \in CANCELLABLE_STATUSES
    /\ row' = "CANCELLED"

Cancel ==
    /\ CancelRow
    /\ UNCHANGED <<required, proposal, expired, votes, spendable, paid, pc>>
    /\ Track

DecideCancel(r) ==
    /\ pc[r] = "cancelling"
    /\ \/ CancelRow /\ Goto(r, "done")
       \/ row \notin CANCELLABLE_STATUSES /\ Goto(r, "failed") /\ UNCHANGED row
    /\ UNCHANGED <<required, proposal, expired, votes, spendable, paid>>
    /\ Track

-----------------------------------------------------------------------------
(* execute                                                                 *)

ExecuteRead(h) ==
    /\ pc[h] = "execute"
    /\ Goto(h, IF row \in EXECUTED_STATUSES \/ ~spendable THEN "failed" ELSE "submit")
    /\ UNCHANGED <<row, required, proposal, expired, votes, spendable, paid>>
    /\ Track

\* Mutant: the update without the re-read.
ExecuteSubmit_NoReread(h) ==
    /\ pc[h] = "submit"
    /\ row' = "SUBMITTED"
    /\ Goto(h, "pay")
    /\ UNCHANGED <<required, proposal, expired, votes, spendable, paid>>
    /\ Track

\* The SERIALIZABLE re-read and update.
ExecuteSubmit(h) ==
    /\ pc[h] = "submit"
    /\ \/ /\ row \notin EXECUTED_STATUSES
          /\ row' = "SUBMITTED"
          /\ Goto(h, "pay")
       \/ /\ row \in EXECUTED_STATUSES
          /\ Goto(h, "failed")
          /\ UNCHANGED row
    /\ UNCHANGED <<required, proposal, expired, votes, spendable, paid>>
    /\ Track

\* submitPayment returns a successful or an unsuccessful result, or throws.
PaymentLands(h) ==
    /\ pc[h] = "pay"
    /\ paid' = paid \cup {h}
    /\ \/ Goto(h, "settle")
       \/ "ambiguous" \in Faults /\ Goto(h, "caught")
    /\ UNCHANGED <<row, required, proposal, expired, votes, spendable>>
    /\ Track

PaymentRefused(h) ==
    /\ pc[h] = "pay"
    /\ Goto(h, "unsettle") \/ Goto(h, "caught")
    /\ UNCHANGED <<row, required, proposal, expired, votes, spendable, paid>>
    /\ Track

AfterExecute(h) == IF h = Creator THEN "done" ELSE "executed"

\* Mutant: result.successful is not looked at.
RecordResult_Always(h) ==
    /\ pc[h] \in {"settle", "unsettle"}
    /\ row' = "COMPLETED"
    /\ Goto(h, "consume")
    /\ UNCHANGED <<required, proposal, expired, votes, spendable, paid>>
    /\ Track

RecordResult(h) ==
    /\ \/ pc[h] = "settle" /\ row' = "COMPLETED" /\ Goto(h, "consume")
       \/ pc[h] = "unsettle" /\ row' = "FAILED" /\ Goto(h, AfterExecute(h))
    /\ UNCHANGED <<required, proposal, expired, votes, spendable, paid>>
    /\ Track

ConsumeBudget(h) ==
    /\ pc[h] = "consume"
    /\ Goto(h, AfterExecute(h))
    /\ UNCHANGED <<row, required, proposal, expired, votes, spendable, paid>>
    /\ Track

SettlementThrows(h) ==
    /\ "settle" \in Faults
    /\ pc[h] \in {"settle", "unsettle", "consume"}
    /\ Goto(h, "caught")
    /\ UNCHANGED <<row, required, proposal, expired, votes, spendable, paid>>
    /\ Track

\* Mutant: the catch block only rethrows.
CatchFailure_NoWrite(h) ==
    /\ pc[h] = "caught"
    /\ Goto(h, "failed")
    /\ UNCHANGED <<row, required, proposal, expired, votes, spendable, paid>>
    /\ Track

\* The catch block writes FAILED whatever was thrown, and rethrows.
CatchFailure(h) ==
    /\ pc[h] = "caught"
    /\ row' = "FAILED"
    /\ Goto(h, "failed")
    /\ UNCHANGED <<required, proposal, expired, votes, spendable, paid>>
    /\ Track

-----------------------------------------------------------------------------
(* The environment                                                         *)

Stop(h) ==
    /\ "stop" \in Faults
    /\ pc[h] \notin {"idle", "done", "failed", "stopped"}
    /\ Goto(h, "stopped")
    /\ UNCHANGED <<row, required, proposal, expired, votes, spendable, paid>>
    /\ Track

Expire ==
    /\ proposal # "NONE"
    /\ ~expired
    /\ expired' = TRUE
    /\ UNCHANGED <<row, required, proposal, votes, spendable, paid, pc>>
    /\ Track

\* WalletService freezes and unfreezes wallets at any time.
FreezeOrUnfreeze ==
    /\ spendable' = ~spendable
    /\ UNCHANGED <<row, required, proposal, expired, votes, paid, pc>>
    /\ Track

Create == CreateRow \/ CreateProposal \/ MarkPending

Decide(r) ==
    \/ DecideRead(r) \/ DecideExpire(r) \/ DecideCheckVote(r) \/ DecideVote(r)
    \/ DecideReject(r) \/ DecideCancel(r)
    \/ DecideCount(r) \/ DecideApprove(r) \/ DecideExecuted(r)

ExecuteStep(h) ==
    \/ ExecuteRead(h) \/ ExecuteSubmit(h) \/ PaymentLands(h) \/ PaymentRefused(h)
    \/ RecordResult(h) \/ ConsumeBudget(h) \/ SettlementThrows(h) \/ CatchFailure(h)

Next ==
    \/ Create
    \/ \E r \in Requests : Decide(r)
    \/ \E h \in Handlers : ExecuteStep(h) \/ Stop(h)
    \/ Cancel \/ Expire \/ FreezeOrUnfreeze

Spec == Init /\ [][Next]_vars

\* A request that started is carried to its end (the event loop resumes every
\* settled await) unless it is stopped.
Fairness ==
    /\ WF_vars(Create)
    /\ \A r \in Requests : WF_vars(pc[r] # "idle" /\ Decide(r))
    /\ \A h \in Handlers : WF_vars(ExecuteStep(h))

FairSpec == Spec /\ Fairness

-----------------------------------------------------------------------------
(* Properties                                                              *)

\* The row, the proposal, the votes and the requests' steps keep their types.
TypeOK ==
    /\ row \in RowStatus
    /\ required \in 0..2
    /\ proposal \in ProposalStatus
    /\ expired \in BOOLEAN
    /\ votes \subseteq Requests
    /\ spendable \in BOOLEAN
    /\ paid \subseteq Handlers
    /\ lostTrack \in BOOLEAN
    /\ pc \in [Handlers -> Steps]

\* "once the `requiredApprovals` threshold is met the underlying transaction is
\* executed": whatever reviewers do concurrently, nothing is spent and no
\* proposal is APPROVED or EXECUTED with fewer approval rows than required.
QuorumBeforeSpending ==
    Spenders # {} \/ proposal \in {"APPROVED", "EXECUTED"} =>
        ApprovalCount >= required

\* The guarded transition of execute() lets at most one request spend, as long
\* as no later write to the row hides a payment that landed or is in flight.
OneSpenderUnlessHidden ==
    ~lostTrack => \A g, h \in Spenders : g = h

\* A COMPLETED row is the record of a payment: execute() never reports success
\* for money that did not move.
CompletedIsPaid == row = "COMPLETED" => paid # {}

\* execute() settles: a SUBMITTED row does not stay SUBMITTED, whatever submitPayment
\* and the statements after it do, unless a request was stopped between two steps.
SubmittedSettles ==
    (row = "SUBMITTED") ~> (row # "SUBMITTED" \/ \E h \in Handlers : pc[h] = "stopped")

\* Comment of execute(): the loser of a race "surfaces a ConflictException
\* *before* any funds move on-chain", so a transaction is paid at most once.
PaidAtMostOnce == Cardinality(paid) <= 1
=============================================================================
