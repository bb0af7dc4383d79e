---------------------------- MODULE MoneyProofs -----------------------------
(***************************************************************************)
(* Proofs about the intake of payments: creation under an idempotency key, *)
(* for any requests, keys and payloads, and the budgets and the daily      *)
(* limit of the agent, for any number of payments and any amounts.         *)
(***************************************************************************)
EXTENDS MCTransactionIntake, FiniteSetTheorems, TLAPS

-----------------------------------------------------------------------------
(* Creation under an idempotency key                                       *)

\* The table of records, the rows and the program counters keep their types.
THEOREM TypeCorrect == Spec => []TypeOK
  <1> USE IdempotencyAssumption DEF IdempotencyAssumption, TypeOK, IdempotencySteps
  <1>1. Init => TypeOK
    BY DEF Init
  <1>2. TypeOK /\ [Next]_idempotencyVars => TypeOK'
    <2> SUFFICES ASSUME TypeOK, [Next]_idempotencyVars PROVE TypeOK'
      OBVIOUS
    <2>1. ASSUME NEW r \in Requests, Reserve(r) PROVE TypeOK'
      BY <2>1 DEF Reserve, Purge, Insert, Lookup, Delete, Goto
    <2>2. ASSUME NEW r \in Requests, CreateFails(r) \/ CreateRow(r) \/ Die(r) PROVE TypeOK'
      BY <2>2 DEF CreateFails, CreateRow, Die, Goto
    <2>3. ASSUME NEW r \in Requests, Submit(r) PROVE TypeOK'
      BY <2>3 DEF Submit, Attach, Rest, Complete, Release, Delete, Goto
    <2>4. ASSUME Cleanup \/ \E k \in Keys : Expire(k) PROVE TypeOK'
      BY <2>4 DEF Cleanup, Expire, Delete
    <2>5. CASE UNCHANGED idempotencyVars
      BY <2>5 DEF idempotencyVars
    <2> QED
      BY <2>1, <2>2, <2>3, <2>4, <2>5 DEF Next
  <1> QED
    BY <1>1, <1>2, PTL DEF Spec

-----------------------------------------------------------------------------
(* Its inductive invariant                                                 *)

\* A stored record belongs to a request of its key that got past the insert, and
\* a request in flight has its own record, unexpired.
RecordOwned ==
    /\ \A k \in Keys :
          reserved[k] # None =>
              /\ KeyOf[reserved[k]] = k
              /\ pc[reserved[k]] \notin {"purge", "insert", "lookup"}
    /\ \A r \in Requests : InFlight(r) => reserved[KeyOf[r]] = r /\ KeyOf[r] \notin expired

\* A record with a transactionId or a response has its row, and an expired one
\* has left its mark.
RecordMeansRow ==
    /\ \A k \in attached \cup completed : reserved[k] \in rows
    /\ \A k \in expired : k \in aged /\ reserved[k] # None

\* Where a request stands says whether its row exists.
RowByStep ==
    \A r \in Requests :
        /\ pc[r] \in {"purge", "insert", "lookup", "create", "release"} => r \notin rows
        /\ pc[r] \in {"attach", "rest", "complete"} => r \in rows

\* The record of a request that wrote its row stays until it expires.
RowKeepsRecord ==
    \A r \in rows : KeyOf[r] \notin aged => reserved[KeyOf[r]] = r

IdempotencyInv ==
    /\ TypeOK /\ RecordOwned /\ RecordMeansRow /\ RowByStep /\ RowKeepsRecord
    /\ ReplayIsOriginal /\ FailureFreesKey

\* The invariant holds initially.
LEMMA InvInit == Init => IdempotencyInv
  BY IdempotencyAssumption, SMTT(30)
  DEF IdempotencyAssumption, Init, IdempotencyInv, TypeOK, IdempotencySteps, RecordOwned,
      InFlight, RecordMeansRow, RowByStep, RowKeepsRecord, ReplayIsOriginal, FailureFreesKey

\* Every step of every request, and the expiry of records, preserve the invariant.
LEMMA InvStep ==
    ASSUME IdempotencyInv, [Next]_idempotencyVars, TypeOK'
    PROVE  IdempotencyInv'
  <1> USE IdempotencyAssumption
      DEF IdempotencyAssumption, IdempotencyInv, TypeOK, IdempotencySteps, RecordOwned,
          InFlight, RecordMeansRow, RowByStep, RowKeepsRecord, ReplayIsOriginal,
          FailureFreesKey, Goto
  <1>1. ASSUME NEW r \in Requests, Purge(r) PROVE IdempotencyInv'
    BY <1>1 DEF Purge, Delete
  <1>2. ASSUME NEW r \in Requests, Insert(r) PROVE IdempotencyInv'
    BY <1>2 DEF Insert
  <1>3. ASSUME NEW r \in Requests, Lookup(r) PROVE IdempotencyInv'
    BY <1>3 DEF Lookup
  <1>4. ASSUME NEW r \in Requests, CreateFails(r) PROVE IdempotencyInv'
    BY <1>4 DEF CreateFails
  <1>5. ASSUME NEW r \in Requests, CreateRow(r) PROVE IdempotencyInv'
    BY <1>5 DEF CreateRow
  <1>6. ASSUME NEW r \in Requests, Attach(r) PROVE IdempotencyInv'
    BY <1>6 DEF Attach
  <1>7. ASSUME NEW r \in Requests, Rest(r) PROVE IdempotencyInv'
    BY <1>7 DEF Rest
  <1>8. ASSUME NEW r \in Requests, Complete(r) PROVE IdempotencyInv'
    BY <1>8 DEF Complete
  <1>9. ASSUME NEW r \in Requests, Release(r) PROVE IdempotencyInv'
    BY <1>9 DEF Release, Delete
  <1>10. ASSUME NEW r \in Requests, Die(r) PROVE IdempotencyInv'
    BY <1>10 DEF Die
  <1>11. ASSUME NEW k \in Keys, Expire(k) PROVE IdempotencyInv'
    BY <1>11 DEF Expire
  <1>12. CASE Cleanup
    BY <1>12 DEF Cleanup, Delete
  <1>13. CASE UNCHANGED idempotencyVars
    BY <1>13 DEF idempotencyVars
  <1> QED
    BY <1>1, <1>2, <1>3, <1>4, <1>5, <1>6, <1>7, <1>8, <1>9, <1>10, <1>11, <1>12, <1>13, Zenon
    DEF Next, Reserve, Submit

\* The invariant holds in every state.
LEMMA InvHolds == Spec => []IdempotencyInv
  <1>1. IdempotencyInv /\ TypeOK' /\ [Next]_idempotencyVars => IdempotencyInv'
    BY InvStep
  <1> QED
    BY <1>1, InvInit, TypeCorrect, PTL DEF Spec

-----------------------------------------------------------------------------
(* What it gives                                                           *)

\* Until a record of the key has expired, a key creates at most one transaction,
\* however its requests overlap, fail or die.
THEOREM AtMostOnceHolds == Spec => []AtMostOnce
  <1>1. IdempotencyInv => AtMostOnce
    BY DEF IdempotencyInv, RowKeepsRecord, AtMostOnce
  <1> QED
    BY <1>1, InvHolds, PTL

\* A replay returns the result of the transaction created for the same key and
\* the same payload.
THEOREM ReplayIsOriginalHolds == Spec => []ReplayIsOriginal
  <1>1. IdempotencyInv => ReplayIsOriginal
    BY DEF IdempotencyInv
  <1> QED
    BY <1>1, InvHolds, PTL

\* A request that answers without having written its row leaves no record behind.
THEOREM FailureFreesKeyHolds == Spec => []FailureFreesKey
  <1>1. IdempotencyInv => FailureFreesKey
    BY DEF IdempotencyInv
  <1> QED
    BY <1>1, InvHolds, PTL

\* Hence a key always tells the truth about its requests.
THEOREM KeyTellsTruthHolds == Spec => []KeyTellsTruth
  <1>1. ReplayIsOriginal /\ FailureFreesKey => KeyTellsTruth
    BY DEF KeyTellsTruth
  <1> QED
    BY <1>1, ReplayIsOriginalHolds, FailureFreesKeyHolds, PTL

-----------------------------------------------------------------------------
(* Sums of amounts                                                         *)

Units(ps) == UNION {{p} \X (1..AmountOf[p]) : p \in ps}

LEMMA UnitsFinite ==
  ASSUME NEW ps \in SUBSET Payments
  PROVE  IsFiniteSet(Units(ps))
  <1> USE BudgetAssumption
  <1> DEFINE F == [p \in ps |-> {p} \X (1..AmountOf[p])]
             S == {{p} \X (1..AmountOf[p]) : p \in ps}
  <1>1. IsFiniteSet(ps)
    BY FS_Subset
  <1>2. F \in Surjection(ps, S)
    BY Zenon DEF Surjection
  <1>3. \A T \in S : IsFiniteSet(T)
    <2> SUFFICES ASSUME NEW p \in ps PROVE IsFiniteSet({p} \X (1..AmountOf[p]))
      OBVIOUS
    <2>1. AmountOf[p] \in Int
      OBVIOUS
    <2>2. IsFiniteSet(1..AmountOf[p])
      BY <2>1, FS_Interval
    <2>3. IsFiniteSet({p})
      BY FS_Singleton, Zenon
    <2> QED BY <2>2, <2>3, FS_Product
  <1>4. IsFiniteSet(S)
    <2> HIDE DEF F, S
    <2> QED BY <1>1, <1>2, FS_Surjection
  <1>5. IsFiniteSet(UNION S)
    <2> HIDE DEF S
    <2> QED BY <1>3, <1>4, FS_UNION
  <1> QED BY <1>5 DEF Units

\* A sum is a number and grows with the set.
LEMMA TotalGrows ==
  ASSUME NEW qs \in SUBSET Payments, NEW ps \in SUBSET qs
  PROVE  Total(ps) \in Nat /\ Total(qs) \in Nat /\ Total(ps) <= Total(qs)
  <1>1. IsFiniteSet(Units(qs)) /\ IsFiniteSet(Units(ps))
    BY UnitsFinite
  <1>2. Units(ps) \in SUBSET Units(qs)
    BY DEF Units
  <1>3. /\ Cardinality(Units(ps)) \in Nat /\ Cardinality(Units(qs)) \in Nat
        /\ Cardinality(Units(ps)) <= Cardinality(Units(qs))
    BY <1>1, <1>2, FS_Subset, FS_CardinalityType
  <1> QED BY <1>3 DEF Total, Units

\* The sum over two sets is at most the sum of the sums.
LEMMA TotalOfUnion ==
  ASSUME NEW ps \in SUBSET Payments, NEW qs \in SUBSET Payments
  PROVE  Total(ps \cup qs) <= Total(ps) + Total(qs)
  <1>1. IsFiniteSet(Units(qs)) /\ IsFiniteSet(Units(ps))
    BY UnitsFinite
  <1>2. Units(ps \cup qs) = Units(ps) \cup Units(qs)
    BY DEF Units
  <1>3. IsFiniteSet(Units(ps) \cap Units(qs))
    BY <1>1, FS_Subset
  <1>4. /\ Cardinality(Units(ps)) \in Nat /\ Cardinality(Units(qs)) \in Nat
        /\ Cardinality(Units(ps) \cap Units(qs)) \in Nat
    BY <1>1, <1>3, FS_CardinalityType
  <1>5. Cardinality(Units(ps) \cup Units(qs))
          = Cardinality(Units(ps)) + Cardinality(Units(qs)) - Cardinality(Units(ps) \cap Units(qs))
    BY <1>1, FS_Union
  <1>6. Cardinality(Units(ps \cup qs)) <= Cardinality(Units(ps)) + Cardinality(Units(qs))
    <2> DEFINE a == Cardinality(Units(ps))
               b == Cardinality(Units(qs))
               c == Cardinality(Units(ps) \cap Units(qs))
    <2>1. a \in Nat /\ b \in Nat /\ c \in Nat /\ Cardinality(Units(ps \cup qs)) = a + b - c
      BY <1>2, <1>4, <1>5, Zenon
    <2> HIDE DEF a, b, c
    <2>2. Cardinality(Units(ps \cup qs)) <= a + b
      BY <2>1
    <2> QED BY <2>2 DEF a, b
  <1> QED BY <1>6 DEF Total, Units

LEMMA TotalOfOne == ASSUME NEW p \in Payments PROVE Total({p}) = AmountOf[p]
  <1> USE BudgetAssumption
  <1>1. Units({p}) = {p} \X (1..AmountOf[p])
    BY DEF Units
  <1>2. AmountOf[p] \in Nat
    OBVIOUS
  <1>3. IsFiniteSet({p}) /\ Cardinality({p}) = 1
    BY FS_Singleton, Zenon
  <1>4. ASSUME NEW n \in Nat PROVE IsFiniteSet(1..n) /\ Cardinality(1..n) = n
    <2>1. IsFiniteSet(1..n) /\ Cardinality(1..n) = IF 1 > n THEN 0 ELSE n - 1 + 1
      BY FS_Interval
    <2> QED BY <2>1
  <1>5. ASSUME NEW n \in Nat PROVE Cardinality({p} \X (1..n)) = n
    <2> DEFINE T == 1..n
    <2>1. IsFiniteSet(T) /\ Cardinality(T) = n
      BY <1>4
    <2> HIDE DEF T
    <2>2. Cardinality({p} \X T) = Cardinality({p}) * Cardinality(T)
      BY <1>3, <2>1, FS_Product, SMTT(30)
    <2>3. Cardinality({p} \X T) = 1 * n
      BY <1>3, <2>1, <2>2
    <2>4. Cardinality({p} \X T) = n
      BY <2>3
    <2> QED BY <2>4 DEF T
  <1>6. Cardinality({p} \X (1..AmountOf[p])) = AmountOf[p]
    BY <1>2, <1>5
  <1> QED BY <1>1, <1>6, Zenon DEF Total, Units

LEMMA TotalOfNone == Total({}) = 0
  <1>1. Units({}) = {}
    BY DEF Units
  <1> QED BY <1>1, FS_EmptySet DEF Total, Units

-----------------------------------------------------------------------------
(* The invariant                                                           *)

\* A request that may still proceed.
Alive(p) == p \in Requests => pc[p] # "dead"

\* The sets, and where a payment stands by its step.
PaymentsInOrder ==
    /\ status \in [Payments -> PaymentStatus] /\ step \in [Payments -> PaymentSteps]
    /\ paid \in SUBSET Payments /\ consumed \in SUBSET Payments /\ spentRead \in SUBSET Payments
    /\ missed \in SUBSET Payments /\ raced \in SUBSET Payments
    /\ \A p \in Payments :
        /\ step[p] \in {"limits", "budget", "lock", "readRows", "row", "refused"} => status[p] = "NONE"
        /\ step[p] = "open" => status[p] \in {"DRAFT", "PENDING"}
        /\ step[p] \in {"pay", "complete"} => status[p] = "SUBMITTED"
        /\ step[p] \in {"consume", "increment"} => status[p] = "COMPLETED"
        /\ step[p] = "caught" => status[p] \in {"SUBMITTED", "COMPLETED"}
        /\ step[p] \in {"complete", "consume", "increment"} => p \in paid
        /\ p \in paid => step[p] \in {"complete", "consume", "increment", "caught", "done"}
        /\ status[p] = "COMPLETED" => p \in paid

\* The lock of the agent is with whoever has read the budgets and has no row yet.
LockHeld ==
    \A p \in Payments : step[p] \in {"readRows", "row"} /\ Alive(p) => agentLock = p

\* The payments that have passed the limit check and may be paid, or are.
Passed ==
    {q \in Payments :
        /\ step[q] \notin {"limits", "refused"}
        /\ status[q] \notin {"FAILED", "CANCELLED"} \/ q \in paid}

\* The payment that holds the lock past its check still fits.
Headroom ==
    \A b \in AgentBudgets :
        /\ Total(Exposure(b)) <= LimitOf[b] + Total(missed)
        /\ \A p \in Payments :
             step[p] = "row" /\ Alive(p) => Total(Exposure(b) \cup {p}) <= LimitOf[b] + Total(missed)

MoneyInv ==
    /\ PaymentsInOrder /\ LockHeld /\ Headroom
    /\ Total(Passed) <= DailyLimit + Total(raced)
    /\ pc \in [Requests -> IdempotencySteps]

-----------------------------------------------------------------------------

LEMMA Subsets ==
  ASSUME PaymentsInOrder, NEW b
  PROVE  /\ Passed \in SUBSET Payments /\ Counted \in SUBSET Payments /\ Unaccounted \in SUBSET Payments
         /\ Exposure(b) \in SUBSET Payments /\ Counted \cup paid \in SUBSET Passed
  <1> QED
    BY DEF PaymentsInOrder, Passed, Counted, Unaccounted, Exposure, SpentOn, PaymentSteps, PaymentStatus

LEMMA MoneyStarts == IntakeInit => MoneyInv
  <1> SUFFICES ASSUME IntakeInit PROVE MoneyInv
    OBVIOUS
  <1> USE BudgetAssumption DEF IntakeInit, BudgetInit, Init
  <1>1. PaymentsInOrder
    BY DEF PaymentsInOrder, PaymentStatus, PaymentSteps
  <1>2. LockHeld /\ Passed = {} /\ pc \in [Requests -> IdempotencySteps]
    BY DEF LockHeld, Passed, IdempotencySteps
  <1>3. \A b \in AgentBudgets : Exposure(b) = {}
    BY DEF Exposure, Unaccounted, SpentOn
  <1>4. Headroom
    <2>1. \A b \in AgentBudgets : LimitOf[b] \in Nat
      OBVIOUS
    <2>2. missed = {} /\ \A p \in Payments : step[p] # "row"
      OBVIOUS
    <2>3. Total(missed) = 0 /\ \A b \in AgentBudgets : Total(Exposure(b)) = 0
      BY <1>3, <2>2, TotalOfNone, SMTT(30)
    <2> HIDE DEF IntakeInit, BudgetInit, Init
    <2> QED BY <2>1, <2>2, <2>3 DEF Headroom
  <1>5. Total(Passed) <= DailyLimit + Total(raced)
    BY <1>2, TotalOfNone
  <1> QED BY <1>1, <1>2, <1>4, <1>5 DEF MoneyInv

\* A step that neither adds to what is exposed nor takes a payment past its check.
LEMMA HeadroomStays ==
  ASSUME PaymentsInOrder, PaymentsInOrder', Headroom, missed \subseteq missed',
         \A b \in AgentBudgets : Exposure(b)' \subseteq Exposure(b),
         \A p \in Payments : step'[p] = "row" /\ Alive(p)' => step[p] = "row" /\ Alive(p)
  PROVE  Headroom'
  <1> USE BudgetAssumption
  <1> SUFFICES ASSUME NEW b \in AgentBudgets
               PROVE  /\ Total(Exposure(b)') <= LimitOf[b] + Total(missed')
                      /\ \A p \in Payments : step'[p] = "row" /\ Alive(p)'
                            => Total(Exposure(b)' \cup {p}) <= LimitOf[b] + Total(missed')
    BY SMTT(30) DEF Headroom, Total
  <1>1. /\ missed \in SUBSET Payments /\ missed' \in SUBSET Payments
        /\ Exposure(b) \in SUBSET Payments /\ Exposure(b)' \in SUBSET Exposure(b)
    BY Subsets, SMTT(30) DEF PaymentsInOrder
  <1>2. Total(missed) \in Nat /\ Total(missed') \in Nat /\ Total(missed) <= Total(missed') /\ LimitOf[b] \in Nat
    BY <1>1, TotalGrows, SMTT(30)
  <1>3. Total(Exposure(b)') <= LimitOf[b] + Total(missed')
    <2>1. /\ Total(Exposure(b)') \in Nat /\ Total(Exposure(b)) \in Nat
          /\ Total(Exposure(b)') <= Total(Exposure(b))
      BY <1>1, TotalGrows, SMTT(30)
    <2>2. Total(Exposure(b)) <= LimitOf[b] + Total(missed)
      BY SMTT(30) DEF Headroom
    <2> QED BY <1>2, <2>1, <2>2, SMTT(30)
  <1>4. ASSUME NEW p \in Payments, step'[p] = "row", Alive(p)'
        PROVE  Total(Exposure(b)' \cup {p}) <= LimitOf[b] + Total(missed')
    <2>0. /\ Exposure(b) \cup {p} \in SUBSET Payments
          /\ Exposure(b)' \cup {p} \in SUBSET (Exposure(b) \cup {p})
      BY <1>1, SMTT(30)
    <2>1. /\ Total(Exposure(b)' \cup {p}) \in Nat /\ Total(Exposure(b) \cup {p}) \in Nat
          /\ Total(Exposure(b)' \cup {p}) <= Total(Exposure(b) \cup {p})
      BY <2>0, TotalGrows, SMTT(30)
    <2>2. Total(Exposure(b) \cup {p}) <= LimitOf[b] + Total(missed)
      BY <1>4 DEF Headroom
    <2> QED BY <1>2, <2>1, <2>2
  <1> QED BY <1>3, <1>4, SMTT(30)

\* Nor one past the limit check.
LEMMA PassedStays ==
  ASSUME PaymentsInOrder, PaymentsInOrder', Total(Passed) <= DailyLimit + Total(raced),
         raced \subseteq raced', Passed' \subseteq Passed
  PROVE  (Total(Passed) <= DailyLimit + Total(raced))'
  <1> USE BudgetAssumption
  <1>1. /\ raced' \in SUBSET Payments /\ raced \in SUBSET raced'
        /\ Passed \in SUBSET Payments /\ Passed' \in SUBSET Passed
    BY Subsets DEF PaymentsInOrder
  <1>2. /\ Total(raced) \in Nat /\ Total(raced') \in Nat /\ Total(raced) <= Total(raced')
        /\ Total(Passed) \in Nat /\ Total(Passed') \in Nat /\ Total(Passed') <= Total(Passed)
    BY <1>1, TotalGrows
  <1>3. Total(Passed') <= DailyLimit + Total(raced')
    BY <1>2, SMTT(30)
  <1> QED BY <1>3, SMTT(30) DEF Total

-----------------------------------------------------------------------------
(* The steps                                                               *)

\* What the steps of a payment do to the sets and the statuses.
LEMMA OrderKept ==
  ASSUME PaymentsInOrder, NEW p \in Payments, Check(p) \/ WriteRow(p) \/ Settle(p)
  PROVE  PaymentsInOrder'
  <1> USE BudgetAssumption DEF PaymentsInOrder, PaymentStatus, PaymentSteps, Step, SetStatus
  <1>1. CASE EvaluateLimits(p)
    BY <1>1, SMTT(30) DEF EvaluateLimits, Uncounted
  <1>2. CASE AssertWithinBudget(p)
    BY <1>2, SMTT(30) DEF AssertWithinBudget
  <1>3. CASE LockAgent(p)
    BY <1>3, SMTT(30) DEF LockAgent
  <1>4. CASE ReadRows(p)
    BY <1>4, SMTT(30) DEF ReadRows, Unseen
  <1>5. CASE Refuse(p)
    BY <1>5, SMTT(30) DEF Refuse
  <1>6. CASE WriteRow(p)
    BY <1>6, SMTT(30) DEF WriteRow
  <1>7. CASE MarkPending(p)
    BY <1>7, SMTT(30) DEF MarkPending
  <1>8. CASE Cancel(p)
    BY <1>8, SMTT(30) DEF Cancel
  <1>9. CASE SubmitPayment(p)
    BY <1>9, SMTT(30) DEF SubmitPayment
  <1>10. CASE Pay(p)
    BY <1>10, SMTT(30) DEF Pay
  <1>11. CASE MarkCompleted(p)
    BY <1>11, SMTT(30) DEF MarkCompleted
  <1>12. CASE Consume(p)
    BY <1>12, SMTT(30) DEF Consume
  <1>13. CASE IncrementSpent(p)
    BY <1>13, SMTT(30) DEF IncrementSpent
  <1>14. CASE CatchFailure(p)
    BY <1>14, SMTT(30) DEF CatchFailure
  <1> QED
    BY <1>1, <1>2, <1>3, <1>4, <1>5, <1>6, <1>7, <1>8, <1>9, <1>10, <1>11, <1>12, <1>13, <1>14,
       ZenonT(60)
          DEF Check, Settle

\* Only passing the limit check adds to Passed.
LEMMA PassedShrinks ==
  ASSUME PaymentsInOrder, NEW p \in Payments, Check(p) \/ WriteRow(p) \/ Settle(p), ~ EvaluateLimits(p)
  PROVE  Passed' \subseteq Passed /\ raced' = raced
  <1> USE DEF PaymentsInOrder, PaymentStatus, PaymentSteps, Step, SetStatus, Passed
  <1>2. CASE AssertWithinBudget(p)
    BY <1>2 DEF AssertWithinBudget
  <1>3. CASE LockAgent(p)
    BY <1>3, SMTT(30) DEF LockAgent
  <1>4. CASE ReadRows(p)
    BY <1>4 DEF ReadRows
  <1>5. CASE Refuse(p)
    BY <1>5, SMTT(30) DEF Refuse
  <1>6. CASE WriteRow(p)
    BY <1>6, SMTT(30) DEF WriteRow
  <1>7. CASE MarkPending(p)
    BY <1>7, SMTT(30) DEF MarkPending
  <1>8. CASE Cancel(p)
    BY <1>8, SMTT(30) DEF Cancel
  <1>9. CASE SubmitPayment(p)
    BY <1>9, SMTT(30) DEF SubmitPayment
  <1>10. CASE Pay(p)
    BY <1>10, SMTT(30) DEF Pay
  <1>11. CASE MarkCompleted(p)
    BY <1>11, SMTT(30) DEF MarkCompleted
  <1>12. CASE Consume(p)
    BY <1>12, SMTT(30) DEF Consume
  <1>13. CASE IncrementSpent(p)
    BY <1>13, SMTT(30) DEF IncrementSpent
  <1>14. CASE CatchFailure(p)
    BY <1>14, SMTT(30) DEF CatchFailure
  <1> QED
    BY <1>2, <1>3, <1>4, <1>5, <1>6, <1>7, <1>8, <1>9, <1>10, <1>11, <1>12, <1>13, <1>14, ZenonT(60)
          DEF Check, Settle

\* Only a row adds to what is exposed.
LEMMA ExposureShrinks ==
  ASSUME PaymentsInOrder, NEW p \in Payments, Check(p) \/ Settle(p), NEW b \in AgentBudgets
  PROVE  Exposure(b)' \subseteq Exposure(b) /\ missed \subseteq missed'
  <1> USE BudgetAssumption DEF PaymentsInOrder, PaymentStatus, Step, SetStatus, Exposure, Unaccounted,
        SpentOn
  <1>1. CASE Check(p)
    BY <1>1, Zenon DEF Check, EvaluateLimits, AssertWithinBudget, LockAgent, ReadRows, Refuse
  <1>7. CASE MarkPending(p)
    BY <1>7, SMTT(30) DEF MarkPending
  <1>8. CASE Cancel(p)
    BY <1>8, SMTT(30) DEF Cancel
  <1>9. CASE SubmitPayment(p)
    BY <1>9, SMTT(30) DEF SubmitPayment
  <1>10. CASE Pay(p)
    BY <1>10, SMTT(30) DEF Pay
  <1>11. CASE MarkCompleted(p)
    BY <1>11, SMTT(30) DEF MarkCompleted
  <1>12. CASE Consume(p)
    BY <1>12, SMTT(30) DEF Consume
  <1>13. CASE IncrementSpent(p)
    BY <1>13, SMTT(30) DEF IncrementSpent
  <1>14. CASE CatchFailure(p)
    BY <1>14, SMTT(30) DEF CatchFailure
  <1> QED BY <1>1, <1>7, <1>8, <1>9, <1>10, <1>11, <1>12, <1>13, <1>14, SMTT(30) DEF Settle

\* The limit check sees Counted; what it does not see goes into raced.
LEMMA LimitsKeepPassed ==
  ASSUME PaymentsInOrder, PaymentsInOrder', Total(Passed) <= DailyLimit + Total(raced),
         NEW p \in Payments, EvaluateLimits(p)
  PROVE  (Total(Passed) <= DailyLimit + Total(raced))'
  <1> USE BudgetAssumption
  <1>1. CASE Total(Counted) + AmountOf[p] <= DailyLimit /\ raced' = raced \cup Uncounted(p) /\ Step(p, "budget")
    <2>1. Passed' \subseteq Counted \cup Uncounted(p) \cup {p}
      BY <1>1, SMTT(30)
      DEF EvaluateLimits, Passed, Counted, Uncounted, Step, PaymentsInOrder, PaymentStatus
    <2>2. /\ Counted \in SUBSET Payments /\ Uncounted(p) \in SUBSET Payments /\ {p} \in SUBSET Payments
          /\ raced' \in SUBSET Payments /\ Uncounted(p) \in SUBSET raced'
      BY <1>1 DEF Counted, Uncounted, PaymentsInOrder
    <2>3. /\ Total(Counted \cup Uncounted(p)) <= Total(Counted) + Total(Uncounted(p))
          /\ Total(Counted \cup Uncounted(p) \cup {p}) <= Total(Counted \cup Uncounted(p)) + Total({p})
      BY <2>2, TotalOfUnion, SMTT(30)
    <2>4. /\ Total(Counted) \in Nat /\ Total(Uncounted(p)) \in Nat /\ Total(raced') \in Nat
          /\ Total(Uncounted(p)) <= Total(raced') /\ Total(Counted \cup Uncounted(p)) \in Nat
      BY <2>2, TotalGrows
    <2>5. /\ Total(Passed') \in Nat /\ Total(Counted \cup Uncounted(p) \cup {p}) \in Nat
          /\ Total(Passed') <= Total(Counted \cup Uncounted(p) \cup {p})
      <3>1. Counted \cup Uncounted(p) \cup {p} \in SUBSET Payments
        BY <2>2
      <3> QED BY <2>1, <3>1, TotalGrows
    <2>6. Total({p}) = AmountOf[p] /\ AmountOf[p] \in Nat
      BY TotalOfOne, SMTT(30)
    <2>7. Total(Passed') <= DailyLimit + Total(raced')
      BY <1>1, <2>3, <2>4, <2>5, <2>6
    <2> QED BY <2>7, SMTT(30) DEF Total
  <1>2. CASE raced' = raced /\ Step(p, "refused")
    <2>1. Passed' \subseteq Passed
      BY <1>2 DEF EvaluateLimits, Passed, Step, PaymentsInOrder
    <2> QED BY <1>2, <2>1, PassedStays, SMTT(30)
  <1> QED BY <1>1, <1>2, SMTT(30) DEF EvaluateLimits

\* The budget check sees the rows and what it had read of Budget.spent; what it does not
\* see goes into missed.
LEMMA ReadKeepsHeadroom ==
  ASSUME PaymentsInOrder, PaymentsInOrder', LockHeld, Headroom,
         NEW p \in Payments, Alive(p), ReadRows(p), pc' = pc
  PROVE  Headroom'
  <1> USE BudgetAssumption
  <1>0. /\ step[p] = "readRows" /\ UNCHANGED <<status, paid, consumed>>
        /\ \A q \in Payments : Alive(q)' = Alive(q)
    BY SMTT(30) DEF ReadRows, Alive
  <1>1. \A b : Exposure(b)' = Exposure(b)
    BY <1>0 DEF Exposure, Unaccounted, SpentOn
  <1>2. \A q \in Payments : step[q] = "row" /\ Alive(q) => FALSE
    BY <1>0, SMTT(30) DEF LockHeld
  <1>3. CASE agentLock' = Nobody /\ Step(p, "refused") /\ UNCHANGED missed
    <2>1. \A q \in Payments : step'[q] = "row" => step[q] = "row"
      BY <1>3, SMTT(30) DEF Step, PaymentsInOrder
    <2> QED BY <1>0, <1>1, <1>3, <2>1, HeadroomStays, ZenonT(60)
  <1>4. CASE /\ \A b \in AgentBudgets :
                   Total(SpentOn(b, spentRead)) + Total(Unaccounted) + AmountOf[p] <= LimitOf[b]
             /\ missed' = missed \cup Unseen /\ Step(p, "row")
    <2>1. \A q \in Payments : step'[q] = "row" /\ Alive(q) => q = p
      BY <1>2, <1>4, ZenonT(60) DEF Step, PaymentsInOrder
    <2>2. ASSUME NEW b \in AgentBudgets
          PROVE  /\ Total(Exposure(b)) <= LimitOf[b] + Total(missed')
                 /\ Total(Exposure(b) \cup {p}) <= LimitOf[b] + Total(missed')
      <3> DEFINE S == SpentOn(b, spentRead)
      <3>1. Exposure(b) \subseteq Unaccounted \cup S \cup Unseen
        BY SMTT(30) DEF Exposure, SpentOn, Unseen
      <3>2. /\ S \in SUBSET Payments /\ Unaccounted \in SUBSET Payments /\ Unseen \in SUBSET Payments
            /\ {p} \in SUBSET Payments /\ missed' \in SUBSET Payments /\ Unseen \in SUBSET missed'
        BY <1>4, Subsets DEF SpentOn, Unseen, PaymentsInOrder
      <3> HIDE DEF S
      <3> DEFINE U == Unaccounted \cup S
                 V == U \cup Unseen
                 W == V \cup {p}
      <3>3. /\ Total(U) <= Total(Unaccounted) + Total(S)
            /\ Total(V) <= Total(U) + Total(Unseen)
            /\ Total(W) <= Total(V) + Total({p})
        BY <3>2, TotalOfUnion, Zenon
      <3>4. W \in SUBSET Payments /\ Exposure(b) \cup {p} \in SUBSET W /\ Exposure(b) \in SUBSET W
            /\ U \in SUBSET W /\ V \in SUBSET W /\ U \in SUBSET Payments /\ V \in SUBSET Payments
        BY <3>1, <3>2
      <3> HIDE DEF U, V, W
      <3>5. /\ Total(S) \in Nat /\ Total(Unaccounted) \in Nat /\ Total(Unseen) \in Nat /\ Total(missed') \in Nat
            /\ Total(Unseen) <= Total(missed') /\ Total(U) \in Nat /\ Total(V) \in Nat /\ Total(W) \in Nat
        BY <3>2, <3>4, TotalGrows
      <3>6. /\ Total(Exposure(b)) \in Nat /\ Total(Exposure(b)) <= Total(W)
            /\ Total(Exposure(b) \cup {p}) \in Nat /\ Total(Exposure(b) \cup {p}) <= Total(W)
        BY <3>4, TotalGrows
      <3>7. Total({p}) = AmountOf[p] /\ AmountOf[p] \in Nat /\ LimitOf[b] \in Nat
        BY TotalOfOne
      <3>8. Total(S) + Total(Unaccounted) + AmountOf[p] <= LimitOf[b]
        BY <1>4 DEF S
      <3>9. Total(W) <= LimitOf[b] + Total(missed')
        BY <3>3, <3>5, <3>7, <3>8, SMTT(30)
      <3> QED BY <3>5, <3>6, <3>7, <3>9
    <2>3. \A b \in AgentBudgets :
            /\ Total(Exposure(b)') <= LimitOf[b] + Total(missed')
            /\ \A q \in Payments : step'[q] = "row" /\ Alive(q)'
                  => Total(Exposure(b)' \cup {q}) <= LimitOf[b] + Total(missed')
      BY <1>0, <1>1, <2>1, <2>2, ZenonT(60)
    <2> QED BY <2>3, ZenonT(60) DEF Headroom, Total
  <1> QED BY <1>3, <1>4, SMTT(30) DEF ReadRows

\* The row that is written was counted in the check, and the lock kept others out.
LEMMA RowKeepsHeadroom ==
  ASSUME PaymentsInOrder, PaymentsInOrder', LockHeld, Headroom,
         NEW p \in Payments, Alive(p), WriteRow(p), \A q \in Payments : Alive(q)' => Alive(q)
  PROVE  Headroom'
  <1> USE BudgetAssumption
  <1>1. /\ step[p] = "row" /\ missed' = missed
        /\ \A b \in AgentBudgets : Exposure(b)' \subseteq Exposure(b) \cup {p}
    BY Zenon DEF WriteRow, SetStatus, Exposure, Unaccounted, SpentOn, PaymentsInOrder
  <1>2. \A q \in Payments : step'[q] = "row" /\ Alive(q) => FALSE
    BY <1>1 DEF WriteRow, Step, LockHeld, PaymentsInOrder
  <1>3. ASSUME NEW b \in AgentBudgets PROVE Total(Exposure(b)') <= LimitOf[b] + Total(missed')
    <2>1. Exposure(b) \cup {p} \in SUBSET Payments /\ Exposure(b)' \in SUBSET (Exposure(b) \cup {p})
          /\ missed \in SUBSET Payments
      BY <1>1, Subsets DEF PaymentsInOrder
    <2>2. /\ Total(Exposure(b)') \in Nat /\ Total(Exposure(b) \cup {p}) \in Nat /\ Total(missed) \in Nat
          /\ Total(Exposure(b)') <= Total(Exposure(b) \cup {p})
      BY <2>1, TotalGrows, SMTT(30)
    <2>3. Total(Exposure(b) \cup {p}) <= LimitOf[b] + Total(missed) /\ LimitOf[b] \in Nat
      BY <1>1, SMTT(30) DEF Headroom
    <2> QED BY <1>1, <2>2, <2>3, SMTT(30)
  <1> QED BY <1>2, <1>3 DEF Headroom, Total

\* The lock is taken when it is free, and left with the row or the refusal.
LEMMA LockKept ==
  ASSUME PaymentsInOrder, LockHeld, NEW p \in Payments, Settle(p) \/ (Alive(p) /\ (Check(p) \/ WriteRow(p))),
         \A q \in Payments : Alive(q)' => Alive(q)
  PROVE  LockHeld'
  <1> USE BudgetAssumption DEF PaymentsInOrder, LockHeld, Step
  <1> SUFFICES ASSUME NEW q \in Payments, step'[q] \in {"readRows", "row"}, Alive(q)
               PROVE  agentLock' = q
    BY SMTT(30)
  <1>1. CASE EvaluateLimits(p) \/ AssertWithinBudget(p) \/ Refuse(p)
    BY <1>1, SMTT(30) DEF EvaluateLimits, AssertWithinBudget, Refuse
  <1>2. CASE LockAgent(p)
    BY <1>2, SMTT(30) DEF LockAgent
  <1>3. CASE Alive(p) /\ (ReadRows(p) \/ WriteRow(p))
    BY <1>3, SMTT(30) DEF ReadRows, WriteRow
  <1>4. CASE Settle(p)
    BY <1>4
    DEF Settle, MarkPending, Cancel, SubmitPayment, Pay, MarkCompleted, Consume, IncrementSpent,
        CatchFailure
  <1> QED BY <1>1, <1>2, <1>3, <1>4, SMTT(30) DEF Check

\* A step of one payment, while its request, if it has one, is alive or need not be.
LEMMA PaymentKeepsMoney ==
  ASSUME MoneyInv, NEW p \in Payments,
         \/ Settle(p) /\ UNCHANGED pc
         \/ Alive(p) /\ Check(p) /\ UNCHANGED pc
         \/ Alive(p) /\ WriteRow(p),
         pc' \in [Requests -> IdempotencySteps], \A q \in Payments : Alive(q)' => Alive(q)
  PROVE  MoneyInv'
  <1>0. /\ PaymentsInOrder /\ LockHeld /\ Headroom /\ Total(Passed) <= DailyLimit + Total(raced)
    BY DEF MoneyInv
  <1>1. PaymentsInOrder'
    BY <1>0, OrderKept
  <1>2. LockHeld'
    <2>1. Settle(p) \/ (Alive(p) /\ (Check(p) \/ WriteRow(p)))
      OBVIOUS
    <2> QED BY <1>0, <2>1, LockKept
  <1>3. (Total(Passed) <= DailyLimit + Total(raced))'
    <2>1. CASE EvaluateLimits(p)
      BY <1>0, <1>1, <2>1, LimitsKeepPassed
    <2>2. CASE ~ EvaluateLimits(p)
      <3>1. Passed' \subseteq Passed /\ raced' = raced
        BY <1>0, <2>2, PassedShrinks
      <3> QED BY <1>0, <1>1, <3>1, PassedStays
    <2> QED BY <2>1, <2>2
  <1>4. Headroom'
    <2>1. CASE Alive(p) /\ ReadRows(p) /\ pc' = pc
      BY <1>0, <1>1, <2>1, ReadKeepsHeadroom
    <2>2. CASE Alive(p) /\ WriteRow(p)
      BY <1>0, <1>1, <2>2, RowKeepsHeadroom, SMTT(30)
    <2>3. CASE (Check(p) \/ Settle(p)) /\ ~ ReadRows(p)
      <3>1. \A q \in Payments : step'[q] = "row" => step[q] = "row"
        BY <1>0, <2>3, Zenon
        DEF PaymentsInOrder, Step, Check, Settle, EvaluateLimits, AssertWithinBudget, LockAgent, Refuse,
           MarkPending, Cancel, SubmitPayment, Pay, MarkCompleted, Consume, IncrementSpent, CatchFailure
      <3>2. \A b \in AgentBudgets : Exposure(b)' \subseteq Exposure(b)
        BY <1>0, <2>3, ExposureShrinks, SMTT(30)
      <3>3. missed \subseteq missed'
        BY <2>3, ZenonT(60) DEF Check, Settle, EvaluateLimits, AssertWithinBudget, LockAgent, Refuse,
           MarkPending, Cancel, SubmitPayment, Pay, MarkCompleted, Consume, IncrementSpent, CatchFailure
      <3> QED BY <1>0, <1>1, <3>1, <3>2, <3>3, HeadroomStays, SMTT(30)
    <2>4. CASE Settle(p) /\ ReadRows(p)
      BY <2>4, Zenon
      DEF Settle, ReadRows, MarkPending, Cancel, SubmitPayment, Pay, MarkCompleted, Consume,
          IncrementSpent, CatchFailure
    <2> QED BY <2>1, <2>2, <2>3, <2>4
  <1> QED BY <1>1, <1>2, <1>3, <1>4 DEF MoneyInv

\* Requests come and go without touching a payment; a lock may outlive its holder.
LEMMA OthersKeepMoney ==
  ASSUME MoneyInv, UNCHANGED <<status, paid, consumed, spentRead, missed, raced, step>>,
         agentLock' = agentLock \/ (AgentLockExpires /\ UNCHANGED pc),
         pc' \in [Requests -> IdempotencySteps], \A q \in Payments : Alive(q)' => Alive(q)
  PROVE  MoneyInv'
  <1>0. /\ PaymentsInOrder /\ LockHeld /\ Headroom /\ Total(Passed) <= DailyLimit + Total(raced)
    BY SMTT(30) DEF MoneyInv
  <1>1. PaymentsInOrder'
    BY <1>0 DEF PaymentsInOrder
  <1>2. LockHeld'
    BY <1>0 DEF LockHeld, AgentLockExpires, Alive
  <1>3. Headroom'
    <2>1. \A b \in AgentBudgets : Exposure(b)' \subseteq Exposure(b)
      BY DEF Exposure, Unaccounted, SpentOn
    <2> QED BY <1>0, <1>1, <2>1, HeadroomStays, SMTT(30)
  <1>4. (Total(Passed) <= DailyLimit + Total(raced))'
    <2>1. Passed' \subseteq Passed
      BY SMTT(30) DEF Passed
    <2> QED BY <1>0, <1>1, <2>1, PassedStays
  <1> QED BY <1>1, <1>2, <1>3, <1>4 DEF MoneyInv

\* Who is dead stays dead.
LEMMA DeadStayDead ==
  ASSUME pc \in [Requests -> IdempotencySteps], [Next]_idempotencyVars
  PROVE  /\ pc' \in [Requests -> IdempotencySteps]
         /\ \A q \in Payments : Alive(q)' => Alive(q)
  <1> USE DEF Alive, Goto, IdempotencySteps
  <1>1. ASSUME NEW r \in Requests, Reserve(r)
        PROVE  pc' \in [Requests -> IdempotencySteps] /\ \A q \in Payments : Alive(q)' => Alive(q)
    BY <1>1 DEF Reserve, Purge, Insert, Lookup
  <1>2. ASSUME NEW r \in Requests, CreateFails(r) \/ CreateRow(r) \/ Die(r)
        PROVE  pc' \in [Requests -> IdempotencySteps] /\ \A q \in Payments : Alive(q)' => Alive(q)
    BY <1>2, SMTT(30) DEF CreateFails, CreateRow, Die
  <1>3. ASSUME NEW r \in Requests, Submit(r)
        PROVE  pc' \in [Requests -> IdempotencySteps] /\ \A q \in Payments : Alive(q)' => Alive(q)
    BY <1>3 DEF Submit, Attach, Rest, Complete, Release
  <1>4. CASE UNCHANGED pc
    BY <1>4
  <1> QED BY <1>1, <1>2, <1>3, <1>4, SMTT(30) DEF Next, Cleanup, Expire, idempotencyVars

\* A step of the intake is a step of create() with its key, or leaves it alone.
LEMMA IntakeStepsCreate == [IntakeNext]_intakeVars => [Next]_idempotencyVars
  <1> SUFFICES ASSUME [IntakeNext]_intakeVars PROVE [Next]_idempotencyVars
    BY SMTT(30)
  <1>1. CASE \E r \in Requests : Proceed(r) \/ (Die(r) /\ UNCHANGED budgetVars)
    BY <1>1, Zenon DEF Proceed, RunChecks, RowWritten, Refused, Next
  <1>2. CASE \E r \in Unkeyed : CreateDirectly(r)
    BY <1>2 DEF CreateDirectly
  <1>3. CASE \E r \in Payments : Settle(r) /\ UNCHANGED idempotencyVars
    BY <1>3
  <1>4. CASE (Cleanup \/ \E k \in Keys : Expire(k)) /\ UNCHANGED budgetVars
    BY <1>4 DEF Next
  <1>5. CASE AgentLockExpires
    BY <1>5 DEF AgentLockExpires, idempotencyVars
  <1>6. CASE UNCHANGED intakeVars
    BY <1>6 DEF intakeVars
  <1> QED BY <1>1, <1>2, <1>3, <1>4, <1>5, <1>6 DEF IntakeNext

LEMMA MoneyStep == MoneyInv /\ [IntakeNext]_intakeVars => MoneyInv'
  <1> SUFFICES ASSUME MoneyInv, [IntakeNext]_intakeVars PROVE MoneyInv'
    OBVIOUS
  <1> USE IntakeAssumption
  <1>0. pc' \in [Requests -> IdempotencySteps] /\ \A q \in Payments : Alive(q)' => Alive(q)
    BY IntakeStepsCreate, DeadStayDead DEF MoneyInv
  <1>1. ASSUME NEW r \in Requests, RunChecks(r) PROVE MoneyInv'
    <2>1. Alive(r) /\ Check(r) /\ UNCHANGED pc /\ r \in Payments
      BY <1>1 DEF RunChecks, Alive, idempotencyVars
    <2> QED BY <1>0, <2>1, PaymentKeepsMoney
  <1>2. ASSUME NEW r \in Requests, RowWritten(r) PROVE MoneyInv'
    <2>1. Alive(r) /\ WriteRow(r) /\ r \in Payments
      BY <1>2 DEF RowWritten, CreateRow, Alive
    <2> QED BY <1>0, <2>1, PaymentKeepsMoney
  <1>3. CASE UNCHANGED budgetVars
    BY <1>0, <1>3, OthersKeepMoney, SMTT(30) DEF budgetVars
  <1>4. ASSUME NEW r \in Unkeyed, CreateDirectly(r) PROVE MoneyInv'
    <2>1. Alive(r) /\ (Check(r) \/ WriteRow(r)) /\ UNCHANGED pc /\ r \in Payments
      BY <1>4 DEF CreateDirectly, Alive, Unkeyed, idempotencyVars
    <2> QED BY <1>0, <2>1, PaymentKeepsMoney
  <1>5. ASSUME NEW r \in Payments, Settle(r), UNCHANGED idempotencyVars PROVE MoneyInv'
    <2>1. UNCHANGED pc
      BY <1>5 DEF idempotencyVars
    <2> QED BY <1>0, <1>5, <2>1, PaymentKeepsMoney
  <1>6. CASE AgentLockExpires
    <2>1. UNCHANGED <<status, paid, consumed, spentRead, missed, raced, step, pc>>
      BY <1>6 DEF AgentLockExpires, idempotencyVars
    <2> QED BY <1>0, <1>6, <2>1, OthersKeepMoney
  <1>7. CASE UNCHANGED intakeVars
    BY <1>3, <1>7 DEF intakeVars
  <1> QED BY <1>1, <1>2, <1>3, <1>4, <1>5, <1>6, <1>7 DEF IntakeNext, Proceed, Refused

\* Whatever payments overlap, fail or die, for any amounts and limits: the agent exceeds
\* a budget of its own only by payments that a check could not see, and its daily limit
\* only by payments that had passed their check and were not counted yet.
THEOREM MoneyBounded == IntakeSpec => []MoneyIsBounded
  <1> USE BudgetAssumption
  <1>1. MoneyInv => MoneyIsBounded
    <2> SUFFICES ASSUME MoneyInv PROVE MoneyIsBounded
      BY SMTT(30)
    <2>1. AgentWithinBudgets
      BY DEF MoneyInv, Headroom, AgentWithinBudgets
    <2>2. WithinDailyLimit
      <3>1. Passed \in SUBSET Payments /\ Counted \cup paid \in SUBSET Passed /\ raced \in SUBSET Payments
        BY Subsets DEF MoneyInv, PaymentsInOrder
      <3>2. /\ Total(Counted \cup paid) \in Nat /\ Total(Passed) \in Nat /\ Total(raced) \in Nat
            /\ Total(Counted \cup paid) <= Total(Passed)
        BY <3>1, TotalGrows
      <3> QED BY <3>2, SMTT(30) DEF MoneyInv, WithinDailyLimit
    <2> QED BY <2>1, <2>2 DEF MoneyIsBounded
  <1> QED BY <1>1, MoneyStarts, MoneyStep, PTL DEF IntakeSpec

\* create() around the budgets is still create() with its key: what holds of every
\* behaviour of IdempotentCreate holds of the intake.
THEOREM IntakeImplementsCreate == IntakeSpec => Spec
  <1>1. IntakeInit => Init
    BY DEF IntakeInit
  <1> QED BY <1>1, IntakeStepsCreate, PTL DEF IntakeSpec, Spec

\* Hence both hold of the intake: one transaction per key, replays that are originals,
\* and payments within the limits.
THEOREM IntakeSound == IntakeSpec => [](AtMostOnce /\ KeyTellsTruth /\ MoneyIsBounded)
  <1> QED BY IntakeImplementsCreate, AtMostOnceHolds, KeyTellsTruthHolds, MoneyBounded, PTL
=============================================================================
