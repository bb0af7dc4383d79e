----------------------------- MODULE RiskAnalysis -----------------------------
(***************************************************************************)
(* Risk scoring of one transaction: the pipeline scores it before its row  *)
(* exists and records the assessment after (RiskAggregatorService); the    *)
(* TransactionCreated event then queues a second scoring, and TWO workers  *)
(* consume that queue, RiskProcessor and RiskAnalysisWorker, which take    *)
(* different inputs and apply different controls.                          *)
(*                                                                         *)
(* Which worker gets a job, and which one gets its retry, is open. The     *)
(* listener is written for the envelope of the event; the event bus hands  *)
(* a listener by name the bare payload, in which it finds no transaction   *)
(* (see EventBus). Both shapes are modelled.                               *)
(***************************************************************************)
EXTENDS RiskEngine

CONSTANTS
  Amounts,            \* amounts of the transaction
  WalletHistories,    \* what the rows of the wallet say: see WalletHistory
  MaxRiskAttempts,    \* attempts of a job
  MaxRiskDeliveries,  \* deliveries of the TransactionCreated event
  MaxRiskFaults       \* calls that may fail

VARIABLES
  txnRow,       \* the transaction: amount, score, requiresApproval; walletFrozen
  walletHistory,
  assessmentRow,\* score of the RiskAssessment row, -1 while there is none
  riskPipeline, \* "assess", "record", "emit" or "returned"
  riskEvent,    \* its shape, deliveries so far, whether the dedup set holds it
  riskJob,      \* the queue's job
  riskFaults

riskVars == <<txnRow, walletHistory, assessmentRow, riskPipeline, riskEvent,
              riskJob, riskFaults>>

RiskWorkers == {"processor", "analysis"}
NoRiskJob   == [state |-> "none", attempts |-> 0, worker |-> "none", score |-> 0,
                band |-> "LOW", auto |-> TRUE]

-----------------------------------------------------------------------------
(* Inputs of the three scorings                                            *)

\* gatherSignals(): the velocity of the wallet, the record of the destination
\* and the wallet's average amount.
GatherSignals(h) ==
  [count |-> h.count, moved |-> h.moved, successful |-> h.paid,
   failed |-> h.failed, average |-> h.average]

\* assess(): the signals as factors.
AggregatedFactors(amount, h) ==
  LET signals == GatherSignals(h)
  IN  [amount |-> amount, knownRecipient |-> signals.successful > 0,
       recentTransactionCount |-> signals.count, recentTransactionAmount |-> signals.moved,
       walletAgeDays |-> h.age, policyViolations |-> 0, hourUtc |-> h.hour,
       destinationPaymentCount |-> signals.successful + signals.failed,
       destinationFailureCount |-> signals.failed, amountBaseline |-> signals.average]

\* handleTransactionCreated(): the event carries the amount and nothing else.
QueuedFactors(amount) ==
  [amount |-> amount, knownRecipient |-> FALSE,
   recentTransactionCount |-> 1, recentTransactionAmount |-> 0,
   walletAgeDays |-> 0, policyViolations |-> 0, hourUtc |-> -1,
   destinationPaymentCount |-> 0, destinationFailureCount |-> 0,
   amountBaseline |-> 0]

AtLeast(x, y) == IF x > y THEN x ELSE y

\* getTransactionBaseline(): the last day of the wallet; the transaction itself
\* counts among the recent ones.
TransactionBaseline(h) ==
  [recent |-> h.count + 1, before |-> AtLeast(1, h.count),
   average |-> AtLeast(1, h.average), known |-> h.recentlyPaid]

\* RiskAnalysisWorker.process(): pace and amount, scaled by the baseline.
BaselineFactors(amount, h) ==
  LET b    == TransactionBaseline(h)
      pace == (b.recent * 5 + b.before - 1) \div b.before
  IN  [QueuedFactors(amount) EXCEPT
         !.knownRecipient         = b.known,
         !.recentTransactionCount = AtLeast(b.recent, pace),
         !.amount = AtLeast(amount, (amount * 1000) \div b.average)]

-----------------------------------------------------------------------------
(* The pipeline                                                            *)

CreateScored ==
  /\ riskPipeline = "assess"
  /\ \E policyAsks \in BOOLEAN :
       LET a == Assess(AggregatedFactors(txnRow.amount, walletHistory), <<>>)
       IN  txnRow' = [txnRow EXCEPT !.score = a.score,
                        !.requiresApproval = policyAsks \/ a.requiresApproval]
  /\ riskPipeline' = "record"
  /\ UNCHANGED <<walletHistory, assessmentRow, riskEvent, riskJob, riskFaults>>

\* record(): the upsert, then the events.
RecordAssessment ==
  /\ riskPipeline = "record"
  /\ assessmentRow' = txnRow.score
  /\ riskPipeline' = "emit"
  /\ UNCHANGED <<txnRow, walletHistory, riskEvent, riskJob, riskFaults>>

EmitCreated ==
  /\ riskPipeline = "emit"
  /\ riskPipeline' = "returned"
  /\ UNCHANGED <<txnRow, walletHistory, assessmentRow, riskEvent, riskJob, riskFaults>>

-----------------------------------------------------------------------------
(* The listener                                                            *)

\* A repeated event finds its key in processedEvents. A job id that the queue
\* still knows adds no job; a failed add takes the key back.
HandleTransactionCreated ==
  /\ riskPipeline = "returned"
  /\ riskEvent.deliveries < MaxRiskDeliveries
  /\ \/ /\ riskEvent.shape = "payload" \/ riskEvent.processed
        /\ riskEvent' = [riskEvent EXCEPT !.deliveries = @ + 1]
        /\ UNCHANGED <<riskJob, riskFaults>>
     \/ /\ riskEvent.shape = "envelope" /\ ~riskEvent.processed
        /\ riskEvent' = [riskEvent EXCEPT !.deliveries = @ + 1, !.processed = TRUE]
        /\ riskJob' = IF riskJob.state = "none"
                      THEN [NoRiskJob EXCEPT !.state = "waiting"] ELSE riskJob
        /\ UNCHANGED riskFaults
     \/ /\ riskEvent.shape = "envelope" /\ ~riskEvent.processed
        /\ riskFaults < MaxRiskFaults
        /\ riskFaults' = riskFaults + 1
        /\ riskEvent' = [riskEvent EXCEPT !.deliveries = @ + 1]
        /\ UNCHANGED riskJob
  /\ UNCHANGED <<txnRow, walletHistory, assessmentRow, riskPipeline>>

-----------------------------------------------------------------------------
(* The workers                                                             *)

TakeRiskJob ==
  /\ riskJob.state = "waiting"
  /\ \E w \in RiskWorkers :
       riskJob' = [riskJob EXCEPT !.state = "evaluate", !.worker = w]
  /\ UNCHANGED <<txnRow, walletHistory, assessmentRow, riskPipeline, riskEvent, riskFaults>>

\* RiskService.evaluate(): score, emit RiskEvaluated, upsert the assessment.
EvaluateRisk ==
  /\ riskJob.state = "evaluate"
  /\ LET a == Assess(IF riskJob.worker = "analysis"
                     THEN BaselineFactors(txnRow.amount, walletHistory)
                     ELSE QueuedFactors(txnRow.amount), <<>>)
     IN  /\ assessmentRow' = a.score
         /\ riskJob' = [riskJob EXCEPT !.state = "apply", !.score = a.score,
                          !.band = a.band, !.auto = a.canAutoExecute]
  /\ UNCHANGED <<txnRow, walletHistory, riskPipeline, riskEvent, riskFaults>>

UpdateTransactionRisk_Overwrites ==
  /\ riskJob.state = "apply" /\ riskJob.worker = "processor"
  /\ txnRow' = [txnRow EXCEPT !.score = riskJob.score,
                               !.requiresApproval = ~riskJob.auto]
  /\ riskJob' = [riskJob EXCEPT !.state = "done"]
  /\ UNCHANGED <<walletHistory, assessmentRow, riskPipeline, riskEvent, riskFaults>>

\* evaluateQueuedTransaction(): the flag is only ever set.
UpdateTransactionRisk ==
  /\ riskJob.state = "apply" /\ riskJob.worker = "processor"
  /\ txnRow' = [txnRow EXCEPT !.score = riskJob.score,
                               !.requiresApproval = @ \/ ~riskJob.auto]
  /\ riskJob' = [riskJob EXCEPT !.state = "done"]
  /\ UNCHANGED <<walletHistory, assessmentRow, riskPipeline, riskEvent, riskFaults>>

EnforceRiskControls_CriticalOnly ==
  /\ riskJob.state = "apply" /\ riskJob.worker = "analysis"
  /\ \/ /\ riskJob.band = "CRITICAL"
        /\ txnRow' = [txnRow EXCEPT !.requiresApproval = TRUE, !.walletFrozen = TRUE]
        /\ riskJob' = [riskJob EXCEPT !.state = "announce"]
     \/ /\ riskJob.band # "CRITICAL"
        /\ riskJob' = [riskJob EXCEPT !.state = "done"]
        /\ UNCHANGED txnRow
  /\ UNCHANGED <<walletHistory, assessmentRow, riskPipeline, riskEvent, riskFaults>>

\* The band decides; a HIGH or CRITICAL one goes on to the alerts.
EnforceRiskControls ==
  /\ riskJob.state = "apply" /\ riskJob.worker = "analysis"
  /\ \/ /\ riskJob.band \in {"HIGH", "CRITICAL"}
        /\ txnRow' = [txnRow EXCEPT !.requiresApproval = TRUE,
                        !.walletFrozen = @ \/ riskJob.band = "CRITICAL"]
        /\ riskJob' = [riskJob EXCEPT !.state = "announce"]
     \/ /\ riskJob.band \notin {"HIGH", "CRITICAL"}
        /\ riskJob' = [riskJob EXCEPT !.state = "done"]
        /\ UNCHANGED txnRow
  /\ UNCHANGED <<walletHistory, assessmentRow, riskPipeline, riskEvent, riskFaults>>

AnnounceRisk ==
  /\ riskJob.state = "announce"
  /\ riskJob' = [riskJob EXCEPT !.state = "done"]
  /\ UNCHANGED <<txnRow, walletHistory, assessmentRow, riskPipeline, riskEvent, riskFaults>>

\* A call of the running step fails before it writes: the job waits for
\* another attempt, of either worker, or has used them up.
RiskJobFails ==
  /\ riskJob.state \in {"evaluate", "apply", "announce"}
  /\ riskFaults < MaxRiskFaults
  /\ riskFaults' = riskFaults + 1
  /\ riskJob' = [riskJob EXCEPT !.attempts = @ + 1, !.worker = "none",
                   !.state = IF riskJob.attempts + 1 < MaxRiskAttempts
                             THEN "waiting" ELSE "failed"]
  /\ UNCHANGED <<txnRow, walletHistory, assessmentRow, riskPipeline, riskEvent>>

-----------------------------------------------------------------------------

RiskInit ==
  /\ \E amount \in Amounts :
       txnRow = [amount |-> amount, score |-> 0, requiresApproval |-> FALSE,
                 walletFrozen |-> FALSE]
  /\ walletHistory \in WalletHistories
  /\ assessmentRow = -1
  /\ riskPipeline = "assess"
  /\ \E shape \in {"payload", "envelope"} :
       riskEvent = [shape |-> shape, deliveries |-> 0, processed |-> FALSE]
  /\ riskJob = NoRiskJob
  /\ riskFaults = 0

RiskNext ==
  \/ CreateScored \/ RecordAssessment \/ EmitCreated
  \/ HandleTransactionCreated
  \/ TakeRiskJob \/ EvaluateRisk \/ UpdateTransactionRisk
  \/ EnforceRiskControls \/ AnnounceRisk \/ RiskJobFails

RiskSpec == RiskInit /\ [][RiskNext]_riskVars

-----------------------------------------------------------------------------

(* Once a transaction needs an approval, whether its policies or its first *)
(* score asked for one, no later scoring takes the requirement away,       *)
(* whichever worker runs it and however often it is retried                *)
(* (updateTransactionRisk and enforceRiskControls only set the flag).      *)
ApprovalIsSticky ==
  txnRow.requiresApproval => txnRow'.requiresApproval

(* A job that RiskAnalysisWorker finished has left a transaction whose     *)
(* band is at least HIGH in need of an approval, also when earlier         *)
(* attempts, perhaps of the other worker, stopped half way; and the        *)
(* assessment on record is the one of the finished attempt.                *)
AnalysisIsEnforced ==
  riskJob.state = "done" =>
    /\ assessmentRow = riskJob.score
    /\ riskJob.worker = "analysis" /\ riskJob.band \in {"HIGH", "CRITICAL"}
         => txnRow.requiresApproval

==============================================================================
