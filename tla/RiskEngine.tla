------------------------------ MODULE RiskEngine ------------------------------
(***************************************************************************)
(* The risk engine (src/modules/risk/risk.engine.ts and rules/): eight     *)
(* weighted rules add up to a score between 0 and 100, which gives a band  *)
(* and the two flags that decide what happens to the transaction.          *)
(*                                                                         *)
(* Ratios are numbers of 1/Unit: Unit is a multiple of every divisor that  *)
(* the instances use, so that no rule rounds; only the score does.         *)
(***************************************************************************)
EXTENDS Integers, TLC

Unit == 3600

RISK_WEIGHTS == [amount |-> 30, amountAnomaly |-> 10, unknownRecipient |-> 15,
                 destinationReputation |-> 10, velocity |-> 20, walletAge |-> 10,
                 policyViolations |-> 5, suspiciousTiming |-> 5]

DEFAULT_RISK_CONFIG == [amountSaturation |-> 10000, velocitySaturation |-> 20,
                        velocityAmountSaturation |-> 20000,
                        walletSeasonedDays |-> 90, policyViolationSaturation |-> 2,
                        suspiciousHours |-> 0..4, reputationHistoryDepth |-> 5,
                        reputationFailureWeight |-> 50,
                        reputationShallowWeight |-> 50,
                        amountAnomalySaturation |-> 5, reviewThreshold |-> 51,
                        blockThreshold |-> 81, weights |-> RISK_WEIGHTS,
                        bandThresholds |-> [lowMax |-> 20, medMax |-> 50, highMax |-> 80]]

-----------------------------------------------------------------------------

Clamp(x, lo, hi) == IF x < lo THEN lo ELSE IF x > hi THEN hi ELSE x

Ratio(x, saturation) == (Clamp(x, 0, saturation) * Unit) \div saturation

AmountRule(in, c) == Ratio(in.amount, c.amountSaturation) * c.weights.amount

\* The rule abstains without a baseline (0 stands for an absent one).
AmountAnomalyRule(in, c) ==
  IF in.amountBaseline <= 0 \/ in.amount <= in.amountBaseline THEN 0
  ELSE IF c.amountAnomalySaturation <= 1 THEN Unit * c.weights.amountAnomaly
  ELSE Ratio(in.amount - in.amountBaseline,
             in.amountBaseline * (c.amountAnomalySaturation - 1)) * c.weights.amountAnomaly

RecipientRule(in, c) == IF in.knownRecipient THEN 0 ELSE Unit * c.weights.unknownRecipient

RecipientReputationRule(in, c) ==
  LET total   == in.destinationPaymentCount
      failure == Ratio(in.destinationFailureCount, total)
      shallow == Unit - Ratio(total, c.reputationHistoryDepth)
      risk    == (c.reputationFailureWeight * failure
                   + c.reputationShallowWeight * shallow) \div 100
  IN  IF total <= 0 THEN 0 ELSE Clamp(risk, 0, Unit) * c.weights.destinationReputation

VelocityRule(in, c) ==
  LET count  == Ratio(in.recentTransactionCount, c.velocitySaturation)
      moved  == Ratio(in.recentTransactionAmount, c.velocityAmountSaturation)
  IN  (IF count > moved THEN count ELSE moved) * c.weights.velocity

WalletAgeRule(in, c) ==
  (Unit - Ratio(in.walletAgeDays, c.walletSeasonedDays)) * c.weights.walletAge

PolicyViolationRule(in, c) ==
  Ratio(in.policyViolations, c.policyViolationSaturation) * c.weights.policyViolations

SuspiciousTimingRule(in, c) ==
  IF in.hourUtc \in c.suspiciousHours THEN Unit * c.weights.suspiciousTiming ELSE 0

-----------------------------------------------------------------------------

MergeConfig(overrides) ==
  LET plain  == overrides @@ DEFAULT_RISK_CONFIG
      nested == {f \in {"weights", "bandThresholds"} : f \in DOMAIN overrides}
  IN  [f \in DOMAIN plain |->
         IF f \in nested THEN overrides[f] @@ DEFAULT_RISK_CONFIG[f] ELSE plain[f]]

ToBand(score, c) ==
  CASE score <= c.bandThresholds.lowMax  -> "LOW"
    [] score > c.bandThresholds.lowMax /\ score <= c.bandThresholds.medMax -> "MEDIUM"
    [] score > c.bandThresholds.lowMax /\ score > c.bandThresholds.medMax
         /\ score <= c.bandThresholds.highMax -> "HIGH"
    [] OTHER -> "CRITICAL"

Contributions(in, c) ==
  AmountRule(in, c) + AmountAnomalyRule(in, c) + RecipientRule(in, c)
    + RecipientReputationRule(in, c) + VelocityRule(in, c) + WalletAgeRule(in, c)
    + PolicyViolationRule(in, c) + SuspiciousTimingRule(in, c)

\* Math.round: halves go up.
Assess(in, overrides) ==
  LET c     == MergeConfig(overrides)
      score == (2 * Clamp(Contributions(in, c), 0, 100 * Unit) + Unit) \div (2 * Unit)
  IN  [score            |-> score,
       band             |-> ToBand(score, c),
       canAutoExecute   |-> score < c.blockThreshold,
       requiresApproval |-> score >= c.reviewThreshold]

==============================================================================
