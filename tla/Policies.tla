------------------------------ MODULE Policies ------------------------------
(***************************************************************************)
(* Spending policies: the rules of the engine as operators, one decision   *)
(* on a transaction intent by the engine and by the second evaluator, and  *)
(* the overrides of a policy row with the sweep that ends them.            *)
(***************************************************************************)
EXTENDS Integers, Sequences, TLC, FiniteSetsExt

-----------------------------------------------------------------------------
(***************************************************************************)
(* The rules of the policy engine (modules/policies/policy.engine.ts) as    *)
(* operators.  A configuration is a record whose domain is the set of       *)
(* fields that are present, an optional value is a set of at most one       *)
(* element, and a violation is the code it is reported with.  An instant is *)
(* a number of hours since the epoch, which was a Thursday.                 *)
(***************************************************************************)

CONSTANT Offset     \* hours from UTC of every time zone the runtime knows

(* The columns that hold null while no override was captured.               *)
NoLimit == -1

Opt(c, f) == IF f \in DOMAIN c THEN {c[f]} ELSE {}
Flag(c, f) == f \in DOMAIN c /\ c[f]

AppliesToAgent(policy, intent) ==
    policy.agentId = "" \/ policy.agentId = intent.agentId

OverrideActive(policy, at) ==
    /\ policy.overrideLimit # NoLimit
    /\ policy.overrideUntil # NoLimit
    /\ at <= policy.overrideUntil

EffectiveMaxAmount(policy, config, at) ==
    IF OverrideActive(policy, at) THEN {policy.overrideLimit}
    ELSE IF policy.originalLimit # NoLimit THEN {policy.originalLimit}
    ELSE Opt(config, "maxAmount")

(* A per-asset entry replaces the two amount bounds of the policy.          *)
LegConfig(config, leg) ==
    LET entry == UNION {Opt(l, leg.asset) : l \in Opt(config, "assetLimits")}
        bounds == UNION {DOMAIN e : e \in entry} \cap {"maxAmount", "minAmount"}
    IN [f \in DOMAIN config \cup bounds |->
            IF f \in bounds THEN (CHOOSE e \in entry : TRUE)[f] ELSE config[f]]

CheckAmount(policy, config, leg, at) ==
    {"MAX_AMOUNT_EXCEEDED" : m \in {x \in EffectiveMaxAmount(policy, config, at) : leg.amount > x}}
    \cup {"MIN_AMOUNT_NOT_MET" : m \in {x \in Opt(config, "minAmount") : leg.amount < x}}

CheckAssets(config, leg) ==
    {"ASSET_NOT_ALLOWED" : s \in {x \in Opt(config, "allowedAssets") : leg.asset \notin x}}
    \cup {"ASSET_BLOCKED" : s \in {x \in Opt(config, "blockedAssets") : leg.asset \in x}}

CheckRecipients(config, leg) ==
    {"RECIPIENT_NOT_ALLOWED" : s \in {x \in Opt(config, "allowedRecipients") : leg.to \notin x}}
    \cup {"RECIPIENT_BLOCKED" : s \in {x \in Opt(config, "blockedRecipients") : leg.to \in x}}

(* Three limits, each against the spend of its own period; an intent that   *)
(* carries no spend for the period counts as nothing spent.                 *)
Periods == [dailyLimit |-> "spentToday", weeklyLimit |-> "spentThisWeek",
            monthlyLimit |-> "spentThisMonth"]

Spent(intent, limit) ==
    IF Periods[limit] \in DOMAIN intent THEN intent[Periods[limit]] ELSE 0

CheckPeriodicLimits(config, intent, leg) ==
    {limit \in DOMAIN Periods \cap DOMAIN config :
        Spent(intent, limit) + leg.amount > config[limit]}

(* An unknown zone falls back to UTC.                                       *)
ResolveLocalTime(at, zone) ==
    LET local == at + (IF zone \in DOMAIN Offset THEN Offset[zone] ELSE 0)
    IN [hour |-> local % 24, dayOfWeek |-> (4 + local \div 24) % 7]

CheckTimeWindow(config, at) ==
    {"OUTSIDE_TIME_WINDOW" :
        w \in {x \in Opt(config, "timeWindow") :
                 LET local == ResolveLocalTime(at, x.timezone)
                 IN ~ (/\ local.hour >= x.startHour
                       /\ local.hour < x.endHour
                       /\ \A d \in Opt(x, "days") : local.dayOfWeek \in d)}}

CheckVelocity(config, intent) ==
    {"VELOCITY_LIMIT_EXCEEDED" :
        v \in {x \in Opt(config, "velocity") :
                 LET executed == IF x.window \in DOMAIN intent.transactionCounts
                                 THEN intent.transactionCounts[x.window]
                                 ELSE intent.transactionCount
                 IN executed >= x.maxTransactions}}

(* An ordering operator holds of numbers only, and the list operators       *)
(* compare the text of the value.                                           *)
NumericFields == {"amount", "hourOfDay", "dayOfWeek", "transactionCount"}

ResolveConditionValue(field, intent, at) ==
    CASE field = "hourOfDay" -> ResolveLocalTime(at, "UTC").hour
      [] field = "dayOfWeek" -> ResolveLocalTime(at, "UTC").dayOfWeek
      [] OTHER -> intent[field]

EvaluateCondition(c, intent, at) ==
    LET actual == ResolveConditionValue(c.field, intent, at)
        number == c.field \in NumericFields
        text == IF number THEN ToString(actual) ELSE actual
    IN CASE c.operator = "eq" -> actual = c.value
         [] c.operator = "neq" -> actual # c.value
         [] c.operator = "gt" -> number /\ actual > c.value
         [] c.operator = "gte" -> number /\ actual >= c.value
         [] c.operator = "lt" -> number /\ actual < c.value
         [] c.operator = "lte" -> number /\ actual <= c.value
         [] c.operator = "in" -> text \in c.value
         [] c.operator = "notIn" -> text \notin c.value

CheckRuleGroups(config, intent, at) ==
    LET holds(g) == IF g.logic = "OR"
                    THEN \E c \in g.conditions : EvaluateCondition(c, intent, at)
                    ELSE \A c \in g.conditions : EvaluateCondition(c, intent, at)
    IN {"RULE_GROUP_VIOLATED" :
            g \in {x \in UNION Opt(config, "rules") : ~ holds(x)}}

CheckEmergencyLock(config) ==
    IF Flag(config, "emergencyLock") THEN {"EMERGENCY_LOCK"} ELSE {}

(* On the whole amount of the intent, whatever its legs are.                *)
DemandsApproval(config, intent) ==
    \/ Flag(config, "requiresApproval")
    \/ \E t \in Opt(config, "approvalThreshold") : intent.amount >= t

LegsOf(intent) ==
    IF intent.transfers # <<>> THEN intent.transfers
    ELSE << [asset |-> intent.asset, amount |-> intent.amount,
             to |-> intent.recipientAddress] >>

ViolationsOf(policy, intent, at) ==
    LET config == policy.configuration
        ofLeg(leg) == LET own == LegConfig(config, leg)
                      IN CheckAmount(policy, own, leg, at)
                         \cup CheckAssets(own, leg) \cup CheckRecipients(own, leg)
                         \cup CheckPeriodicLimits(own, intent, leg)
    IN UNION {ofLeg(LegsOf(intent)[i]) : i \in DOMAIN LegsOf(intent)}
       \cup CheckTimeWindow(config, at) \cup CheckVelocity(config, intent)
       \cup CheckRuleGroups(config, intent, at) \cup CheckEmergencyLock(config)

(* The whole of evaluate(): the policies are a sequence in priority order.  *)
Evaluate(intent, policies, at) ==
    LET active == SelectSeq(policies, LAMBDA p : p.enabled /\ AppliesToAgent(p, intent))
        found == UNION {ViolationsOf(active[i], intent, at) : i \in DOMAIN active}
    IN [violations |-> found,
        passed |-> found = {},
        requiresApproval |->
            \E i \in DOMAIN active : DemandsApproval(active[i].configuration, intent),
        evaluated |-> {active[i].id : i \in DOMAIN active},
        matched |-> IF active = <<>> THEN "" ELSE active[1].id]

-----------------------------------------------------------------------------
(***************************************************************************)
(* One decision on a transaction intent: AgentPolicyGuard and               *)
(* PolicyService.simulate over the engine above, one engine call           *)
(* per limit currency with an await for the price before each, and the      *)
(* second evaluator of the budgets module on the same input.                *)
(***************************************************************************)

CONSTANTS PolicyRows,    \* rows the organization's policies are drawn from
          Intents, Instants, Histories,
          PriceTables,   \* asset -> set of at most one price, for every currency
          MaxPolicies

VARIABLE decision

decisionVars == <<decision>>

NoIntent == [phase |-> "idle"]

(* SpendingPolicyRepository.findActiveForEvaluation: enabled rows of the    *)
(* organization and of the agent; the rows arrive in priority order.        *)
FindActive(rows, intent) ==
    SelectSeq(rows, LAMBDA p : p.enabled /\ AppliesToAgent(p, intent))

CurrencyOf(policy) ==
    IF "baseCurrency" \in DOMAIN policy.configuration
    THEN policy.configuration.baseCurrency ELSE ""

(* One group holding only the last policy of its currency.                  *)
GroupByLimitCurrency_Overwrites(policies) ==
    LET groups == [c \in {CurrencyOf(policies[i]) : i \in DOMAIN policies} |->
                     CHOOSE i \in DOMAIN policies :
                        /\ CurrencyOf(policies[i]) = c
                        /\ \A j \in (i + 1)..Len(policies) : CurrencyOf(policies[j]) # c]
        keys == SelectSeq([i \in DOMAIN policies |-> i],
                          LAMBDA i : groups[CurrencyOf(policies[i])] = i)
    IN [n \in DOMAIN keys |-> [currency |-> CurrencyOf(policies[keys[n]]),
                               policies |-> <<policies[keys[n]]>>]]

(* A map from currency to its policies, in the order the rows introduce it. *)
GroupByLimitCurrency(policies) ==
    LET first == {i \in DOMAIN policies :
                    \A j \in 1..(i - 1) : CurrencyOf(policies[j]) # CurrencyOf(policies[i])}
        keys == SelectSeq([i \in DOMAIN policies |-> i], LAMBDA i : i \in first)
    IN [n \in DOMAIN keys |->
            [currency |-> CurrencyOf(policies[keys[n]]),
             policies |-> SelectSeq(policies,
                 LAMBDA p : CurrencyOf(p) = CurrencyOf(policies[keys[n]]))]]

PriceOf(prices, asset, currency) == IF asset = currency THEN {1} ELSE prices[asset]

(* The amounts an engine call in `currency` is given; no price for one of   *)
(* the assets raises PriceUnavailableException.                             *)
PrepareIntent(intent, currency, prices) ==
    LET price(asset) == CHOOSE p \in PriceOf(prices, asset, currency) : TRUE
        spends == DOMAIN intent \cap {Periods[l] : l \in DOMAIN Periods}
    IN IF currency = "" THEN intent
       ELSE [f \in DOMAIN intent |->
               CASE f = "transfers" ->
                        [i \in DOMAIN intent.transfers |->
                            [intent.transfers[i] EXCEPT !.amount = @ * price(intent.transfers[i].asset)]]
                 [] f = "amount" /\ intent.transfers = <<>> -> intent.amount * price(intent.asset)
                 [] f \in spends -> intent[f] * price(intent.asset)
                 [] OTHER -> intent[f]]

Priced(intent, currency, prices) ==
    \/ currency = ""
    \/ LET assets == IF intent.transfers = <<>> THEN {intent.asset}
                     ELSE {intent.transfers[i].asset : i \in DOMAIN intent.transfers}
                          \cup (IF {Periods[l] : l \in DOMAIN Periods} \cap DOMAIN intent = {}
                                THEN {} ELSE {intent.asset})
       IN \A a \in assets : PriceOf(prices, a, currency) # {}

(* The spend the second evaluator aggregates: since 00:00 UTC, and since    *)
(* the most recent Monday.                                                  *)
StartOfDay(at) == at - (at % 24)
(* The week taken to start on Sunday.                                       *)
StartOfWeek_Sunday(at) ==
    StartOfDay(at) - 24 * ResolveLocalTime(at, "UTC").dayOfWeek

StartOfWeek(at) ==
    StartOfDay(at) - 24 * ((ResolveLocalTime(at, "UTC").dayOfWeek + 6) % 7)

SumSince(history, start) ==
    FoldSet(LAMBDA h, sum : h.amount + sum, 0, {h \in history : h.at >= start})

(* checkMaxAmount: a policy without maxAmount is passed over.               *)
OverMaxAmount(policies, intent, at) ==
    \E i \in DOMAIN policies :
        /\ "maxAmount" \in DOMAIN policies[i].configuration
        /\ \E m \in EffectiveMaxAmount(policies[i], policies[i].configuration, at) :
              intent.amount > m

(* checkPeriodicLimits: what was spent since the start of the UTC day or    *)
(* the ISO week, and the transaction, against any positive limit.           *)
OverPeriodicLimit(policies, intent, limit, spent) ==
    \E i \in DOMAIN policies : \E l \in Opt(policies[i].configuration, limit) :
        l > 0 /\ spent + intent.amount > l

(* checkRecipientWhitelist: an empty list allows everyone.                  *)
OutsideWhitelist(policies, intent) ==
    \E i \in DOMAIN policies :
        \E s \in Opt(policies[i].configuration, "allowedRecipients") :
            s # {} /\ intent.recipientAddress \notin s

(* PolicyEvaluatorService.evaluate: the first check that fails answers.     *)
ComplianceCheck(policies, intent, at, history) ==
    LET over(limit, start) ==
            OverPeriodicLimit(policies, intent, limit, SumSince(history, start))
    IN IF OverMaxAmount(policies, intent, at) THEN "MAX_AMOUNT_EXCEEDED"
       ELSE IF over("dailyLimit", StartOfDay(at)) THEN "dailyLimit"
       ELSE IF over("weeklyLimit", StartOfWeek(at)) THEN "weeklyLimit"
       ELSE IF OutsideWhitelist(policies, intent) THEN "RECIPIENT_NOT_ALLOWED"
       ELSE "allowed"

(* SpendingPolicyService.checkVelocityLimit: the first of the agent's own   *)
(* policies with a positive daily limit, over what settled in 24 hours.     *)
VelocityExceeded(policies, intent, at, history) ==
    LET own == SelectSeq(policies, LAMBDA p :
                  /\ p.agentId # ""
                  /\ \E l \in Opt(p.configuration, "dailyLimit") : l > 0)
    IN /\ own # <<>>
       /\ SumSince(history, at - 24) + intent.amount > own[1].configuration.dailyLimit

DecisionInit == decision = NoIntent

(* The guard builds an intent with neither spend nor legs; a dry run is     *)
(* given both by its caller.                                                *)
EnterDecision ==
    /\ decision.phase = "idle"
    /\ \E intent \in Intents, at \in Instants, history \in Histories,
          n \in 0..MaxPolicies : \E rows \in [1..n -> PolicyRows] :
        /\ \A i, j \in 1..n : i < j => rows[i].priority <= rows[j].priority /\ rows[i] # rows[j]
        /\ decision' =
             [phase |-> "groups", intent |-> intent, at |-> at, history |-> history,
              policies |-> FindActive(rows, intent),
              groups |-> GroupByLimitCurrency(FindActive(rows, intent)),
              violations |-> {}, requiresApproval |-> FALSE, evaluated |-> {},
              matched |-> "", unpriced |-> FALSE, admitted |-> FALSE]

(* One engine call; the price is looked up before it, and may be missing.   *)
EvaluateGroup ==
    /\ decision.phase = "groups" /\ decision.groups # <<>>
    /\ \E prices \in PriceTables :
         LET group == Head(decision.groups)
             result == Evaluate(PrepareIntent(decision.intent, group.currency, prices),
                                group.policies, decision.at)
         IN decision' =
              IF ~ Priced(decision.intent, group.currency, prices)
              THEN [decision EXCEPT !.phase = "done", !.unpriced = TRUE]
              ELSE [decision EXCEPT
                      !.groups = Tail(@),
                      !.violations = @ \cup result.violations,
                      !.requiresApproval = @ \/ result.requiresApproval,
                      !.evaluated = @ \cup result.evaluated,
                      !.matched = IF @ = "" THEN result.matched ELSE @]

(* AgentPolicyGuard.canActivate after the loop: no violation, and the       *)
(* rolling limit of the agent.                                              *)
ConcludeDecision ==
    /\ decision.phase = "groups" /\ decision.groups = <<>>
    /\ decision' = [decision EXCEPT !.phase = "done",
                       !.admitted = /\ decision.violations = {}
                                    /\ ~ VelocityExceeded(decision.policies, decision.intent,
                                                          decision.at, decision.history)]

DecisionNext ==
    EnterDecision \/ EvaluateGroup \/ ConcludeDecision

DecisionSpec == DecisionInit /\ [][DecisionNext]_decisionVars

----------------------------------------------------------------------------
(* Splitting the policies by limit currency loses none: the merged answer   *)
(* has a violation of a currency-free policy exactly when that policy has   *)
(* it on its own, every policy was evaluated, and the policy reported as    *)
(* the match is the one of highest priority (policy.types.ts "the           *)
(* highest-priority policy that matched").                                  *)
DecisionIsPerPolicy ==
    decision.phase = "done" /\ ~ decision.unpriced =>
        /\ decision.evaluated = {decision.policies[i].id : i \in DOMAIN decision.policies}
        /\ \A i \in DOMAIN decision.policies :
             CurrencyOf(decision.policies[i]) = "" =>
                ViolationsOf(decision.policies[i], decision.intent, decision.at)
                    \subseteq decision.violations
        /\ decision.policies # <<>> => decision.matched = decision.policies[1].id

(* The second evaluator never refuses what the engine lets through, given   *)
(* the spend of the calendar day and of the ISO week, where no policy names *)
(* a currency or a per-asset limit.                                         *)
EvaluatorIsNoStricter ==
    LET day(t) == t \div 24
        week(t) == (day(t) + 3) \div 7
        at == decision.at
        spentIn(P(_)) == FoldSet(LAMBDA h, sum : h.amount + sum, 0,
                                 {h \in decision.history : P(h.at)})
        dated == [f \in DOMAIN decision.intent \cup {"spentToday", "spentThisWeek"} |->
                    CASE f = "spentToday" -> spentIn(LAMBDA t : day(t) = day(at))
                      [] f = "spentThisWeek" -> spentIn(LAMBDA t : week(t) = week(at))
                      [] OTHER -> decision.intent[f]]
        answer == ComplianceCheck(decision.policies, decision.intent, at, decision.history)
    IN /\ decision.phase = "done"
       /\ decision.intent.transfers = <<>>
       /\ \A i \in DOMAIN decision.policies :
             {"baseCurrency", "assetLimits"} \cap DOMAIN decision.policies[i].configuration = {}
       => answer = "allowed" \/ answer \in Evaluate(dated, decision.policies, at).violations

-----------------------------------------------------------------------------
(***************************************************************************)
(* One policy row with a temporary override of its maximum amount: edits    *)
(* (spending-policy.service.ts), the hourly sweep that ends an override     *)
(* (services/policy-override-cleanup.service.ts) and the limit the engine   *)
(* reads from the row meanwhile.  The row is read inside the reset's        *)
(* transaction and written by a guarded updateMany; the database runs at    *)
(* READ COMMITTED, so the guard sees the row as it is when it is written.   *)
(***************************************************************************)

CONSTANTS Limits, MaxOverrideClock, MaxSweeps, MaxGrants, MaxEdits

VARIABLES overrideClock,
          policyRow,
          editing,       \* whether an update passed getOrThrow and has not written
          sweep,         \* the running sweep, with the row as its transaction read it
          notices,       \* PolicyOverrideExpired events
          overrideOps    \* how often each operation ran

overrideVars == <<overrideClock, policyRow, editing, sweep, notices, overrideOps>>

NoSweep == [at |-> "idle"]

OverrideInit ==
    /\ overrideClock = 0 /\ editing = FALSE /\ sweep = NoSweep /\ notices = 0
    /\ overrideOps = [sweeps |-> 0, grants |-> 0, edits |-> 0]
    /\ \E m \in Limits \cup {NoLimit} :
         policyRow = [configuration |-> IF m = NoLimit THEN <<>> ELSE [maxAmount |-> m],
                      overrideLimit |-> NoLimit, overrideUntil |-> NoLimit,
                      originalLimit |-> NoLimit, deleted |-> FALSE]

(* No code of the repository grants an override: the row is written as the  *)
(* schema describes it, the limit in force captured the first time.         *)
GrantOverride ==
    /\ overrideOps.grants < MaxGrants
    /\ \E limit \in Limits, until \in overrideClock..(overrideClock + 1) :
         policyRow' = [policyRow EXCEPT
             !.overrideLimit = limit, !.overrideUntil = until,
             !.originalLimit = IF @ # NoLimit \/ policyRow.configuration = <<>> THEN @
                               ELSE policyRow.configuration.maxAmount]
    /\ overrideOps' = [overrideOps EXCEPT !.grants = @ + 1]
    /\ UNCHANGED <<overrideClock, editing, sweep, notices>>

(* update(): the row must exist when it is looked up, and the write is by id. *)
UpdatePolicy ==
    /\ ~ editing /\ ~ policyRow.deleted /\ overrideOps.edits < MaxEdits
    /\ editing' = TRUE
    /\ overrideOps' = [overrideOps EXCEPT !.edits = @ + 1]
    /\ UNCHANGED <<overrideClock, policyRow, sweep, notices>>

WritePolicy ==
    /\ editing /\ editing' = FALSE
    /\ \E m \in Limits : policyRow' = [policyRow EXCEPT !.configuration = [maxAmount |-> m]]
    /\ UNCHANGED <<overrideClock, sweep, notices, overrideOps>>

SoftDelete ==
    /\ ~ policyRow.deleted /\ policyRow' = [policyRow EXCEPT !.deleted = TRUE]
    /\ UNCHANGED <<overrideClock, editing, sweep, notices, overrideOps>>

Lapsed(row, now) ==
    row.overrideLimit # NoLimit /\ row.overrideUntil # NoLimit /\ row.overrideUntil < now

(* runCleanup(): the expired rows, selected at its own `now`.               *)
RunCleanup ==
    /\ sweep.at = "idle" /\ overrideOps.sweeps < MaxSweeps
    /\ overrideOps' = [overrideOps EXCEPT !.sweeps = @ + 1]
    /\ sweep' = IF Lapsed(policyRow, overrideClock) /\ ~ policyRow.deleted
                THEN [at |-> "listed", now |-> overrideClock] ELSE NoSweep
    /\ UNCHANGED <<overrideClock, policyRow, editing, notices>>

ReadForReset ==
    /\ sweep.at = "listed"
    /\ sweep' = [at |-> "read", now |-> sweep.now, copy |-> policyRow]
    /\ UNCHANGED <<overrideClock, policyRow, editing, notices, overrideOps>>

RestoredLimit(copy) ==
    IF copy.originalLimit # NoLimit THEN copy.originalLimit
    ELSE IF copy.configuration # <<>> THEN copy.configuration.maxAmount ELSE 0

Reset(row, copy) ==
    [row EXCEPT !.overrideLimit = NoLimit, !.overrideUntil = NoLimit,
                !.originalLimit = NoLimit,
                !.configuration = [maxAmount |-> RestoredLimit(copy)]]

(* The row is reset whatever its override is now.                           *)
ResetExpired_Unguarded ==
    /\ sweep.at = "read"
    /\ policyRow' = Reset(policyRow, sweep.copy)
    /\ sweep' = [at |-> "notify"]
    /\ UNCHANGED <<overrideClock, editing, notices, overrideOps>>

ResetExpired ==
    /\ sweep.at = "read"
    /\ IF Lapsed(policyRow, sweep.now)
       THEN /\ policyRow' = Reset(policyRow, sweep.copy)
            /\ sweep' = [at |-> "notify"]
       ELSE /\ sweep' = NoSweep
            /\ UNCHANGED policyRow
    /\ UNCHANGED <<overrideClock, editing, notices, overrideOps>>

Notify ==
    /\ sweep.at = "notify" /\ sweep' = NoSweep /\ notices' = notices + 1
    /\ UNCHANGED <<overrideClock, policyRow, editing, overrideOps>>

OverrideTick ==
    /\ overrideClock < MaxOverrideClock /\ overrideClock' = overrideClock + 1
    /\ UNCHANGED <<policyRow, editing, sweep, notices, overrideOps>>

OverrideNext ==
    \/ GrantOverride \/ UpdatePolicy \/ WritePolicy \/ SoftDelete
    \/ RunCleanup \/ ReadForReset \/ ResetExpired \/ Notify \/ OverrideTick

OverrideSpec == OverrideInit /\ [][OverrideNext]_overrideVars

InForce(row, at) == EffectiveMaxAmount(row, row.configuration, at)

----------------------------------------------------------------------------
(* The sweep is invisible to the engine: a step that resets the row leaves  *)
(* the limit in force as it was, so an override extended while the sweep    *)
(* was under way is not cut short.  Two exceptions: an edit written between *)
(* the sweep's read and its write is lost, and a policy that never had a    *)
(* maximum comes out with a maximum of zero.                                *)
ResetIsInvisible ==
    (sweep.at = "read" /\ policyRow' # policyRow) =>
          \/ InForce(policyRow', overrideClock) = InForce(policyRow, overrideClock)
          \/ sweep.copy.configuration # policyRow.configuration
          \/ InForce(policyRow, overrideClock) = {} /\ InForce(policyRow', overrideClock) = {0}
          \/ editing # editing' \/ overrideOps # overrideOps'
=============================================================================
