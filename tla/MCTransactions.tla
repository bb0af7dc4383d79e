---------------------------- MODULE MCTransactions ----------------------------
(***************************************************************************)
(* Instances for TLC of the life of a transaction and of what decides      *)
(* about it: the policies and their overrides, the risk analysis, the      *)
(* simulation, and the unit of work that writes its row.  They do not      *)
(* share state, so one run checks them side by side: a behaviour moves the *)
(* component `part` and leaves the others as they are.                     *)
(***************************************************************************)
EXTENDS TransactionLifecycle, Policies, RiskAnalysis, SorobanSimulation,
        TransactionRetry

-----------------------------------------------------------------------------
(* Values of the constants                                                 *)

CONSTANTS creator, a1, a2, r1, alice, bob

\* alice approves (a1); bob sends an approval (a2) and a rejection (r1), so that the
\* check for an earlier vote of the same reviewer comes into play.
MCUserOf == [r \in Requests |-> IF r = a1 THEN alice ELSE bob]

MCOffset == ("UTC" :> 0) @@ ("Asia/Tokyo" :> 9)

Row(id, priority, agent, configuration) ==
    [id |-> id, priority |-> priority, enabled |-> TRUE, agentId |-> agent,
     configuration |-> configuration, overrideLimit |-> NoLimit,
     overrideUntil |-> NoLimit, originalLimit |-> NoLimit]

Condition(field, operator, value) == [field |-> field, operator |-> operator, value |-> value]

\* One policy of each kind, some with two, and one under an override.
MCPolicyRows ==
    {Row("max", 1, "", [maxAmount |-> 2]),
     [Row("over", 1, "a1", [maxAmount |-> 1])
        EXCEPT !.overrideLimit = 3, !.overrideUntil = 100, !.originalLimit = 1],
     Row("usd", 2, "", [maxAmount |-> 3, baseCurrency |-> "USD"]),
     Row("usd2", 1, "", [dailyLimit |-> 3, baseCurrency |-> "USD", approvalThreshold |-> 2]),
     Row("min", 2, "", [minAmount |-> 2, assetLimits |-> [XLM |-> [minAmount |-> 1]]]),
     Row("day", 2, "a1", [dailyLimit |-> 3, weeklyLimit |-> 4]),
     Row("who", 2, "a2", [blockedAssets |-> {"USDC"}, allowedRecipients |-> {"g1"}]),
     Row("when", 1, "", [timeWindow |-> [startHour |-> 8, endHour |-> 20, days |-> {0, 4},
                                         timezone |-> "Asia/Tokyo"]]),
     Row("rate", 2, "", [velocity |-> [maxTransactions |-> 2, window |-> "hour"],
                         allowedAssets |-> {"XLM"}]),
     Row("rule", 1, "", [rules |->
           {[logic |-> "OR", conditions |-> {Condition("amount", "lte", 1), Condition("asset", "eq", "XLM")}],
            [logic |-> "AND", conditions |-> {Condition("hourOfDay", "notIn", {"4"})}]}]),
     Row("lock", 2, "a1", [emergencyLock |-> TRUE, requiresApproval |-> TRUE])}

Leg(asset, amount, to) == [asset |-> asset, amount |-> amount, to |-> to]

\* Two intents as PolicyGuard builds them, and a dry run with legs and a given spend.
MCIntents ==
    LET plain == [agentId |-> "a1", asset |-> "XLM", amount |-> 2, recipientAddress |-> "g2",
                  transfers |-> <<>>, transactionCount |-> 1, transactionCounts |-> [hour |-> 2]]
    IN  {plain, [plain EXCEPT !.asset = "USDC", !.amount = 1, !.agentId = "a2"],
         [agentId |-> "a1", asset |-> "XLM", amount |-> 1, recipientAddress |-> "g1",
          transactionCount |-> 0, transactionCounts |-> [hour |-> 1], spentToday |-> 1,
          transfers |-> <<Leg("XLM", 1, "g1"), Leg("USDC", 2, "g1")>>]}

\* One table lacks a price.
MCPriceTables == {[XLM |-> {2}, USDC |-> {1}], [XLM |-> {}, USDC |-> {1}]}

\* Hours since an epoch: 76 is a Sunday, 100 the Monday after, both at 04:00 UTC.
MCHistories ==
    LET spent(at, amount) == [at |-> at, amount |-> amount]
    IN  {{}, {spent(75, 1), spent(25, 2)}, {spent(97, 1), spent(80, 2)}}

\* New and old wallets, by night and by day, with and without known recipients.
MCWalletHistories ==
    {[count |-> n, moved |-> n * 1000, age |-> a, hour |-> IF a = 0 THEN 2 ELSE 12,
      paid |-> p, failed |-> 1, average |-> IF n = 0 THEN 0 ELSE 900,
      recentlyPaid |-> p > 0 /\ n > 0] : n \in {0, 1, 4, 20}, a \in {0, 90}, p \in {0, 4}}

MCErrorAbis == "0xa1" :> "funds" @@ "0xa2" :> "conflict"

\* Byte strings of every selector, as such and encoded, and the other payloads.
MCPayloads ==
    LET bytes == {Bytes("short", FALSE, "other"), Bytes("Error(string)", TRUE, "funds"),
                  Bytes("Error(string)", TRUE, "auth"), Bytes("Error(string)", FALSE, "funds"),
                  Bytes("Panic(uint256)", TRUE, "other"), Bytes("0xa1", TRUE, "other"),
                  Bytes("0xa2", TRUE, "other"), Bytes("0xff", TRUE, "other")}
    IN  bytes \cup {Encoded(h, b) : h \in {"hex", "base64"}, b \in {x \in bytes : x.selector # "short"}}
         \cup {Blank, BrokenHex, HostError("Contract"), HostError("Auth"), Words("other"), Words("funds")}

MCBufferOverrides == {-2, -1, 0, 33, 150}

\* No events, and more than are kept, every second one malformed.
MCEventLogs == {<<>>, [i \in 1..30 |-> IF i % 2 = 0 THEN "valid" ELSE "malformed"]}

\* execute() and cancel() of one row, as TransactionService calls the unit of work.
MCAdmits == [u \in Updates |-> {"DRAFT", "PENDING"} \cup (IF u = "cancel" THEN {} ELSE {"CANCELLED"})]
MCTarget == [u \in Updates |-> IF u = "cancel" THEN "CANCELLED" ELSE "SUBMITTED"]

-----------------------------------------------------------------------------

VARIABLE part

Parts == {"lifecycle", "decision", "override", "risk", "simulation", "unit"}

decidingVars == <<decisionVars, overrideVars, riskVars, simulationVars, unitVars>>

\* What a component chooses initially is chosen only where it moves.
TransactionsInit ==
    /\ part \in Parts
    /\ Init /\ DecisionInit /\ SimulationInit /\ UnitInit
    /\ OverrideInit /\ (part # "override" => "maxAmount" \notin DOMAIN policyRow.configuration)
    /\ RiskInit
    /\ part # "risk" => txnRow.amount = CHOOSE a \in Amounts : TRUE
    /\ part # "risk" => walletHistory = CHOOSE h \in WalletHistories : TRUE
    /\ part # "risk" => riskEvent.shape = "payload"

Living(A) == part = "lifecycle" /\ A /\ UNCHANGED <<decidingVars, part>>

Deciding ==
    /\ \/ part = "decision" /\ DecisionNext
       \/ part = "override" /\ OverrideNext
       \/ part = "risk" /\ RiskNext
       \/ part = "simulation" /\ SimulationNext
       \/ part = "unit" /\ UnitNext
    /\ UNCHANGED <<vars, part>>
    /\ part # "decision" => UNCHANGED decisionVars
    /\ part # "override" => UNCHANGED overrideVars
    /\ part # "risk" => UNCHANGED riskVars
    /\ part # "simulation" => UNCHANGED simulationVars
    /\ part # "unit" => UNCHANGED unitVars

\* The life of a transaction alone.
LifecycleSpec ==
    /\ part = "lifecycle" /\ TransactionsInit
    /\ [][Living(Next)]_<<vars, decidingVars, part>>

\* Fairness of TransactionLifecycle for the component that has one.
TransactionsFairSpec ==
    /\ TransactionsInit /\ [][Living(Next) \/ Deciding]_<<vars, decidingVars, part>>
    /\ WF_vars(Living(Create))
    /\ \A r \in Requests : WF_vars(Living(pc[r] # "idle" /\ Decide(r)))
    /\ \A h \in Handlers : WF_vars(Living(ExecuteStep(h)))

-----------------------------------------------------------------------------
(* Properties                                                              *)

\* The two ways of asking agree: PolicyEngine merges groups of policies by limit
\* currency to what each policy alone would say, and PolicyEvaluatorService refuses
\* nothing that the engine lets through.  See DecisionIsPerPolicy,
\* EvaluatorIsNoStricter.
PoliciesAgree == DecisionIsPerPolicy /\ EvaluatorIsNoStricter

\* What is known about a transaction before it is signed is acted on: a contract's
\* revert reads the same in whatever form the RPC client hands it over, the gas limit
\* covers what the simulation used, and a transaction whose analysis is over is held
\* back as its level demands.  See RevertIsNotAnOutage, GasEnvelope, AnalysisIsEnforced.
WarningsAreHeeded == RevertIsNotAnOutage /\ GasEnvelope /\ AnalysisIsEnforced

\* No background job loosens a limit: the sweep of PolicyOverrideCleanupService changes no
\* maximum in force, and a later, lower risk score takes no approval requirement away.
\* See ResetIsInvisible, ApprovalIsSticky.
NothingIsLoosened == [][ResetIsInvisible /\ ApprovalIsSticky]_<<overrideVars, riskVars>>
===============================================================================
