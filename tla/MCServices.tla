----------------------------- MODULE MCServices -----------------------------
(***************************************************************************)
(* Instances for TLC of the services that keep records or amounts of their *)
(* own: the audit trail, the outbox, the event bus, the caches, the public *)
(* rate limit, the prices and the budgets; and of the two that call others *)
(* with what they keep, the webhook subscriptions and the Stellar service. *)
(* They do not share state, so one run checks them side by side: a         *)
(* behaviour moves the component `part` and leaves the others as they are. *)
(***************************************************************************)
EXTENDS AuditArchive, AuditChain, PublicRateLimit, RequestAudit, Caches,
        BudgetAdministration, Outbound

CONSTANTS e1, e2, e3, o1, o2

-----------------------------------------------------------------------------
(* Values of the constants                                                 *)

\* Two rows of one organization, one of another.
MCOrgOf == [r \in Rows |-> IF r = e3 THEN o2 ELSE o1]

-----------------------------------------------------------------------------

VARIABLE part

Parts == {"archive", "chain", "outbox", "rate", "bus", "request", "balance", "cache",
          "oracle", "tree", "rolling", "stellar", "subscription"}

serviceVars ==
    <<archiveVars, chainVars, outboxVars, rateVars, requestAuditVars, busVars, balanceVars,
      lruVars, oracleVars, treeVars, rollingVars, stellarVars, subscriptionVars, part>>

\* What a component chooses initially is chosen only where it moves.
ServiceInit ==
    /\ part \in Parts
    /\ ArchiveInit /\ ChainInit /\ OutboxInit /\ RateInit
    /\ RequestAuditInit
    /\ part # "request" => audited.route = CHOOSE r \in AuditedRequests : TRUE
    /\ part \notin {"bus", "request"} => activeMembers = {}
    /\ BalanceInit /\ (part # "balance" => ~onChain.low)
    /\ LruInit /\ (part # "cache" => kind = "ttl")
    /\ OracleInit /\ (part # "oracle" => ~staticPrice)
    /\ TreeInit
    /\ RollingInit /\ (part # "rolling" => callersLock /\ limitsOf = {})
    /\ StellarInit
    /\ SubscriptionInit /\ (part # "subscription" => \A h \in Hooks : hookRow[h] = Gone)

ServiceNext ==
    /\ \/ part = "archive" /\ ArchiveNext
       \/ part = "chain" /\ ChainNext
       \/ part = "outbox" /\ OutboxNext
       \/ part = "rate" /\ RateNext
       \/ part = "bus" /\ BusNext /\ UNCHANGED requestAuditVars
       \/ part = "request" /\ RequestAuditNext
       \/ part = "balance" /\ BalanceNext
       \/ part = "cache" /\ LruNext
       \/ part = "oracle" /\ OracleNext
       \/ part = "tree" /\ TreeNext
       \/ part = "rolling" /\ RollingNext
       \/ part = "stellar" /\ StellarNext
       \/ part = "subscription" /\ SubscriptionNext
    /\ UNCHANGED part
    /\ part # "archive" => UNCHANGED archiveVars
    /\ part # "chain" => UNCHANGED chainVars
    /\ part # "outbox" => UNCHANGED outboxVars
    /\ part # "rate" => UNCHANGED rateVars
    /\ part \notin {"bus", "request"} => UNCHANGED <<requestAuditVars, busVars>>
    /\ part # "balance" => UNCHANGED balanceVars
    /\ part # "cache" => UNCHANGED lruVars
    /\ part # "oracle" => UNCHANGED oracleVars
    /\ part # "tree" => UNCHANGED treeVars
    /\ part # "rolling" => UNCHANGED rollingVars
    /\ part # "stellar" => UNCHANGED stellarVars
    /\ part # "subscription" => UNCHANGED subscriptionVars

ServiceSpec == ServiceInit /\ [][ServiceNext]_serviceVars

-----------------------------------------------------------------------------
(* Properties                                                              *)

\* The public rate limit is exact in both directions.  See LimitPerWindow,
\* RefusalJustified.
RateIsExact == LimitPerWindow /\ RefusalJustified
=============================================================================
