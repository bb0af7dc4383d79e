------------------------------- MODULE MCAccess -------------------------------
(***************************************************************************)
(* Instances of what stands between a caller and a handler, for TLC:       *)
(* sessions, passkeys, memberships, API keys, the throttlers, the replay   *)
(* of responses, the routes with their guards, and the agent registry.     *)
(* They do not share state, so one run checks them side by side: a         *)
(* behaviour moves the component `part` and leaves the others as they are. *)
(***************************************************************************)
EXTENDS Authentication, AccessControl, Organizations, AgentRegistry, Throttlers

CONSTANTS k1, k2, u1

-----------------------------------------------------------------------------
(* Values of the constants                                                 *)

\* Both credentials are the one user's.
MCHolderOf == [k \in Credentials |-> u1]

Sc(resource, action) == [resource |-> resource, action |-> action]

MCGranted == [k \in Keys |-> IF k = k1 THEN {Sc("tx", "*")} ELSE {Sc("tx", "read")}]

Guarded(guard, scopes, roles) ==
    [guard |-> guard, public |-> FALSE, scopes |-> scopes, roles |-> roles]

\* Routes behind ApiKeyGuard, routes behind the global guards, and a public one.
MCKeyRoutes ==
    {Guarded("apiKey", {Sc("tx", "write")}, {}),
     Guarded("apiKey", {}, {}),
     Guarded("global", {Sc("tx", "read"), Sc("wallet", "read")}, {}),
     Guarded("global", {Sc("tx", "write")}, {"ADMIN", "DEVELOPER"}),
     [Guarded("global", {}, {}) EXCEPT !.public = TRUE]}

\* The agent's limit before and after its update.
MCAgentLimits == <<1, 2>>

\* The names of three tiers and of one burst throttler.
MCLimitOf == [api |-> 2, agent |-> 3, auth |-> 1] @@ ("api-burst" :> 1)
MCTtlOf == [api |-> 2, agent |-> 2, auth |-> 2] @@ ("api-burst" :> 1)

\* No metadata; secrets at the top, under another secret and under a plain key;
\* a value that looks encrypted, a number and a null.
MCMetadata ==
    LET under(v) == Obj("secret" :> v)
    IN  {Obj(<<>>),
         Obj("secret" :> Text("digits") @@ "token" :> under(Text("digits"))
               @@ "label" :> under(Text("word"))),
         Obj("secret" :> Text("tagged") @@ "token" :> Num @@ "label" :> under(Null))}

-----------------------------------------------------------------------------

VARIABLE part

Parts == {"sessions", "passkeys", "members", "keys", "sliding", "tiers",
          "replay", "routes", "registry"}

accessVars == <<sessionVars, keyVars, orgVars, apiKeyVars, throttlerVars, tierVars,
                replayVars, routeVars, registryVars, part>>

AccessInit ==
    /\ SessionInit /\ PasskeyInit /\ OrgInit /\ ApiKeyInit /\ ThrottlerInit
    /\ TierInit /\ ReplayInit /\ RoutesInit /\ RegistryInit
    /\ part \in Parts
    /\ part # "sliding" => limiter = "route"

AccessNext ==
    /\ \/ part = "sessions" /\ SessionNext
       \/ part = "passkeys" /\ PasskeyNext
       \/ part = "members" /\ OrgNext
       \/ part = "keys" /\ ApiKeyNext
       \/ part = "sliding" /\ ThrottlerNext
       \/ part = "tiers" /\ TierNext
       \/ part = "replay" /\ ReplayNext
       \/ part = "routes" /\ RoutesNext
       \/ part = "registry" /\ RegistryNext
    /\ UNCHANGED part
    /\ part # "sessions" => UNCHANGED sessionVars
    /\ part # "passkeys" => UNCHANGED keyVars
    /\ part # "members" => UNCHANGED orgVars
    /\ part # "keys" => UNCHANGED apiKeyVars
    /\ part # "sliding" => UNCHANGED throttlerVars
    /\ part # "tiers" => UNCHANGED tierVars
    /\ part # "replay" => UNCHANGED replayVars
    /\ part # "routes" => UNCHANGED routeVars
    /\ part # "registry" => UNCHANGED registryVars

AccessSpec == AccessInit /\ [][AccessNext]_accessVars

-----------------------------------------------------------------------------
(* Properties                                                              *)

\* Who is let in may be let in.  A passkey response is good once; a revoked or
\* expired API key admits nobody, and a live one only to routes whose scopes it
\* covers; a request meets the guards of the most specific route of its path, and
\* a handler that is audited runs only for a role that may act.  See ReplayIsRefused,
\* DeadKeyIsRefused, ScopesCoveredUnlessOverlapped, MostSpecificWins, AuditedNeedsRole.
CallersAreAuthorised ==
    /\ ReplayIsRefused
    /\ DeadKeyIsRefused /\ ScopesCoveredUnlessOverlapped
    /\ MostSpecificWins /\ AuditedNeedsRole

\* The limit in force is the right one: an agent's old limit runs out, a tier counts
\* no more than its limit before its first block, and the scopes of a key never
\* loosen the tier of a route.  See OldLimitExpires, LimitUntilBlocked,
\* EffectiveTierIsTightest.
LimitsAreCurrent == OldLimitExpires /\ LimitUntilBlocked /\ EffectiveTierIsTightest

\* No throttler is outrun: SlidingWindowThrottlerGuard and AgentRateLimiterGuard admit
\* a request only below the limit, and RedisThrottlerStorage counts none during a
\* block.  See FewerThanLimitBefore, BlockHolds.
ThrottlesHold == [][FewerThanLimitBefore /\ BlockHolds]_<<throttlerVars, tierVars>>

\* Checks and writes that are separate statements go wrong only when they overlap: the
\* last owner, a handler run twice for one idempotency key, a handle held twice, an
\* archived agent or wallet that is not.  See OwnerLostNeedsRace, SecondRunNeedsRace,
\* RegistryBreaksNeedRace.
BreaksNeedRace == OwnerLostNeedsRace /\ SecondRunNeedsRace /\ RegistryBreaksNeedRace

\* An agent's metadata is kept secret and kept: no readable secret reaches the column,
\* and what is read is what was written.  See SecretsStayEncrypted, MetadataSurvives.
MetadataIsSafe == SecretsStayEncrypted /\ MetadataSurvives
===============================================================================
