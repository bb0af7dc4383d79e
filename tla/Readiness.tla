----------------------------- MODULE Readiness ------------------------------
(***************************************************************************)
(* When an instance may serve, in two parts that share no state: the       *)
(* checks at its start, and the probes while it runs.                      *)
(***************************************************************************)
EXTENDS Integers, FiniteSets, GuardedCalls

-----------------------------------------------------------------------------
(***************************************************************************)
(* Starting an instance against a database whose schema is migrated by     *)
(* hand (main.ts, database/prisma.service.ts, database/migration-checker,  *)
(* database/migration-guard, health/indicators/database-migration.health). *)
(* One instance boots while an operator uses the migration command line;   *)
(* the history table is read twice, first unconditionally from the default *)
(* folder, then in the configured mode from the configured folder.         *)
(***************************************************************************)

CONSTANTS MaxMigration,    \* migrations are numbered in their name order
          HasDown,         \* the migrations that ship a down.sql
          ConnectAttempts, \* DATABASE_CONNECT_RETRY_ATTEMPTS
          MaxCliRuns, MaxOutages

VARIABLES instance,    \* the booting process
          history,     \* migration -> its row: "none", "started", "finished"
          cli,         \* the command line: the command under way
          cliRuns, dbUp, outages,
          migratedSince, \* the history changed after the first check read it
          healthReport

bootVars == <<instance, history, cli, cliRuns, dbUp, outages, migratedSince, healthReport>>

Migrations == 1..MaxMigration

NoCommand == [command |-> "none", force |-> FALSE, production |-> FALSE]

\* The folders as the process finds them: an unreadable or missing folder
\* counts as one without migrations.
BootInit ==
  /\ \E mode \in {"strict", "warn", "off"}, default, configured \in {{}, Migrations} :
       instance = [pc |-> "connectApi", mode |-> mode, attempt |-> 1,
                   default |-> default, configured |-> configured]
  /\ history \in [Migrations -> {"none", "finished"}]
  /\ cli = NoCommand /\ cliRuns = 0
  /\ dbUp = TRUE /\ outages = 0
  /\ migratedSince = FALSE
  /\ healthReport = "none"

\* Mutant: a migration that failed half way counts as applied.
UpToDate_Recorded(folders) == \A m \in folders : history[m] # "none"

\* checkMigrationStatus: nothing pending and nothing unfinished.  Rows that
\* were rolled back are not read, so they are no rows here.
UpToDate(folders) == \A m \in folders : history[m] = "finished"

\* connectWithRetry, one attempt: the last failure is thrown and ends the
\* process, an earlier one waits and tries again.
Connect ==
  /\ instance.pc \in {"connectApi", "connectWorker"}
  /\ \/ /\ dbUp
        /\ instance' = [instance EXCEPT
             !.pc = IF @ = "connectApi" THEN "connectWorker" ELSE "validate", !.attempt = 1]
     \/ /\ ~dbUp /\ instance.attempt < ConnectAttempts
        /\ instance' = [instance EXCEPT !.attempt = @ + 1]
     \/ /\ ~dbUp /\ instance.attempt = ConnectAttempts
        /\ instance' = [instance EXCEPT !.pc = "exited"]
  /\ UNCHANGED <<history, cli, cliRuns, dbUp, outages, migratedSince, healthReport>>

\* validateMigrations in onModuleInit: always against the default folder,
\* and any problem is thrown.
ValidateMigrations ==
  /\ instance.pc = "validate"
  /\ instance' = [instance EXCEPT !.pc =
       IF dbUp /\ UpToDate(instance.default) THEN "gate" ELSE "exited"]
  /\ migratedSince' = FALSE
  /\ UNCHANGED <<history, cli, cliRuns, dbUp, outages, healthReport>>

\* verifyMigrationsOnStartup, then listen: only the strict mode throws.
VerifyMigrations ==
  /\ instance.pc = "gate"
  /\ instance' = [instance EXCEPT !.pc =
       IF instance.mode = "strict" /\ ~(dbUp /\ UpToDate(instance.configured))
       THEN "exited" ELSE "listening"]
  /\ UNCHANGED <<history, cli, cliRuns, dbUp, outages, migratedSince, healthReport>>

\* The readiness report of DatabaseMigrationHealthIndicator: it counts the
\* rows that are not finished.
CheckMigrationHealth ==
  /\ instance.pc = "listening"
  /\ healthReport' = CASE ~dbUp -> "down"
                       [] dbUp /\ \E m \in Migrations : history[m] = "started" -> "degraded"
                       [] OTHER -> "up"
  /\ UNCHANGED <<instance, history, cli, cliRuns, dbUp, outages, migratedSince>>

\* Mutant: resetting is not counted as destructive.
Destructive_DownOnly(command) == command = "down"

Destructive(command) == command \in {"down", "reset"}

\* checkMigrationSafety.
SafetyAllows(command, production, force) ==
  ~Destructive(command) \/ ~production \/ force

\* runMigrationCli up to the prisma call: a refused command does nothing.
\* down also needs the migration to have a down.sql.
RunCli ==
  \E command \in {"deploy", "status", "down", "reset"}, production, force \in BOOLEAN, m \in Migrations :
    /\ cli.command = "none" /\ cliRuns < MaxCliRuns
    /\ cliRuns' = cliRuns + 1
    /\ command # "down" => m = 1
    /\ cli' = IF /\ SafetyAllows(command, production, force)
                 /\ command = "down" => m \in HasDown
                 /\ command # "status"
              THEN [command |-> command, force |-> force, production |-> production, target |-> m]
              ELSE NoCommand
    /\ UNCHANGED <<instance, history, dbUp, outages, migratedSince, healthReport>>

WriteHistory(h) ==
  /\ dbUp
  /\ history' = h
  /\ migratedSince' = TRUE
  /\ UNCHANGED <<instance, cliRuns, dbUp, outages, healthReport>>

\* prisma migrate deploy: refuses while a failed row exists, else applies
\* the pending migrations in order, each recorded before and after.
StartMigration ==
  LET pending == {m \in Migrations : history[m] = "none"} IN
  /\ cli.command = "deploy"
  /\ \A m \in Migrations : history[m] # "started"
  /\ \E m \in pending :
       /\ \A n \in pending : m <= n
       /\ WriteHistory([history EXCEPT ![m] = "started"])
  /\ UNCHANGED cli

FinishMigration ==
  /\ cli.command = "deploy"
  /\ \E m \in Migrations :
       /\ history[m] = "started"
       /\ WriteHistory([history EXCEPT ![m] = "finished"])
  /\ UNCHANGED cli

\* The command ends: done, refused by prisma, or failed half way, which
\* leaves the migration's row unfinished.
EndDeploy ==
  /\ cli.command = "deploy"
  /\ cli' = NoCommand
  /\ UNCHANGED <<instance, history, cliRuns, dbUp, outages, migratedSince, healthReport>>

\* down.sql and the removal of the history row are one script.
MigrateDown ==
  /\ cli.command = "down"
  /\ WriteHistory([history EXCEPT ![cli.target] = "none"])
  /\ cli' = NoCommand

\* prisma migrate reset drops the database and deploys again.
MigrateReset ==
  /\ cli.command = "reset"
  /\ WriteHistory([m \in Migrations |-> "none"])
  /\ cli' = [cli EXCEPT !.command = "deploy"]

\* down and reset fail as a whole.
CommandFails ==
  /\ cli.command \in {"down", "reset"}
  /\ cli' = NoCommand
  /\ UNCHANGED <<instance, history, cliRuns, dbUp, outages, migratedSince, healthReport>>

\* prisma migrate resolve --rolled-back, which the instructions name.
ResolveRolledBack ==
  /\ cli.command = "none" /\ cliRuns < MaxCliRuns
  /\ cliRuns' = cliRuns + 1
  /\ dbUp
  /\ \E m \in Migrations :
       /\ history[m] = "started"
       /\ history' = [history EXCEPT ![m] = "none"]
  /\ migratedSince' = TRUE
  /\ UNCHANGED <<instance, cli, dbUp, outages, healthReport>>

Outage ==
  /\ dbUp => outages < MaxOutages
  /\ dbUp' = ~dbUp
  /\ outages' = IF dbUp THEN outages + 1 ELSE outages
  /\ UNCHANGED <<instance, history, cli, cliRuns, migratedSince, healthReport>>

BootNext ==
  \/ Connect \/ ValidateMigrations \/ VerifyMigrations \/ CheckMigrationHealth
  \/ RunCli \/ StartMigration \/ FinishMigration \/ EndDeploy
  \/ MigrateDown \/ MigrateReset \/ CommandFails \/ ResolveRolledBack
  \/ Outage

BootSpec == BootInit /\ [][BootNext]_bootVars

\* An instance that serves runs on a schema with every migration of its
\* default folder, whatever the mode, unless the folder could not be read or
\* the history changed after the check (prisma.service.ts:176).
ServingMeansMigrated ==
  instance.pc = "listening" /\ ~migratedSince =>
    \A m \in instance.default : history[m] = "finished"

\* A migration is undone in production only by a command run with --force
\* (migration-guard.ts:86).
ProductionUndoNeedsForce ==
  (\E m \in Migrations : history[m] = "finished" /\ history'[m] = "none")
    => ~cli.production \/ cli.force

-----------------------------------------------------------------------------
(***************************************************************************)
(* The readiness endpoints (modules/health/health.controller.ts) and the   *)
(* probes behind them.  A request starts every probe at once and answers   *)
(* when all have settled; each probe has its own budget, but the one for   *)
(* the migrations, which only has the query timeout of the database layer. *)
(* Between the moments its probes are answered a dependency may come and   *)
(* go.                                                                     *)
(***************************************************************************)

CONSTANTS ProbeTimeout,      \* the 2 s budget of the three indicators
          ProbeQueryTimeout, \* the database layer's own query timeout
          MaxDependencyChanges, MaxProbeClock

ASSUME HealthAssumption ==
  /\ ProbeTimeout \in Nat \ {0} /\ ProbeQueryTimeout \in Nat \ {0}
  /\ MaxProbeClock \in Nat

VARIABLES probeClock,
          dependency, changes, \* dependency -> "up", "bad" (answers an error), "hung"
          readiness,    \* the request under way
          wasUp         \* the dependencies seen up since the request began

healthVars == <<probeClock, dependency, changes, readiness, wasUp>>

Dependencies == {"database", "redis", "horizon", "soroban", "migrations"}

\* GET /health/ready asks the two critical ones, GET /health/readiness all.
ProbesOf(route) == IF route = "ready" THEN {"database", "redis"} ELSE Dependencies

NoReadiness == [pc |-> "idle", route |-> "ready", started |-> 0, results |-> <<>>, code |-> 0]

HealthInit ==
  /\ probeClock = 0
  /\ dependency = [d \in Dependencies |-> "up"] /\ changes = 0
  /\ readiness = NoReadiness
  /\ wasUp = {}

StartReadiness ==
  \E route \in {"ready", "readiness"} :
    /\ readiness.pc = "idle"
    /\ readiness' = [pc |-> "probing", route |-> route, started |-> probeClock, code |-> 0,
                     results |-> [d \in ProbesOf(route) |-> "pending"]]
    /\ wasUp' = {d \in Dependencies : dependency[d] = "up"}
    /\ UNCHANGED <<probeClock, dependency, changes>>

Elapsed == probeClock - readiness.started

Settle(d, status) ==
  /\ readiness' = [readiness EXCEPT !.results[d] = status]
  /\ UNCHANGED <<probeClock, dependency, changes, wasUp>>

Probing(d) ==
  /\ readiness.pc = "probing"
  /\ d \in DOMAIN readiness.results
  /\ readiness.results[d] = "pending"

\* checkHorizonEndpoint, checkSorobanRpcEndpoint: an answer that took more
\* than half of the budget is degraded, and so is one that is no success.
\* The database, Redis and migration probes know no latency limit.
ProbeAnswers(d) ==
  /\ Probing(d)
  /\ dependency[d] # "hung"
  /\ Settle(d, CASE d \in {"horizon", "soroban"} ->
                      IF dependency[d] = "bad" \/ 2 * Elapsed > ProbeTimeout THEN "degraded" ELSE "up"
                 [] d \notin {"horizon", "soroban"} /\ dependency[d] = "bad" -> "down"
                 [] OTHER -> "up")

ProbeBudgetOf(d) == IF d = "migrations" THEN ProbeQueryTimeout ELSE ProbeTimeout

\* The timer of withTimeout, the abort of fetch, or the query timeout.
ProbeTimesOut(d) ==
  /\ Probing(d)
  /\ Elapsed >= ProbeBudgetOf(d)
  /\ Settle(d, "down")

\* Mutant: only a probe that is down makes the instance unready.
IsHealthy_NotDown(results) == \A d \in DOMAIN results : results[d] # "down"

IsHealthy(results) == \A d \in DOMAIN results : results[d] = "up"

\* Promise.all has every result: 200 or 503.
RespondReady ==
  /\ readiness.pc = "probing"
  /\ \A d \in DOMAIN readiness.results : readiness.results[d] # "pending"
  /\ readiness' = [readiness EXCEPT !.pc = "answered",
                                    !.code = IF IsHealthy(readiness.results) THEN 200 ELSE 503]
  /\ UNCHANGED <<probeClock, dependency, changes, wasUp>>

DependencyChanges ==
  /\ changes < MaxDependencyChanges
  /\ changes' = changes + 1
  /\ \E d \in Dependencies, s \in {"up", "bad", "hung"} :
       /\ dependency[d] # s
       /\ dependency' = [dependency EXCEPT ![d] = s]
       /\ wasUp' = IF s = "up" THEN wasUp \cup {d} ELSE wasUp
  /\ UNCHANGED <<probeClock, readiness>>

ProbeTick ==
  /\ probeClock < MaxProbeClock
  /\ readiness.pc = "probing"
  /\ \E d \in DOMAIN readiness.results : readiness.results[d] = "pending"
  /\ \A d \in DOMAIN readiness.results : readiness.results[d] = "pending" => Elapsed < ProbeBudgetOf(d)
  /\ probeClock' = probeClock + 1
  /\ UNCHANGED <<dependency, changes, readiness, wasUp>>

HealthNext ==
  \/ StartReadiness \/ RespondReady \/ DependencyChanges \/ ProbeTick
  \/ \E d \in Dependencies : ProbeAnswers(d) \/ ProbeTimesOut(d)

HealthSpec == HealthInit /\ [][HealthNext]_healthVars

\* 200 is answered only when each dependency the route asks about was up at
\* some moment of the request (health.controller.ts:86, :132).
ReadyMeansSeenUp ==
  readiness.code = 200 => ProbesOf(readiness.route) \subseteq wasUp

\* A process that is listening, and one that says it is ready, has been seen to be so:
\* its migrations were there, its dependencies were up.  See ServingMeansMigrated,
\* ReadyMeansSeenUp.
ServingIsChecked == ServingMeansMigrated /\ ReadyMeansSeenUp

\* Delays between attempts only grow, and no command undoes a migration in production
\* without --force.  See DelaysNeverShrink, ProductionUndoNeedsForce.
StepsAreCautious == [][DelaysNeverShrink /\ ProductionUndoNeedsForce]_<<retryVars, bootVars>>
=============================================================================
