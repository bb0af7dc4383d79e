-------------------------- MODULE TransactionRetry --------------------------
(***************************************************************************)
(* PrismaTransactionService.runWithRetry around the guarded status changes  *)
(* of TransactionService (execute, cancel), statement by statement: the     *)
(* read that takes the snapshot of a SERIALIZABLE transaction, the update   *)
(* that waits for the row lock and loses against a newer version (P2034),   *)
(* the commit, and a reply to the commit that may be lost.  Only P2034 is   *)
(* replayed.  Postgres is modelled from how this code relies on it.         *)
(***************************************************************************)
EXTENDS Naturals

CONSTANTS Updates, InitialStatus, Admits, Target,
          MaxTxAttempts,   \* options.attempts, DEFAULT_RETRY_ATTEMPTS when absent
          Nobody           \* no transaction holds the row

ASSUME RetriesAssumption == MaxTxAttempts \in Nat \ {0} /\ Nobody \notin Updates

VARIABLES
  rowStatus, rowVersion,   \* the committed row
  rowLock,                 \* the call whose open transaction has updated the row
  unit                     \* the calls

unitVars == <<rowStatus, rowVersion, rowLock, unit>>

\* An attempt starts: no snapshot yet.
Attempt(n) == [pc |-> "begin", attempt |-> n, seen |-> 0, landed |-> FALSE, answer |-> "none"]

UnitInit ==
  /\ rowStatus = InitialStatus
  /\ rowVersion = 0
  /\ rowLock = Nobody
  /\ unit = [u \in Updates |-> Attempt(1)]

Ends(u, answer) == unit' = [unit EXCEPT ![u].pc = "ended", ![u].answer = answer]

\* findById with the transactional client; a status the guard does not admit
\* throws ConflictException and the transaction, which wrote nothing, ends.
ReadRow(u) ==
  /\ unit[u].pc = "begin"
  /\ IF rowStatus \in Admits[u]
     THEN unit' = [unit EXCEPT ![u].pc = "read", ![u].seen = rowVersion]
     ELSE Ends(u, "conflict")
  /\ UNCHANGED <<rowStatus, rowVersion, rowLock>>

ReleaseRow(u) == rowLock' = IF rowLock = u THEN Nobody ELSE rowLock

\* The catch block of runWithRetry, for P2034.
RetryConflict(u) ==
  /\ IF unit[u].attempt = MaxTxAttempts
     THEN Ends(u, "P2034")
     ELSE unit' = [unit EXCEPT ![u] = Attempt(unit[u].attempt + 1)]
  /\ ReleaseRow(u)
  /\ UNCHANGED <<rowStatus, rowVersion>>

\* Mutant: READ COMMITTED, where the update takes the newest version.
UpdateRow_ReadCommitted(u) ==
  /\ unit[u].pc = "read"
  /\ rowLock = Nobody
  /\ unit' = [unit EXCEPT ![u].pc = "written"]
  /\ rowLock' = u
  /\ UNCHANGED <<rowStatus, rowVersion>>

\* update: waits while another transaction holds the row.
UpdateRow(u) ==
  /\ unit[u].pc = "read"
  /\ rowLock = Nobody
  /\ IF unit[u].seen = rowVersion
     THEN /\ unit' = [unit EXCEPT ![u].pc = "written"]
          /\ rowLock' = u
          /\ UNCHANGED <<rowStatus, rowVersion>>
     ELSE RetryConflict(u)

CommitUnit(u) ==
  /\ unit[u].pc = "written"
  /\ rowStatus' = Target[u]
  /\ rowVersion' = rowVersion + 1
  /\ ReleaseRow(u)
  /\ unit' = [unit EXCEPT ![u].pc = "committed", ![u].landed = TRUE]

\* Postgres may abort a serializable transaction that would have been correct.
AbortUnit(u) ==
  /\ unit[u].pc \in {"read", "written"}
  /\ RetryConflict(u)

Acknowledge(u) ==
  /\ unit[u].pc = "committed"
  /\ Ends(u, "done")
  /\ UNCHANGED <<rowStatus, rowVersion, rowLock>>

\* Any other error is surfaced without a replay: a timeout or a lost
\* connection before the commit, or after it.
UnitFails(u) ==
  /\ unit[u].pc \in {"begin", "read", "written", "committed"}
  /\ Ends(u, "error")
  /\ ReleaseRow(u)
  /\ UNCHANGED <<rowStatus, rowVersion>>

UnitStep(u) ==
  \/ ReadRow(u) \/ UpdateRow(u) \/ CommitUnit(u) \/ AbortUnit(u)
  \/ Acknowledge(u) \/ UnitFails(u)

UnitNext == \E u \in Updates : UnitStep(u)

UnitSpec == UnitInit /\ [][UnitNext]_unitVars

-----------------------------------------------------------------------------
OutcomeOf(c) ==
  CASE c.landed -> "applied"
    [] ~c.landed /\ c.pc = "ended" /\ c.answer = "conflict" -> "refused"
    [] ~c.landed /\ c.pc = "ended" /\ c.answer # "conflict" -> "failed"
    [] ~c.landed /\ c.pc # "ended" -> "open"

Abstract == INSTANCE GuardedUpdate
              WITH status <- rowStatus, outcome <- [u \in Updates |-> OutcomeOf(unit[u])]

(* A status change made through runWithRetry is one atomic guarded update:  *)
(* whatever the interleaving of statements, the conflicts, the replays and  *)
(* the failures, a call writes its status at most once, on a row whose      *)
(* status its guard admits at that very moment, and a call that is refused  *)
(* or told P2034 wrote nothing.                                             *)
ImplementsGuardedUpdate == Abstract!GuardedSpec

UnitRecords ==
  [pc : {"begin", "read", "written", "committed", "ended"}, attempt : 1..MaxTxAttempts,
   seen : Nat, landed : BOOLEAN, answer : {"none", "conflict", "P2034", "done", "error"}]

\* Where the calls stand, and who may hold the row.
UnitTypeOK ==
  /\ rowVersion \in Nat
  /\ rowLock \in Updates \cup {Nobody}
  /\ unit \in [Updates -> UnitRecords]

\* The inductive invariant behind the refinement: the row is held by the one call
\* that has updated it, on the version it read, and a version that has been read
\* and is still current has a status that the reader's guard admits.
SnapshotIsCurrent ==
  \A u \in Updates :
    /\ unit[u].pc \in {"begin", "read", "written"} => ~unit[u].landed
    /\ unit[u].pc = "committed" => unit[u].landed
    /\ unit[u].answer = "conflict" => ~unit[u].landed
    /\ unit[u].pc # "ended" => unit[u].answer = "none"
    /\ unit[u].pc = "written" <=> rowLock = u
    /\ unit[u].pc \in {"read", "written"} => unit[u].seen <= rowVersion
    /\ unit[u].pc = "written" => unit[u].seen = rowVersion
    /\ unit[u].pc \in {"read", "written"} /\ unit[u].seen = rowVersion => rowStatus \in Admits[u]
=============================================================================
