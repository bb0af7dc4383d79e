-------------------------- MODULE IdempotentCreate --------------------------
(***************************************************************************)
(* POST /transactions with an Idempotency-Key: TransactionService.create   *)
(* and the idempotency records of TransactionRepository.  A request is a   *)
(* process; each step is one database statement.  What createTransaction   *)
(* does with the payment is left to AgentBudget; here it fails before the  *)
(* row, writes the row, and fails or succeeds after it.                    *)
(*                                                                         *)
(* A key stands for (principal, operation, keyHash), which is unique in    *)
(* the table, and a payload for the canonical hash of a request body.      *)
(***************************************************************************)
CONSTANTS
    Requests,
    Keys,
    KeyOf,       \* [Requests -> Keys]
    Payloads,
    PayloadOf,   \* [Requests -> Payloads]
    None         \* no request

ASSUME IdempotencyAssumption ==
    /\ KeyOf \in [Requests -> Keys]
    /\ PayloadOf \in [Requests -> Payloads]
    /\ None \notin Requests

VARIABLES
    reserved,    \* [Keys -> Requests \cup {None}]: the request whose record is stored
    completed,   \* keys whose record is COMPLETED and holds a response
    attached,    \* keys whose record has a transactionId
    expired,     \* keys whose record is past its expiresAt
    rows,        \* the requests whose transaction row exists
    answer,      \* [Requests -> Requests \cup {None}]: whose result was returned
    aged,        \* history: the keys a record of which has expired
    pc           \* [Requests -> IdempotencySteps]

idempotencyVars == <<reserved, completed, attached, expired, rows, answer, aged, pc>>

\* "ended" requests have answered with a result, a conflict or an error; "dead"
\* ones never answer.
IdempotencySteps ==
    {"purge", "insert", "lookup", "create", "attach", "rest", "complete", "release",
     "ended", "dead"}

InFlight(r) == pc[r] \in {"create", "attach", "rest", "complete", "release"}

Goto(r, to) == pc' = [pc EXCEPT ![r] = to]

Init ==
    /\ reserved = [k \in Keys |-> None]
    /\ completed = {}
    /\ attached = {}
    /\ expired = {}
    /\ rows = {}
    /\ answer = [r \in Requests |-> None]
    /\ aged = {}
    /\ pc = [r \in Requests |-> "purge"]

\* Deleting the records of a set of keys.
Delete(ks) ==
    /\ reserved' = [k \in Keys |-> IF k \in ks THEN None ELSE reserved[k]]
    /\ completed' = completed \ ks
    /\ attached' = attached \ ks
    /\ expired' = expired \ ks

-----------------------------------------------------------------------------
(* reserveIdempotencyKey                                                   *)

Purge(r) ==
    /\ pc[r] = "purge"
    /\ Delete({KeyOf[r]} \cap expired)
    /\ Goto(r, "insert")
    /\ UNCHANGED <<rows, answer, aged>>

\* The insert succeeds, or fails on the unique constraint (P2002).
Insert(r) ==
    /\ pc[r] = "insert"
    /\ \/ /\ reserved[KeyOf[r]] = None
          /\ reserved' = [reserved EXCEPT ![KeyOf[r]] = r]
          /\ Goto(r, "create")
       \/ /\ reserved[KeyOf[r]] # None
          /\ UNCHANGED reserved
          /\ Goto(r, "lookup")
    /\ UNCHANGED <<completed, attached, expired, rows, answer, aged>>

\* Mutant: the record's status is not looked at.
Lookup_AnyStatus(r) ==
    LET k == KeyOf[r] IN
    /\ pc[r] = "lookup"
    /\ answer' = [answer EXCEPT ![r] =
          IF reserved[k] # None /\ PayloadOf[reserved[k]] = PayloadOf[r]
          THEN reserved[k] ELSE None]
    /\ Goto(r, "ended")
    /\ UNCHANGED <<reserved, completed, attached, expired, rows, aged>>

\* The record of the other request: its stored response is replayed when the
\* payload is the same and the record COMPLETED; a missing record, another
\* payload and a record in process are errors.
Lookup(r) ==
    LET k == KeyOf[r] IN
    /\ pc[r] = "lookup"
    /\ answer' = [answer EXCEPT ![r] =
          IF reserved[k] # None /\ PayloadOf[reserved[k]] = PayloadOf[r] /\ k \in completed
          THEN reserved[k] ELSE None]
    /\ Goto(r, "ended")
    /\ UNCHANGED <<reserved, completed, attached, expired, rows, aged>>

-----------------------------------------------------------------------------
(* create, with the record reserved                                        *)

\* createTransaction throws before the row is written.
CreateFails(r) ==
    /\ pc[r] = "create"
    /\ Goto(r, "release")
    /\ UNCHANGED <<reserved, completed, attached, expired, rows, answer, aged>>

CreateRow(r) ==
    /\ pc[r] = "create"
    /\ rows' = rows \cup {r}
    /\ Goto(r, "attach")
    /\ UNCHANGED <<reserved, completed, attached, expired, answer, aged>>

\* Mutant: the catch block releases whatever was created.
Attach_Release(r) ==
    /\ pc[r] = "attach"
    /\ \/ attached' = attached \cup {KeyOf[r]} /\ Goto(r, "rest")
       \/ UNCHANGED attached /\ Goto(r, "release")
    /\ UNCHANGED <<reserved, completed, expired, rows, answer, aged>>

\* attachIdempotencyTransaction; transactionId is set whether or not it throws,
\* so the catch block leaves the record alone.
Attach(r) ==
    /\ pc[r] = "attach"
    /\ \/ attached' = attached \cup {KeyOf[r]} /\ Goto(r, "rest")
       \/ UNCHANGED attached /\ Goto(r, "ended")
    /\ UNCHANGED <<reserved, completed, expired, rows, answer, aged>>

\* The rest of createTransaction returns a result or throws.
Rest(r) ==
    /\ pc[r] = "rest"
    /\ Goto(r, "complete") \/ Goto(r, "ended")
    /\ UNCHANGED <<reserved, completed, attached, expired, rows, answer, aged>>

\* completeIdempotencyKey, or its failure.
Complete(r) ==
    /\ pc[r] = "complete"
    /\ \/ /\ completed' = completed \cup {KeyOf[r]}
          /\ attached' = attached \cup {KeyOf[r]}
          /\ answer' = [answer EXCEPT ![r] = r]
       \/ UNCHANGED <<completed, attached, answer>>
    /\ Goto(r, "ended")
    /\ UNCHANGED <<reserved, expired, rows, aged>>

\* Mutant: the reservation of a failed request stays.
Release_Kept(r) ==
    /\ pc[r] = "release"
    /\ Goto(r, "ended")
    /\ UNCHANGED <<reserved, completed, attached, expired, rows, answer, aged>>

\* releaseIdempotencyKey: by record id, and only without a transactionId.
Release(r) ==
    /\ pc[r] = "release"
    /\ Delete({k \in {KeyOf[r]} : reserved[k] = r /\ k \notin attached})
    /\ Goto(r, "ended")
    /\ UNCHANGED <<rows, answer, aged>>

\* The process dies, or a statement outside the try block throws.
Die(r) ==
    /\ pc[r] \notin {"purge", "ended", "dead"}
    /\ Goto(r, "dead")
    /\ UNCHANGED <<reserved, completed, attached, expired, rows, answer, aged>>

-----------------------------------------------------------------------------
(* Expiry                                                                  *)

\* expiresAt passes.  IDEMPOTENCY_RETENTION_MS is 24 hours, longer than any
\* request is in flight.
Expire(k) ==
    /\ reserved[k] # None
    /\ k \notin expired
    /\ ~InFlight(reserved[k])
    /\ expired' = expired \cup {k}
    /\ aged' = aged \cup {k}
    /\ UNCHANGED <<reserved, completed, attached, rows, answer, pc>>

\* Mutant: the cleanup removes completed records only.
Cleanup_Completed ==
    /\ expired \cap completed # {}
    /\ Delete(expired \cap completed)
    /\ UNCHANGED <<rows, answer, aged, pc>>

\* removeExpiredRecords, every hour.
Cleanup ==
    /\ expired # {}
    /\ Delete(expired)
    /\ UNCHANGED <<rows, answer, aged, pc>>

Reserve(r) == Purge(r) \/ Insert(r) \/ Lookup(r)

\* The steps of create() that are its own; CreateFails and CreateRow stand for
\* createTransaction.
Submit(r) == Attach(r) \/ Rest(r) \/ Complete(r) \/ Release(r)

Next ==
    \/ \E r \in Requests :
          Reserve(r) \/ CreateFails(r) \/ CreateRow(r) \/ Submit(r) \/ Die(r)
    \/ \E k \in Keys : Expire(k)
    \/ Cleanup

Spec == Init /\ [][Next]_idempotencyVars

-----------------------------------------------------------------------------
(* Properties                                                              *)

\* The records, the rows and the requests' steps keep their types.
TypeOK ==
    /\ reserved \in [Keys -> Requests \cup {None}]
    /\ completed \subseteq Keys
    /\ attached \subseteq Keys
    /\ expired \subseteq Keys
    /\ rows \subseteq Requests
    /\ answer \in [Requests -> Requests \cup {None}]
    /\ aged \subseteq Keys
    /\ pc \in [Requests -> IdempotencySteps]

\* "A matching completed request returns its stored result without creating a
\* transaction": however often a client retries, however the retries overlap and
\* whatever fails or dies in between, a key creates at most one transaction until
\* one of its records has expired.
AtMostOnce ==
    \A q, r \in rows : KeyOf[q] = KeyOf[r] /\ KeyOf[r] \notin aged => q = r

\* A replayed response is the response to the same payload under the same key,
\* and the transaction it describes exists.
ReplayIsOriginal ==
    \A r \in Requests :
        answer[r] # None =>
            /\ answer[r] \in rows
            /\ KeyOf[answer[r]] = KeyOf[r]
            /\ PayloadOf[answer[r]] = PayloadOf[r]

\* "If processing fails before a transaction is persisted, its reservation is
\* removed so the client can retry": an answered request without a row holds no
\* record.
FailureFreesKey ==
    \A r \in Requests :
        pc[r] = "ended" /\ r \notin rows => reserved[KeyOf[r]] # r

\* What a key stands for is true of its requests, whether they succeed or fail: it
\* answers a retry with the transaction of the original, and it refuses a retry
\* for no request that failed before it wrote a row.
KeyTellsTruth == ReplayIsOriginal /\ FailureFreesKey

\* No record blocks its key for ever, also not that of a request that died.
KeyIsFreed ==
    \A k \in Keys : reserved[k] # None ~> reserved[k] = None
=============================================================================
