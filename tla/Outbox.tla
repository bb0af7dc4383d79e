------------------------------- MODULE Outbox -------------------------------
(***************************************************************************)
(* OutboxService (src/modules/outbox): a five-second cron publishes the    *)
(* rows of outbox_events to the queue 'outbox-events', and a daily one     *)
(* deletes the completed ones.  Every API instance runs both crons, and a  *)
(* tick does not wait for the one before it.  The rows' FOR UPDATE SKIP    *)
(* LOCKED locks end with the SELECT, which runs outside a transaction.     *)
(* Nothing under src/ inserts rows or consumes the queue yet.              *)
(***************************************************************************)
EXTENDS Naturals, Sequences, FiniteSets

CONSTANTS
    Events,        \* rows of outbox_events
    Ticks,         \* executions of processOutboxEvents
    PageSize,      \* LIMIT 50
    MaxRetries     \* 3

ASSUME OutboxAssumption == PageSize \in Nat \ {0} /\ MaxRetries \in Nat

VARIABLES
    outboxRow,     \* [Events -> [status, retryCount]]
    queued,        \* events whose job outbox-<id> the queue has accepted
    misses,      \* [Events -> passes that ended in the catch block] (history)
    tick           \* [Ticks -> [step, page: the rows read and not yet handled]]

outboxVars == <<outboxRow, queued, misses, tick>>

Statuses == {"PENDING", "COMPLETED", "FAILED", "deleted"}

OutboxInit ==
    /\ outboxRow = [e \in Events |-> [status |-> "PENDING", retryCount |-> 0]]
    /\ queued = {}
    /\ misses = [e \in Events |-> 0]
    /\ tick = [t \in Ticks |-> [step |-> "idle", page |-> <<>>]]

Due(e) ==
    \/ outboxRow[e].status = "PENDING"
    \/ outboxRow[e].status = "FAILED" /\ outboxRow[e].retryCount < MaxRetries

\* A page of due rows, less those another SELECT has locked at this moment, each
\* with the retryCount it had when read.
Poll(t) ==
    /\ tick[t].step = "idle"
    /\ \E n \in 0..PageSize : \E page \in [1..n -> {e \in Events : Due(e)}] :
        /\ \A i, j \in DOMAIN page : i # j => page[i] # page[j]
        /\ tick' = [tick EXCEPT ![t] =
             [step |-> IF page = <<>> THEN "done" ELSE "add",
              page |-> [i \in DOMAIN page |-> [event |-> page[i], retryCount |-> outboxRow[page[i]].retryCount]]]]
    /\ UNCHANGED <<outboxRow, queued, misses>>

Current(t) == Head(tick[t].page).event

\* On to the next row of the page.
HandledRow(t) ==
    tick' = [tick EXCEPT ![t] = [step |-> IF Len(@.page) = 1 THEN "done" ELSE "add", page |-> Tail(@.page)]]

\* The queue ignores an add whose job id it still knows.
Add(t) ==
    /\ tick[t].step = "add"
    /\ queued' = queued \cup {Current(t)}
    /\ tick' = [tick EXCEPT ![t].step = "complete"]
    /\ UNCHANGED <<outboxRow, misses>>

\* The add, which the queue may have accepted all the same, or the update after
\* it throws into the same catch.
RowThrows(t) ==
    /\ tick[t].step \in {"add", "complete"}
    /\ tick' = [tick EXCEPT ![t].step = "fail"]
    /\ misses' = [misses EXCEPT ![Current(t)] = @ + 1]
    /\ queued' \in {queued, queued \cup {Current(t)}}
    /\ UNCHANGED outboxRow

MarkCompleted(t) ==
    /\ tick[t].step = "complete"
    /\ outboxRow[Current(t)].status # "deleted"
    /\ outboxRow' = [outboxRow EXCEPT ![Current(t)].status = "COMPLETED"]
    /\ HandledRow(t)
    /\ UNCHANGED <<queued, misses>>

\* retryCount is one more than when the row was read, whatever it is now.
MarkFailed_Twice(t) ==
    /\ tick[t].step = "fail"
    /\ outboxRow[Current(t)].status # "deleted"
    /\ outboxRow' = [outboxRow EXCEPT ![Current(t)] =
                 [status |-> "FAILED",
                  retryCount |-> LET n == Head(tick[t].page).retryCount
                                 IN IF n + 2 > MaxRetries THEN MaxRetries ELSE n + 2]]
    /\ HandledRow(t)
    /\ UNCHANGED <<queued, misses>>

MarkFailed(t) ==
    /\ tick[t].step = "fail"
    /\ outboxRow[Current(t)].status # "deleted"
    /\ outboxRow' = [outboxRow EXCEPT ![Current(t)] =
                 [status |-> "FAILED", retryCount |-> Head(tick[t].page).retryCount + 1]]
    /\ HandledRow(t)
    /\ UNCHANGED <<queued, misses>>

\* An update inside the catch throws out of the loop (always, for a row that the
\* cleanup deleted), and so does the death of the instance.
TickEnds(t) ==
    /\ tick[t].step \in {"add", "complete", "fail"}
    /\ tick' = [tick EXCEPT ![t] = [step |-> "done", page |-> <<>>]]
    /\ UNCHANGED <<outboxRow, queued, misses>>

\* cleanupProcessedEvents
Cleanup ==
    \E es \in SUBSET {e \in Events : outboxRow[e].status = "COMPLETED"} :
        /\ es # {}
        /\ outboxRow' = [e \in Events |-> IF e \in es THEN [outboxRow[e] EXCEPT !.status = "deleted"] ELSE outboxRow[e]]
        /\ UNCHANGED <<queued, misses, tick>>

OutboxNext ==
    \/ \E t \in Ticks :
        Poll(t) \/ Add(t) \/ RowThrows(t) \/ MarkCompleted(t) \/ MarkFailed(t) \/ TickEnds(t)
    \/ Cleanup

OutboxSpec == OutboxInit /\ [][OutboxNext]_outboxVars

-----------------------------------------------------------------------------
(* Properties                                                              *)

\* Rows, pages and counters keep their types.
OutboxTypeOK ==
    /\ \A e \in Events : outboxRow[e].status \in Statuses /\ outboxRow[e].retryCount \in 0..MaxRetries
    /\ queued \subseteq Events
    /\ misses \in [Events -> 0..Cardinality(Ticks)]
    /\ \A t \in Ticks :
        /\ tick[t].step \in {"idle", "add", "complete", "fail", "done"}
        /\ Len(tick[t].page) <= PageSize

\* The status of a row is true, however ticks overlap and wherever they die.  A row
\* that reads COMPLETED, or is gone, was published; an event that is given up
\* (FAILED with no retries left) failed in at least MaxRetries passes: lost updates
\* of retryCount make for more attempts, never for fewer.
RowIsTrue ==
    \A e \in Events :
        /\ outboxRow[e].status \in {"COMPLETED", "deleted"} => e \in queued
        /\ outboxRow[e].status = "FAILED" /\ outboxRow[e].retryCount = MaxRetries => misses[e] >= MaxRetries
=============================================================================
