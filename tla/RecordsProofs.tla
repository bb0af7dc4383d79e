---------------------------- MODULE RecordsProofs ----------------------------
(***************************************************************************)
(* Proofs about what is recorded of a request (Outbox, EventBus and        *)
(* RequestAudit), about CircuitBreaker and about TransactionRetry, for     *)
(* every value of their constants.                                         *)
(***************************************************************************)
EXTENDS RequestAudit, CircuitBreaker, TransactionRetry, FiniteSetTheorems, TLAPS

-----------------------------------------------------------------------------
(* The outbox                                                              *)

\* What a tick has read of a row, and a tick.
PageEntry == [event : Events, retryCount : Nat]

TickState == [step : {"idle", "add", "complete", "fail", "done"}, page : Seq(PageEntry)]

\* A tick has read no more failures than there were, has added one in the catch block,
\* and marks a row COMPLETED only once it is in the queue.
TickInOrder(t, inQueue, missed) ==
    /\ t \in TickState
    /\ t.step \in {"add", "complete", "fail"} => t.page # <<>>
    /\ t.step = "complete" => t.page[1].event \in inQueue
    /\ \A i \in 1..Len(t.page) : t.page[i].retryCount <= missed[t.page[i].event]
    /\ t.step = "fail" => t.page[1].retryCount + 1 <= missed[t.page[1].event]

\* The same of the rows.
RowInOrder(e, r, inQueue, missed) ==
    /\ r \in [status : Statuses, retryCount : Nat]
    /\ r.status \in {"COMPLETED", "deleted"} => e \in inQueue
    /\ r.retryCount <= missed[e]

OutboxInv ==
    /\ misses \in [Events -> Nat]
    /\ outboxRow = [e \in Events |-> outboxRow[e]] /\ \A e \in Events : RowInOrder(e, outboxRow[e], queued, misses)
    /\ tick = [t \in Ticks |-> tick[t]] /\ \A t \in Ticks : TickInOrder(tick[t], queued, misses)

\* Both survive when more is queued and more has failed.
LEMMA StaysInOrder ==
    ASSUME misses \in [Events -> Nat], misses' \in [Events -> Nat], queued \subseteq queued',
           \A e \in Events : misses[e] <= misses'[e]
    PROVE  /\ \A t : TickInOrder(t, queued, misses) => TickInOrder(t, queued', misses')
           /\ \A e \in Events : \A r : RowInOrder(e, r, queued, misses) => RowInOrder(e, r, queued', misses')
  <1>1. ASSUME NEW t, TickInOrder(t, queued, misses) PROVE TickInOrder(t, queued', misses')
    <2>1. t \in TickState /\ t.page \in Seq(PageEntry)
      BY <1>1 DEF TickInOrder, TickState
    <2>2. ASSUME NEW i \in 1..Len(t.page)
          PROVE  t.page[i].event \in Events /\ t.page[i].retryCount \in Nat
      <3> DEFINE p == t.page
      <3>1. p \in Seq(PageEntry) /\ i \in 1..Len(p)
        BY <2>1, <2>2
      <3> HIDE DEF p
      <3>2. p[i] \in PageEntry
        BY <3>1, SMTT(30)
      <3> QED
        BY <3>2 DEF PageEntry, p
    <2>3. ASSUME NEW i \in 1..Len(t.page)
          PROVE  t.page[i].retryCount <= misses'[t.page[i].event]
      BY <1>1, <2>2, <2>3, SMTT(30) DEF TickInOrder
    <2>4. t.step \in {"add", "complete", "fail"} => 1 \in 1..Len(t.page)
      BY <1>1, <2>1, SMTT(30) DEF TickInOrder
    <2>5. t.step = "fail" => t.page[1].retryCount + 1 <= misses'[t.page[1].event]
      BY <1>1, <2>2, <2>4 DEF TickInOrder
    <2> QED
      BY <1>1, <2>1, <2>3, <2>5 DEF TickInOrder
  <1>2. ASSUME NEW e \in Events, NEW r, RowInOrder(e, r, queued, misses)
        PROVE  RowInOrder(e, r, queued', misses')
    BY <1>2, SMTT(30) DEF RowInOrder
  <1> QED
    BY <1>1, <1>2

\* The first row of a page that is not empty, and the page without it.
LEMMA CurrentRow ==
    ASSUME OutboxInv, NEW t \in Ticks, tick[t].step \in {"add", "complete", "fail"}
    PROVE  /\ Head(tick[t].page) = tick[t].page[1] /\ tick[t].page[1] \in PageEntry
           /\ Current(t) = tick[t].page[1].event /\ Current(t) \in Events
           /\ tick[t].page[1].retryCount <= misses[Current(t)]
           /\ tick[t].page \in Seq(PageEntry) /\ tick[t].page # <<>>
           /\ TickInOrder([step |-> IF Len(tick[t].page) = 1 THEN "done" ELSE "add",
                           page |-> Tail(tick[t].page)], queued, misses)
  <1> DEFINE p == tick[t].page
  <1>1. TickInOrder(tick[t], queued, misses) /\ p \in Seq(PageEntry) /\ p # <<>>
    BY SMTT(30) DEF OutboxInv, TickInOrder, TickState
  <1>2. Head(p) = p[1] /\ p[1] \in PageEntry /\ 1 \in 1..Len(p)
    BY <1>1, SMTT(30)
  <1>3. p[1].retryCount <= misses[p[1].event]
    BY <1>1, <1>2, SMTT(30) DEF TickInOrder
  <1>4. \A i \in 1..Len(p) : p[i].retryCount <= misses[p[i].event]
    BY <1>1 DEF TickInOrder
  <1> DEFINE q == Tail(p)
             r == [step |-> IF Len(p) = 1 THEN "done" ELSE "add", page |-> q]
  <1>5. Current(t) = p[1].event /\ Current(t) \in Events
    BY <1>2 DEF Current, PageEntry
  <1> HIDE DEF p
  <1>6. /\ q \in Seq(PageEntry) /\ Len(q) = Len(p) - 1
        /\ \A i \in 1..Len(q) : i + 1 \in 1..Len(p) /\ q[i] = p[i + 1]
    BY <1>1, SMTT(30)
  <1>7. \A i \in 1..Len(q) : q[i].retryCount <= misses[q[i].event]
    BY <1>4, <1>6
  <1>8. Len(p) # 1 => q # <<>>
    <2>1. Len(p) # 1 => Len(q) # 0
      BY <1>1, <1>6, SMTT(30)
    <2> QED
      BY <2>1, Len(<<>>) = 0, Zenon
  <1> HIDE DEF q
  <1>9. r \in TickState /\ r.step \in {"done", "add"} /\ r.page = q /\ (r.step = "add" => Len(p) # 1)
    BY <1>6, SMTT(30) DEF TickState
  <1> HIDE DEF r
  <1>10. TickInOrder(r, queued, misses)
    BY <1>7, <1>8, <1>9, SMTT(30) DEF TickInOrder
  <1> QED
    BY <1>1, <1>2, <1>3, <1>5, <1>10, SMTT(30) DEF p, q, r

\* A tick writes the row at hand and goes on to the next.
LEMMA RowHandled ==
    ASSUME OutboxInv, NEW t \in Ticks, tick[t].step \in {"add", "complete", "fail"}, HandledRow(t),
           NEW r, RowInOrder(Current(t), r, queued, misses),
           outboxRow' = [outboxRow EXCEPT ![Current(t)] = r], queued' = queued, misses' = misses
    PROVE  OutboxInv'
  <1> DEFINE new == [step |-> IF Len(tick[t].page) = 1 THEN "done" ELSE "add",
                     page |-> Tail(tick[t].page)]
  <1>1. TickInOrder(new, queued, misses)
    BY CurrentRow
  <1>2. tick' = [tick EXCEPT ![t] = new]
    BY DEF HandledRow, OutboxInv
  <1> HIDE DEF new
  <1> QED
    BY <1>1, <1>2, SMTT(30) DEF OutboxInv

\* Every step of a tick and of the cleanup keeps the invariant.
LEMMA OutboxStep == OutboxInv /\ [OutboxNext]_outboxVars => OutboxInv'
  <1> SUFFICES ASSUME OutboxInv, [OutboxNext]_outboxVars PROVE OutboxInv'
    OBVIOUS
  <1>1. ASSUME NEW t \in Ticks, Poll(t) PROVE OutboxInv'
    <2>0. PICK n \in 0..PageSize : \E page \in [1..n -> {e \in Events : Due(e)}] :
            tick' = [tick EXCEPT ![t] =
              [step |-> IF page = <<>> THEN "done" ELSE "add",
               page |-> [i \in DOMAIN page |-> [event |-> page[i], retryCount |-> outboxRow[page[i]].retryCount]]]]
      BY <1>1, Zenon DEF Poll
    <2>1. PICK page \in [1..n -> {e \in Events : Due(e)}] :
            tick' = [tick EXCEPT ![t] =
              [step |-> IF page = <<>> THEN "done" ELSE "add",
               page |-> [i \in DOMAIN page |-> [event |-> page[i], retryCount |-> outboxRow[page[i]].retryCount]]]]
      BY <2>0, Zenon
    <2>2. n \in Nat /\ page \in [1..n -> Events]
      BY OutboxAssumption DEF OutboxAssumption
    <2> DEFINE entries == [i \in DOMAIN page |-> [event |-> page[i],
          retryCount |-> outboxRow[page[i]].retryCount]]
               new == [step |-> IF page = <<>> THEN "done" ELSE "add", page |-> entries]
    <2>3. \A e \in Events : outboxRow[e].retryCount \in Nat /\ outboxRow[e].retryCount <= misses[e]
      BY SMTT(30) DEF OutboxInv, RowInOrder
    <2>4. entries \in Seq(PageEntry) /\ (page # <<>> => entries # <<>>) /\ DOMAIN entries = 1..Len(entries)
      BY <2>2, <2>3, SMTT(30) DEF PageEntry
    <2>5. \A i \in DOMAIN entries : entries[i].retryCount <= misses[entries[i].event]
      BY <2>2, <2>3, SMTT(30)
    <2> HIDE DEF entries
    <2>6. new \in TickState /\ new.page = entries /\ new.step \in {"done", "add"} /\ (new.step = "add" => page # <<>>)
      BY <2>4, SMTT(30) DEF TickState
    <2>7. tick' = [tick EXCEPT ![t] = new]
      BY <2>1, SMTT(30) DEF entries
    <2> HIDE DEF new
    <2>8. TickInOrder(new, queued, misses)
      BY <2>4, <2>5, <2>6, SMTT(30) DEF TickInOrder
    <2>9. UNCHANGED <<outboxRow, queued, misses>>
      BY <1>1 DEF Poll
    <2> QED
      BY <2>7, <2>8, <2>9, SMTT(30) DEF OutboxInv
  <1>2. ASSUME NEW t \in Ticks, Add(t) PROVE OutboxInv'
    <2>1. /\ tick[t].step = "add" /\ UNCHANGED <<outboxRow, misses>> /\ queued' = queued \cup {Current(t)}
          /\ tick' = [tick EXCEPT ![t] = [tick[t] EXCEPT !.step = "complete"]]
      BY <1>2 DEF Add, OutboxInv
    <2> DEFINE new == [tick[t] EXCEPT !.step = "complete"]
    <2>2. TickInOrder(tick[t], queued, misses) /\ tick[t].page[1].event = Current(t)
      BY <2>1, CurrentRow, Zenon DEF OutboxInv
    <2>3. new \in TickState /\ new.step = "complete" /\ new.page = tick[t].page
      BY <2>2 DEF TickInOrder, TickState
    <2> HIDE DEF new
    <2>4. TickInOrder(new, queued', misses')
      BY <2>1, <2>2, <2>3 DEF TickInOrder
    <2>5. /\ misses \in [Events -> Nat] /\ misses' \in [Events -> Nat] /\ queued \subseteq queued'
          /\ \A e \in Events : misses[e] <= misses'[e]
      BY <2>1, SMTT(30) DEF OutboxInv
    <2>6. /\ \A s : TickInOrder(s, queued, misses) => TickInOrder(s, queued', misses')
          /\ \A e \in Events : \A r : RowInOrder(e, r, queued, misses) => RowInOrder(e, r, queued', misses')
      BY <2>5, StaysInOrder
    <2> QED
      BY <2>1, <2>4, <2>6, Zenon DEF OutboxInv, new
  <1>3. ASSUME NEW t \in Ticks, RowThrows(t) PROVE OutboxInv'
    <2>1. /\ tick[t].step \in {"add", "complete"} /\ UNCHANGED outboxRow /\ queued \subseteq queued'
          /\ misses' = [misses EXCEPT ![Current(t)] = @ + 1]
          /\ tick' = [tick EXCEPT ![t] = [tick[t] EXCEPT !.step = "fail"]]
      BY <1>3 DEF RowThrows, OutboxInv
    <2>2. /\ TickInOrder(tick[t], queued, misses) /\ tick[t].page[1].event = Current(t)
          /\ Current(t) \in Events /\ tick[t].page[1].retryCount <= misses[Current(t)]
          /\ tick[t].page[1] \in PageEntry
      BY <2>1, CurrentRow, Zenon DEF OutboxInv
    <2>3. misses' \in [Events -> Nat] /\ \A e \in Events : misses[e] <= misses'[e]
      BY <2>1, <2>2 DEF OutboxInv
    <2>4. /\ \A s : TickInOrder(s, queued, misses) => TickInOrder(s, queued', misses')
          /\ \A e \in Events : \A r : RowInOrder(e, r, queued, misses) => RowInOrder(e, r, queued', misses')
      BY <2>1, <2>3, StaysInOrder, ZenonT(60) DEF OutboxInv
    <2> DEFINE new == [tick[t] EXCEPT !.step = "fail"]
    <2>5. new \in TickState /\ new.step = "fail" /\ new.page = tick[t].page
      BY <2>2 DEF TickInOrder, TickState
    <2>6. new.page[1].retryCount + 1 <= misses'[new.page[1].event]
      BY <2>1, <2>2, <2>5 DEF PageEntry, OutboxInv
    <2>7. TickInOrder(tick[t], queued', misses')
      BY <2>2, <2>4, Zenon
    <2> HIDE DEF new
    <2>8. TickInOrder(new, queued', misses')
      BY <2>1, <2>5, <2>6, <2>7, SMTT(30) DEF TickInOrder
    <2> QED
      BY <2>1, <2>3, <2>4, <2>8, Zenon DEF OutboxInv, new
  <1>4. ASSUME NEW t \in Ticks, MarkCompleted(t) PROVE OutboxInv'
    <2>1. tick[t].step = "complete" /\ HandledRow(t) /\ queued' = queued /\ misses' = misses
      BY <1>4, SMTT(30) DEF MarkCompleted
    <2>2. Current(t) \in Events /\ Current(t) \in queued
      BY <2>1, CurrentRow, Zenon DEF OutboxInv, TickInOrder
    <2> DEFINE r == [outboxRow[Current(t)] EXCEPT !.status = "COMPLETED"]
    <2>3. outboxRow' = [outboxRow EXCEPT ![Current(t)] = r]
      BY <1>4, <2>2 DEF MarkCompleted, OutboxInv
    <2>4. RowInOrder(Current(t), r, queued, misses)
      BY <2>2, SMTT(30) DEF OutboxInv, RowInOrder, Statuses
    <2> HIDE DEF r
    <2> QED
      BY <2>1, <2>3, <2>4, RowHandled, Zenon
  <1>5. ASSUME NEW t \in Ticks, MarkFailed(t) PROVE OutboxInv'
    <2>1. tick[t].step = "fail" /\ HandledRow(t) /\ queued' = queued /\ misses' = misses
      BY <1>5 DEF MarkFailed
    <2> DEFINE r == [status |-> "FAILED", retryCount |-> Head(tick[t].page).retryCount + 1]
    <2>2. outboxRow' = [outboxRow EXCEPT ![Current(t)] = r]
      BY <1>5, SMTT(30) DEF MarkFailed
    <2>3. /\ Head(tick[t].page) \in PageEntry
          /\ Head(tick[t].page).retryCount + 1 <= misses[Current(t)]
      BY <2>1, CurrentRow, Zenon DEF OutboxInv, TickInOrder
    <2>4. RowInOrder(Current(t), r, queued, misses)
      BY <2>3 DEF RowInOrder, Statuses, PageEntry
    <2> HIDE DEF r
    <2> QED
      BY <2>1, <2>2, <2>4, RowHandled, Zenon
  <1>6. ASSUME NEW t \in Ticks, TickEnds(t) PROVE OutboxInv'
    <2>1. TickInOrder([step |-> "done", page |-> <<>>], queued, misses)
      BY DEF TickInOrder, TickState
    <2> QED
      BY <1>6, <2>1 DEF TickEnds, OutboxInv
  <1>7. CASE Cleanup
    <2>1. PICK es \in SUBSET {e \in Events : outboxRow[e].status = "COMPLETED"} :
            outboxRow' = [e \in Events |-> IF e \in es THEN [outboxRow[e] EXCEPT !.status = "deleted"] ELSE outboxRow[e]]
      BY <1>7, SMTT(30) DEF Cleanup
    <2>2. UNCHANGED <<queued, misses, tick>>
      BY <1>7 DEF Cleanup
    <2>3. ASSUME NEW e \in Events PROVE RowInOrder(e, outboxRow'[e], queued, misses)
      <3>1. CASE e \in es
        BY <2>1, <3>1, Zenon DEF OutboxInv, RowInOrder, Statuses
      <3>2. CASE e \notin es
        BY <2>1, <3>2 DEF OutboxInv
      <3> QED
        BY <3>1, <3>2
    <2> QED
      BY <2>1, <2>2, <2>3 DEF OutboxInv
  <1>8. CASE UNCHANGED outboxVars
    BY <1>8 DEF outboxVars, OutboxInv
  <1> QED
    BY <1>1, <1>2, <1>3, <1>4, <1>5, <1>6, <1>7, <1>8, SMTT(30) DEF OutboxNext

\* No row is out yet.
LEMMA OutboxStarts == OutboxInit => OutboxInv
  BY DEF OutboxInit, OutboxInv, TickInOrder, RowInOrder, TickState, Statuses

\* The counters of a row bound the failures from below.
LEMMA OutboxMeans == OutboxInv => RowIsTrue
  BY OutboxAssumption DEF OutboxAssumption, OutboxInv, RowInOrder, RowIsTrue

-----------------------------------------------------------------------------
(* The event bus                                                           *)

Emission == [name : EventNames, org : BOOLEAN, pc : {"persist", "broadcast", "done"}]

\* The listener that records an event.
Recorder(e) == IF e.name = "audit.recorded" THEN "recorded" ELSE "audit"

Delivery(i, l) == [emission |-> i, listener |-> l]

\* Only the recorder of an event writes a row for it; until it has, or has failed to, an
\* event that was broadcast for an organization is still on its way to it.
BusInv ==
    /\ emissions \in Seq(Emission)
    /\ busFaults \in Nat
    /\ \A d \in deliveries :
        /\ d = Delivery(d.emission, d.listener) /\ d.emission \in DOMAIN emissions
        /\ d.listener = "recorded" => emissions[d.emission].name = "audit.recorded"
    /\ \A r \in eventRows : \E i \in DOMAIN emissions : r = <<i, Recorder(emissions[i])>>
    /\ \A i \in DOMAIN emissions :
        emissions[i].pc = "done" /\ emissions[i].org /\ busFaults = 0 =>
            \/ <<i, Recorder(emissions[i])>> \in eventRows
            \/ Delivery(i, Recorder(emissions[i])) \in deliveries

\* An emission that moves on keeps its event, and the others stay where they are.
LEMMA EmissionMoves ==
  ASSUME emissions \in Seq(Emission), NEW i \in DOMAIN emissions, NEW point \in {"broadcast", "done"},
         emissions' = [emissions EXCEPT ![i].pc = point]
  PROVE  /\ emissions' \in Seq(Emission) /\ DOMAIN emissions' = DOMAIN emissions
         /\ \A k \in DOMAIN emissions :
              /\ emissions'[k].name = emissions[k].name /\ emissions'[k].org = emissions[k].org
              /\ emissions'[k].pc = IF k = i THEN point ELSE emissions[k].pc
              /\ Recorder(emissions'[k]) = Recorder(emissions[k])
  <1>1. PICK n \in Nat : emissions \in [1..n -> Emission]
    <2>1. emissions \in [1..Len(emissions) -> Emission] /\ Len(emissions) \in Nat
      OBVIOUS
    <2> QED
      BY <2>1
  <1>2. DOMAIN emissions = 1..n
    BY <1>1
  <1> DEFINE e == emissions[i]
             new == [e EXCEPT !.pc = point]
  <1>3. e \in Emission
    BY <1>1, <1>2
  <1>4. new \in Emission /\ new.name = e.name /\ new.org = e.org /\ new.pc = point
    <2> HIDE DEF e
    <2> QED
      BY <1>3, SMTT(30) DEF Emission
  <1>5. emissions' = [emissions EXCEPT ![i] = new]
    OBVIOUS
  <1> HIDE DEF new, e
  <1>6. emissions' \in [1..n -> Emission]
    BY <1>1, <1>4, <1>5
  <1>7. emissions'[i] = new /\ \A k \in DOMAIN emissions : k # i => emissions'[k] = emissions[k]
    BY <1>1, <1>2, <1>5
  <1>8. emissions' \in Seq(Emission)
    BY <1>6, SMTT(30)
  <1> QED
    BY <1>2, <1>4, <1>6, <1>7, <1>8 DEF Recorder, e

\* Every step of the bus and its listeners keeps the invariant.
LEMMA BusStep == BusInv /\ [BusNext]_busVars => BusInv'
  <1> SUFFICES ASSUME BusInv, [BusNext]_busVars PROVE BusInv'
    OBVIOUS
  <1> USE DEF BusInv
  <1>1. ASSUME NEW name \in EventNames, NEW org \in BOOLEAN, Emit(name, org) PROVE BusInv'
    <2> DEFINE e == [name |-> name, org |-> org, pc |-> "persist"]
    <2>1. e \in Emission /\ e.pc = "persist"
      BY SMTT(30) DEF Emission
    <2>2. emissions' = Append(emissions, e) /\ UNCHANGED <<deliveries, eventRows, busFaults>>
      BY <1>1, SMTT(30) DEF Emit
    <2> HIDE DEF e
    <2>3. /\ emissions' \in Seq(Emission) /\ DOMAIN emissions \subseteq DOMAIN emissions'
          /\ \A i \in DOMAIN emissions : emissions'[i] = emissions[i]
          /\ \A i \in DOMAIN emissions' : i \in DOMAIN emissions \/ emissions'[i].pc = "persist"
      BY <2>1, <2>2, SMTT(30)
    <2> QED
      BY <2>2, <2>3, SMTT(30) DEF Delivery
  <1>3. ASSUME NEW i \in DOMAIN emissions, Persist(i) PROVE BusInv'
    <2>1. emissions' = [emissions EXCEPT ![i].pc = "broadcast"] /\ UNCHANGED <<deliveries, eventRows>>
      BY <1>3 DEF Persist
    <2>2. busFaults' \in Nat /\ (busFaults' = 0 => busFaults = 0)
      BY <1>3 DEF Persist
    <2>3. /\ emissions' \in Seq(Emission) /\ DOMAIN emissions' = DOMAIN emissions
          /\ \A k \in DOMAIN emissions :
               /\ emissions'[k].name = emissions[k].name /\ emissions'[k].org = emissions[k].org
               /\ emissions'[k].pc = IF k = i THEN "broadcast" ELSE emissions[k].pc
               /\ Recorder(emissions'[k]) = Recorder(emissions[k])
      BY <2>1, EmissionMoves, Zenon
    <2>4. \A k \in DOMAIN emissions : emissions'[k].pc = "done" => emissions[k].pc = "done"
      BY <2>3
    <2>5. ASSUME NEW k \in DOMAIN emissions', emissions'[k].pc = "done", emissions'[k].org,
          busFaults' = 0
          PROVE  \/ <<k, Recorder(emissions'[k])>> \in eventRows'
                 \/ Delivery(k, Recorder(emissions'[k])) \in deliveries'
      BY <2>1, <2>2, <2>3, <2>4, <2>5
    <2>6. \A d \in deliveries' :
            /\ d = Delivery(d.emission, d.listener) /\ d.emission \in DOMAIN emissions'
            /\ d.listener = "recorded" => emissions'[d.emission].name = "audit.recorded"
      BY <2>1, <2>3
    <2>7. \A r \in eventRows' : \E k \in DOMAIN emissions' : r = <<k, Recorder(emissions'[k])>>
      BY <2>1, <2>3, Zenon
    <2> QED
      BY <2>2, <2>3, <2>5, <2>6, <2>7
  <1>4. ASSUME NEW i \in DOMAIN emissions, Broadcast(i) PROVE BusInv'
    <2>1. /\ emissions' = [emissions EXCEPT ![i].pc = "done"] /\ UNCHANGED <<busFaults, eventRows>>
          /\ deliveries' = deliveries \cup
               {Delivery(i, l) : l \in EnvelopeListeners \cup NamedListeners(emissions[i].name)}
      BY <1>4 DEF Broadcast, Delivery
    <2>2. Recorder(emissions[i]) \in EnvelopeListeners \cup NamedListeners(emissions[i].name)
      BY DEF Recorder, EnvelopeListeners, NamedListeners
    <2>3. /\ emissions' \in Seq(Emission) /\ DOMAIN emissions' = DOMAIN emissions
          /\ \A k \in DOMAIN emissions :
               /\ emissions'[k].name = emissions[k].name /\ emissions'[k].org = emissions[k].org
               /\ emissions'[k].pc = IF k = i THEN "done" ELSE emissions[k].pc
               /\ Recorder(emissions'[k]) = Recorder(emissions[k])
      BY <2>1, EmissionMoves, ZenonT(60)
    <2>4. "recorded" \in EnvelopeListeners \cup NamedListeners(emissions[i].name) =>
            emissions[i].name = "audit.recorded"
      BY DEF EnvelopeListeners, NamedListeners
    <2>5. ASSUME NEW d \in deliveries'
          PROVE  /\ d = Delivery(d.emission, d.listener) /\ d.emission \in DOMAIN emissions
                 /\ d.listener = "recorded" => emissions[d.emission].name = "audit.recorded"
      BY <2>1, <2>4 DEF Delivery
    <2>6. Delivery(i, Recorder(emissions[i])) \in deliveries' /\ deliveries \subseteq deliveries'
      BY <2>1, <2>2
    <2> QED
      BY <2>1, <2>3, <2>5, <2>6, ZenonT(60)
  <1>5. ASSUME NEW d \in deliveries, ListenerReturns(d) \/ NotifyMembers(d) PROVE BusInv'
    <2>1. deliveries' = deliveries \ {d} /\ UNCHANGED <<emissions, eventRows, busFaults>>
      BY <1>5, SMTT(30) DEF ListenerReturns, NotifyMembers, DoneWith
    <2>2. emissions[d.emission].org => d.listener # Recorder(emissions[d.emission])
      BY <1>5, SMTT(30)
      DEF ListenerReturns, NotifyMembers, Ignores, FindsOrganization, EnvelopeListeners, Recorder
    <2>3. \A i \in DOMAIN emissions : emissions[i].org => d # Delivery(i, Recorder(emissions[i]))
      BY <2>2, SMTT(30) DEF Delivery
    <2> QED
      BY <2>1, <2>3
  <1>6. ASSUME NEW d \in deliveries, WriteAuditRow(d) PROVE BusInv'
    <2>1. deliveries' = deliveries \ {d} /\ UNCHANGED emissions
      BY <1>6, SMTT(30) DEF WriteAuditRow, DoneWith
    <2>2. d.listener = Recorder(emissions[d.emission])
      BY <1>6, SMTT(30) DEF WriteAuditRow, Ignores, Recorder
    <2>3. d = Delivery(d.emission, Recorder(emissions[d.emission])) /\ d.emission \in DOMAIN emissions
      BY <2>2, SMTT(30)
    <2>4. CASE eventRows' = eventRows \cup {<<d.emission, d.listener>>} /\ UNCHANGED busFaults
      BY <2>1, <2>2, <2>3, <2>4, SMTT(30) DEF Delivery
    <2>5. CASE eventRows' = eventRows /\ busFaults' = busFaults + 1
      BY <2>1, <2>5, SMTT(30)
    <2> QED
      BY <1>6, <2>4, <2>5, SMTT(30) DEF WriteAuditRow
  <1>7. CASE UNCHANGED busVars
    BY <1>7 DEF busVars
  <1> QED
    BY <1>1, <1>3, <1>4, <1>5, <1>6, <1>7, ZenonT(60) DEF BusNext, BusSteps

\* Nothing has been emitted yet.
LEMMA BusStarts == BusInit => BusInv
  BY SMTT(30) DEF BusInit, BusInv

\* One recorder per event is at most one row per event, and one when nothing failed.
LEMMA BusMeans == BusInv => OneRowPerEvent
  <1> SUFFICES ASSUME BusInv, NEW i \in DOMAIN emissions
               PROVE  LET rows == {r \in eventRows : r[1] = i}
                      IN  /\ Cardinality(rows) <= 1
                          /\ Delivered(i) /\ emissions[i].org /\ busFaults = 0 => Cardinality(rows) = 1
    BY SMTT(30) DEF OneRowPerEvent
  <1> DEFINE rows == {r \in eventRows : r[1] = i}
             one == <<i, Recorder(emissions[i])>>
  <1>1. rows \subseteq {one}
    BY SMTT(30) DEF BusInv
  <1>2. Delivered(i) /\ emissions[i].org /\ busFaults = 0 => one \in rows
    BY Zenon DEF BusInv, Delivered, Delivery
  <1>3. Cardinality({one}) = 1 /\ Cardinality({}) = 0
    BY FS_Singleton, FS_EmptySet, Zenon
  <1> HIDE DEF rows, one
  <1>4. rows = {} \/ rows = {one}
    BY <1>1
  <1> QED
    BY <1>2, <1>3, <1>4, SMTT(30) DEF rows

\* Whatever fails and however listeners interleave, an event has at most one audit row.
THEOREM EventRecordedOnce == BusSpec => []OneRowPerEvent
  BY BusStarts, BusStep, BusMeans, PTL DEF BusSpec

-----------------------------------------------------------------------------
(* What is said of a request                                               *)

\* The codes that the endings at hand lead to have one status each.
LEMMA StatusOfCode ==
  /\ ERROR_STATUS("VALIDATION_ERROR") = 422 /\ ERROR_STATUS("BAD_REQUEST") = 400
  /\ ERROR_STATUS("NOT_FOUND") = 404 /\ ERROR_STATUS("INTERNAL_ERROR") = 500
  <1>1. DOMAIN CodesWithStatus = {202, 400, 401, 403, 404, 409, 410, 422, 423, 429, 500, 501, 502, 503}
    BY DEF CodesWithStatus
  <1>2. \A s \in DOMAIN CodesWithStatus :
          /\ "VALIDATION_ERROR" \in CodesWithStatus[s] <=> s = 422
          /\ "BAD_REQUEST" \in CodesWithStatus[s] <=> s = 400
          /\ "NOT_FOUND" \in CodesWithStatus[s] <=> s = 404
          /\ "INTERNAL_ERROR" \in CodesWithStatus[s] <=> s = 500
    BY DEF CodesWithStatus
  <1> QED
    BY <1>1, <1>2 DEF ERROR_STATUS

\* Among them, or not, as resolveError() asks.
LEMMA KnownCodes == "VALIDATION_ERROR" \in ErrorCodes /\ "none" \notin ErrorCodes
  BY SMTT(30) DEF ErrorCodes, CodesWithStatus

\* The status of the response.
Sent(e) == IF e = Returned THEN SuccessCode ELSE ResolveError(e).status

\* The exception's own status is what the filter sends, and the code it sends blames the
\* same side as the status.
LEMMA Resolved ==
  ASSUME NEW e \in HandlerEndings
  PROVE  /\ IsHttpException(e) => e # Returned /\ Sent(e) = e.status
         /\ e # Returned => (Sent(e) >= 500) = (ERROR_STATUS(ResolveError(e).code) >= 500)
  <1> USE DEF Sent, Returned, IsHttpException
  <1>1. CASE e = Returned
    BY <1>1, SMTT(30)
  <1>2. ASSUME NEW code, e = Domain(code)
        PROVE  e # Returned /\ ResolveError(e) = Problem(ERROR_STATUS(code), code, FALSE)
               /\ e.status = ERROR_STATUS(code)
    <2>1. e.t = "domain" /\ e.status = ERROR_STATUS(code) /\ e.code = code
      BY <1>2 DEF Domain
    <2>2. ResolveError(e) = Problem(e.status, e.code, FALSE)
      BY <2>1, SMTT(30) DEF ResolveError, AsExpressError
    <2> QED
      BY <2>1, <2>2, SMTT(30)
  <1>3. CASE e = Domain("POLICY_VIOLATION") \/ e = Domain("CIRCUIT_OPEN")
    BY <1>2, <1>3, SMTT(30) DEF Problem
  <1>4. CASE e = Http(400, "VALIDATION_ERROR")
    <2>1. e.t = "http" /\ e.status = 400 /\ e.code = "VALIDATION_ERROR"
      BY <1>4 DEF Http
    <2>2. ResolveError(e) = Problem(400, "VALIDATION_ERROR", FALSE)
      BY <2>1, KnownCodes DEF ResolveError, ResolveHttp, AsExpressError
    <2> QED
      BY <2>1, <2>2, StatusOfCode DEF Problem
  <1>5. CASE e = Http(405, "none")
    BY <1>5, StatusOfCode, KnownCodes, SMTT(30)
    DEF Http, ResolveError, ResolveHttp, Problem, ByStatus, StatusToErrorCode
  <1>6. CASE e = Prisma("P2025") \/ e = Prisma("P2003")
    <2>1. e.t = "prisma" /\ e.code \in {"P2025", "P2003"}
      BY <1>6 DEF Prisma
    <2>2. ResolveError(e) \in {Problem(404, "NOT_FOUND", FALSE), Problem(400, "BAD_REQUEST", FALSE)}
      <3>1. ResolveError(e) = ResolvePrisma(e)
        BY <2>1 DEF ResolveError, AsExpressError
      <3>2. CASE e.code = "P2025"
        BY <3>1, <3>2 DEF ResolvePrisma
      <3>3. CASE e.code = "P2003"
        BY <3>1, <3>3 DEF ResolvePrisma
      <3> QED
        BY <2>1, <3>2, <3>3, Zenon
    <2> QED
      BY <2>1, <2>2, StatusOfCode, SMTT(30) DEF Problem
  <1>7. CASE e = Library(404)
    BY <1>7, StatusOfCode DEF Library, ResolveError, AsExpressError, Problem, ByStatus, StatusToErrorCode
  <1>8. CASE e = Unexpected
    BY <1>8, StatusOfCode DEF Unexpected, ResolveError, AsExpressError, Problem
  <1> QED
    BY <1>1, <1>3, <1>4, <1>5, <1>6, <1>7, <1>8, SMTT(30) DEF HandlerEndings

Request(r, point, pending, published) ==
    [route |-> r, pc |-> point, pending |-> pending, published |-> published]

\* A route marked for the event leaves the rows to the listener, a skipped one is not
\* recorded at all, and what waits for the response records what was sent.
RequestInv ==
    LET r == audited.route
        rows == requestRows \cup audited.pending
    IN  /\ r \in AuditedRequests
        /\ audited = Request(r, audited.pc, audited.pending, audited.published)
        /\ audited.pc \in {"handler", "tapped", "sent"}
        /\ audited.pc = "handler" => emissions = <<>> /\ responseCode = SuccessCode
        /\ Len(emissions) <= 1 /\ (r.skip => emissions = <<>>)
        /\ r.action \/ r.skip => rows = {}
        /\ audited.pc = "sent" => responseCode = Sent(r.ends)
        /\ \A made \in rows : made.by = "finish" => audited.pc = "sent" /\ made.status = responseCode
        /\ audited.published # 0 /\ (r.ends = Returned \/ IsHttpException(r.ends)) =>
             audited.published = Sent(r.ends)

\* The listeners move an emission on and never add one.
LEMMA BusStepsEmitNothing ==
  ASSUME BusInv, BusSteps
  PROVE  Len(emissions') = Len(emissions) /\ (emissions = <<>> => emissions' = <<>>)
  <1>1. CASE emissions' = emissions
    BY <1>1
  <1>2. ASSUME NEW i \in DOMAIN emissions, NEW point \in {"broadcast", "done"},
               emissions' = [emissions EXCEPT ![i].pc = point]
        PROVE  Len(emissions') = Len(emissions) /\ emissions # <<>>
    <2>1. emissions' \in Seq(Emission) /\ DOMAIN emissions' = DOMAIN emissions
      BY <1>2, EmissionMoves, ZenonT(60) DEF BusInv
    <2> QED
      BY <2>1 DEF BusInv
  <1> QED
    BY <1>1, <1>2
    DEF BusSteps, Persist, Broadcast, ListenerReturns, WriteAuditRow, NotifyMembers, DoneWith

\* Every step of a request, and of the bus meanwhile, keeps the invariant.
LEMMA RequestStep ==
  ASSUME BusInv, RequestInv, [RequestAuditNext]_<<requestAuditVars, busVars>>
  PROVE  RequestInv' /\ [BusNext]_busVars
  <1> USE DEF RequestInv
  <1> DEFINE r == audited.route
  <1>0. emissions \in Seq(Emission)
    BY SMTT(30) DEF BusInv
  <1>1. ASSUME HandlerEnds PROVE RequestInv' /\ [BusNext]_busVars
    <2> DEFINE pending == {[by |-> "inline", status |-> responseCode] : x \in {y \in {1} : AuditActs(r)}}
               published == IF StructuredActs(r) THEN StructuredStatus(r) ELSE 0
    <2>1. audited' = [audited EXCEPT !.pc = "tapped", !.pending = pending, !.published = published]
      BY <1>1 DEF HandlerEnds
    <2>2. audited' = Request(r, "tapped", pending, published)
      <3> HIDE DEF pending, published
      <3> QED
        BY <2>1, ZenonT(60) DEF Request
    <2>3. audited.pc = "handler" /\ UNCHANGED <<responseCode, requestRows>>
      BY <1>1 DEF HandlerEnds
    <2>4. r.action \/ r.skip => pending = {}
      BY DEF AuditActs
    <2>5. \A made \in pending : made.by # "finish"
      BY SMTT(30)
    <2>6. published # 0 /\ (r.ends = Returned \/ IsHttpException(r.ends)) => published = Sent(r.ends)
      BY <2>3, Resolved DEF AuditedRequests, StructuredStatus, Sent
    <2>7. \/ UNCHANGED busVars
          \/ StructuredActs(r) /\ Emit("audit.recorded", TRUE)
      BY <1>1, ZenonT(60) DEF HandlerEnds
    <2>8. [BusNext]_busVars
      BY <2>7, Zenon DEF BusNext, EventNames
    <2>9. Len(emissions') <= 1 /\ (r.skip => emissions' = <<>>)
      <3>1. emissions = <<>>
        BY <2>3
      <3>2. CASE UNCHANGED busVars
        BY <3>1, <3>2 DEF busVars
      <3>3. CASE StructuredActs(r) /\ Emit("audit.recorded", TRUE)
        <4>1. ~r.skip
          BY <3>3, SMTT(30) DEF StructuredActs
        <4>2. emissions' = <<[name |-> "audit.recorded", org |-> TRUE, pc |-> "persist"]>>
          BY <3>1, <3>3, SMTT(30) DEF Emit
        <4> QED
          BY <4>1, <4>2, SMTT(30)
      <3> QED
        BY <2>7, <3>2, <3>3, ZenonT(60)
    <2> HIDE DEF pending, published
    <2>10. /\ audited'.route = r /\ audited'.pc = "tapped" /\ audited'.pending = pending
           /\ audited'.published = published
      BY <2>2, SMTT(30) DEF Request
    <2> QED
      BY <2>2, <2>3, <2>4, <2>5, <2>6, <2>8, <2>9, <2>10, SMTT(30)
  <1>2. ASSUME SendResponse PROVE RequestInv' /\ UNCHANGED busVars
    <2> DEFINE more == {[by |-> "finish", status |-> responseCode'] : x \in {y \in {1} : AuditLogActs(r)}}
               pending == audited.pending \cup more
    <2>1. audited' = [audited EXCEPT !.pc = "sent", !.pending = pending]
      BY <1>2 DEF SendResponse
    <2>2. audited' = Request(r, "sent", pending, audited.published)
      <3> HIDE DEF pending
      <3> QED
        BY <2>1, Zenon DEF Request
    <2>3. audited.pc = "tapped" /\ UNCHANGED <<requestRows, busVars>> /\ responseCode' = Sent(r.ends)
      BY <1>2 DEF SendResponse, Sent
    <2>4. r.action \/ r.skip => more = {}
      BY DEF AuditLogActs
    <2>5. \A made \in more : made.status = responseCode'
      OBVIOUS
    <2> HIDE DEF more
    <2>6. /\ audited'.route = r /\ audited'.pc = "sent" /\ audited'.pending = pending
          /\ audited'.published = audited.published
      BY <2>2 DEF Request
    <2> QED
      BY <2>2, <2>3, <2>4, <2>5, <2>6, Zenon DEF busVars
  <1>3. ASSUME PersistRow PROVE RequestInv' /\ UNCHANGED busVars
    <2>1. PICK made \in audited.pending :
            /\ audited' = [audited EXCEPT !.pending = audited.pending \ {made}]
            /\ requestRows' \in {requestRows, requestRows \cup {made}}
            /\ UNCHANGED <<responseCode, busVars>>
      BY <1>3, Zenon DEF PersistRow
    <2> DEFINE pending == audited.pending \ {made}
    <2>2. audited' = Request(r, audited.pc, pending, audited.published)
      BY <2>1, ZenonT(60) DEF Request
    <2>3. /\ audited'.route = r /\ audited'.pc = audited.pc /\ audited'.pending = pending
          /\ audited'.published = audited.published
      BY <2>2 DEF Request
    <2>4. (requestRows \cup audited.pending)' \subseteq requestRows \cup audited.pending
      BY <2>1, <2>3
    <2> QED
      BY <2>1, <2>2, <2>3, <2>4, Zenon DEF busVars
  <1>4. ASSUME BusSteps, UNCHANGED requestAuditVars PROVE RequestInv' /\ [BusNext]_busVars
    BY <1>4, BusStepsEmitNothing DEF requestAuditVars, BusNext
  <1>5. CASE UNCHANGED <<requestAuditVars, busVars>>
    BY <1>5 DEF requestAuditVars, busVars
  <1> QED
    BY <1>1, <1>2, <1>3, <1>4, <1>5, Zenon DEF RequestAuditNext

\* Nothing has been said of the request yet.
LEMMA RequestStarts == RequestAuditInit => BusInv /\ RequestInv
  <1> SUFFICES ASSUME RequestAuditInit PROVE BusInv /\ RequestInv
    BY SMTT(30)
  <1>1. PICK r \in AuditedRequests : audited = Request(r, "handler", {}, 0)
    BY DEF RequestAuditInit, Request
  <1>2. audited.route = r /\ audited.pc = "handler" /\ audited.pending = {} /\ audited.published = 0
    BY <1>1, SMTT(30) DEF Request
  <1>3. emissions = <<>> /\ requestRows = {} /\ responseCode = SuccessCode /\ BusInit
    BY DEF RequestAuditInit, BusInit
  <1>4. Len(emissions) <= 1 /\ requestRows \cup audited.pending = {}
    BY <1>2, <1>3, SMTT(30)
  <1>5. RequestInv
    BY <1>1, <1>2, <1>3, <1>4, Zenon DEF RequestInv
  <1> QED
    BY <1>3, <1>5, BusStarts

\* What the invariants say of the rows and of the response.
LEMMA RequestMeans == BusInv /\ RequestInv => OneRowPerEvent /\ OneRowPerAction /\ RecordedAsSent
  <1> SUFFICES ASSUME BusInv, RequestInv PROVE OneRowPerAction /\ RecordedAsSent
    BY BusMeans
  <1> DEFINE r == audited.route
             one == <<1, Recorder(emissions[1])>>
  <1>1. eventRows \subseteq {one} /\ (emissions = <<>> => eventRows = {})
    BY DEF BusInv, RequestInv
  <1>2. Cardinality({one}) = 1 /\ Cardinality({}) = 0
    BY FS_Singleton, FS_EmptySet, Zenon
  <1>3. eventRows = {} \/ eventRows = {one}
    BY <1>1
  <1>4. r.action \/ r.skip => requestRows = {}
    BY DEF RequestInv
  <1>5. r.skip => eventRows = {}
    BY <1>1 DEF RequestInv
  <1>6. OneRowPerAction
    BY <1>2, <1>3, <1>4, <1>5, SMTT(30) DEF OneRowPerAction
  <1>7. r.ends \in HandlerEndings
    BY SMTT(30) DEF RequestInv, AuditedRequests
  <1>8. RecordedAsSent
    BY <1>7, Resolved DEF RecordedAsSent, RequestInv
  <1> QED
    BY <1>6, <1>8

\* The three interceptors and the bus's listeners agree on who records a request, and
\* what they record is what the client was sent.
THEOREM RequestRecordedOnce == RequestAuditSpec => [](OneRowPerEvent /\ OneRowPerAction /\ RecordedAsSent)
  <1>1. BusInv /\ RequestInv /\ [RequestAuditNext]_<<requestAuditVars, busVars>> => (BusInv /\ RequestInv)'
    BY BusStep, RequestStep
  <1> QED
    BY <1>1, RequestStarts, RequestMeans, PTL DEF RequestAuditSpec

-----------------------------------------------------------------------------

\* What happened is on record once and as it happened (RecordsAreTrue): the rows of
\* OutboxService, of the event bus's listeners and of the audit interceptors.
THEOREM RecordsTrue == OutboxSpec /\ RequestAuditSpec => []RecordsAreTrue
<1>1. OutboxSpec => []RowIsTrue
  BY OutboxStarts, OutboxStep, OutboxMeans, PTL DEF OutboxSpec
<1>2. RowIsTrue /\ (OneRowPerEvent /\ OneRowPerAction /\ RecordedAsSent) => RecordsAreTrue
  BY DEF RecordsAreTrue
<1>. QED
  BY <1>1, <1>2, RequestRecordedOnce, PTL

-----------------------------------------------------------------------------
(* The circuit breaker: any set of callers, any options                    *)

\* The trials of a typed state are finitely many, so they can be counted.
LEMMA TrialsFinite ==
    ASSUME TypeOK
    PROVE  IsFiniteSet(Trials) /\ Cardinality(Trials) \in Nat
  <1>1. Trials \subseteq Callers
    BY DEF Trials
  <1>2. IsFiniteSet(Trials)
    BY <1>1, FS_Subset, BreakerAssumption DEF BreakerAssumption
  <1> QED
    BY <1>2, FS_CardinalityType

\* Admitting a trial adds exactly one member to Trials (execute's
\* `halfOpenAttempts += 1` counts each trial once).
LEMMA TrialCounted ==
    ASSUME TypeOK, NEW c \in Callers, ExecuteTrial(c)
    PROVE  /\ Cardinality(Trials') = Cardinality(Trials) + 1
           /\ Cardinality(Trials) \in Nat
  <1>1. Trials' = Trials \cup {c} /\ c \notin Trials
    BY DEF Trials, ExecuteTrial, TypeOK
  <1> QED
    BY <1>1, TrialsFinite, FS_AddElement

\* The breaker's fields keep their types, and halfOpenAttempts never exceeds
\* halfOpenMaxAttempts, in every interleaving of calls.
THEOREM BreakerTypeCorrect == Spec => []TypeOK
  <1>1. Init => TypeOK
    BY BreakerAssumption DEF BreakerAssumption, Init, TypeOK, CircuitState, CallStates
  <1>2. TypeOK /\ [Next]_vars => TypeOK'
    <2> SUFFICES ASSUME TypeOK, [Next]_vars PROVE TypeOK'
      OBVIOUS
    <2> USE BreakerAssumption DEF BreakerAssumption, TypeOK, CircuitState, CallStates
    <2>1. ASSUME NEW c \in Callers, HandleFailFast(c) PROVE TypeOK'
      BY <2>1 DEF HandleFailFast
    <2>2. ASSUME NEW c \in Callers, ExecuteClosed(c) PROVE TypeOK'
      BY <2>2 DEF ExecuteClosed
    <2>3. ASSUME NEW c \in Callers, ExecuteTrial(c) PROVE TypeOK'
      BY <2>3 DEF ExecuteTrial, MustFailFast
    <2>4. ASSUME NEW c \in Callers, OnSuccess(c) PROVE TypeOK'
      BY <2>4 DEF OnSuccess, TransitionToClosed
    <2>5. ASSUME NEW c \in Callers, OnFailure(c) PROVE TypeOK'
      BY <2>5 DEF OnFailure, TransitionToOpen
    <2>6. ASSUME NEW c \in Callers, OnIgnoredError(c) PROVE TypeOK'
      BY <2>6 DEF OnIgnoredError
    <2>7. ASSUME NEW c \in Callers, RetryAfterFailFast(c) PROVE TypeOK'
      BY <2>7 DEF RetryAfterFailFast
    <2>8. CASE Tick
      BY <2>8 DEF Tick
    <2>9. CASE UNCHANGED vars
      BY <2>9 DEF vars
    <2> QED
      BY <2>1, <2>2, <2>3, <2>4, <2>5, <2>6, <2>7, <2>8, <2>9, SMTT(30)
      DEF Next, Execute, Complete
  <1> QED
    BY <1>1, <1>2, PTL DEF Spec

\* However calls interleave with openings and closings, a CLOSED circuit holds
\* fewer than failureThreshold counted failures.
THEOREM ClosedBelowThresholdHolds == Spec => []ClosedBelowThreshold
  <1>1. Init => ClosedBelowThreshold
    BY BreakerAssumption DEF BreakerAssumption, Init, ClosedBelowThreshold
  <1>2. TypeOK /\ ClosedBelowThreshold /\ [Next]_vars => ClosedBelowThreshold'
    BY BreakerAssumption
    DEF BreakerAssumption, TypeOK, ClosedBelowThreshold, Next, Execute, Complete,
        HandleFailFast, ExecuteClosed, ExecuteTrial, OnSuccess, OnFailure,
        OnIgnoredError, RetryAfterFailFast, Tick, Trips, TransitionToOpen,
        TransitionToClosed, vars
  <1> QED
    BY <1>1, <1>2, BreakerTypeCorrect, PTL DEF Spec

\* Every trial a HALF_OPEN circuit admitted can still decide it, when isFailure
\* counts every error of a trial.
THEOREM HalfOpenDecidableHolds == Spec => []HalfOpenDecidable
  <1>1. Init => HalfOpenDecidable
    BY DEF Init, HalfOpenDecidable
  <1>2. TypeOK /\ HalfOpenDecidable /\ [Next]_vars => HalfOpenDecidable'
    <2> SUFFICES ASSUME TypeOK, HalfOpenDecidable, [Next]_vars
                 PROVE  HalfOpenDecidable'
      OBVIOUS
    <2>1. ASSUME NEW c \in Callers, ExecuteTrial(c) PROVE HalfOpenDecidable'
      <3>1. /\ Cardinality(Trials') = Cardinality(Trials) + 1
            /\ Cardinality(Trials) \in Nat
        BY <2>1, TrialCounted
      <3>2. halfOpenAttempts' >= 1 /\ (state = "HALF_OPEN" => halfOpenAttempts' = halfOpenAttempts + 1)
        BY <2>1 DEF ExecuteTrial, TypeOK
      <3>3. state # "HALF_OPEN" => halfOpenAttempts' = 1
        BY <2>1 DEF ExecuteTrial, TypeOK, CircuitState
      <3> QED
        BY <3>1, <3>2, <3>3 DEF HalfOpenDecidable, TypeOK
    <2>2. ASSUME NEW c \in Callers, Complete(c) PROVE HalfOpenDecidable'
      <3>1. CASE OnSuccess(c) \/ OnFailure(c)
        BY <3>1 DEF OnSuccess, OnFailure, Trips, TransitionToOpen, TransitionToClosed,
                    HalfOpenDecidable, TypeOK, CircuitState
      <3>2. CASE OnIgnoredError(c)
        <4>1. "trial" \in IgnoredIn \/ Trials' = Trials
          BY <3>2 DEF OnIgnoredError, InFlight, Trials, TypeOK
        <4> QED
          BY <3>2, <4>1 DEF OnIgnoredError, HalfOpenDecidable
      <3> QED
        BY <2>2, <3>1, <3>2 DEF Complete
    <2>3. ASSUME NEW c \in Callers,
                 HandleFailFast(c) \/ ExecuteClosed(c) \/ RetryAfterFailFast(c)
          PROVE  HalfOpenDecidable'
      <3>1. state' = state /\ halfOpenAttempts' = halfOpenAttempts
        BY <2>3 DEF HandleFailFast, ExecuteClosed, RetryAfterFailFast
      <3>2. Trials' = Trials
        BY <2>3 DEF HandleFailFast, ExecuteClosed, RetryAfterFailFast, Trials, TypeOK
      <3> QED
        BY <3>1, <3>2 DEF HalfOpenDecidable
    <2>4. CASE Tick \/ UNCHANGED vars
      BY <2>4 DEF Tick, vars, HalfOpenDecidable, Trials
    <2> QED
      BY <2>1, <2>2, <2>3, <2>4 DEF Next, Execute
  <1> QED
    BY <1>1, <1>2, BreakerTypeCorrect, PTL DEF Spec

\* Outcomes that arrive while the circuit is OPEN neither shorten nor restart its
\* reset timeout, and nothing is invoked until it has run out.
THEOREM CooldownRespectedHolds == Spec => CooldownRespected
  <1>1. TypeOK /\ [Next]_vars =>
          [state = "OPEN" =>
             /\ elapsed' >= elapsed
             /\ elapsed < ResetTimeout =>
                   state' = "OPEN" /\ InFlight' \subseteq InFlight]_vars
    BY BreakerAssumption
    DEF BreakerAssumption, TypeOK, CircuitState, Next, Execute, Complete,
        HandleFailFast, ExecuteClosed, ExecuteTrial, OnSuccess, OnFailure,
        OnIgnoredError, RetryAfterFailFast, Tick, Trips, TransitionToOpen,
        TransitionToClosed, MustFailFast, InFlight, vars
  <1> QED
    BY <1>1, BreakerTypeCorrect, PTL DEF Spec, CooldownRespected

-----------------------------------------------------------------------------
(***************************************************************************)
(* runWithRetry implements an atomic guarded update, for every set of       *)
(* calls, every guard and every number of attempts.                         *)
(***************************************************************************)

\* The inductive invariant.
RetryInv == UnitTypeOK /\ SnapshotIsCurrent

\* The replay and the failure paths, of which UpdateRow, AbortUnit and UnitFails
\* are made, keep the invariant: they only give the row up.
LEMMA RetryConflictKeepsInv ==
  ASSUME RetryInv, NEW u \in Updates, unit[u].pc \in {"read", "written"}, RetryConflict(u)
  PROVE  RetryInv'
<1>1. unit[u].attempt \in 1..MaxTxAttempts BY DEF RetryInv, UnitTypeOK, UnitRecords
<1>2. UnitTypeOK'
  <2>1. CASE unit[u].attempt = MaxTxAttempts
    BY <2>1 DEF RetryInv, UnitTypeOK, UnitRecords, RetryConflict, Ends, ReleaseRow
  <2>2. CASE unit[u].attempt # MaxTxAttempts
    <3>1. unit[u].attempt + 1 \in 1..MaxTxAttempts BY <1>1, <2>2, RetriesAssumption
    <3>2. Attempt(unit[u].attempt + 1) \in UnitRecords
      BY <3>1, Zenon DEF Attempt, UnitRecords
    <3> QED BY <2>2, <3>2 DEF RetryInv, UnitTypeOK, RetryConflict, ReleaseRow
  <2> QED BY <2>1, <2>2
<1>3. SnapshotIsCurrent'
  <2>1. CASE unit[u].attempt = MaxTxAttempts
    BY <2>1, RetriesAssumption, SMTT(30)
    DEF RetryInv, UnitTypeOK, UnitRecords, SnapshotIsCurrent, RetryConflict, Ends, ReleaseRow
  <2>2. CASE unit[u].attempt # MaxTxAttempts
    BY <2>2, RetriesAssumption, SMTT(30)
    DEF RetryInv, UnitTypeOK, UnitRecords, SnapshotIsCurrent, RetryConflict, Attempt, ReleaseRow
  <2> QED BY <2>1, <2>2
<1> QED BY <1>2, <1>3 DEF RetryInv

LEMMA UnitInitInv == UnitInit => RetryInv
  BY RetriesAssumption DEF UnitInit, RetryInv, UnitTypeOK, UnitRecords, SnapshotIsCurrent, Attempt

LEMMA UnitStepInv == RetryInv /\ [UnitNext]_unitVars => RetryInv'
<1> SUFFICES ASSUME RetryInv, [UnitNext]_unitVars PROVE RetryInv'
  OBVIOUS
<1>1. CASE UNCHANGED unitVars
  BY <1>1 DEF RetryInv, UnitTypeOK, UnitRecords, SnapshotIsCurrent, unitVars
<1>2. ASSUME NEW u \in Updates, ReadRow(u) PROVE RetryInv'
  BY <1>2 DEF RetryInv, UnitTypeOK, UnitRecords, SnapshotIsCurrent, ReadRow, Ends
<1>3. ASSUME NEW u \in Updates, UpdateRow(u) PROVE RetryInv'
  <2>1. CASE unit[u].seen = rowVersion
    BY <1>3, <2>1, RetriesAssumption DEF RetryInv, UnitTypeOK, UnitRecords, SnapshotIsCurrent, UpdateRow
  <2>2. CASE unit[u].seen # rowVersion
    BY <1>3, <2>2, RetryConflictKeepsInv DEF UpdateRow
  <2> QED BY <2>1, <2>2
<1>4. ASSUME NEW u \in Updates, CommitUnit(u) PROVE RetryInv'
  <2>1. /\ rowLock = u
        /\ rowVersion \in Nat
    BY <1>4 DEF RetryInv, UnitTypeOK, UnitRecords, SnapshotIsCurrent, CommitUnit
  <2>2. UnitTypeOK'
    <3>1. unit[u] \in UnitRecords BY DEF RetryInv, UnitTypeOK
    <3>2. [unit[u] EXCEPT !.pc = "committed", !.landed = TRUE] \in UnitRecords
      BY <3>1, Zenon DEF UnitRecords
    <3> QED BY <1>4, <2>1, <3>2 DEF RetryInv, UnitTypeOK, CommitUnit, ReleaseRow
  <2>3. SnapshotIsCurrent'
    BY <1>4, <2>1, RetriesAssumption
    DEF RetryInv, UnitTypeOK, UnitRecords, SnapshotIsCurrent, CommitUnit, ReleaseRow
  <2> QED BY <2>2, <2>3 DEF RetryInv
<1>5. ASSUME NEW u \in Updates, AbortUnit(u) PROVE RetryInv'
  BY <1>5, RetryConflictKeepsInv DEF AbortUnit
<1>6. ASSUME NEW u \in Updates, Acknowledge(u) PROVE RetryInv'
  BY <1>6 DEF RetryInv, UnitTypeOK, UnitRecords, SnapshotIsCurrent, Acknowledge, Ends
<1>7. ASSUME NEW u \in Updates, UnitFails(u) PROVE RetryInv'
  BY <1>7, RetriesAssumption
  DEF RetryInv, UnitTypeOK, UnitRecords, SnapshotIsCurrent, UnitFails, Ends, ReleaseRow
<1> QED BY <1>1, <1>2, <1>3, <1>4, <1>5, <1>6, <1>7, SMTT(30) DEF UnitNext, UnitStep

LEMMA RetryInvHolds == UnitSpec => []RetryInv
  BY UnitInitInv, UnitStepInv, PTL DEF UnitSpec

-----------------------------------------------------------------------------
\* The refinement mapping, as a function of the calls.
Outcomes == [u \in Updates |-> OutcomeOf(unit[u])]

LEMMA InitRefines == UnitInit => Abstract!GuardedInit
  BY DEF UnitInit, Abstract!GuardedInit, OutcomeOf, Attempt

\* A replay leaves the call open; the last one makes it fail.
LEMMA RetryConflictRefines ==
  ASSUME RetryInv, NEW u \in Updates, unit[u].pc \in {"read", "written"}, RetryConflict(u)
  PROVE  Abstract!Fail(u) \/ UNCHANGED Abstract!guardedVars
<1>1. OutcomeOf(unit[u]) = "open"
  BY DEF RetryInv, SnapshotIsCurrent, OutcomeOf
<1>2. \A v \in Updates : v # u => unit'[v] = unit[v]
  BY DEF RetryConflict, Ends, RetryInv, UnitTypeOK, UnitRecords
<1>3. CASE unit[u].attempt = MaxTxAttempts
  <2>1. OutcomeOf(unit'[u]) = "failed"
    BY <1>3, SMTT(30)
    DEF RetryConflict, Ends, OutcomeOf, RetryInv, UnitTypeOK, UnitRecords, SnapshotIsCurrent
  <2>2. Outcomes' = [Outcomes EXCEPT ![u] = "failed"]
    BY <1>2, <2>1, Zenon DEF Outcomes
  <2> QED BY <1>1, <2>2 DEF Outcomes, Abstract!Fail, RetryConflict
<1>4. CASE unit[u].attempt # MaxTxAttempts
  <2>1. OutcomeOf(unit'[u]) = "open"
    BY <1>4 DEF RetryConflict, Attempt, OutcomeOf, RetryInv, UnitTypeOK, UnitRecords
  <2>2. Outcomes' = Outcomes
    BY <1>1, <1>2, <2>1 DEF Outcomes
  <2> QED BY <2>2 DEF Outcomes, Abstract!guardedVars, RetryConflict
<1> QED BY <1>3, <1>4

LEMMA StepRefines ==
  RetryInv /\ [UnitNext]_unitVars => [Abstract!GuardedNext]_(Abstract!guardedVars)
<1> SUFFICES ASSUME RetryInv, [UnitNext]_unitVars
             PROVE  Abstract!GuardedNext \/ UNCHANGED Abstract!guardedVars
  OBVIOUS
<1>1. CASE UNCHANGED unitVars
  BY <1>1 DEF unitVars, Abstract!guardedVars, OutcomeOf
<1>2. ASSUME NEW u \in Updates, ReadRow(u)
      PROVE  Abstract!Refuse(u) \/ UNCHANGED Abstract!guardedVars
  <2>1. OutcomeOf(unit[u]) = "open"
    BY <1>2 DEF ReadRow, RetryInv, SnapshotIsCurrent, OutcomeOf
  <2>2. \A v \in Updates : v # u => unit'[v] = unit[v]
    BY <1>2 DEF ReadRow, Ends, RetryInv, UnitTypeOK, UnitRecords
  <2>3. CASE rowStatus \in Admits[u]
    <3>1. OutcomeOf(unit'[u]) = "open"
      BY <1>2, <2>3, SMTT(30)
      DEF ReadRow, OutcomeOf, RetryInv, UnitTypeOK, UnitRecords, SnapshotIsCurrent
    <3>2. Outcomes' = Outcomes BY <2>1, <2>2, <3>1 DEF Outcomes
    <3> QED BY <1>2, <3>2 DEF Outcomes, Abstract!guardedVars, ReadRow
  <2>4. CASE rowStatus \notin Admits[u]
    <3>1. OutcomeOf(unit'[u]) = "refused"
      BY <1>2, <2>4 DEF ReadRow, Ends, OutcomeOf, RetryInv, UnitTypeOK, UnitRecords, SnapshotIsCurrent
    <3>2. Outcomes' = [Outcomes EXCEPT ![u] = "refused"] BY <2>2, <3>1, Zenon DEF Outcomes
    <3> QED BY <1>2, <2>1, <2>4, <3>2 DEF Outcomes, Abstract!Refuse, ReadRow
  <2> QED BY <2>3, <2>4
<1>3. ASSUME NEW u \in Updates, UpdateRow(u)
      PROVE  Abstract!Fail(u) \/ UNCHANGED Abstract!guardedVars
  <2>1. CASE unit[u].seen = rowVersion
    <3>1. /\ OutcomeOf(unit[u]) = "open"
          /\ OutcomeOf(unit'[u]) = "open"
      BY <1>3, <2>1 DEF UpdateRow, OutcomeOf, RetryInv, UnitTypeOK, UnitRecords, SnapshotIsCurrent
    <3>2. \A v \in Updates : v # u => unit'[v] = unit[v]
      BY <1>3, <2>1 DEF UpdateRow, RetryInv, UnitTypeOK, UnitRecords
    <3>3. Outcomes' = Outcomes BY <3>1, <3>2 DEF Outcomes
    <3> QED BY <1>3, <2>1, <3>3 DEF Outcomes, Abstract!guardedVars, UpdateRow
  <2>2. CASE unit[u].seen # rowVersion
    BY <1>3, <2>2, RetryConflictRefines DEF UpdateRow
  <2> QED BY <2>1, <2>2
<1>4. ASSUME NEW u \in Updates, CommitUnit(u) PROVE Abstract!Apply(u)
  <2>1. /\ OutcomeOf(unit[u]) = "open"
        /\ rowStatus \in Admits[u]
    BY <1>4 DEF CommitUnit, RetryInv, SnapshotIsCurrent, OutcomeOf
  <2>2. OutcomeOf(unit'[u]) = "applied"
    BY <1>4 DEF CommitUnit, OutcomeOf, RetryInv, UnitTypeOK, UnitRecords
  <2>3. \A v \in Updates : v # u => unit'[v] = unit[v]
    BY <1>4 DEF CommitUnit, RetryInv, UnitTypeOK, UnitRecords
  <2>4. Outcomes' = [Outcomes EXCEPT ![u] = "applied"] BY <2>2, <2>3, Zenon DEF Outcomes
  <2> QED BY <1>4, <2>1, <2>4 DEF Outcomes, Abstract!Apply, CommitUnit
<1>5. ASSUME NEW u \in Updates, AbortUnit(u)
      PROVE  Abstract!Fail(u) \/ UNCHANGED Abstract!guardedVars
  BY <1>5, RetryConflictRefines DEF AbortUnit
<1>6. ASSUME NEW u \in Updates, Acknowledge(u) PROVE UNCHANGED Abstract!guardedVars
  <2>1. OutcomeOf(unit'[u]) = OutcomeOf(unit[u])
    BY <1>6 DEF Acknowledge, Ends, OutcomeOf, RetryInv, UnitTypeOK, UnitRecords, SnapshotIsCurrent
  <2>2. \A v \in Updates : v # u => unit'[v] = unit[v]
    BY <1>6 DEF Acknowledge, Ends, RetryInv, UnitTypeOK, UnitRecords
  <2>3. Outcomes' = Outcomes BY <2>1, <2>2 DEF Outcomes
  <2> QED BY <1>6, <2>3 DEF Outcomes, Abstract!guardedVars, Acknowledge
<1>7. ASSUME NEW u \in Updates, UnitFails(u)
      PROVE  Abstract!Fail(u) \/ UNCHANGED Abstract!guardedVars
  <2>1. \A v \in Updates : v # u => unit'[v] = unit[v]
    BY <1>7, SMTT(30) DEF UnitFails, Ends, RetryInv, UnitTypeOK, UnitRecords
  <2>2. CASE unit[u].pc = "committed"
    <3>1. OutcomeOf(unit'[u]) = OutcomeOf(unit[u])
      BY <1>7, <2>2, SMTT(30)
      DEF UnitFails, Ends, OutcomeOf, RetryInv, UnitTypeOK, UnitRecords, SnapshotIsCurrent
    <3>2. Outcomes' = Outcomes BY <2>1, <3>1, SMTT(30) DEF Outcomes
    <3> QED BY <1>7, <3>2 DEF Outcomes, Abstract!guardedVars, UnitFails
  <2>3. CASE unit[u].pc # "committed"
    <3>1. OutcomeOf(unit[u]) = "open"
      BY <1>7, <2>3 DEF UnitFails, OutcomeOf, RetryInv, SnapshotIsCurrent
    <3>2. OutcomeOf(unit'[u]) = "failed"
      BY <1>7, <2>3, SMTT(30)
      DEF UnitFails, Ends, OutcomeOf, RetryInv, UnitTypeOK, UnitRecords, SnapshotIsCurrent
    <3>3. Outcomes' = [Outcomes EXCEPT ![u] = "failed"] BY <2>1, <3>2, Zenon DEF Outcomes
    <3> QED BY <1>7, <3>1, <3>3 DEF Outcomes, Abstract!Fail, UnitFails
  <2> QED BY <2>2, <2>3
<1> QED
  BY <1>1, <1>2, <1>3, <1>4, <1>5, <1>6, <1>7 DEF UnitNext, UnitStep, Abstract!GuardedNext

\* runWithRetry around a read, a guard and an update is an atomic guarded update,
\* however many calls race, whatever their guards and targets and however often a
\* conflict is replayed.
THEOREM RetryImplementsGuardedUpdate == UnitSpec => ImplementsGuardedUpdate
  BY RetryInvHolds, InitRefines, StepRefines, PTL
  DEF UnitSpec, ImplementsGuardedUpdate, Abstract!GuardedSpec
=============================================================================
