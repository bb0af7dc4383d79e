------------------------------- MODULE EventBus -------------------------------
(***************************************************************************)
(* The event bus (src/events/event-bus.service.ts, typed-event-emitter.    *)
(* service.ts) and its listeners: an emit writes a row to the ledger, at   *)
(* best effort, and broadcasts twice: the payload under the event's name   *)
(* and the whole envelope under one fixed name. The listeners then run on  *)
(* their own, each behind its own catch.                                   *)
(*                                                                         *)
(* What a listener is given decides what it can find: of the payloads only *)
(* the one of audit.recorded carries an organization.                      *)
(***************************************************************************)
EXTENDS Integers, Sequences, FiniteSets

CONSTANTS
  Members,         \* users of the organization
  OtherEvents,     \* names nobody but the envelope's listeners asks for
  MaxEmissions,
  MaxBusFaults     \* writes that may fail

VARIABLES
  emissions,       \* the calls of emit(), in order
  deliveries,      \* what each listener still has to do
  ledger,          \* emissions with a row in domain_events
  eventRows,       \* audit rows: <<emission, listener>>
  notifications,   \* <<emission, member>>
  activeMembers,
  busFaults

busVars == <<emissions, deliveries, ledger, eventRows, notifications,
             activeMembers, busFaults>>

NotifiedEvents == {"proposal.created", "policy.violated", "transaction.failed", "risk.alert"}
EventNames == NotifiedEvents \cup {"audit.recorded", "transaction.created"} \cup OtherEvents

-----------------------------------------------------------------------------

\* The @OnEvent registrations: by the name of the envelope, or by the event's.
EnvelopeListeners == {"audit", "webhook"}
NamedListeners(name) ==
  {l \in {"notification"} : name \in NotifiedEvents}
    \cup {l \in {"recorded"} : name = "audit.recorded"}
    \cup {l \in {"risk"} : name = "transaction.created"}

\* What organizationId is of the argument the listener gets.
FindsOrganization(listener, e) ==
  IF listener \in EnvelopeListeners THEN e.org
  ELSE e.org /\ e.name = "audit.recorded"

Emit(name, org) ==
  /\ Len(emissions) < MaxEmissions
  /\ emissions' = Append(emissions, [name |-> name, org |-> org, pc |-> "persist"])
  /\ UNCHANGED <<deliveries, ledger, eventRows, notifications, activeMembers, busFaults>>

\* persist(): a failure is logged and the broadcast goes ahead.
Persist(i) ==
  /\ emissions[i].pc = "persist"
  /\ emissions' = [emissions EXCEPT ![i].pc = "broadcast"]
  /\ \/ ledger' = ledger \cup {i} /\ UNCHANGED busFaults
     \/ /\ busFaults < MaxBusFaults
        /\ busFaults' = busFaults + 1
        /\ UNCHANGED ledger
  /\ UNCHANGED <<deliveries, eventRows, notifications, activeMembers>>

Broadcast(i) ==
  /\ emissions[i].pc = "broadcast"
  /\ emissions' = [emissions EXCEPT ![i].pc = "done"]
  /\ deliveries' = deliveries \cup
       {[emission |-> i, listener |-> l] :
          l \in EnvelopeListeners \cup NamedListeners(emissions[i].name)}
  /\ UNCHANGED <<ledger, eventRows, notifications, activeMembers, busFaults>>

-----------------------------------------------------------------------------
(* The listeners                                                           *)

DoneWith(d) == deliveries' = deliveries \ {d}

\* A listener that finds no organization, or whose event is another's, returns.
Ignores_OwnsAll(d) ==
  LET e == emissions[d.emission]
  IN  ~FindsOrganization(d.listener, e) \/ d.listener = "risk"

Ignores(d) ==
  LET e == emissions[d.emission]
  IN  \/ ~FindsOrganization(d.listener, e)
      \/ d.listener = "audit" /\ e.name = "audit.recorded"
      \/ d.listener = "risk"

ListenerReturns(d) ==
  /\ d.listener = "webhook" \/ (d.listener \in {"audit", "recorded", "risk"} /\ Ignores(d))
  /\ DoneWith(d)
  /\ UNCHANGED <<emissions, ledger, eventRows, notifications, activeMembers, busFaults>>

\* AuditListener and AuditRecordedListener: record(), a failure is logged.
WriteAuditRow(d) ==
  /\ d.listener \in {"audit", "recorded"} /\ ~Ignores(d)
  /\ DoneWith(d)
  /\ \/ /\ eventRows' = eventRows \cup {<<d.emission, d.listener>>}
        /\ UNCHANGED busFaults
     \/ /\ busFaults < MaxBusFaults
        /\ busFaults' = busFaults + 1
        /\ UNCHANGED eventRows
  /\ UNCHANGED <<emissions, ledger, notifications, activeMembers>>

\* safeBroadcast(): one row for each active member, when it finds the organization.
NotifyMembers(d) ==
  /\ d.listener = "notification"
  /\ DoneWith(d)
  /\ notifications' = notifications \cup
       {<<d.emission, u>> : u \in {m \in activeMembers :
                                    FindsOrganization("notification", emissions[d.emission])}}
  /\ UNCHANGED <<emissions, ledger, eventRows, activeMembers, busFaults>>

-----------------------------------------------------------------------------

BusInit ==
  /\ emissions = <<>> /\ deliveries = {} /\ ledger = {} /\ eventRows = {}
  /\ notifications = {} /\ busFaults = 0
  /\ activeMembers \in SUBSET Members

BusSteps ==
  \/ \E i \in DOMAIN emissions : Persist(i) \/ Broadcast(i)
  \/ \E d \in deliveries :
       ListenerReturns(d) \/ WriteAuditRow(d) \/ NotifyMembers(d)

BusNext ==
  \/ \E name \in EventNames, org \in BOOLEAN : Emit(name, org)
  \/ BusSteps

BusSpec == BusInit /\ [][BusNext]_busVars /\ WF_busVars(BusSteps)

-----------------------------------------------------------------------------

\* Every listener is done with the emission.
Delivered(i) == emissions[i].pc = "done" /\ \A d \in deliveries : d.emission # i

(* At most one audit row comes of an event, although two listeners write   *)
(* rows and both hear of audit.recorded; and when nothing failed, an event *)
(* of an organization whose listeners are done has exactly one.            *)
OneRowPerEvent ==
  \A i \in DOMAIN emissions :
    LET rows == {r \in eventRows : r[1] = i}
    IN  /\ Cardinality(rows) <= 1
        /\ Delivered(i) /\ emissions[i].org /\ busFaults = 0 => Cardinality(rows) = 1

(* An event that members must hear of, once every listener is done with    *)
(* it, has given each active member a notification (NotificationListener:  *)
(* "Turns selected domain events into in-app notifications broadcast to    *)
(* the organization's members").                                           *)
MembersAreNotified ==
  \A i \in DOMAIN emissions :
    Delivered(i) /\ emissions[i].org /\ emissions[i].name \in NotifiedEvents
      => \A u \in activeMembers : <<i, u>> \in notifications

==============================================================================
