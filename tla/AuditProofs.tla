---------------------------- MODULE AuditProofs -----------------------------
(***************************************************************************)
(* Proofs about the audit log: its hash chain and its archival, for any    *)
(* number of calls, rows, organizations and archival runs, any page size   *)
(* and any ages.                                                           *)
(***************************************************************************)
EXTENDS AuditChain, AuditArchive, FiniteSetTheorems, WellFoundedInduction, TLAPS

-----------------------------------------------------------------------------
(* The hash chain                                                          *)

\* The rows that were there when an event happened are no later than its own.
RowsInOrder ==
    /\ chain \in Seq(Calls) /\ instant \in Nat
    /\ createdAt \in [Calls -> Nat] /\ \A c \in Calls : createdAt[c] <= instant
    /\ calling \in [Calls -> {"none", "occurred", "hashed", "written", "lost"}]
    /\ \A r \in Range(chain) : calling[r] = "written"
    /\ preceding \in [Calls -> SUBSET Range(chain)]
    /\ \A c \in Calls :
        /\ calling[c] = "none" => preceding[c] = {}
        /\ \A q \in preceding[c] : createdAt[q] <= createdAt[c]

\* What a call has read as the latest hash: nothing when its event was the first, or
\* a row that its event did not precede and that is no earlier than those that did.
LinkRead(c) ==
    \/ previousHash[c] = Genesis /\ preceding[c] = {}
    \/ /\ previousHash[c] \in Range(chain) \ {c}
       /\ c \notin preceding[previousHash[c]]
       /\ \A q \in preceding[c] : createdAt[q] <= createdAt[previousHash[c]]

ChainInv ==
    /\ RowsInOrder
    /\ previousHash \in [Calls -> Calls \cup {Genesis}]
    /\ \A c \in Calls : calling[c] \in {"hashed", "written"} => LinkRead(c)

\* A row more.
LEMMA ChainGrows ==
  ASSUME chain \in Seq(Calls), NEW c \in Calls
  PROVE  Append(chain, c) \in Seq(Calls) /\ Range(Append(chain, c)) = Range(chain) \cup {c}
  <1>1. /\ Append(chain, c) \in Seq(Calls) /\ DOMAIN Append(chain, c) = 1..(Len(chain) + 1)
        /\ DOMAIN chain = 1..Len(chain) /\ Len(chain) \in Nat
        /\ \A i \in 1..Len(chain) : Append(chain, c)[i] = chain[i]
        /\ Append(chain, c)[Len(chain) + 1] = c
    OBVIOUS
  <1> QED
    BY <1>1 DEF Range

LEMMA RowsAreCalls == ASSUME RowsInOrder PROVE Range(chain) \subseteq Calls
  BY DEF RowsInOrder, Range

\* Every step keeps the rows in order and the links as they were read.
LEMMA ChainStep == ChainInv /\ [ChainNext]_chainVars => ChainInv'
  <1> SUFFICES ASSUME ChainInv, [ChainNext]_chainVars PROVE ChainInv'
    OBVIOUS
  <1>0. Range(chain) \subseteq Calls
    BY RowsAreCalls DEF ChainInv
  <1>1. ASSUME NEW c \in Calls, Occur(c) PROVE ChainInv'
    <2>1. /\ calling[c] = "none" /\ calling' = [calling EXCEPT ![c] = "occurred"]
          /\ createdAt' = [createdAt EXCEPT ![c] = instant]
          /\ preceding' = [preceding EXCEPT ![c] = Range(chain)]
          /\ UNCHANGED <<instant, hashedAt, previousHash, chain>>
      BY <1>1 DEF Occur
    <2>2. c \notin Range(chain)
      BY <2>1 DEF ChainInv, RowsInOrder
    <2>3. RowsInOrder'
      BY <1>0, <2>1, <2>2 DEF ChainInv, RowsInOrder, Range
    <2>4. ASSUME NEW d \in Calls, calling'[d] \in {"hashed", "written"} PROVE LinkRead(d)'
      <3>1. d # c /\ calling[d] \in {"hashed", "written"} /\ LinkRead(d)
        BY <2>1, <2>4 DEF ChainInv, RowsInOrder
      <3> QED
        BY <1>0, <2>1, <2>2, <3>1 DEF ChainInv, RowsInOrder, LinkRead, Range
    <2> QED
      BY <2>1, <2>3, <2>4 DEF ChainInv
  <1>2. ASSUME NEW c \in Calls, ReadLatest(c) PROVE ChainInv'
    <2>1. PICK h \in LatestHash : previousHash' = [previousHash EXCEPT ![c] = h]
      BY <1>2, Zenon DEF ReadLatest
    <2>2. /\ calling[c] = "occurred" /\ calling' = [calling EXCEPT ![c] = "hashed"]
          /\ UNCHANGED <<instant, createdAt, chain, preceding>>
      BY <1>2 DEF ReadLatest
    <2>3. c \notin Range(chain)
      BY <2>2 DEF ChainInv, RowsInOrder
    <2>4. RowsInOrder'
      BY <2>2 DEF ChainInv, RowsInOrder, Range
    <2>5. h \in Calls \cup {Genesis}
      BY <1>0, <2>1 DEF LatestHash
    <2>6. LinkRead(c)'
      <3>1. CASE chain = <<>>
        BY <2>1, <2>2, <3>1 DEF LatestHash, LinkRead, ChainInv, RowsInOrder, Range
      <3>2. CASE chain # <<>>
        <4>1. h \in Range(chain) /\ \A q \in Range(chain) : createdAt[q] <= createdAt[h]
          BY <2>1, <3>2 DEF LatestHash
        <4>2. previousHash'[c] = h
          BY <2>1 DEF ChainInv
        <4>3. c \notin preceding[h] /\ preceding[c] \subseteq Range(chain)
          BY <1>0, <2>3, <4>1 DEF ChainInv, RowsInOrder
        <4>4. Range(chain)' = Range(chain) /\ preceding' = preceding /\ createdAt' = createdAt
          BY <2>2
        <4> QED
          BY <2>3, <4>1, <4>2, <4>3, <4>4 DEF LinkRead
      <3> QED
        BY <3>1, <3>2
    <2>7. ASSUME NEW d \in Calls, d # c, calling'[d] \in {"hashed", "written"} PROVE LinkRead(d)'
      BY <2>1, <2>2, <2>7 DEF ChainInv, RowsInOrder, LinkRead
    <2> QED
      BY <2>1, <2>4, <2>5, <2>6, <2>7 DEF ChainInv
  <1>3. ASSUME NEW c \in Calls, Insert(c) PROVE ChainInv'
    <2>1. /\ calling[c] = "hashed" /\ calling' = [calling EXCEPT ![c] = "written"]
          /\ chain' = Append(chain, c)
          /\ UNCHANGED <<instant, hashedAt, previousHash, preceding>>
      BY <1>3 DEF Insert
    <2>2. PICK t \in {createdAt[c], instant} : createdAt' = [createdAt EXCEPT ![c] = t]
      BY <1>3, Zenon DEF Insert
    <2>3. chain' \in Seq(Calls) /\ Range(chain)' = Range(chain) \cup {c}
      BY <2>1, ChainGrows DEF ChainInv, RowsInOrder
    <2>4. c \notin Range(chain) /\ t \in Nat /\ createdAt[c] <= t /\ t <= instant
      BY <2>1, <2>2 DEF ChainInv, RowsInOrder
    <2>5. /\ createdAt' \in [Calls -> Nat] /\ createdAt'[c] = t
          /\ \A d \in Calls : d # c => createdAt'[d] = createdAt[d]
          /\ \A d \in Calls : createdAt[d] \in Nat /\ createdAt[d] <= createdAt'[d] /\ createdAt'[d] <= instant
      BY <2>2, <2>4 DEF ChainInv, RowsInOrder
    <2>6. \A d \in Calls : preceding[d] \subseteq Range(chain)
      BY DEF ChainInv, RowsInOrder
    <2>7. RowsInOrder'
      <3>1. \A d \in Calls : \A q \in preceding[d] : createdAt'[q] <= createdAt'[d]
        <4> SUFFICES ASSUME NEW d \in Calls, NEW q \in preceding[d] PROVE createdAt'[q] <= createdAt'[d]
          OBVIOUS
        <4>1. q \in Calls /\ q # c /\ createdAt[q] <= createdAt[d]
          BY <1>0, <2>4, <2>6 DEF ChainInv, RowsInOrder
        <4> QED
          BY <2>5, <4>1
      <3>2. preceding' \in [Calls -> SUBSET Range(chain)']
        BY <2>1, <2>3, <2>6 DEF ChainInv, RowsInOrder
      <3>3. \A r \in Range(chain)' : calling'[r] = "written"
        BY <1>0, <2>1, <2>3 DEF ChainInv, RowsInOrder
      <3>4. \A d \in Calls : calling'[d] = "none" => preceding[d] = {}
        BY <2>1 DEF ChainInv, RowsInOrder
      <3>5. instant' = instant /\ preceding' = preceding /\ instant \in Nat
            /\ calling' \in [Calls -> {"none", "occurred", "hashed", "written", "lost"}]
        BY <2>1 DEF ChainInv, RowsInOrder
      <3> QED
        BY <2>3, <2>5, <3>1, <3>2, <3>3, <3>4, <3>5 DEF RowsInOrder
    <2>8. ASSUME NEW d \in Calls, calling'[d] \in {"hashed", "written"} PROVE LinkRead(d)'
      <3>1. LinkRead(d)
        BY <2>1, <2>8 DEF ChainInv, RowsInOrder
      <3>2. CASE previousHash[d] = Genesis /\ preceding[d] = {}
        BY <2>1, <3>2 DEF LinkRead
      <3>3. CASE /\ previousHash[d] \in Range(chain) \ {d}
                 /\ d \notin preceding[previousHash[d]]
                 /\ \A q \in preceding[d] : createdAt[q] <= createdAt[previousHash[d]]
        <4>1. \A q \in preceding[d] : createdAt'[q] <= createdAt'[previousHash[d]]
          BY <1>0, <2>4, <2>5, <2>6, <3>3
        <4> QED
          BY <2>1, <2>3, <3>3, <4>1 DEF LinkRead
      <3> QED
        BY <3>1, <3>2, <3>3 DEF LinkRead
    <2> QED
      BY <2>1, <2>7, <2>8 DEF ChainInv
  <1>4. ASSUME NEW c \in Calls, RecordFails(c) PROVE ChainInv'
    <2>1. /\ calling[c] \in {"occurred", "hashed"} /\ calling' = [calling EXCEPT ![c] = "lost"]
          /\ UNCHANGED <<instant, createdAt, hashedAt, previousHash, chain, preceding>>
      BY <1>4 DEF RecordFails
    <2>2. RowsInOrder'
      BY <2>1 DEF ChainInv, RowsInOrder, Range
    <2> QED
      BY <2>1, <2>2 DEF ChainInv, RowsInOrder, LinkRead, Range
  <1>5. CASE Passes
    <2>1. instant' = instant + 1 /\ UNCHANGED <<calling, createdAt, hashedAt, previousHash, chain, preceding>>
      BY <1>5 DEF Passes
    <2>2. RowsInOrder'
      BY <2>1 DEF ChainInv, RowsInOrder, Range
    <2> QED
      BY <2>1, <2>2 DEF ChainInv, LinkRead, Range
  <1>6. CASE UNCHANGED chainVars
    BY <1>6 DEF chainVars, ChainInv, RowsInOrder, LinkRead, Range
  <1> QED
    BY <1>1, <1>2, <1>3, <1>4, <1>5, <1>6 DEF ChainNext

\* No event has happened yet.
LEMMA ChainStarts == ChainInit => ChainInv
  BY DEF ChainInit, ChainInv, RowsInOrder, LinkRead, Range

\* Where no two rows raced, the order of the times is the order in which the events
\* were on record, and the hash that was read is that of the row before.
LEMMA ChainMeans == ChainInv => BrokenLinkNeedsRace
  <1> SUFFICES ASSUME ChainInv, NEW r \in Range(chain),
                      \A p, q \in Range(chain) : p # q => ~Race(p, q)
               PROVE  LinkHolds(r)
    BY DEF BrokenLinkNeedsRace
  <1> DEFINE h == previousHash[r]
             earlier == {q \in Range(chain) \ {r} : ComesBefore(q, r)}
  <1>1. /\ Range(chain) \subseteq Calls
        /\ \A q \in Range(chain) : createdAt[q] \in Nat
    BY RowsAreCalls DEF ChainInv, RowsInOrder
  <1>2. /\ \A p, q \in Range(chain) : q \in preceding[p] => createdAt[q] <= createdAt[p]
        /\ \A q \in Range(chain) : preceding[q] \subseteq Range(chain)
        /\ LinkRead(r)
    BY <1>1 DEF ChainInv, RowsInOrder
  <1>3. \A p, q \in Range(chain) : p # q =>
           (p \in preceding[q] \/ q \in preceding[p]) /\ createdAt[p] # createdAt[q]
    BY DEF Race
  <1>4. \A p, q \in Range(chain) : p # q => (ComesBefore(p, q) <=> createdAt[p] < createdAt[q])
    BY <1>3 DEF ComesBefore
  <1>5. CASE h = Genesis /\ preceding[r] = {}
    <2>1. \A q \in Range(chain) : q # r => createdAt[r] < createdAt[q]
      BY <1>1, <1>2, <1>3, <1>5
    <2>2. earlier = {}
      BY <1>1, <1>4, <2>1
    <2> QED
      BY <1>5, <2>2 DEF LinkHolds, ExpectedPrevious
  <1>6. CASE /\ h \in Range(chain) \ {r}
             /\ r \notin preceding[h]
             /\ \A q \in preceding[r] : createdAt[q] <= createdAt[h]
    <2>1. h \in preceding[r] /\ createdAt[h] < createdAt[r]
      BY <1>1, <1>2, <1>3, <1>6
    <2>2. h \in earlier
      BY <1>4, <1>6, <2>1
    <2>3. ASSUME NEW p \in earlier, p # h PROVE createdAt[p] < createdAt[h]
      <3>1. p \in Range(chain) /\ p # r /\ createdAt[p] < createdAt[r]
        BY <1>4, <2>3
      <3>2. p \in preceding[r]
        BY <1>1, <1>2, <1>3, <3>1
      <3> QED
        BY <1>1, <1>3, <1>6, <2>3, <3>1, <3>2
    <2>4. \A p \in earlier : p = h \/ ComesBefore(p, h)
      BY <1>4, <1>6, <2>3
    <2>5. ASSUME NEW q \in earlier, \A p \in earlier : p = q \/ ComesBefore(p, q) PROVE q = h
      <3>1. q # h => createdAt[h] < createdAt[q] /\ createdAt[q] < createdAt[h]
        BY <1>4, <1>6, <2>2, <2>3, <2>5
      <3> QED
        BY <1>1, <1>6, <3>1
    <2> HIDE DEF earlier
    <2>6. (CHOOSE q \in earlier : \A p \in earlier : p = q \/ ComesBefore(p, q)) = h
      BY <2>2, <2>4, <2>5
    <2> QED
      BY <2>2, <2>6, Zenon DEF LinkHolds, ExpectedPrevious, earlier
  <1> QED
    BY <1>2, <1>5, <1>6 DEF LinkRead

\* Where getLatestHash and the insert of AuditService.record interleave as they like, a
\* link of the chain is broken only between events that raced (BrokenLinkNeedsRace).
THEOREM LinksBreakOnlyInRaces == ChainSpec => []BrokenLinkNeedsRace
  BY ChainStarts, ChainStep, ChainMeans, PTL DEF ChainSpec


-----------------------------------------------------------------------------
(* Archival                                                                *)

\* A bounded set of numbers has a greatest one.
LEMMA GreatestExists ==
  ASSUME NEW S \in SUBSET Nat, S # {}, NEW bound \in Nat, \A x \in S : x <= bound
  PROVE  \E m \in S : \A x \in S : x <= m
  <1> DEFINE Bounds == {n \in Nat : \A x \in S : x <= n}
  <1>1. Bounds \subseteq Nat /\ Bounds # {}
    OBVIOUS
  <1>2. PICK m \in Bounds : \A n \in Bounds : ~ (<<n, m>> \in OpToRel(<, Nat))
    <2> HIDE DEF Bounds
    <2> QED BY <1>1, WFMin, NatLessThanWellFounded
  <1>3. \A n \in Bounds : ~ (n < m)
    BY <1>1, <1>2, Zenon DEF OpToRel
  <1>4. m \in S
    <2> SUFFICES ASSUME m \notin S PROVE FALSE
      OBVIOUS
    <2>1. m \in Nat /\ \A x \in S : x <= m
      OBVIOUS
    <2>2. m # 0
      <3>1. PICK x \in S : TRUE
        BY Zenon
      <3> QED BY <2>1, <3>1
    <2>3. m - 1 \in Bounds
      BY <2>1, <2>2
    <2> QED BY <2>1, <2>3, <1>3
  <1> QED BY <1>4

\* A batch, or what will be one: rows of one organization.
Batch(g) ==
    /\ g # {} /\ g \subseteq Inserted
    /\ \A q \in g, r \in g : OrgOf[q] = OrgOf[r]

\* No row that stays is older than one of the group and of its organization.
Oldest(g) == \A r \in g, q \in live \ g : OrgOf[r] = OrgOf[q] => created[r] <= created[q]

\* The groups a run has still to remove.
InHand(run) ==
    run.groups \cup (IF run.step \in {"verify", "delete"} THEN {run.batch} ELSE {})

Runs == [step : {"idle", "select", "write", "verify", "delete", "done", "failed"},
         cutoff : Int, groups : SUBSET SUBSET Rows, batch : SUBSET Rows,
         batches : 0..MaxBatches, deleted : Nat]

\* The rows, the batches and the runs.
ArchiveTypes ==
    /\ today \in 0..MaxDay
    /\ rowIds \in Seq(Rows)
    /\ created \in [Rows -> 0..MaxDay] /\ \A r \in Rows : created[r] <= today
    /\ live \subseteq Inserted /\ expired \subseteq Inserted
    /\ archives \in Seq(SUBSET Rows)
    /\ archiver \in [Archivers -> Runs]

\* A group stays the oldest of its organization until it is removed, as what is
\* written meanwhile is newer and what others remove is no row the less in it; and a
\* run deletes a batch only when the archive holds it.
RunsInv ==
    \A a \in Archivers :
        /\ archiver[a].step \in {"write", "verify", "delete"} => archiver[a].batches < MaxBatches
        /\ \A g \in InHand(archiver[a]) : Batch(g) /\ Oldest(g)
        /\ archiver[a].step = "delete" => archiver[a].batch \in Range(archives)

ArchiveInv ==
    /\ ArchiveTypes
    /\ \A g \in Range(archives) : Batch(g)
    /\ RunsInv
    /\ NothingLost
    /\ ArchivedIsPrefix

-----------------------------------------------------------------------------

LEMMA InsertedAreRows ==
  ASSUME rowIds \in Seq(Rows)
  PROVE  /\ Inserted \subseteq Rows
         /\ \A r \in Inserted : IdOf(r) \in 1..Len(rowIds) /\ rowIds[IdOf(r)] = r
  <1>1. DOMAIN rowIds = 1..Len(rowIds) /\ \A i \in 1..Len(rowIds) : rowIds[i] \in Rows
    OBVIOUS
  <1>2. ASSUME NEW r \in Inserted
        PROVE  IdOf(r) \in 1..Len(rowIds) /\ rowIds[IdOf(r)] = r
    <2>1. \E i \in DOMAIN rowIds : rowIds[i] = r
      BY <1>2 DEF Inserted, Range
    <2> QED BY <2>1, <1>1 DEF IdOf
  <1> QED BY <1>1, <1>2 DEF Inserted, Range

\* The order of the table is total.
LEMMA LastOfBatch ==
  ASSUME ArchiveTypes, NEW g, g # {}, g \subseteq Inserted
  PROVE  /\ LastOf(g) \in g
         /\ \A q \in g : created[q] <= created[LastOf(g)]
  <1> USE ArchiveAssumption
  <1>0. /\ Inserted \subseteq Rows /\ Len(rowIds) \in Nat
        /\ \A r \in Inserted : IdOf(r) \in 1..Len(rowIds) /\ rowIds[IdOf(r)] = r
    BY InsertedAreRows DEF ArchiveTypes
  <1>1. \A r \in g : created[r] \in Nat /\ created[r] <= MaxDay
    BY <1>0 DEF ArchiveTypes
  <1>2. PICK day \in {created[r] : r \in g} : \A d \in {created[r] : r \in g} : d <= day
    <2> DEFINE S == {created[r] : r \in g}
    <2>1. S \in SUBSET Nat /\ S # {} /\ \A d \in S : d <= MaxDay
      BY <1>1
    <2> HIDE DEF S
    <2>2. \E m \in S : \A x \in S : x <= m
      BY <2>1, GreatestExists, Zenon
    <2> QED BY <2>2 DEF S
  <1> DEFINE T == {r \in g : created[r] = day}
             I == {IdOf(r) : r \in T}
  <1>3. I \in SUBSET Nat /\ I # {} /\ \A i \in I : i <= Len(rowIds)
    BY <1>0, <1>2
  <1>4. PICK i \in I : \A j \in I : j <= i
    <2> HIDE DEF I
    <2> QED BY <1>0, <1>3, GreatestExists, Zenon
  <1>5. PICK last \in T : i = IdOf(last)
    BY <1>4
  <1>6. \A q \in g : q = last \/ Before(q, last)
    <2> SUFFICES ASSUME NEW q \in g, q # last, ~ Before(q, last) PROVE FALSE
      OBVIOUS
    <2>1. created[q] <= day /\ created[last] = day /\ created[q] \in Nat /\ day \in Nat
      BY <1>1, <1>2, <1>5
    <2>2. q \in T
      BY <2>1 DEF Before
    <2>3. IdOf(q) <= IdOf(last) /\ IdOf(q) # IdOf(last)
      BY <2>2, <1>4, <1>5, <1>0
    <2> QED BY <2>1, <2>2, <2>3, <1>0 DEF Before
  <1>7. LastOf(g) \in g /\ \A q \in g : q = LastOf(g) \/ Before(q, LastOf(g))
    BY <1>5, <1>6 DEF LastOf
  <1> QED BY <1>7, <1>1 DEF Before

\* findArchivable, then groupByOrganization: the groups are batches, and the oldest
\* rows of their organizations.
LEMMA SelectedAreOldest ==
  ASSUME ArchiveTypes, NEW cutoff \in Int,
         NEW g \in GroupByOrganization(FindArchivable(cutoff))
  PROVE  g \in SUBSET Rows /\ Batch(g) /\ Oldest(g)
  <1> USE ArchiveAssumption
  <1> DEFINE old == {r \in live : created[r] < cutoff}
             earlier(r) == {q \in old : Before(q, r)}
             rows == {r \in old : Cardinality(earlier(r)) < BatchSize}
  <1>0. rows = FindArchivable(cutoff)
    BY DEF FindArchivable
  <1>1. /\ live \subseteq Inserted /\ Inserted \subseteq Rows /\ old \subseteq live
        /\ \A r \in Rows : created[r] \in Nat
    BY InsertedAreRows DEF ArchiveTypes
  <1>2. IsFiniteSet(old)
    BY <1>1, FS_Subset
  <1>3. PICK o : g = {r \in rows : OrgOf[r] = o} /\ g # {}
    BY <1>0, Zenon DEF GroupByOrganization
  <1>4. g \subseteq rows /\ Batch(g)
    BY <1>1, <1>3 DEF Batch
  <1>5. ASSUME NEW r \in g, NEW q \in live \ g, OrgOf[r] = OrgOf[q], ~ (created[r] <= created[q])
        PROVE  FALSE
    <2>1. r \in rows /\ q \notin rows
      BY <1>3, <1>5
    <2>2. created[r] \in Nat /\ created[q] \in Nat /\ created[q] < created[r] /\ created[r] < cutoff
      BY <1>1, <1>5, <2>1
    <2>3. q \in old
      BY <2>2
    <2>4. earlier(q) \subseteq earlier(r)
      <3> SUFFICES ASSUME NEW p \in old, Before(p, q) PROVE Before(p, r)
        OBVIOUS
      <3>1. created[p] \in Nat /\ created[p] <= created[q]
        BY <1>1, <2>2 DEF Before
      <3> QED BY <3>1, <2>2 DEF Before
    <2>5. /\ Cardinality(earlier(r)) \in Nat /\ Cardinality(earlier(q)) \in Nat
          /\ Cardinality(earlier(q)) <= Cardinality(earlier(r))
      <3> DEFINE E == earlier(r)
                 F == earlier(q)
      <3>1. E \in SUBSET old /\ F \in SUBSET E
        BY <2>4
      <3> HIDE DEF E, F, old
      <3>2. IsFiniteSet(E)
        BY <3>1, <1>2, FS_Subset
      <3>3. IsFiniteSet(F) /\ Cardinality(F) <= Cardinality(E)
        BY <3>1, <3>2, FS_Subset
      <3>4. Cardinality(E) \in Nat /\ Cardinality(F) \in Nat
        BY <3>2, <3>3, FS_CardinalityType
      <3> QED BY <3>3, <3>4 DEF E, F
    <2> HIDE DEF earlier, old
    <2>6. Cardinality(earlier(r)) < BatchSize
      BY <2>1
    <2>7. Cardinality(earlier(q)) < BatchSize
      BY <2>5, <2>6
    <2> QED BY <2>1, <2>3, <2>7
  <1>6. Oldest(g)
    BY <1>5 DEF Oldest
  <1> QED BY <1>1, <1>4, <1>6, Zenon

-----------------------------------------------------------------------------

\* A row more in the table.
LEMMA TableGrows ==
  ASSUME rowIds \in Seq(Rows), NEW r \in Rows, rowIds' = Append(rowIds, r)
  PROVE  rowIds' \in Seq(Rows) /\ Inserted' = Inserted \cup {r}
  <1>1. /\ Append(rowIds, r) \in Seq(Rows) /\ DOMAIN Append(rowIds, r) = 1..(Len(rowIds) + 1)
        /\ DOMAIN rowIds = 1..Len(rowIds) /\ Len(rowIds) \in Nat
        /\ \A i \in 1..Len(rowIds) : Append(rowIds, r)[i] = rowIds[i]
        /\ Append(rowIds, r)[Len(rowIds) + 1] = r
    OBVIOUS
  <1>2. 1..(Len(rowIds) + 1) = 1..Len(rowIds) \cup {Len(rowIds) + 1}
    BY <1>1
  <1> QED BY <1>1, <1>2 DEF Inserted, Range

\* A batch more in the archive.
LEMMA ArchiveGrows ==
  ASSUME archives \in Seq(SUBSET Rows), NEW g \in SUBSET Rows
  PROVE  Append(archives, g) \in Seq(SUBSET Rows) /\ Range(Append(archives, g)) = Range(archives) \cup {g}
  <1>1. /\ Append(archives, g) \in Seq(SUBSET Rows) /\ DOMAIN Append(archives, g) = 1..(Len(archives) + 1)
        /\ DOMAIN archives = 1..Len(archives) /\ Len(archives) \in Nat
        /\ \A i \in 1..Len(archives) : Append(archives, g)[i] = archives[i]
        /\ Append(archives, g)[Len(archives) + 1] = g
    OBVIOUS
  <1>2. 1..(Len(archives) + 1) = 1..Len(archives) \cup {Len(archives) + 1}
    BY <1>1
  <1> QED BY <1>1, <1>2 DEF Range

LEMMA ArchiveStarts == ArchiveInit => ArchiveInv
  <1> SUFFICES ASSUME ArchiveInit PROVE ArchiveInv
    OBVIOUS
  <1> USE ArchiveAssumption DEF ArchiveInit
  <1>1. Inserted = {} /\ Range(archives) = {} /\ rowIds \in Seq(Rows) /\ archives \in Seq(SUBSET Rows)
    BY DEF Inserted, Range
  <1>2. RunStart \in Runs /\ InHand(RunStart) = {} /\ RunStart.step = "idle"
    BY DEF Runs, RunStart, InHand
  <1>3. ArchiveTypes
    BY <1>1, <1>2 DEF ArchiveTypes
  <1>4. RunsInv
    BY <1>2 DEF RunsInv
  <1> QED
    BY <1>1, <1>3, <1>4 DEF ArchiveInv, NothingLost, ArchivedIsPrefix, RemovedByArchival, ArchivedRows

\* AuditService.record adds a row no older than any other.
LEMMA WriteKeeps == ASSUME ArchiveInv, NEW r \in Rows, WriteRow(r) PROVE ArchiveInv'
  <1> USE ArchiveAssumption
  <1>0. /\ rowIds' \in Seq(Rows) /\ Inserted' = Inserted \cup {r} /\ Inserted \subseteq Rows
        /\ r \notin Inserted /\ live' = live \cup {r}
        /\ UNCHANGED <<today, archives, expired, archiver>>
    BY TableGrows, InsertedAreRows DEF WriteRow, ArchiveInv, ArchiveTypes
  <1>1. /\ created' \in [Rows -> 0..MaxDay] /\ created'[r] = today /\ today \in Nat
        /\ \A q \in Rows : q # r => created'[q] = created[q]
        /\ \A q \in Rows : created[q] \in Nat /\ created[q] <= today /\ created'[q] <= today
    BY DEF WriteRow, ArchiveInv, ArchiveTypes
  <1>2. ArchiveTypes'
    BY <1>0, <1>1 DEF ArchiveInv, ArchiveTypes
  <1>3. ASSUME NEW g, Batch(g) PROVE Batch(g)'
    BY <1>0, <1>3 DEF Batch
  <1>4. ASSUME NEW g, Batch(g), Oldest(g) PROVE Oldest(g)'
    <2> SUFFICES ASSUME NEW p \in g, NEW q \in live' \ g, OrgOf[p] = OrgOf[q]
                 PROVE  created'[p] <= created'[q]
      BY DEF Oldest
    <2>1. p \in Rows /\ p # r /\ q \in Rows
      BY <1>0, <1>4 DEF Batch, ArchiveInv, ArchiveTypes
    <2>2. CASE q = r
      BY <1>1, <2>1, <2>2
    <2>3. CASE q # r
      BY <1>0, <1>1, <1>4, <2>1, <2>3, SMTT(30) DEF Oldest
    <2> QED BY <2>2, <2>3
  <1>5. RunsInv'
    BY <1>0, <1>3, <1>4 DEF ArchiveInv, RunsInv
  <1>6. RemovedByArchival' = RemovedByArchival /\ ArchivedRows' = ArchivedRows
    BY <1>0 DEF RemovedByArchival, ArchivedRows, ArchiveInv, ArchiveTypes
  <1>7. NothingLost'
    BY <1>0, <1>1, <1>6, Zenon DEF NothingLost, ArchiveInv, ArchiveTypes
  <1>8. ArchivedIsPrefix'
    <2> SUFFICES ASSUME NEW p \in RemovedByArchival, NEW q \in live', OrgOf[p] = OrgOf[q]
                 PROVE  created'[p] <= created'[q]
      BY <1>6 DEF ArchivedIsPrefix
    <2>1. p \in Rows /\ p # r /\ q \in Rows
      BY <1>0 DEF RemovedByArchival, ArchiveInv, ArchiveTypes
    <2>2. CASE q = r
      BY <1>1, <2>1, <2>2
    <2>3. CASE q # r
      BY <1>0, <1>1, <2>1, <2>3 DEF ArchivedIsPrefix, ArchiveInv
    <2> QED BY <2>2, <2>3
  <1> QED BY <1>0, <1>2, <1>3, <1>5, <1>7, <1>8 DEF ArchiveInv

\* The step of a run that changes only the run: it may take on groups that are the
\* oldest rows of their organizations.
LEMMA RunKeeps ==
  ASSUME ArchiveInv, NEW a \in Archivers, NEW run \in Runs,
         archiver' = [archiver EXCEPT ![a] = run],
         UNCHANGED <<today, rowIds, created, live, archives, expired>>,
         run.step \in {"write", "verify", "delete"} => run.batches < MaxBatches,
         \A g \in InHand(run) : Batch(g) /\ Oldest(g),
         run.step = "delete" => run.batch \in Range(archives)
  PROVE  ArchiveInv'
  <1>1. Inserted' = Inserted
    BY DEF Inserted
  <1>2. archiver' \in [Archivers -> Runs] /\ archiver'[a] = run
        /\ \A b \in Archivers : b # a => archiver'[b] = archiver[b]
    BY DEF ArchiveInv, ArchiveTypes
  <1>3. ArchiveTypes'
    BY <1>1, <1>2 DEF ArchiveInv, ArchiveTypes
  <1>4. \A g : Batch(g)' = Batch(g) /\ Oldest(g)' = Oldest(g)
    BY <1>1 DEF Batch, Oldest
  <1>5. RunsInv'
    <2> SUFFICES ASSUME NEW b \in Archivers
                 PROVE  /\ archiver'[b].step \in {"write", "verify", "delete"} => archiver'[b].batches < MaxBatches
                        /\ \A g \in InHand(archiver'[b]) : Batch(g) /\ Oldest(g)
                        /\ archiver'[b].step = "delete" => archiver'[b].batch \in Range(archives)
      BY <1>4 DEF RunsInv, InHand
    <2>1. CASE b = a
      BY <1>2, <2>1
    <2>2. CASE b # a
      BY <1>2, <2>2 DEF ArchiveInv, RunsInv
    <2> QED BY <2>1, <2>2
  <1>6. NothingLost' /\ ArchivedIsPrefix'
    BY <1>1 DEF ArchiveInv, NothingLost, ArchivedIsPrefix, RemovedByArchival, ArchivedRows
  <1> QED BY <1>3, <1>4, <1>5, <1>6 DEF ArchiveInv

\* Starting, verifying and failing change the step of the run, and selecting its groups.
LEMMA RunStepKeeps ==
  ASSUME ArchiveInv, NEW a \in Archivers,
         StartRun(a) \/ Select(a) \/ VerifyArchive(a) \/ RunFails(a)
  PROVE  ArchiveInv'
  <1> USE ArchiveAssumption
  <1>0. archiver[a] \in Runs /\ archiver[a].cutoff \in Int /\ today \in Nat
    BY DEF ArchiveInv, ArchiveTypes, Runs
  <1>r. /\ archiver[a].step \in {"write", "verify", "delete"} => archiver[a].batches < MaxBatches
        /\ \A g \in InHand(archiver[a]) : Batch(g) /\ Oldest(g)
    BY DEF ArchiveInv, RunsInv
  <1>1. CASE StartRun(a)
    <2> DEFINE run == [RunStart EXCEPT !.step = "select", !.cutoff = today - ArchiveAge]
    <2>0. PICK cutoff \in Int : cutoff = today - ArchiveAge
      BY <1>0
    <2>a. RunStart \in Runs /\ RunStart.groups = {}
      BY DEF RunStart, Runs
    <2>1. run \in Runs /\ InHand(run) = {} /\ run.step = "select"
      <3>1. run = [RunStart EXCEPT !.step = "select", !.cutoff = cutoff]
        BY <2>0
      <3> HIDE DEF run
      <3>2. run \in Runs /\ run.groups = {} /\ run.step = "select"
        BY <2>a, <3>1, Zenon DEF Runs
      <3> QED BY <3>2 DEF InHand
    <2>2. /\ archiver' = [archiver EXCEPT ![a] = run]
          /\ UNCHANGED <<today, rowIds, created, live, archives, expired>>
      BY <1>1 DEF StartRun
    <2> HIDE DEF run
    <2> QED BY <2>1, <2>2, RunKeeps, Zenon
  <1>2. CASE Select(a)
    <2> DEFINE rows == FindArchivable(archiver[a].cutoff)
               done == [archiver[a] EXCEPT !.step = "done"]
               run == [archiver[a] EXCEPT !.step = "write", !.groups = GroupByOrganization(rows), !.deleted = 0]
    <2>1. UNCHANGED <<today, rowIds, created, live, archives, expired>>
      BY <1>2 DEF Select
    <2>2. CASE RunOver(archiver[a], rows)
      <3>1. archiver' = [archiver EXCEPT ![a] = done]
        BY <1>2, <2>2 DEF Select
      <3>2. done \in Runs /\ InHand(done) \subseteq InHand(archiver[a]) /\ done.step = "done"
        BY <1>0 DEF Runs, InHand
      <3> HIDE DEF done
      <3> QED BY <1>r, <2>1, <3>1, <3>2, RunKeeps, Zenon
    <2>3. CASE ~ RunOver(archiver[a], rows)
      <3>1. archiver' = [archiver EXCEPT ![a] = run]
        BY <1>2, <2>3 DEF Select
      <3>2. \A g \in GroupByOrganization(rows) : g \in SUBSET Rows /\ Batch(g) /\ Oldest(g)
        BY <1>0, SelectedAreOldest DEF ArchiveInv
      <3>3. PICK groups : groups = GroupByOrganization(rows)
        OBVIOUS
      <3>4. archiver[a].batches < MaxBatches
        BY <1>0, <2>3 DEF RunOver, Runs
      <3> HIDE DEF rows
      <3>5. run = [archiver[a] EXCEPT !.step = "write", !.groups = groups, !.deleted = 0]
        BY <3>3
      <3>6. groups \in SUBSET SUBSET Rows
        BY <3>2, <3>3
      <3> HIDE DEF run
      <3>7. run \in Runs /\ run.groups = groups /\ run.step = "write" /\ run.batches = archiver[a].batches
        BY <1>0, <3>5, <3>6, Zenon DEF Runs
      <3>8. InHand(run) = groups
        BY <3>7 DEF InHand
      <3>9. \A g \in InHand(run) : Batch(g) /\ Oldest(g)
        BY <3>2, <3>3, <3>8
      <3> QED BY <2>1, <3>1, <3>4, <3>7, <3>9, RunKeeps, Zenon
    <2> QED BY <2>2, <2>3
  <1>3. CASE VerifyArchive(a)
    <2>1. PICK next \in {"delete", "failed"} :
            /\ next = "delete" => archiver[a].batch \in Range(archives)
            /\ archiver[a].step = "verify"
            /\ archiver' = [archiver EXCEPT ![a].step = next]
            /\ UNCHANGED <<today, rowIds, created, live, archives, expired>>
      BY <1>3, Zenon DEF VerifyArchive
    <2> DEFINE run == [archiver[a] EXCEPT !.step = next]
    <2>2. /\ run \in Runs /\ InHand(run) \subseteq InHand(archiver[a]) /\ run.step = next
          /\ run.batches < MaxBatches /\ run.batch = archiver[a].batch
      BY <1>0, <1>r, <2>1 DEF Runs, InHand
    <2>3. archiver' = [archiver EXCEPT ![a] = run]
      BY <2>1
    <2> HIDE DEF run
    <2> QED BY <1>r, <2>1, <2>2, <2>3, RunKeeps, Zenon
  <1>4. CASE RunFails(a)
    <2> DEFINE run == [archiver[a] EXCEPT !.step = "failed"]
    <2>1. run \in Runs /\ InHand(run) \subseteq InHand(archiver[a]) /\ run.step = "failed"
      BY <1>0 DEF Runs, InHand
    <2>2. /\ archiver' = [archiver EXCEPT ![a] = run]
          /\ UNCHANGED <<today, rowIds, created, live, archives, expired>>
      BY <1>4 DEF RunFails
    <2> HIDE DEF run
    <2> QED BY <1>r, <2>1, <2>2, RunKeeps, Zenon
  <1> QED BY <1>1, <1>2, <1>3, <1>4

\* createArchive adds at most one of the groups of the run.
LEMMA CreateKeeps == ASSUME ArchiveInv, NEW a \in Archivers, CreateArchive(a) PROVE ArchiveInv'
  <1> USE ArchiveAssumption
  <1>0. archiver[a] \in Runs /\ archives \in Seq(SUBSET Rows)
    BY DEF ArchiveInv, ArchiveTypes
  <1>1. PICK group \in archiver[a].groups :
          /\ archives' = IF group \in Range(archives) THEN archives ELSE Append(archives, group)
          /\ archiver' = [archiver EXCEPT ![a] =
               [archiver[a] EXCEPT !.step = "verify", !.batch = group, !.groups = archiver[a].groups \ {group}]]
    BY Zenon DEF CreateArchive
  <1>2. archiver[a].step = "write" /\ UNCHANGED <<today, rowIds, created, live, expired>>
    BY DEF CreateArchive
  <1> DEFINE run == [archiver[a] EXCEPT !.step = "verify", !.batch = group,
        !.groups = archiver[a].groups \ {group}]
  <1>3. /\ run \in Runs /\ InHand(run) \subseteq InHand(archiver[a]) /\ run.step = "verify"
        /\ run.batches = archiver[a].batches /\ group \in SUBSET Rows /\ group \in InHand(archiver[a])
    BY <1>0, <1>1, Zenon DEF Runs, InHand
  <1>4. archiver' = [archiver EXCEPT ![a] = run]
    BY <1>1
  <1> HIDE DEF run
  <1>5. /\ archives' \in Seq(SUBSET Rows) /\ Range(archives') \subseteq Range(archives) \cup {group}
        /\ Range(archives) \subseteq Range(archives')
    BY <1>0, <1>1, <1>3, ArchiveGrows
  <1>6. Batch(group) /\ archiver[a].batches < MaxBatches
    BY <1>2, <1>3 DEF ArchiveInv, RunsInv
  <1>7. Inserted' = Inserted /\ RemovedByArchival' = RemovedByArchival
    BY <1>2 DEF Inserted, RemovedByArchival
  <1>8. \A g : Batch(g)' = Batch(g) /\ Oldest(g)' = Oldest(g)
    BY <1>2, <1>7 DEF Batch, Oldest
  <1>9. /\ archiver' \in [Archivers -> Runs] /\ archiver'[a] = run
        /\ \A b \in Archivers : b # a => archiver'[b] = archiver[b]
    BY <1>3, <1>4 DEF ArchiveInv, ArchiveTypes
  <1>10. ArchiveTypes'
    BY <1>2, <1>5, <1>7, <1>9 DEF ArchiveInv, ArchiveTypes
  <1>11. \A g \in Range(archives') : Batch(g)'
    BY <1>5, <1>6, <1>8, SMTT(30) DEF ArchiveInv
  <1>12. RunsInv'
    <2> SUFFICES ASSUME NEW b \in Archivers
                 PROVE  /\ archiver'[b].step \in {"write", "verify", "delete"} => archiver'[b].batches < MaxBatches
                        /\ \A g \in InHand(archiver'[b]) : Batch(g) /\ Oldest(g)
                        /\ archiver'[b].step = "delete" => archiver'[b].batch \in Range(archives')
      BY <1>8, SMTT(30) DEF RunsInv, InHand
    <2>1. CASE b = a
      BY <1>3, <1>6, <1>9, <2>1, SMTT(30) DEF ArchiveInv, RunsInv
    <2>2. CASE b # a
      BY <1>5, <1>9, <2>2, SMTT(30) DEF ArchiveInv, RunsInv
    <2> QED BY <2>1, <2>2, SMTT(30)
  <1>13. NothingLost'
    <2>1. ArchivedRows \subseteq ArchivedRows' /\ ArchivedRows' \subseteq Inserted
      BY <1>5, <1>6, SMTT(30) DEF ArchivedRows, Batch, ArchiveInv, NothingLost
    <2> QED BY <1>2, <1>7, <2>1 DEF ArchiveInv, NothingLost
  <1>14. ArchivedIsPrefix'
    BY <1>2, <1>7, SMTT(30) DEF ArchiveInv, ArchivedIsPrefix
  <1> QED BY <1>10, <1>11, <1>12, <1>13, <1>14 DEF ArchiveInv

\* deleteAuditLogs removes rows the archive holds, the oldest of their organization;
\* to the groups of other runs that is some rows the less to stay behind.
LEMMA DeleteKeeps == ASSUME ArchiveInv, NEW a \in Archivers, DeleteAuditLogs(a) PROVE ArchiveInv'
  <1> USE ArchiveAssumption
  <1> DEFINE batch == archiver[a].batch
             count == Cardinality(batch \cap live)
             counted == [archiver[a] EXCEPT !.batches = @ + 1, !.deleted = @ + count]
             run == [counted EXCEPT !.step = NextGroup(counted)]
  <1>0. archiver[a] \in Runs
    BY DEF ArchiveInv, ArchiveTypes
  <1>1. /\ archiver[a].step = "delete" /\ live' = live \ batch
        /\ archiver' = [archiver EXCEPT ![a] = run]
        /\ UNCHANGED <<today, rowIds, created, archives, expired>>
    BY DEF DeleteAuditLogs
  <1>2. /\ Inserted' = Inserted /\ Inserted \subseteq Rows
    BY <1>1, InsertedAreRows DEF Inserted, ArchiveInv, ArchiveTypes
  <1>3. /\ Batch(batch) /\ Oldest(batch) /\ batch \in Range(archives)
        /\ archiver[a].batches < MaxBatches
    BY <1>1 DEF ArchiveInv, RunsInv, InHand
  <1>4. count \in Nat
    <2>1. IsFiniteSet(batch \cap live)
      BY <1>2, FS_Subset DEF ArchiveInv, ArchiveTypes
    <2> QED BY <2>1, FS_CardinalityType, SMTT(30)
  <1> HIDE DEF count
  <1>5. /\ counted \in Runs /\ counted.groups = archiver[a].groups
        /\ counted.batches = archiver[a].batches + 1
    <2>1. archiver[a].batches \in 0..MaxBatches /\ archiver[a].deleted \in Nat
      BY <1>0 DEF Runs
    <2>2. PICK n \in 0..MaxBatches,
          d \in Nat : n = archiver[a].batches + 1 /\ d = archiver[a].deleted + count
      BY <1>3, <1>4, <2>1
    <2>3. counted = [archiver[a] EXCEPT !.batches = n, !.deleted = d]
      BY <2>2
    <2> HIDE DEF counted
    <2> QED BY <1>0, <2>2, <2>3, Zenon DEF Runs
  <1> HIDE DEF counted
  <1>6. PICK next \in {"write", "done", "select"} :
          next = NextGroup(counted) /\ (next = "write" => counted.batches < MaxBatches)
    BY DEF NextGroup
  <1>7. /\ run \in Runs /\ run.step = next /\ run.groups = counted.groups /\ run.batches = counted.batches
    BY <1>5, <1>6 DEF Runs
  <1>8. InHand(run) \subseteq InHand(archiver[a])
    BY <1>5, <1>6, <1>7 DEF InHand
  <1> HIDE DEF run
  <1>9. /\ archiver' \in [Archivers -> Runs] /\ archiver'[a] = run
        /\ \A b \in Archivers : b # a => archiver'[b] = archiver[b]
    BY <1>1, <1>7 DEF ArchiveInv, ArchiveTypes
  <1>10. ArchiveTypes'
    BY <1>1, <1>2, <1>9 DEF ArchiveInv, ArchiveTypes
  <1>11. \A g : (Batch(g) => Batch(g)') /\ (Oldest(g) => Oldest(g)')
    BY <1>1, <1>2 DEF Batch, Oldest
  <1>12. RunsInv'
    <2> SUFFICES ASSUME NEW b \in Archivers
                 PROVE  /\ archiver'[b].step \in {"write", "verify", "delete"} => archiver'[b].batches < MaxBatches
                        /\ \A g \in InHand(archiver'[b]) : Batch(g) /\ Oldest(g)
                        /\ archiver'[b].step = "delete" => archiver'[b].batch \in Range(archives)
      BY <1>1, <1>11, SMTT(30) DEF RunsInv, InHand
    <2>1. CASE b = a
      BY <1>6, <1>7, <1>8, <1>9, <2>1, SMTT(30) DEF ArchiveInv, RunsInv
    <2>2. CASE b # a
      BY <1>9, <2>2, SMTT(30) DEF ArchiveInv, RunsInv
    <2> QED BY <2>1, <2>2, SMTT(30)
  <1>13. RemovedByArchival' \subseteq RemovedByArchival \cup batch /\ ArchivedRows' = ArchivedRows
    BY <1>1, <1>2 DEF RemovedByArchival, ArchivedRows
  <1>14. NothingLost'
    <2>1. batch \subseteq ArchivedRows
      BY <1>3, SMTT(30) DEF ArchivedRows
    <2> QED BY <1>1, <1>2, <1>13, <2>1 DEF ArchiveInv, NothingLost
  <1>15. ArchivedIsPrefix'
    BY <1>1, <1>3, <1>13 DEF ArchiveInv, ArchivedIsPrefix, Oldest
  <1> QED BY <1>1, <1>10, <1>11, <1>12, <1>14, <1>15 DEF ArchiveInv

\* The cleanup removes rows by their age, and the clock advances.
LEMMA CleanupKeeps == ASSUME ArchiveInv, CleanupChunk \/ NewDay PROVE ArchiveInv'
  <1> USE ArchiveAssumption
  <1>0. today \in Nat /\ \A r \in Rows : created[r] \in Nat
    BY DEF ArchiveInv, ArchiveTypes
  <1>1. Inserted' = Inserted /\ Inserted \subseteq Rows /\ ArchivedRows' = ArchivedRows
    BY InsertedAreRows DEF CleanupChunk, NewDay, Inserted, ArchivedRows, ArchiveInv, ArchiveTypes
  <1>2. /\ live' \subseteq live /\ today' \in 0..MaxDay /\ today <= today'
        /\ UNCHANGED <<rowIds, created, archives, archiver>>
    BY <1>0 DEF CleanupChunk, NewDay, ArchiveInv, ArchiveTypes
  <1>3. /\ RemovedByArchival' = RemovedByArchival /\ expired' \subseteq Inserted
        /\ \A r \in expired' : r \in expired \/ created[r] < today' - CleanupAge
    BY <1>1 DEF CleanupChunk, NewDay, RemovedByArchival, ArchiveInv, ArchiveTypes
  <1>4. ArchiveTypes'
    BY <1>0, <1>1, <1>2, <1>3 DEF ArchiveInv, ArchiveTypes
  <1>5. \A g : (Batch(g) => Batch(g)') /\ (Oldest(g) => Oldest(g)')
    BY <1>1, <1>2, SMTT(30) DEF Batch, Oldest
  <1>6. RunsInv'
    BY <1>2, <1>5 DEF ArchiveInv, RunsInv
  <1>7. NothingLost'
    <2>1. \A r \in expired' : created[r] < today' - CleanupAge
      <3> SUFFICES ASSUME NEW r \in expired PROVE created[r] < today' - CleanupAge
        BY <1>3
      <3>1. created[r] \in Nat /\ created[r] < today - CleanupAge
        BY <1>0, <1>1 DEF ArchiveInv, ArchiveTypes, NothingLost
      <3> QED BY <3>1, <1>0, <1>2
    <2> QED BY <1>1, <1>2, <1>3, <2>1 DEF ArchiveInv, NothingLost
  <1>8. ArchivedIsPrefix'
    BY <1>2, <1>3, SMTT(30) DEF ArchiveInv, ArchivedIsPrefix
  <1> QED BY <1>2, <1>4, <1>5, <1>6, <1>7, <1>8 DEF ArchiveInv

\* findArchiveAnchor takes the batch archived through the latest time, and there is
\* one where a row was removed.
LEMMA AnchorCovers == ASSUME ArchiveInv PROVE AnchorCoversRemoved
  <1> USE ArchiveAssumption
  <1> SUFFICES ASSUME NEW r \in RemovedByArchival
               PROVE  ArchiveAnchor(OrgOf[r]) # NoRow /\ created[r] <= created[ArchiveAnchor(OrgOf[r])]
    BY DEF AnchorCoversRemoved
  <1> DEFINE ofOrg == {i \in DOMAIN archives : \A q \in archives[i] : OrgOf[q] = OrgOf[r]}
             days == {Through(archives[i]) : i \in ofOrg}
             First(i) == \A j \in ofOrg : j = i \/ Later(i, j)
  <1>0. /\ ArchiveTypes /\ Inserted \subseteq Rows /\ DOMAIN archives = 1..Len(archives) /\ Len(archives) \in Nat
        /\ \A q \in Rows : created[q] \in Nat /\ created[q] <= MaxDay
    BY InsertedAreRows DEF ArchiveInv, ArchiveTypes
  <1>1. \A i \in DOMAIN archives : Batch(archives[i])
    BY DEF ArchiveInv, Range
  <1>2. PICK home \in DOMAIN archives : r \in archives[home]
    BY DEF ArchiveInv, NothingLost, ArchivedRows, Range
  <1>3. home \in ofOrg
    BY <1>1, <1>2 DEF Batch
  <1>4. \A i \in ofOrg : /\ LastOf(archives[i]) \in archives[i] /\ LastOf(archives[i]) \in Rows
                         /\ \A q \in archives[i] : created[q] <= Through(archives[i])
    BY <1>0, <1>1, LastOfBatch DEF Batch, Through
  <1>5. \A i \in ofOrg : Through(archives[i]) \in Nat /\ Through(archives[i]) <= MaxDay
    BY <1>0, <1>4 DEF Through
  <1>6. PICK day \in days : \A d \in days : d <= day
    <2>1. days \in SUBSET Nat /\ days # {} /\ \A d \in days : d <= MaxDay
      BY <1>3, <1>5
    <2> HIDE DEF days
    <2> QED BY <2>1, GreatestExists, Zenon
  <1> DEFINE latest == {i \in ofOrg : Through(archives[i]) = day}
  <1>7. PICK last \in latest : \A i \in latest : i <= last
    <2>1. latest \in SUBSET Nat /\ latest # {} /\ \A i \in latest : i <= Len(archives)
      BY <1>0, <1>6
    <2> HIDE DEF latest
    <2> QED BY <1>0, <2>1, GreatestExists, Zenon
  <1>8. last \in ofOrg /\ First(last)
    <2> SUFFICES ASSUME NEW j \in ofOrg, j # last PROVE Later(last, j)
      BY <1>7
    <2>1. /\ Through(archives[j]) \in Nat /\ Through(archives[j]) <= day /\ day \in Nat
          /\ Through(archives[last]) = day /\ j \in Nat /\ last \in Nat
      BY <1>0, <1>5, <1>6, <1>7, SMTT(30)
    <2>2. CASE Through(archives[j]) = day
      BY <1>7, <2>1, <2>2 DEF Later
    <2>3. CASE Through(archives[j]) # day
      BY <2>1, <2>3 DEF Later
    <2> QED BY <2>2, <2>3
  <1> DEFINE chosen == CHOOSE i \in ofOrg : First(i)
  <1>9. chosen \in ofOrg /\ First(chosen)
    <2> HIDE DEF ofOrg, First
    <2> QED BY <1>8
  <1>10. ArchiveAnchor(OrgOf[r]) = LastOf(archives[chosen])
    BY <1>3 DEF ArchiveAnchor
  <1> HIDE DEF chosen
  <1>11. Through(archives[home]) <= Through(archives[chosen])
    BY <1>3, <1>5, <1>9 DEF Later
  <1>12. created[r] \in Nat /\ created[r] <= Through(archives[home])
    BY <1>0, <1>2, <1>3, <1>4 DEF RemovedByArchival
  <1>13. created[r] <= Through(archives[chosen])
    BY <1>3, <1>5, <1>9, <1>11, <1>12
  <1> QED BY <1>4, <1>9, <1>10, <1>13 DEF Through

\* Whatever archival runs overlap, die or fail in between, and however the cleanup job
\* and new rows come in, archiving loses no row, removes the oldest rows of an
\* organization, and verification starts from an anchor that covers them: for any
\* number of rows, organizations and concurrent runs, any page size and any ages.
THEOREM ArchiveSound == ArchiveSpec => [](ArchiveIsSound /\ ArchiveTypeOK)
  <1> USE ArchiveAssumption
  <1>1. ASSUME ArchiveInv, [ArchiveNext]_archiveVars PROVE ArchiveInv'
    <2>1. CASE \E r \in Rows : WriteRow(r)
      BY <1>1, <2>1, WriteKeeps
    <2>2. CASE \E a \in Archivers : Archive(a)
      BY <1>1, <2>2, RunStepKeeps, CreateKeeps, DeleteKeeps DEF Archive
    <2>3. CASE CleanupChunk \/ NewDay
      BY <1>1, <2>3, CleanupKeeps, SMTT(30)
    <2>4. CASE UNCHANGED archiveVars
      <3>1. \A g : Batch(g)' = Batch(g) /\ Oldest(g)' = Oldest(g)
        BY <2>4 DEF archiveVars, Batch, Oldest, Inserted
      <3> QED
        BY <1>1, <2>4, <3>1, SMTT(30) DEF archiveVars, ArchiveInv, ArchiveTypes, RunsInv, NothingLost,
                ArchivedIsPrefix, RemovedByArchival, ArchivedRows, Inserted
    <2> QED BY <1>1, <2>1, <2>2, <2>3, <2>4 DEF ArchiveNext
  <1>2. ArchiveInv => ArchiveIsSound
    BY AnchorCovers, SMTT(30) DEF ArchiveIsSound, ArchiveInv
  <1>3. ArchiveInv => ArchiveTypeOK
    <2> SUFFICES ASSUME ArchiveInv PROVE ArchiveTypeOK
      OBVIOUS
    <2>1. Inserted \subseteq Rows /\ Range(archives) \subseteq SUBSET Rows
      <3>1. \A i \in DOMAIN archives : archives[i] \in SUBSET Rows
        BY DEF ArchiveInv, ArchiveTypes
      <3> QED BY <3>1, InsertedAreRows DEF ArchiveInv, ArchiveTypes, Range
    <2>2. \A a \in Archivers : archiver[a] \in Runs
      BY DEF ArchiveInv, ArchiveTypes
    <2>3. \A a \in Archivers :
            /\ archiver[a].step \in {"idle", "select", "write", "verify", "delete", "done", "failed"}
            /\ archiver[a].batches <= MaxBatches
      BY <2>2 DEF Runs
    <2> QED BY <2>1, <2>3 DEF ArchiveInv, ArchiveTypes, ArchiveTypeOK
  <1> QED BY <1>1, <1>2, <1>3, ArchiveStarts, PTL DEF ArchiveSpec
=============================================================================
