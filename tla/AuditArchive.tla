---------------------------- MODULE AuditArchive ----------------------------
(***************************************************************************)
(* Retention of the audit log of src/modules/audit: the archival job moves *)
(* old rows into compressed batches, the cleanup job deletes what is older *)
(* still.  A batch is named by its set of rows, as batchIdFor names it; a  *)
(* row does not change once written, so neither does what is serialised.   *)
(***************************************************************************)
EXTENDS Integers, Sequences, FiniteSets, Functions

CONSTANTS
    Rows,          \* audit rows, all with a hash
    OrgOf,         \* [Rows -> organizations]
    Archivers,     \* attempts of the archival job, possibly concurrent
    BatchSize,     \* AUDIT_ARCHIVE_BATCH_SIZE
    MaxBatches,    \* AUDIT_ARCHIVE_MAX_BATCHES
    ArchiveAge,    \* AUDIT_ARCHIVE_RETENTION_DAYS
    CleanupAge,    \* AUDIT_RETENTION_DAYS
    NoRow,         \* the null anchor
    MaxDay         \* bound on the clock

ASSUME ArchiveAssumption ==
    /\ IsFiniteSet(Rows) /\ NoRow \notin Rows
    /\ BatchSize \in Nat \ {0} /\ MaxBatches \in Nat \ {0}
    /\ ArchiveAge \in Nat /\ CleanupAge \in Nat /\ ArchiveAge < CleanupAge
    /\ MaxDay \in Nat

VARIABLES
    today,         \* the clock, in days
    rowIds,        \* rows in order of insertion (ids are uuid v7)
    created,       \* createdAt
    live,          \* rows in audit_logs
    archives,      \* batches in audit_log_archives, in order of creation
    expired,       \* rows the cleanup job deleted
    archiver       \* [Archivers -> state of the archival run]

archiveVars == <<today, rowIds, created, live, archives, expired, archiver>>

RunStart ==
    [step |-> "idle", cutoff |-> 0, groups |-> {}, batch |-> {}, batches |-> 0, deleted |-> 0]

ArchiveInit ==
    /\ today = 0
    /\ rowIds = <<>>
    /\ created = [r \in Rows |-> 0]
    /\ live = {}
    /\ archives = <<>>
    /\ expired = {}
    /\ archiver = [a \in Archivers |-> RunStart]

Inserted == Range(rowIds)

IdOf(r) == CHOOSE i \in DOMAIN rowIds : rowIds[i] = r

\* ORDER BY createdAt ASC, id ASC
Before(q, r) ==
    created[q] < created[r] \/ (created[q] = created[r] /\ IdOf(q) < IdOf(r))

\* AuditService.record, whose seconds are no time at this scale.
WriteRow(r) ==
    /\ r \notin Inserted
    /\ created' = [created EXCEPT ![r] = today]
    /\ rowIds' = Append(rowIds, r)
    /\ live' = live \cup {r}
    /\ UNCHANGED <<today, archives, expired, archiver>>

-----------------------------------------------------------------------------
(* Archival: AuditArchiveService.archive                                   *)

StartRun(a) ==
    /\ archiver[a].step = "idle"
    /\ archiver' = [archiver EXCEPT ![a] = [RunStart EXCEPT !.step = "select", !.cutoff = today - ArchiveAge]]
    /\ UNCHANGED <<today, rowIds, created, live, archives, expired>>

FindArchivable_NewestFirst(cutoff) ==
    LET old == {r \in live : created[r] < cutoff}
    IN  {r \in old : Cardinality({q \in old : Before(r, q)}) < BatchSize}

\* The first BatchSize rows, in order, of those older than the cutoff.
FindArchivable(cutoff) ==
    LET old == {r \in live : created[r] < cutoff}
    IN  {r \in old : Cardinality({q \in old : Before(q, r)}) < BatchSize}

GroupByOrganization(rows) ==
    {{r \in rows : OrgOf[r] = o} : o \in {OrgOf[r] : r \in rows}}

\* The map yields its groups in the order in which their first rows come.
ComesFirst(group, groups) ==
    \E r \in group : \A q \in UNION groups : q = r \/ Before(r, q)

\* The loop's condition, and its exit on an empty page.
RunOver(run, rows) == run.batches >= MaxBatches \/ rows = {}

Select(a) ==
    LET rows == FindArchivable(archiver[a].cutoff)
    IN  /\ archiver[a].step = "select"
        /\ archiver' = [archiver EXCEPT ![a] =
             IF RunOver(@, rows) THEN [@ EXCEPT !.step = "done"]
             ELSE [@ EXCEPT !.step = "write", !.groups = GroupByOrganization(rows), !.deleted = 0]]
        /\ UNCHANGED <<today, rowIds, created, live, archives, expired>>

\* createArchive skips a batch whose id exists.
CreateArchive(a) ==
    /\ archiver[a].step = "write"
    /\ \E group \in archiver[a].groups :
        /\ ComesFirst(group, archiver[a].groups)
        /\ archives' = IF group \in Range(archives) THEN archives ELSE Append(archives, group)
        /\ archiver' = [archiver EXCEPT ![a] =
             [@ EXCEPT !.step = "verify", !.batch = group, !.groups = archiver[a].groups \ {group}]]
    /\ UNCHANGED <<today, rowIds, created, live, expired>>

\* A batch that cannot be read back throws.
VerifyArchive(a) ==
    /\ archiver[a].step = "verify"
    /\ archiver' = [archiver EXCEPT ![a].step =
                        IF archiver[a].batch \in Range(archives) THEN "delete" ELSE "failed"]
    /\ UNCHANGED <<today, rowIds, created, live, archives, expired>>

\* The next group is skipped once the run has its batches.
NextGroup(run) ==
    IF run.groups # {} /\ run.batches < MaxBatches THEN "write"
    ELSE IF run.deleted = 0 THEN "done"
    ELSE "select"

\* By date instead of by id.
DeleteAuditLogs_ByCutoff(a) ==
    LET batch == {r \in live : created[r] < archiver[a].cutoff}
        run == [archiver[a] EXCEPT !.batches = @ + 1, !.deleted = @ + Cardinality(batch)]
    IN  /\ archiver[a].step = "delete"
        /\ live' = live \ batch
        /\ archiver' = [archiver EXCEPT ![a] = [run EXCEPT !.step = NextGroup(run)]]
        /\ UNCHANGED <<today, rowIds, created, archives, expired>>

DeleteAuditLogs(a) ==
    LET batch == archiver[a].batch
        run == [archiver[a] EXCEPT !.batches = @ + 1, !.deleted = @ + Cardinality(batch \cap live)]
    IN  /\ archiver[a].step = "delete"
        /\ live' = live \ batch
        /\ archiver' = [archiver EXCEPT ![a] = [run EXCEPT !.step = NextGroup(run)]]
        /\ UNCHANGED <<today, rowIds, created, archives, expired>>

\* A database error is rethrown, and a worker that dies stalls its job: either
\* way the run stops where it is, and another attempt starts afresh.
RunFails(a) ==
    /\ archiver[a].step \in {"select", "write", "verify", "delete"}
    /\ archiver' = [archiver EXCEPT ![a].step = "failed"]
    /\ UNCHANGED <<today, rowIds, created, live, archives, expired>>

-----------------------------------------------------------------------------
(* Cleanup: AuditCleanupQueue.process                                      *)

\* One pass of either loop: a chunk of the rows past the retention date, for one
\* organization or for all.
CleanupChunk ==
    \E chunk \in SUBSET {r \in live : created[r] < today - CleanupAge} :
        /\ chunk # {}
        /\ live' = live \ chunk
        /\ expired' = expired \cup chunk
        /\ UNCHANGED <<today, rowIds, created, archives, archiver>>

NewDay ==
    /\ today < MaxDay
    /\ today' = today + 1
    /\ UNCHANGED <<rowIds, created, live, archives, expired, archiver>>

Archive(a) ==
    \/ StartRun(a) \/ Select(a) \/ CreateArchive(a) \/ VerifyArchive(a)
    \/ DeleteAuditLogs(a) \/ RunFails(a)

ArchiveNext ==
    \/ \E r \in Rows : WriteRow(r)
    \/ \E a \in Archivers : Archive(a)
    \/ CleanupChunk
    \/ NewDay

ArchiveSpec == ArchiveInit /\ [][ArchiveNext]_archiveVars

-----------------------------------------------------------------------------
(* Properties                                                              *)

ArchivedRows == UNION Range(archives)

RemovedByArchival == Inserted \ (live \cup expired)

\* The log, the batches and the archival runs keep their types; archive() stops
\* at archiveMaxBatches in both of its loops.
ArchiveTypeOK ==
    /\ today \in 0..MaxDay
    /\ created \in [Rows -> 0..MaxDay]
    /\ live \subseteq Inserted /\ expired \subseteq Inserted /\ Inserted \subseteq Rows
    /\ Range(archives) \subseteq SUBSET Rows
    /\ \A a \in Archivers :
        /\ archiver[a].step \in {"idle", "select", "write", "verify", "delete", "done", "failed"}
        /\ archiver[a].batches <= MaxBatches

\* archiveBatch writes, reads back, then deletes: whatever fails or runs at the
\* same time, a row that left the live table without having reached the cleanup
\* age is in a batch, and every row of a batch was once a row of the log.
NothingLost ==
    /\ RemovedByArchival \subseteq ArchivedRows
    /\ ArchivedRows \subseteq Inserted
    /\ \A r \in expired : created[r] < today - CleanupAge

\* findArchivable takes the oldest rows first, so what archival has removed of an
\* organization is a prefix of its chain: no removed row is newer than a live one.
ArchivedIsPrefix ==
    \A r \in RemovedByArchival, q \in live : OrgOf[r] = OrgOf[q] => created[r] <= created[q]

\* The row that ends a batch; archivedThrough is its date.
LastOf_First(batch) == CHOOSE r \in batch : \A q \in batch : q = r \/ Before(r, q)

LastOf(batch) == CHOOSE r \in batch : \A q \in batch : q = r \/ Before(q, r)

Through(batch) == created[LastOf(batch)]

\* ORDER BY archivedThrough DESC, createdAt DESC
Later(i, j) ==
    \/ Through(archives[i]) > Through(archives[j])
    \/ Through(archives[i]) = Through(archives[j]) /\ i > j

\* findArchiveAnchor: the last row of the batch archived through the latest time.
ArchiveAnchor(o) ==
    LET ofOrg == {i \in DOMAIN archives : \A r \in archives[i] : OrgOf[r] = o}
    IN  IF ofOrg = {} THEN NoRow
        ELSE LastOf(archives[CHOOSE i \in ofOrg : \A j \in ofOrg : j = i \/ Later(i, j)])

\* The anchor never falls behind the rows archival has removed, so a live row is
\* never checked against a hash older than the batch before it.
AnchorCoversRemoved ==
    \A r \in RemovedByArchival :
        LET anchor == ArchiveAnchor(OrgOf[r])
        IN  anchor # NoRow /\ created[r] <= created[anchor]

\* Archiving loses no row: each is in the table or in a readable batch, what a run
\* removes is the oldest part of an organization's rows, and the anchor covers it.
\* See NothingLost, ArchivedIsPrefix, AnchorCoversRemoved.
ArchiveIsSound == NothingLost /\ ArchivedIsPrefix /\ AnchorCoversRemoved
=============================================================================
