----------------------------- MODULE AuditChain -----------------------------
(***************************************************************************)
(* The hash chain of the audit log of one organization:                    *)
(* AuditService.record appends rows, AuditHashService.verifyChainIntegrity *)
(* walks them.  SHA-256 is taken to be injective: the hash of a row stands *)
(* for its content, the previous hash and the time hashed.  So a row's     *)
(* name serves as its hash, and recomputing the hash gives the stored one  *)
(* iff the time that was hashed is the time that was stored.               *)
(***************************************************************************)
EXTENDS Integers, Sequences, Functions

CONSTANTS
    Calls,         \* calls of AuditService.record
    Dated,         \* those whose caller passes createdAt (the two listeners)
    Genesis,       \* the null hash
    MaxInstant     \* bound on the clock

ASSUME ChainAssumption ==
    /\ Dated \subseteq Calls
    /\ Genesis \notin Calls
    /\ MaxInstant \in Nat

VARIABLES
    instant,       \* new Date(), in milliseconds
    calling,       \* [Calls -> step of the call]
    createdAt,     \* of the event, then of the row
    hashedAt,      \* the time that went into the row's hash
    previousHash,  \* [Calls -> Calls \cup {Genesis}]
    chain,         \* rows in order of insertion
    preceding      \* rows that were there when the audited event happened (history)

chainVars == <<instant, calling, createdAt, hashedAt, previousHash, chain, preceding>>

ChainInit ==
    /\ instant = 0
    /\ calling = [c \in Calls |-> "none"]
    /\ createdAt = [c \in Calls |-> 0]
    /\ hashedAt = [c \in Calls |-> 0]
    /\ previousHash = [c \in Calls |-> Genesis]
    /\ chain = <<>>
    /\ preceding = [c \in Calls |-> {}]

\* The audited event happens; its listener or interceptor calls record().
Occur(c) ==
    /\ calling[c] = "none"
    /\ calling' = [calling EXCEPT ![c] = "occurred"]
    /\ createdAt' = [createdAt EXCEPT ![c] = instant]
    /\ preceding' = [preceding EXCEPT ![c] = Range(chain)]
    /\ UNCHANGED <<instant, hashedAt, previousHash, chain>>

\* getLatestHash orders by createdAt alone: ties are broken arbitrarily.
LatestHash_FirstRow ==
    IF chain = <<>> THEN {Genesis} ELSE {Head(chain)}

LatestHash ==
    IF chain = <<>> THEN {Genesis}
    ELSE {r \in Range(chain) : \A q \in Range(chain) : createdAt[q] <= createdAt[r]}

\* After the await, computeEntryHash hashes the time of its own.
ReadLatest(c) ==
    /\ calling[c] = "occurred"
    /\ \E h \in LatestHash : previousHash' = [previousHash EXCEPT ![c] = h]
    /\ hashedAt' = [hashedAt EXCEPT ![c] = instant]
    /\ calling' = [calling EXCEPT ![c] = "hashed"]
    /\ UNCHANGED <<instant, createdAt, chain, preceding>>

\* The time hashed is not among the columns written: the row gets the caller's
\* createdAt or, without one, the database's now().
Insert(c) ==
    /\ calling[c] = "hashed"
    /\ createdAt' = [createdAt EXCEPT ![c] = IF c \in Dated THEN @ ELSE instant]
    /\ chain' = Append(chain, c)
    /\ calling' = [calling EXCEPT ![c] = "written"]
    /\ UNCHANGED <<instant, hashedAt, previousHash, preceding>>

\* The callers log and swallow a failed write.
RecordFails(c) ==
    /\ calling[c] \in {"occurred", "hashed"}
    /\ calling' = [calling EXCEPT ![c] = "lost"]
    /\ UNCHANGED <<instant, createdAt, hashedAt, previousHash, chain, preceding>>

Passes ==
    /\ instant < MaxInstant
    /\ instant' = instant + 1
    /\ UNCHANGED <<calling, createdAt, hashedAt, previousHash, chain, preceding>>

ChainNext ==
    \/ \E c \in Calls : Occur(c) \/ ReadLatest(c) \/ Insert(c) \/ RecordFails(c)
    \/ Passes

ChainSpec == ChainInit /\ [][ChainNext]_chainVars

-----------------------------------------------------------------------------
(* Verification                                                            *)

\* findMany orders by createdAt; rows of one instant come in order of insertion.
ComesBefore(q, r) ==
    \/ createdAt[q] < createdAt[r]
    \/ /\ createdAt[q] = createdAt[r]
       /\ \E i, j \in DOMAIN chain : i < j /\ chain[i] = q /\ chain[j] = r

\* The hash of the row before, null for the first.
ExpectedPrevious(r) ==
    LET earlier == {q \in Range(chain) \ {r} : ComesBefore(q, r)}
    IN  IF earlier = {} THEN Genesis
        ELSE CHOOSE q \in earlier : \A p \in earlier : p = q \/ ComesBefore(p, q)

LinkHolds(r) == previousHash[r] = ExpectedPrevious(r)

HashHolds(r) == hashedAt[r] = createdAt[r]

VerifyChainIntegrity == \A r \in Range(chain) : LinkHolds(r) /\ HashHolds(r)

-----------------------------------------------------------------------------
(* Properties                                                              *)

\* The clock, the calls and the rows keep their types.
ChainTypeOK ==
    /\ instant \in 0..MaxInstant
    /\ calling \in [Calls -> {"none", "occurred", "hashed", "written", "lost"}]
    /\ createdAt \in [Calls -> 0..MaxInstant] /\ hashedAt \in [Calls -> 0..MaxInstant]
    /\ previousHash \in [Calls -> Calls \cup {Genesis}]
    /\ Range(chain) \subseteq Calls /\ preceding \in [Calls -> SUBSET Calls]

\* Two events race when neither's row was there when the other happened, or when
\* their rows carry the same millisecond.
Race(q, r) ==
    \/ q \notin preceding[r] /\ r \notin preceding[q]
    \/ createdAt[q] = createdAt[r]

\* getLatestHash and the insert are separate statements, so concurrent events can
\* fork the chain.  Nothing else does: where a link fails, two of the rows raced.
BrokenLinkNeedsRace ==
    (\E r \in Range(chain) : ~LinkHolds(r)) =>
        \E q, r \in Range(chain) : q # r /\ Race(q, r)

\* Nobody modifies a row here, so verifyChainIntegrity should find the chain
\* intact: it "detects any unauthorized modifications" and nothing else.
UntamperedVerifies == VerifyChainIntegrity
=============================================================================
