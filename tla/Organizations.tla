---------------------------- MODULE Organizations ----------------------------
(***************************************************************************)
(* Organizations and their members (src/modules/organizations), and the    *)
(* registration of a new organization with its owner (AuthService in       *)
(* src/modules/auth).  Every call reads, checks and writes in statements   *)
(* of their own; only the registration's two inserts share a transaction.  *)
(***************************************************************************)
EXTENDS Integers, FiniteSets

CONSTANTS
    Users,           \* e-mail addresses, unique in the users table
    Orgs,            \* organizations
    Founder,         \* owner of the organization that exists at first
    Home,            \* that organization
    Tags,            \* random suffixes of a slug
    MaxOrgCalls,     \* bound on the calls
    SlugAttempts     \* suffixes tried before one is used unchecked

ASSUME OrganizationAssumption ==
    /\ Founder \in Users /\ Home \in Orgs /\ Tags # {} /\ MaxOrgCalls \in Nat /\ SlugAttempts \in Nat

OrgCalls == 1..MaxOrgCalls          \* in the order in which they start
Roles == {"OWNER", "MEMBER"}
Statuses == {"ACTIVE", "SUSPENDED"}

VARIABLES
    member,          \* [Users -> row]: [org, role, status, deleted]
    slugOf,          \* [Orgs -> slug]; "none" before the organization exists
    orgCall,         \* [OrgCalls -> [op, pc, org, target, role, status, slug, attempt, stale]]
    raced            \* an owner was lost to a write that rested on an outdated read (history)

orgVars == <<member, slugOf, orgCall, raced>>

NoMember == [org |-> "none", role |-> "none", status |-> "none", deleted |-> FALSE]
NoCall == [op |-> "none", pc |-> "idle", org |-> "none", target |-> "none", role |-> "none",
           status |-> "none", slug |-> "none", attempt |-> 0, stale |-> FALSE]
Answered == [NoCall EXCEPT !.pc = "over"]

OrgInit ==
    /\ member = [u \in Users |-> IF u = Founder THEN [org |-> Home, role |-> "OWNER", status |-> "ACTIVE", deleted |-> FALSE]
                                                ELSE NoMember]
    /\ slugOf = [o \in Orgs |-> IF o = Home THEN "base" ELSE "none"]
    /\ orgCall = [c \in OrgCalls |-> NoCall]
    /\ raced = FALSE

Arrive(c, answer) ==
    /\ orgCall[c] = NoCall /\ (c > 1 => orgCall[c - 1] # NoCall)
    /\ orgCall' = [orgCall EXCEPT ![c] = answer]

Move(c, pc) == orgCall' = [orgCall EXCEPT ![c].pc = pc]
Answer(c) == orgCall' = [orgCall EXCEPT ![c] = Answered]

\* c wrote: whatever the other calls to the organization have read is outdated.
Outdate(c, o) ==
    orgCall' = [d \in OrgCalls |-> IF d = c THEN Answered
                                   ELSE IF orgCall[d].org = o /\ orgCall[d].pc # "over"
                                        THEN [orgCall[d] EXCEPT !.stale = TRUE] ELSE orgCall[d]]

Live(o) == {u \in Users : member[u].org = o /\ ~member[u].deleted}
Owners(o) == {u \in Live(o) : member[u].role = "OWNER"}
Taken == {slugOf[o] : o \in Orgs} \ {"none"}

-----------------------------------------------------------------------------
(* register                                                                *)

Register(c, u) ==
    /\ Arrive(c, IF member[u] # NoMember THEN Answered
                 ELSE [NoCall EXCEPT !.op = "register", !.pc = "slug", !.target = u, !.slug = "base"])
    /\ UNCHANGED <<member, slugOf, raced>>

\* One turn of uniqueSlug's loop.
UniqueSlug(c) ==
    LET k == orgCall[c] IN
    /\ k.pc = "slug"
    /\ \/ k.slug \notin Taken /\ Move(c, "insert")
       \/ /\ k.slug \in Taken
          /\ \E tag \in Tags :
                orgCall' = [orgCall EXCEPT ![c].slug = tag, ![c].attempt = @ + 1,
                                           ![c].pc = IF k.attempt + 1 > SlugAttempts THEN "insert" ELSE "slug"]
    /\ UNCHANGED <<member, slugOf, raced>>

\* The two inserts commit together, or a unique index refuses one and both are rolled back.
InsertOrganization(c) ==
    LET k == orgCall[c]
        free == {o \in Orgs : slugOf[o] = "none"}
    IN  /\ k.op = "register" /\ k.pc = "insert" /\ free # {}
        /\ IF k.slug \in Taken \/ member[k.target] # NoMember THEN UNCHANGED <<member, slugOf>>
           ELSE LET o == CHOOSE x \in free : TRUE IN
                /\ slugOf' = [slugOf EXCEPT ![o] = k.slug]
                /\ member' = [member EXCEPT ![k.target] = [org |-> o, role |-> "OWNER", status |-> "ACTIVE", deleted |-> FALSE]]
        /\ Answer(c)
        /\ UNCHANGED raced

-----------------------------------------------------------------------------
(* inviteMember, updateMember, removeMember                                *)

InviteMember(c, o, u, role) ==
    /\ slugOf[o] # "none"
    /\ Arrive(c, IF member[u] # NoMember THEN Answered
                 ELSE [NoCall EXCEPT !.op = "invite", !.pc = "insert", !.org = o, !.target = u, !.role = role])
    /\ UNCHANGED <<member, slugOf, raced>>

\* createMember, which the unique index on e-mail may refuse.
CreateMember(c) ==
    LET k == orgCall[c] IN
    /\ k.op = "invite" /\ k.pc = "insert"
    /\ IF member[k.target] # NoMember THEN UNCHANGED member /\ Answer(c)
       ELSE /\ member' = [member EXCEPT ![k.target] = [org |-> k.org, role |-> k.role, status |-> "INVITED", deleted |-> FALSE]]
            /\ Outdate(c, k.org)
    /\ UNCHANGED <<slugOf, raced>>

\* findMemberById, and whether the change takes the OWNER role or the ACTIVE status from
\* an owner.  An absent field is "none".
UpdateMember(c, o, u, role, status) ==
    LET demotingOwner == member[u].role = "OWNER" /\ role \notin {"none", "OWNER"}
        suspendingOwner == member[u].role = "OWNER" /\ status \notin {"none", "ACTIVE"}
    IN  /\ slugOf[o] # "none"
        /\ Arrive(c, IF u \notin Live(o) THEN Answered
                     ELSE [NoCall EXCEPT !.op = "update", !.org = o, !.target = u, !.role = role, !.status = status,
                                         !.pc = IF demotingOwner \/ suspendingOwner THEN "count" ELSE "write"])
        /\ UNCHANGED <<member, slugOf, raced>>

\* An actor cannot remove themselves.
RemoveMember(c, o, actor, u) ==
    /\ slugOf[o] # "none" /\ actor \in Live(o)
    /\ Arrive(c, IF u = actor \/ u \notin Live(o) THEN Answered
                 ELSE [NoCall EXCEPT !.op = "remove", !.org = o, !.target = u,
                                     !.pc = IF member[u].role = "OWNER" THEN "count" ELSE "write"])
    /\ UNCHANGED <<member, slugOf, raced>>

\* countOwners
CountOwners_OffByOne(c) ==
    /\ orgCall[c].pc = "count"
    /\ IF Cardinality(Owners(orgCall[c].org)) < 1 THEN Answer(c) ELSE Move(c, "write")
    /\ UNCHANGED <<member, slugOf, raced>>

CountOwners(c) ==
    /\ orgCall[c].pc = "count"
    /\ IF Cardinality(Owners(orgCall[c].org)) <= 1 THEN Answer(c) ELSE Move(c, "write")
    /\ UNCHANGED <<member, slugOf, raced>>

Given(x, old) == IF x = "none" THEN old ELSE x

\* updateMember and softDeleteMember write the row by id, deleted or not.
WriteMember(c) ==
    LET k == orgCall[c]
        row == member[k.target]
        new == IF k.op = "remove" THEN [row EXCEPT !.deleted = TRUE, !.status = "ARCHIVED"]
               ELSE [row EXCEPT !.role = Given(k.role, @), !.status = Given(k.status, @)]
        losesOwner == k.target \in Owners(k.org) /\ (new.deleted \/ new.role # "OWNER")
    IN  /\ k.pc = "write"
        /\ member' = [member EXCEPT ![k.target] = new]
        /\ raced' = (raced \/ (losesOwner /\ k.stale))
        /\ Outdate(c, k.org)
        /\ UNCHANGED slugOf

\* A statement fails: the call is answered with an error.
OrgCallFails(c) ==
    /\ orgCall[c].pc \in {"slug", "insert", "count", "write"}
    /\ Answer(c)
    /\ UNCHANGED <<member, slugOf, raced>>

OrgNext ==
    \E c \in OrgCalls :
        \/ UniqueSlug(c) \/ InsertOrganization(c) \/ CreateMember(c) \/ CountOwners(c) \/ WriteMember(c) \/ OrgCallFails(c)
        \/ \E u \in Users : Register(c, u)
        \/ \E o \in Orgs, u \in Users :
            \/ \E role \in Roles : InviteMember(c, o, u, role)
            \/ \E role \in Roles \cup {"none"}, status \in Statuses \cup {"none"} : UpdateMember(c, o, u, role, status)
            \/ \E actor \in Users : RemoveMember(c, o, actor, u)

OrgSpec == OrgInit /\ [][OrgNext]_orgVars

-----------------------------------------------------------------------------
(* Properties                                                              *)

\* organization.service.ts: "never demote the last remaining OWNER of the organization".
\* The owners are counted in one statement and changed in another, so the rule holds for
\* calls one after the other: an organization is without an owner only after a call took
\* the role from an owner on the ground of a read that another call's write had outdated.
OwnerLostNeedsRace ==
    \A o \in Orgs : (slugOf[o] # "none" /\ Owners(o) = {}) => raced
=============================================================================
