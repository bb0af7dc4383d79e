------------------------ MODULE BudgetAdministration ------------------------
(***************************************************************************)
(* Budgets beside the transaction pipeline, in two parts that share no     *)
(* state: the tree that is administered, and the rolling windows.          *)
(***************************************************************************)
EXTENDS Integers, FiniteSets

-----------------------------------------------------------------------------
(***************************************************************************)
(* Hierarchical budgets (modules/budgets/budget.service.ts and              *)
(* budget.repository.ts): one root budget and its children, with concurrent *)
(* allocations, reservations, edits, creations and removals.  A call is a   *)
(* numbered actor; calls start in order.  The routes that edit, allocate    *)
(* and remove hold lock:budget:<id> around their handler                    *)
(* (common/locks/budget-lock.interceptor.ts), and an allocation takes the   *)
(* same kind of key for the parent inside it; one attempt each, and a TTL   *)
(* that may run out under a slow handler.  consume(), which adds realised   *)
(* spend whatever the limit, is in AgentBudget.                             *)
(***************************************************************************)

CONSTANTS Root, Children, TreeAmounts, RootLimit, ChildLimit, MaxTreeCalls

ASSUME TreeAssumption ==
    /\ Root \notin Children /\ MaxTreeCalls \in Nat
    /\ TreeAmounts \subseteq Nat /\ RootLimit \in Nat /\ ChildLimit \in Nat

VARIABLES treeRow,      \* the budget rows
          treeLock,     \* budget -> the call that holds lock:budget:<id>, 0 when free
          treeCall,
          allocated,    \* what creation and completed allocations gave to each child
          edited,       \* budgets whose limit was set by an edit
          treeRaced     \* a lock ran out under its handler, or a creation and a
                        \* removal of the parent overlapped

treeVars == <<treeRow, treeLock, treeCall, allocated, edited, treeRaced>>

TreeCalls == 1..MaxTreeCalls
AllBudgets == {Root} \cup Children

Unborn == [live |-> FALSE, limit |-> -1, spent |-> 0]
Fresh == [at |-> "new"]
Ended(how) == [at |-> how]

Remaining(row) == row.limit - row.spent

TreeInit ==
    /\ treeRow = [b \in AllBudgets |->
                    IF b = Root THEN [live |-> TRUE, limit |-> RootLimit, spent |-> 0] ELSE Unborn]
    /\ treeLock = [b \in AllBudgets |-> 0]
    /\ treeCall = [c \in TreeCalls |-> Fresh]
    /\ allocated = [b \in Children |-> 0]
    /\ edited = {}
    /\ treeRaced = FALSE

Starts(c) == treeCall[c] = Fresh /\ \A d \in 1..(c - 1) : treeCall[d] # Fresh
Goes(c, record) == treeCall' = [treeCall EXCEPT ![c] = record]

(* Every lock the call still holds is released when it ends; a key that     *)
(* ran out and was taken by another call is left alone.                     *)
Leaves(c, how) ==
    /\ Goes(c, Ended(how))
    /\ treeLock' = [b \in AllBudgets |-> IF treeLock[b] = c THEN 0 ELSE treeLock[b]]

(* The interceptor takes the lock, and the handler reads; a refusal at      *)
(* either leaves nothing behind.                                            *)
EntersWithLock(c, b, allowed, record) ==
    /\ Starts(c)
    /\ IF treeLock[b] = 0 /\ treeRow[b].live /\ allowed
       THEN Goes(c, record) /\ treeLock' = [treeLock EXCEPT ![b] = c]
       ELSE Goes(c, Ended("refused")) /\ UNCHANGED treeLock
    /\ UNCHANGED <<treeRow, allocated, edited, treeRaced>>

(* create() of a child: no lock; the parent is looked up, then the row is   *)
(* inserted.                                                                *)
CreateChild(c) ==
    /\ Starts(c)
    /\ \E b \in Children :
         /\ treeRow[b] = Unborn
         /\ \A d \in TreeCalls : treeCall[d].at = "insert" => treeCall[d].child # b
         /\ Goes(c, IF treeRow[Root].live THEN [at |-> "insert", child |-> b]
                    ELSE Ended("refused"))
    /\ UNCHANGED <<treeRow, treeLock, allocated, edited, treeRaced>>

InsertChild(c) ==
    /\ treeCall[c].at = "insert"
    /\ treeRow' = [treeRow EXCEPT ![treeCall[c].child] = [live |-> TRUE, limit |-> ChildLimit, spent |-> 0]]
    /\ allocated' = [allocated EXCEPT ![treeCall[c].child] = ChildLimit]
    /\ treeRaced' = (treeRaced \/ ~treeRow[Root].live)
    /\ Goes(c, Ended("done"))
    /\ UNCHANGED <<treeLock, edited>>

(* update() of the limit: the row is looked up and written by id.           *)
UpdateBudget(c) ==
    \E b \in AllBudgets, limit \in TreeAmounts :
        EntersWithLock(c, b, TRUE, [at |-> "update", child |-> b, limit |-> limit])

WriteBudget(c) ==
    LET b == treeCall[c].child
    IN /\ treeCall[c].at = "update"
       /\ treeRow' = [treeRow EXCEPT ![b].limit = treeCall[c].limit]
       /\ edited' = edited \cup {b}
       /\ Leaves(c, "done")
       /\ UNCHANGED <<allocated, treeRaced>>

(* allocate(): the child and its parent are read before the parent's lock   *)
(* is asked for, and the child is not read again.                           *)
Allocate(c) ==
    \E b \in Children, amount \in TreeAmounts :
        EntersWithLock(c, b, treeRow[Root].live,
            [at |-> "lock", child |-> b, amount |-> amount, copy |-> treeRow[b].limit])

LockParent(c) ==
    /\ treeCall[c].at = "lock"
    /\ IF treeLock[Root] = 0
       THEN /\ treeLock' = [treeLock EXCEPT ![Root] = c]
            /\ Goes(c, [treeCall[c] EXCEPT !.at = "check"])
       ELSE Leaves(c, "refused")
    /\ UNCHANGED <<treeRow, allocated, edited, treeRaced>>

(* The fresh parent must be there and have the amount left.                 *)
CheckParent(c) ==
    /\ treeCall[c].at = "check"
    /\ IF treeRow[Root].live /\ treeCall[c].amount <= Remaining(treeRow[Root])
       THEN Goes(c, [treeCall[c] EXCEPT !.at = "write"]) /\ UNCHANGED treeLock
       ELSE Leaves(c, "refused")
    /\ UNCHANGED <<treeRow, allocated, edited, treeRaced>>

(* The limit of the child read before the lock, plus the amount.            *)
WriteChild(c) ==
    LET b == treeCall[c].child
    IN /\ treeCall[c].at = "write"
       /\ treeRow' = [treeRow EXCEPT ![b].limit = treeCall[c].copy + treeCall[c].amount]
       /\ allocated' = [allocated EXCEPT ![b] = @ + treeCall[c].amount]
       /\ Leaves(c, "done")
       /\ UNCHANGED <<edited, treeRaced>>

(* The spend before the reservation compared with the limit.                *)
ReserveBudget_OffByOne(c) ==
    /\ Starts(c)
    /\ \E b \in AllBudgets, amount \in TreeAmounts :
         IF treeRow[b] # Unborn /\ treeRow[b].spent <= treeRow[b].limit
         THEN /\ treeRow' = [treeRow EXCEPT ![b].spent = @ + amount]
              /\ Goes(c, Ended("done"))
         ELSE /\ Goes(c, Ended("refused"))
              /\ UNCHANGED treeRow
    /\ UNCHANGED <<treeLock, allocated, edited, treeRaced>>

(* reserveBudget(): SELECT ... FOR UPDATE and UPDATE in one transaction; a  *)
(* soft-deleted row is still found.                                         *)
ReserveBudget(c) ==
    /\ Starts(c)
    /\ \E b \in AllBudgets, amount \in TreeAmounts :
         IF treeRow[b] # Unborn /\ treeRow[b].spent + amount <= treeRow[b].limit
         THEN /\ treeRow' = [treeRow EXCEPT ![b].spent = @ + amount]
              /\ Goes(c, Ended("done"))
         ELSE /\ Goes(c, Ended("refused"))
              /\ UNCHANGED treeRow
    /\ UNCHANGED <<treeLock, allocated, edited, treeRaced>>

(* remove(): children are looked up, then the row is soft-deleted.          *)
RemoveBudget(c) ==
    \E b \in AllBudgets :
        EntersWithLock(c, b, b = Root => \A x \in Children : ~treeRow[x].live,
                       [at |-> "delete", child |-> b])

SoftDeleteBudget(c) ==
    LET b == treeCall[c].child
    IN /\ treeCall[c].at = "delete"
       /\ treeRow' = [treeRow EXCEPT ![b].live = FALSE]
       /\ treeRaced' = (treeRaced \/ (b = Root /\ \E x \in Children : treeRow[x].live))
       /\ Leaves(c, "done")
       /\ UNCHANGED <<allocated, edited>>

(* DEFAULT_LOCK_TTL_MS passes while the handler still runs.                 *)
LockLapses(b) ==
    /\ treeLock[b] # 0
    /\ treeLock' = [treeLock EXCEPT ![b] = 0]
    /\ treeRaced' = TRUE
    /\ UNCHANGED <<treeRow, treeCall, allocated, edited>>

TreeNext ==
    \/ \E c \in TreeCalls :
        \/ CreateChild(c) \/ InsertChild(c) \/ UpdateBudget(c) \/ WriteBudget(c)
        \/ Allocate(c) \/ LockParent(c) \/ CheckParent(c) \/ WriteChild(c)
        \/ ReserveBudget(c) \/ RemoveBudget(c) \/ SoftDeleteBudget(c)
    \/ \E b \in AllBudgets : LockLapses(b)

TreeSpec == TreeInit /\ [][TreeNext]_treeVars

----------------------------------------------------------------------------
(* While every handler ends within its lock's TTL, and no child is created  *)
(* under a parent that is being removed: no allocation is lost (a child     *)
(* nobody edited has the limit its allocations add up to, though its row    *)
(* was read before the parent's lock, budget.service.ts:131 and :148), no   *)
(* reservation passes a limit nobody lowered, and a live child has a live   *)
(* parent.                                                                  *)
TreeBreaksNeedRace ==
    ~treeRaced =>
        /\ \A b \in {x \in Children : treeRow[x] # Unborn} \ edited :
              treeRow[b].limit = allocated[b] /\ treeRow[b].spent <= treeRow[b].limit
        /\ Root \notin edited => treeRow[Root].spent <= treeRow[Root].limit
        /\ ~treeRow[Root].live => \A b \in Children : ~treeRow[b].live

-----------------------------------------------------------------------------
(***************************************************************************)
(* RollingWindowBudgetService.checkAndReserveBudget                         *)
(* (modules/budgets/services/rolling-window-budget.service.ts) and its      *)
(* callers.  The check reads the agent's budgets and the rows of the window *)
(* under a lock and in one transaction, writes nothing, and the caller      *)
(* inserts the row afterwards; the contract asks callers for a lock of      *)
(* their own around both.                                                   *)
(***************************************************************************)

CONSTANTS Spends, SpendAmounts, BudgetLimits, RollingWindow, MaxRollingClock

ASSUME RollingAssumption ==
    /\ Spends \in Nat /\ SpendAmounts \subseteq Nat /\ BudgetLimits \subseteq Nat
    /\ RollingWindow \in Nat /\ MaxRollingClock \in Nat

VARIABLES callersLock,   \* whether callers keep the contract
          rollingClock,
          limitsOf,      \* limitAmount of the agent's enabled budgets
          spend,         \* [Spends -> where the call is, and its row]
          callerHolds

rollingVars == <<callersLock, rollingClock, limitsOf, spend, callerHolds>>

Numbered == 1..Spends

RollingInit ==
    /\ callersLock \in BOOLEAN /\ rollingClock = 0 /\ callerHolds = 0
    /\ limitsOf \in SUBSET BudgetLimits
    /\ spend = [s \in Numbered |-> [at |-> "new"]]

(* Rows of the window, but for the statuses in which no money left.         *)
InWindow(row, now) ==
    row.at = "row" /\ ~ row.excluded /\ row.created >= now - RollingWindow

(* The sum of their amounts: as many as they have units between them.       *)
Sum(rows) == Cardinality(UNION {{s} \X (1..spend[s].amount) : s \in rows})

(* Rows counted once they have settled.                                     *)
SpentInWindow_Settled(now) == Sum({s \in Numbered : InWindow(spend[s], now) /\ spend[s].settled})

SpentInWindow(now) == Sum({s \in Numbered : InWindow(spend[s], now)})

EffectiveBudget == CHOOSE l \in limitsOf : \A m \in limitsOf : l <= m

CheckAndReserveBudget(s) ==
    /\ spend[s].at = "new" /\ \A r \in 1..(s - 1) : spend[r].at # "new"
    /\ callersLock => callerHolds = 0
    /\ \E amount \in SpendAmounts :
         IF limitsOf # {} /\ SpentInWindow(rollingClock) + amount > EffectiveBudget
         THEN /\ spend' = [spend EXCEPT ![s] = [at |-> "exceeded"]]
              /\ UNCHANGED callerHolds
         ELSE /\ spend' = [spend EXCEPT ![s] = [at |-> "reserved", amount |-> amount]]
              /\ callerHolds' = IF callersLock THEN s ELSE 0
    /\ UNCHANGED <<callersLock, rollingClock, limitsOf>>

(* The caller's insert; the row is in flight until it settles or fails.     *)
SpendRow(s) ==
    /\ spend[s].at = "reserved"
    /\ spend' = [spend EXCEPT ![s] = [at |-> "row", amount |-> spend[s].amount, excluded |-> FALSE,
                                      settled |-> FALSE, created |-> rollingClock]]
    /\ callerHolds' = 0
    /\ UNCHANGED <<callersLock, rollingClock, limitsOf>>

FinishRow(s) ==
    /\ spend[s].at = "row" /\ ~ spend[s].excluded /\ ~ spend[s].settled
    /\ \E paid \in BOOLEAN :
         spend' = [spend EXCEPT ![s].settled = paid, ![s].excluded = ~ paid]
    /\ UNCHANGED <<callersLock, rollingClock, limitsOf, callerHolds>>

RollingTick ==
    /\ rollingClock < MaxRollingClock /\ rollingClock' = rollingClock + 1
    /\ UNCHANGED <<callersLock, limitsOf, spend, callerHolds>>

RollingNext ==
    \/ \E s \in Numbered : CheckAndReserveBudget(s) \/ SpendRow(s) \/ FinishRow(s)
    \/ RollingTick

RollingSpec == RollingInit /\ [][RollingNext]_rollingVars

----------------------------------------------------------------------------
(* With callers that keep the contract, the rows of every trailing window   *)
(* stay within the tightest of the agent's limits, in-flight rows included: *)
(* "an agent should not be able to bypass the limit by racing several       *)
(* in-flight transactions before any of them settle".                       *)
WindowWithinLimit ==
    callersLock /\ limitsOf # {} => SpentInWindow(rollingClock) <= EffectiveBudget

(* Budgets are not overrun, but for the races named above, neither those of *)
(* BudgetService's tree nor the rolling windows.                            *)
BudgetsHold == TreeBreaksNeedRace /\ WindowWithinLimit
=============================================================================
