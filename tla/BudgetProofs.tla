---------------------------- MODULE BudgetProofs ----------------------------
(***************************************************************************)
(* Proofs about BudgetAdministration: the tree for any children, amounts   *)
(* and number of calls, the rolling windows for any limits, amounts and    *)
(* number of spends.                                                       *)
(***************************************************************************)
EXTENDS BudgetAdministration, FiniteSetTheorems, WellFoundedInduction, TLAPS

-----------------------------------------------------------------------------
(* The budget tree                                                         *)

\* A budget row that exists, and what the steps of a call carry.
Rows == [live : BOOLEAN, limit : Nat, spent : Nat]

OverStates == [at : {"new", "done", "refused"}]
InsertStates == [at : {"insert"}, child : Children]
UpdateStates == [at : {"update"}, child : AllBudgets, limit : Nat]
DeleteStates == [at : {"delete"}, child : AllBudgets]
AllocateStates == [at : {"lock", "check", "write"}, child : Children, amount : Nat, copy : Nat]

CallStates == OverStates \cup InsertStates \cup UpdateStates \cup DeleteStates \cup AllocateStates

\* A call about to insert, one that allocates, and one at work on an existing row.
Inserting(c) == treeCall[c].at = "insert"
Allocating(c) == treeCall[c].at \in {"lock", "check", "write"}
OnRow(c) == treeCall[c].at \in {"update", "delete", "lock", "check", "write"}

TreeTypes ==
    /\ treeRow \in [AllBudgets -> Rows \cup {Unborn}] /\ treeRow[Root] \in Rows
    /\ treeLock \in [AllBudgets -> Nat]
    /\ treeCall \in [TreeCalls -> CallStates]
    /\ allocated \in [Children -> Nat] /\ edited \subseteq AllBudgets /\ treeRaced \in BOOLEAN

\* Whatever the locks do: rows stay once they are there, and a child is inserted
\* by one call, before which it is not there.
CallsKnowRows ==
    /\ \A c \in TreeCalls : OnRow(c) => treeRow[treeCall[c].child] \in Rows
    /\ \A c \in TreeCalls : Inserting(c) =>
         /\ treeRow[treeCall[c].child] = Unborn
         /\ \A d \in TreeCalls : Inserting(d) /\ treeCall[d].child = treeCall[c].child => d = c

\* A call at work on a row holds its lock, and past LockParent the root's too; the
\* limit it read is the one that is there.
CallHolds(c) ==
    /\ OnRow(c) => treeLock[treeCall[c].child] = c
    /\ treeCall[c].at \in {"check", "write"} => treeLock[Root] = c
    /\ Allocating(c) => treeCall[c].copy = treeRow[treeCall[c].child].limit

CallsHoldLocks == \A c \in TreeCalls : CallHolds(c)

\* The locks are held as long as none has lapsed.
TreeInv ==
    /\ TreeTypes /\ CallsKnowRows
    /\ ~ treeRaced => CallsHoldLocks
    /\ TreeBreaksNeedRace

\* A budget that is not there is no row.
LEMMA UnbornIsNoRow == Unborn \notin Rows
  BY DEF Unborn, Rows

\* What the states of a call have.
LEMMA CallFields ==
  ASSUME TreeTypes, NEW c \in TreeCalls
  PROVE  /\ Inserting(c) => treeCall[c].child \in Children
         /\ OnRow(c) => treeCall[c].child \in AllBudgets
         /\ treeCall[c].at = "update" => treeCall[c] \in UpdateStates
         /\ Allocating(c) => treeCall[c] \in AllocateStates
         /\ c \in Nat /\ c # 0
  <1>1. treeCall[c] \in CallStates
    BY DEF TreeTypes
  <1>2. treeCall[c].at = "update" => treeCall[c] \in UpdateStates
    BY <1>1 DEF CallStates, OverStates, InsertStates, UpdateStates, DeleteStates, AllocateStates
  <1>3. Allocating(c) => treeCall[c] \in AllocateStates
    BY <1>1
    DEF CallStates, OverStates, InsertStates, UpdateStates, DeleteStates, AllocateStates, Allocating
  <1>4. Inserting(c) => treeCall[c] \in InsertStates
    BY <1>1
    DEF CallStates, OverStates, InsertStates, UpdateStates, DeleteStates, AllocateStates, Inserting
  <1>5. treeCall[c].at = "delete" => treeCall[c] \in DeleteStates
    BY <1>1 DEF CallStates, OverStates, InsertStates, UpdateStates, DeleteStates, AllocateStates
  <1>6. OnRow(c) => treeCall[c].child \in AllBudgets
    BY <1>2, <1>3, <1>5 DEF OnRow, Allocating, AllBudgets, UpdateStates, DeleteStates, AllocateStates
  <1>7. c \in Nat /\ c # 0
    BY TreeAssumption DEF TreeCalls
  <1> QED BY <1>2, <1>3, <1>4, <1>6, <1>7 DEF InsertStates

\* The tree starts in order.
LEMMA TreeInitHolds == ASSUME TreeInit PROVE TreeInv
  <1> USE TreeAssumption
  <1>1. TreeTypes
    BY Zenon DEF TreeInit, TreeTypes, AllBudgets, Rows, Fresh, CallStates, OverStates
  <1>2. CallsKnowRows /\ CallsHoldLocks
    BY DEF TreeInit, CallsKnowRows, CallsHoldLocks, CallHolds, Fresh, Inserting, OnRow, Allocating
  <1>3. TreeBreaksNeedRace
    BY DEF TreeInit, TreeBreaksNeedRace, AllBudgets
  <1> QED BY <1>1, <1>2, <1>3 DEF TreeInv

\* A call that starts, moves on or ends keeps the types.
LEMMA CallMoves ==
  ASSUME TreeTypes, NEW c \in TreeCalls, NEW r, Goes(c, r), r \in CallStates,
         treeRow' \in [AllBudgets -> Rows \cup {Unborn}], treeRow'[Root] \in Rows,
         treeLock' \in [AllBudgets -> Nat], allocated' \in [Children -> Nat],
         edited' \subseteq AllBudgets, treeRaced' \in BOOLEAN
  PROVE  /\ TreeTypes' /\ treeCall'[c] = r
         /\ \A d \in TreeCalls \ {c} : treeCall'[d] = treeCall[d]
  BY DEF TreeTypes, Goes

\* Where calls begin and end.
LEMMA EndIsState == Ended("done") \in CallStates /\ Ended("refused") \in CallStates /\ Fresh \in CallStates
  BY DEF Ended, Fresh, CallStates, OverStates

\* An ended call has nothing to know and nothing to hold; of the others, their
\* locks are still theirs.
LEMMA EndedCall ==
  ASSUME TreeInv, NEW c \in TreeCalls, NEW how \in {"done", "refused"}, Goes(c, Ended(how)),
         treeRow' \in [AllBudgets -> Rows \cup {Unborn}],
         TreeTypes',
         \A b \in AllBudgets : treeRow[b] \in Rows => treeRow'[b] \in Rows,
         \A d \in TreeCalls \ {c} : Inserting(d) => treeRow'[treeCall[d].child] = treeRow[treeCall[d].child]
  PROVE  /\ ~ Inserting(c)' /\ ~ OnRow(c)' /\ ~ Allocating(c)' /\ treeCall'[c].at \notin {"check", "write"}
         /\ \A d \in TreeCalls \ {c} : treeCall'[d] = treeCall[d]
         /\ CallsKnowRows'
  <1>1. treeCall'[c] = Ended(how) /\ \A d \in TreeCalls \ {c} : treeCall'[d] = treeCall[d]
    BY DEF TreeInv, TreeTypes, Goes
  <1>2. ~ Inserting(c)' /\ ~ OnRow(c)' /\ ~ Allocating(c)' /\ treeCall'[c].at \notin {"check", "write"}
    BY <1>1 DEF Inserting, OnRow, Allocating, Ended
  <1>3. CallsKnowRows'
    <2>1. ASSUME NEW d \in TreeCalls, OnRow(d)' PROVE treeRow'[treeCall'[d].child] \in Rows
      <3>1. d # c /\ treeCall'[d] = treeCall[d] /\ OnRow(d)
        BY <1>1, <1>2, <2>1 DEF OnRow
      <3>2. treeCall[d].child \in AllBudgets /\ treeRow[treeCall[d].child] \in Rows
        BY <3>1, CallFields DEF TreeInv, CallsKnowRows
      <3> QED BY <3>1, <3>2
    <2>2. ASSUME NEW d \in TreeCalls, Inserting(d)'
          PROVE  /\ treeRow'[treeCall'[d].child] = Unborn
                 /\ \A e \in TreeCalls : Inserting(e)' /\ treeCall'[e].child = treeCall'[d].child => e = d
      <3>1. d # c /\ treeCall'[d] = treeCall[d] /\ Inserting(d)
        BY <1>1, <1>2, <2>2 DEF Inserting
      <3>2. treeRow'[treeCall[d].child] = Unborn
        BY <3>1 DEF TreeInv, CallsKnowRows
      <3>3. ASSUME NEW e \in TreeCalls, Inserting(e)',
            treeCall'[e].child = treeCall'[d].child PROVE e = d
        <4>1. e # c /\ treeCall'[e] = treeCall[e] /\ Inserting(e)
          BY <1>1, <1>2, <3>3 DEF Inserting
        <4> QED BY <4>1, <3>1, <3>3 DEF TreeInv, CallsKnowRows
      <3> QED BY <3>1, <3>2, <3>3
    <2> QED BY <2>1, <2>2 DEF CallsKnowRows
  <1> QED BY <1>1, <1>2, <1>3

\* Leaving releases locks of the caller's own.
LEMMA LeavingReleases ==
  ASSUME TreeTypes, NEW c \in TreeCalls, NEW how, Leaves(c, how)
  PROVE  /\ Goes(c, Ended(how)) /\ treeLock' \in [AllBudgets -> Nat]
         /\ \A b \in AllBudgets : treeLock[b] # c => treeLock'[b] = treeLock[b]
  BY DEF Leaves, TreeTypes

\* A call whose locks and whose child's limit are left alone.
LEMMA OtherCall ==
  ASSUME TreeInv, ~ treeRaced, NEW d \in TreeCalls, treeCall'[d] = treeCall[d],
         \A b \in AllBudgets : treeLock[b] = d => treeLock'[b] = treeLock[b],
         Allocating(d) => treeRow'[treeCall[d].child].limit = treeRow[treeCall[d].child].limit
  PROVE  CallHolds(d)'
  <1>1. CallHolds(d) /\ Root \in AllBudgets
    BY DEF TreeInv, CallsHoldLocks, AllBudgets
  <1>2. OnRow(d) => treeCall[d].child \in AllBudgets
    BY CallFields DEF TreeInv
  <1> QED BY <1>1, <1>2 DEF CallHolds, OnRow, Allocating

\* A call that has ended holds what it must.
LEMMA EndedHolds ==
  ASSUME NEW c, NEW how \in {"done", "refused"}, treeCall'[c] = Ended(how)
  PROVE  CallHolds(c)'
  BY DEF CallHolds, OnRow, Allocating, Ended

\* A call that ends without a write.
LEMMA RefusedCall ==
  ASSUME TreeInv, NEW c \in TreeCalls, NEW how \in {"done", "refused"}, Goes(c, Ended(how)),
         treeLock' \in [AllBudgets -> Nat],
         \A b \in AllBudgets : treeLock[b] # c => treeLock'[b] = treeLock[b],
         UNCHANGED <<treeRow, allocated, edited, treeRaced>>
  PROVE  TreeInv'
  <1>1. TreeTypes' /\ treeCall'[c] = Ended(how) /\ \A d \in TreeCalls \ {c} : treeCall'[d] = treeCall[d]
    <2>1. Ended(how) \in CallStates
      BY EndIsState
    <2>2. TreeTypes
      BY DEF TreeInv
    <2> QED BY <2>1, <2>2, CallMoves DEF TreeTypes
  <1>2. CallsKnowRows'
    <2>1. treeRow' \in [AllBudgets -> Rows \cup {Unborn}]
      BY <1>1 DEF TreeTypes
    <2> QED BY <1>1, <2>1, EndedCall
  <1>3. ASSUME ~ treeRaced' PROVE CallsHoldLocks'
    <2>1. ASSUME NEW d \in TreeCalls PROVE CallHolds(d)'
      <3>1. CASE d = c
        BY <1>1, <3>1, EndedHolds
      <3>2. CASE d # c
        BY <1>1, <1>3, <3>2, OtherCall
      <3> QED BY <3>1, <3>2
    <2> QED BY <2>1 DEF CallsHoldLocks
  <1>4. TreeBreaksNeedRace'
    BY DEF TreeInv, TreeBreaksNeedRace
  <1> QED BY <1>1, <1>2, <1>3, <1>4 DEF TreeInv

\* A call that takes the lock of a live row, having read its limit.
LEMMA EnteringCall ==
  ASSUME TreeInv, NEW c \in TreeCalls, NEW b \in AllBudgets, NEW allowed, NEW r \in CallStates,
         EntersWithLock(c, b, allowed, r),
         r.at \in {"update", "delete", "lock"}, r.child = b,
         r.at = "lock" => r.copy = treeRow[b].limit
  PROVE  TreeInv'
  <1>t. TreeTypes /\ CallsKnowRows /\ TreeBreaksNeedRace
    BY DEF TreeInv
  <1>n. UNCHANGED <<treeRow, allocated, edited, treeRaced>>
    BY DEF EntersWithLock
  <1>1. CASE treeLock[b] = 0 /\ treeRow[b].live /\ allowed
    <2>1. Goes(c, r) /\ treeLock' = [treeLock EXCEPT ![b] = c]
      BY <1>1 DEF EntersWithLock
    <2>2. TreeTypes' /\ treeCall'[c] = r /\ \A d \in TreeCalls \ {c} : treeCall'[d] = treeCall[d]
      <3>1. treeLock' \in [AllBudgets -> Nat]
        BY <2>1, <1>t, CallFields DEF TreeTypes
      <3> QED BY <3>1, <2>1, <1>t, <1>n, CallMoves DEF TreeTypes
    <2>3. treeRow[b] \in Rows
      BY <1>1, <1>t DEF TreeTypes, Unborn
    <2>4. OnRow(c)' /\ ~ Inserting(c)'
      BY <2>2 DEF OnRow, Inserting
    <2>5. CallsKnowRows'
      <3>1. ASSUME NEW d \in TreeCalls, OnRow(d)' PROVE treeRow'[treeCall'[d].child] \in Rows
        BY <2>2, <2>3, <1>t, <1>n, <3>1 DEF OnRow, CallsKnowRows
      <3>2. ASSUME NEW d \in TreeCalls, Inserting(d)'
            PROVE  /\ treeRow'[treeCall'[d].child] = Unborn
                   /\ \A e \in TreeCalls : Inserting(e)' /\ treeCall'[e].child = treeCall'[d].child => e = d
        BY <2>2, <2>4, <1>t, <1>n, <3>2 DEF Inserting, CallsKnowRows
      <3> QED BY <3>1, <3>2 DEF CallsKnowRows
    <2>6. ASSUME ~ treeRaced' PROVE CallsHoldLocks'
      <3>1. CallHolds(c)'
        <4>1. treeLock'[b] = c
          BY <2>1, <1>t DEF TreeTypes
        <4> QED BY <4>1, <2>2, <1>n DEF CallHolds, OnRow, Allocating
      <3>2. ASSUME NEW d \in TreeCalls \ {c} PROVE CallHolds(d)'
        <4>1. d # 0
          BY <1>t, CallFields
        <4>2. \A x \in AllBudgets : treeLock[x] = d => treeLock'[x] = treeLock[x]
          BY <4>1, <2>1, <1>1, <1>t DEF TreeTypes
        <4> QED BY <4>2, <2>2, <2>6, <1>n, OtherCall
      <3> QED BY <3>1, <3>2 DEF CallsHoldLocks
    <2>7. TreeBreaksNeedRace'
      BY <1>n, <1>t DEF TreeBreaksNeedRace
    <2> QED BY <2>2, <2>5, <2>6, <2>7 DEF TreeInv
  <1>2. CASE ~ (treeLock[b] = 0 /\ treeRow[b].live /\ allowed)
    <2>1. Goes(c, Ended("refused")) /\ UNCHANGED treeLock
      BY <1>2 DEF EntersWithLock
    <2>2. treeLock' \in [AllBudgets -> Nat]
      BY <2>1, <1>t DEF TreeTypes
    <2> QED BY <2>1, <2>2, <1>n, RefusedCall
  <1> QED BY <1>1, <1>2

\* A call that ends with a write of one row, its locks released.
LEMMA WritingCall ==
  ASSUME TreeInv, NEW c \in TreeCalls, NEW b \in AllBudgets, NEW row \in Rows,
         Goes(c, Ended("done")),
         treeLock' \in [AllBudgets -> Nat], \A x \in AllBudgets : treeLock[x] # c => treeLock'[x] = treeLock[x],
         treeRow' = [treeRow EXCEPT ![b] = row],
         \A d \in TreeCalls \ {c} : Inserting(d) => treeCall[d].child # b,
         ~ treeRaced' => \A d \in TreeCalls \ {c} : Allocating(d) /\ treeCall[d].child = b => row.limit = treeRow[b].limit,
         allocated' \in [Children -> Nat], edited' \subseteq AllBudgets,
         treeRaced' \in BOOLEAN, treeRaced => treeRaced'
  PROVE  TreeTypes' /\ CallsKnowRows' /\ (~ treeRaced' => CallsHoldLocks')
  <1>t. TreeTypes
    BY DEF TreeInv
  <1>1. treeRow' \in [AllBudgets -> Rows \cup {Unborn}] /\ treeRow'[Root] \in Rows
    BY <1>t DEF TreeTypes, AllBudgets
  <1>2. TreeTypes' /\ treeCall'[c] = Ended("done") /\ \A d \in TreeCalls \ {c} : treeCall'[d] = treeCall[d]
    BY <1>1, <1>t, EndIsState, CallMoves
  <1>3. \A x \in AllBudgets : treeRow[x] \in Rows => treeRow'[x] \in Rows
    BY <1>t DEF TreeTypes
  <1>4. \A d \in TreeCalls \ {c} : Inserting(d) => treeRow'[treeCall[d].child] = treeRow[treeCall[d].child]
    BY <1>t, CallFields DEF TreeTypes, AllBudgets
  <1>5. CallsKnowRows'
    BY <1>1, <1>2, <1>3, <1>4, EndedCall
  <1>6. ASSUME ~ treeRaced' PROVE CallsHoldLocks'
    <2>1. ASSUME NEW d \in TreeCalls PROVE CallHolds(d)'
      <3>1. CASE d = c
        BY <1>2, <3>1, EndedHolds
      <3>2. CASE d # c
        <4>1. Allocating(d) => treeRow'[treeCall[d].child].limit = treeRow[treeCall[d].child].limit
          <5>1. Allocating(d) => treeCall[d].child \in AllBudgets
            BY <1>t, CallFields DEF OnRow, Allocating
          <5> QED BY <5>1, <3>2, <1>6, <1>t DEF TreeTypes
        <4> QED BY <1>2, <1>6, <3>2, <4>1, OtherCall
      <3> QED BY <3>1, <3>2
    <2> QED BY <2>1 DEF CallsHoldLocks
  <1> QED BY <1>2, <1>5, <1>6

\* No call is about to insert a row that is there.
LEMMA RowsAreNotInserted ==
  ASSUME TreeInv, NEW b, treeRow[b] \in Rows, NEW d \in TreeCalls, Inserting(d)
  PROVE  treeCall[d].child # b
  BY UnbornIsNoRow DEF TreeInv, CallsKnowRows

\* While no lock has lapsed, a row has one call at work on it.
LEMMA OneCallPerRow ==
  ASSUME TreeInv, ~ treeRaced, NEW c \in TreeCalls, NEW d \in TreeCalls, OnRow(c), OnRow(d),
         treeCall[c].child = treeCall[d].child
  PROVE  c = d
  BY DEF TreeInv, CallsHoldLocks, CallHolds

\* Every step keeps it so.
LEMMA TreeStep == ASSUME TreeInv, [TreeNext]_treeVars PROVE TreeInv'
  <1> USE TreeAssumption
  <1>t. TreeTypes /\ CallsKnowRows /\ TreeBreaksNeedRace
    BY DEF TreeInv
  <1>1. ASSUME NEW c \in TreeCalls, CreateChild(c) PROVE TreeInv'
    <2>1. PICK b \in Children :
            /\ treeRow[b] = Unborn
            /\ \A d \in TreeCalls : treeCall[d].at = "insert" => treeCall[d].child # b
            /\ Goes(c, IF treeRow[Root].live THEN [at |-> "insert", child |-> b] ELSE Ended("refused"))
      BY <1>1 DEF CreateChild
    <2>2. UNCHANGED <<treeRow, treeLock, allocated, edited, treeRaced>>
      BY <1>1 DEF CreateChild
    <2>3. treeLock' \in [AllBudgets -> Nat]
      BY <2>2, <1>t DEF TreeTypes
    <2>4. CASE ~ treeRow[Root].live
      BY <2>1, <2>2, <2>3, <2>4, RefusedCall
    <2>5. CASE treeRow[Root].live
      <3> DEFINE r == [at |-> "insert", child |-> b]
      <3>1. Goes(c, r) /\ r \in CallStates
        BY <2>1, <2>5 DEF CallStates, InsertStates
      <3>2. TreeTypes' /\ treeCall'[c] = r /\ \A d \in TreeCalls \ {c} : treeCall'[d] = treeCall[d]
        <4> HIDE DEF r
        <4> QED BY <3>1, <2>2, <1>t, CallMoves DEF TreeTypes
      <3>3. ASSUME NEW d \in TreeCalls, OnRow(d)' PROVE treeRow'[treeCall'[d].child] \in Rows
        BY <3>2, <3>3, <2>2, <1>t DEF OnRow, CallsKnowRows
      <3>4. ASSUME NEW d \in TreeCalls, Inserting(d)'
            PROVE  /\ treeRow'[treeCall'[d].child] = Unborn
                   /\ \A e \in TreeCalls : Inserting(e)' /\ treeCall'[e].child = treeCall'[d].child => e = d
        BY <3>2, <3>4, <2>1, <2>2, <1>t DEF Inserting, CallsKnowRows
      <3>5. ASSUME ~ treeRaced', NEW d \in TreeCalls PROVE CallHolds(d)'
        <4>1. CASE d = c
          BY <3>2, <4>1 DEF CallHolds, OnRow, Allocating
        <4>2. CASE d # c
          BY <3>2, <3>5, <4>2, <2>2, OtherCall
        <4> QED BY <4>1, <4>2
      <3>6. TreeBreaksNeedRace'
        BY <2>2, <1>t DEF TreeBreaksNeedRace
      <3> QED BY <3>2, <3>3, <3>4, <3>5, <3>6 DEF TreeInv, CallsKnowRows, CallsHoldLocks
    <2> QED BY <2>4, <2>5
  <1>2. ASSUME NEW c \in TreeCalls, InsertChild(c) PROVE TreeInv'
    <2> DEFINE b == treeCall[c].child
               row == [live |-> TRUE, limit |-> ChildLimit, spent |-> 0]
    <2>1. /\ Inserting(c) /\ treeRow' = [treeRow EXCEPT ![b] = row]
          /\ allocated' = [allocated EXCEPT ![b] = ChildLimit]
          /\ treeRaced' = (treeRaced \/ ~treeRow[Root].live)
          /\ Goes(c, Ended("done")) /\ UNCHANGED <<treeLock, edited>>
      BY <1>2 DEF InsertChild, Inserting
    <2>2. b \in Children /\ b \in AllBudgets /\ b # Root
      BY <2>1, <1>t, CallFields DEF AllBudgets
    <2>3. row \in Rows
      BY DEF Rows
    <2>4. treeRow[b] = Unborn /\ \A d \in TreeCalls \ {c} : Inserting(d) => treeCall[d].child # b
      BY <2>1, <1>t DEF CallsKnowRows
    <2>5. \A d \in TreeCalls : Allocating(d) => treeCall[d].child # b
      BY <2>4, <1>t, UnbornIsNoRow DEF CallsKnowRows, OnRow, Allocating
    <2>6. /\ treeLock' \in [AllBudgets -> Nat] /\ allocated' \in [Children -> Nat]
          /\ edited' \subseteq AllBudgets /\ treeRaced' \in BOOLEAN /\ (treeRaced => treeRaced')
      BY <2>1, <2>2, <1>t DEF TreeTypes
    <2>7. TreeTypes' /\ CallsKnowRows' /\ (~ treeRaced' => CallsHoldLocks')
      <3> HIDE DEF b, row
      <3> QED BY <2>1, <2>2, <2>3, <2>4, <2>5, <2>6, WritingCall, Zenon
    <2>8. TreeBreaksNeedRace'
      <3>1. /\ treeRow'[b] = row /\ allocated'[b] = ChildLimit
            /\ \A x \in AllBudgets \ {b} : treeRow'[x] = treeRow[x]
            /\ \A x \in Children \ {b} : allocated'[x] = allocated[x]
        BY <2>1, <2>2, <1>t DEF TreeTypes
      <3>2. row.limit = ChildLimit /\ row.spent = 0 /\ 0 <= ChildLimit
        OBVIOUS
      <3> HIDE DEF b, row
      <3> QED BY <3>1, <3>2, <2>1, <2>2, <1>t, Zenon DEF TreeBreaksNeedRace, AllBudgets
    <2> QED BY <2>7, <2>8 DEF TreeInv
  <1>3. ASSUME NEW c \in TreeCalls, UpdateBudget(c) PROVE TreeInv'
    <2>1. PICK b \in AllBudgets, limit \in TreeAmounts :
            EntersWithLock(c, b, TRUE, [at |-> "update", child |-> b, limit |-> limit])
      BY <1>3, Zenon DEF UpdateBudget
    <2>2. PICK r : r = [at |-> "update", child |-> b, limit |-> limit]
      BY Zenon
    <2>3. r \in CallStates /\ r.at = "update" /\ r.child = b
      BY <2>2 DEF CallStates, UpdateStates
    <2> QED BY <2>1, <2>2, <2>3, EnteringCall, Zenon
  <1>4. ASSUME NEW c \in TreeCalls, WriteBudget(c) PROVE TreeInv'
    <2> DEFINE b == treeCall[c].child
    <2>1. /\ treeCall[c].at = "update"
          /\ treeRow' = [treeRow EXCEPT ![b].limit = treeCall[c].limit]
          /\ edited' = edited \cup {b} /\ Leaves(c, "done") /\ UNCHANGED <<allocated, treeRaced>>
      BY <1>4 DEF WriteBudget
    <2>2. OnRow(c) /\ b \in AllBudgets /\ treeCall[c].limit \in Nat /\ treeRow[b] \in Rows
      BY <2>1, <1>t, CallFields DEF OnRow, CallsKnowRows, UpdateStates
    <2>3. PICK row : row = [treeRow[b] EXCEPT !.limit = treeCall[c].limit]
      BY Zenon
    <2>4. row \in Rows /\ row.live = treeRow[b].live
      BY <2>2, <2>3 DEF Rows
    <2>5. treeRow' = [treeRow EXCEPT ![b] = row]
      BY <2>1, <2>2, <2>3, <1>t DEF TreeTypes
    <2>6. ~ treeRaced' => \A d \in TreeCalls \ {c} : ~ (Allocating(d) /\ treeCall[d].child = b)
      BY <2>1, <2>2, OneCallPerRow DEF OnRow, Allocating
    <2>7. \A d \in TreeCalls : Inserting(d) => treeCall[d].child # b
      BY <2>2, RowsAreNotInserted
    <2>8. /\ Goes(c, Ended("done")) /\ treeLock' \in [AllBudgets -> Nat]
          /\ \A x \in AllBudgets : treeLock[x] # c => treeLock'[x] = treeLock[x]
      BY <2>1, <1>t, LeavingReleases
    <2>9. /\ allocated' \in [Children -> Nat] /\ edited' \subseteq AllBudgets
          /\ treeRaced' \in BOOLEAN /\ (treeRaced => treeRaced')
      BY <2>1, <2>2, <1>t, SMTT(30) DEF TreeTypes
    <2> HIDE DEF b
    <2>10. TreeTypes' /\ CallsKnowRows' /\ (~ treeRaced' => CallsHoldLocks')
      <3>1. ~ treeRaced' => \A d \in TreeCalls \ {c} :
              Allocating(d) /\ treeCall[d].child = b => row.limit = treeRow[b].limit
        BY <2>6
      <3>2. \A d \in TreeCalls \ {c} : Inserting(d) => treeCall[d].child # b
        BY <2>7
      <3>3. row \in Rows /\ b \in AllBudgets
        BY <2>2, <2>4
      <3> QED BY <2>5, <3>1, <3>2, <3>3, <2>8, <2>9, WritingCall, Zenon
    <2>11. TreeBreaksNeedRace'
      <3>1. treeRow'[b] = row /\ \A x \in AllBudgets \ {b} : treeRow'[x] = treeRow[x]
        BY <2>5, <2>2, <1>t DEF TreeTypes
      <3> QED BY <3>1, <2>1, <2>2, <2>4, <1>t DEF TreeBreaksNeedRace, AllBudgets
    <2> QED BY <2>10, <2>11 DEF TreeInv
  <1>5. ASSUME NEW c \in TreeCalls, Allocate(c) PROVE TreeInv'
    <2>1. PICK b \in Children, amount \in TreeAmounts :
            EntersWithLock(c, b, treeRow[Root].live,
                [at |-> "lock", child |-> b, amount |-> amount, copy |-> treeRow[b].limit])
      BY <1>5 DEF Allocate
    <2>2. PICK r : r = [at |-> "lock", child |-> b, amount |-> amount, copy |-> treeRow[b].limit]
      BY Zenon
    <2>3. CASE treeRow[b] \in Rows
      <3>1. r \in CallStates /\ r.at = "lock" /\ r.child = b /\ r.copy = treeRow[b].limit /\ b \in AllBudgets
        BY <2>2, <2>3 DEF CallStates, AllocateStates, Rows, AllBudgets
      <3> QED BY <2>1, <2>2, <3>1, EnteringCall
    <2>4. CASE treeRow[b] \notin Rows
      <3>1. ~ treeRow[b].live
        BY <2>4, <1>t DEF TreeTypes, Unborn, AllBudgets
      <3>2. Goes(c, Ended("refused")) /\ UNCHANGED <<treeLock, treeRow, allocated, edited, treeRaced>>
        BY <2>1, <3>1 DEF EntersWithLock
      <3>3. treeLock' \in [AllBudgets -> Nat]
        BY <3>2, <1>t DEF TreeTypes
      <3> QED BY <3>2, <3>3, RefusedCall
    <2> QED BY <2>3, <2>4
  <1>6. ASSUME NEW c \in TreeCalls, LockParent(c) PROVE TreeInv'
    <2>1. treeCall[c].at = "lock" /\ UNCHANGED <<treeRow, allocated, edited, treeRaced>>
      BY <1>6 DEF LockParent
    <2>2. Allocating(c) /\ OnRow(c) /\ treeCall[c] \in AllocateStates
      BY <2>1, <1>t, CallFields, SMTT(30) DEF Allocating, OnRow
    <2>3. CASE treeLock[Root] = 0
      <3>1. PICK r : r = [treeCall[c] EXCEPT !.at = "check"]
        BY Zenon
      <3>2. Goes(c, r) /\ treeLock' = [treeLock EXCEPT ![Root] = c]
        BY <2>3, <3>1, <1>6 DEF LockParent
      <3>3. /\ r \in CallStates /\ r.at = "check"
            /\ r.child = treeCall[c].child /\ r.copy = treeCall[c].copy /\ r.child \in Children
        BY <2>2, <3>1 DEF CallStates, AllocateStates
      <3>4. c \in Nat /\ c # 0
        BY <1>t, CallFields
      <3>5. /\ treeLock' \in [AllBudgets -> Nat] /\ treeLock'[Root] = c
            /\ \A b \in AllBudgets : treeLock[b] # 0 => treeLock'[b] = treeLock[b]
        BY <2>3, <3>2, <3>4, <1>t DEF TreeTypes, AllBudgets
      <3>6. TreeTypes' /\ treeCall'[c] = r /\ \A d \in TreeCalls \ {c} : treeCall'[d] = treeCall[d]
        BY <3>2, <3>3, <3>5, <2>1, <1>t, CallMoves DEF TreeTypes
      <3>7. ASSUME NEW d \in TreeCalls, OnRow(d)' PROVE treeRow'[treeCall'[d].child] \in Rows
        <4>1. treeCall'[d].child = treeCall[d].child /\ OnRow(d)
          BY <3>3, <3>6, <3>7, <2>2, SMTT(30) DEF OnRow
        <4> QED BY <4>1, <2>1, <1>t DEF CallsKnowRows
      <3>8. ASSUME NEW d \in TreeCalls, Inserting(d)'
            PROVE  /\ treeRow'[treeCall'[d].child] = Unborn
                   /\ \A e \in TreeCalls : Inserting(e)' /\ treeCall'[e].child = treeCall'[d].child => e = d
        BY <3>3, <3>6, <3>8, <2>1, <1>t DEF Inserting, CallsKnowRows
      <3>9. ASSUME ~ treeRaced', NEW d \in TreeCalls PROVE CallHolds(d)'
        <4>1. CASE d = c
          <5>1. CallHolds(c)
            BY <3>9, <2>1, SMTT(30) DEF TreeInv, CallsHoldLocks
          <5>2. treeLock[r.child] = c /\ r.copy = treeRow[r.child].limit /\ r.child \in AllBudgets
            BY <5>1, <2>2, <3>3, SMTT(30) DEF CallHolds, AllBudgets
          <5> QED BY <4>1, <5>2, <3>3, <3>4, <3>5, <3>6, <2>1 DEF CallHolds, OnRow, Allocating
        <4>2. CASE d # c
          <5>1. d # 0
            BY <1>t, CallFields
          <5> QED BY <5>1, <3>5, <3>6, <3>9, <4>2, <2>1, OtherCall
        <4> QED BY <4>1, <4>2
      <3>10. TreeBreaksNeedRace'
        BY <2>1, <1>t DEF TreeBreaksNeedRace
      <3> QED BY <3>6, <3>7, <3>8, <3>9, <3>10 DEF TreeInv, CallsKnowRows, CallsHoldLocks
    <2>4. CASE treeLock[Root] # 0
      <3>1. Leaves(c, "refused")
        BY <2>4, <1>6 DEF LockParent
      <3> QED BY <3>1, <2>1, <1>t, LeavingReleases, RefusedCall
    <2> QED BY <2>3, <2>4
  <1>7. ASSUME NEW c \in TreeCalls, CheckParent(c) PROVE TreeInv'
    <2>1. treeCall[c].at = "check" /\ UNCHANGED <<treeRow, allocated, edited, treeRaced>>
      BY <1>7 DEF CheckParent
    <2>2. Allocating(c) /\ OnRow(c) /\ treeCall[c] \in AllocateStates
      BY <2>1, <1>t, CallFields DEF Allocating, OnRow
    <2>3. CASE treeRow[Root].live /\ treeCall[c].amount <= Remaining(treeRow[Root])
      <3>1. PICK r : r = [treeCall[c] EXCEPT !.at = "write"]
        BY Zenon
      <3>2. Goes(c, r) /\ UNCHANGED treeLock
        BY <2>3, <3>1, <1>7 DEF CheckParent
      <3>3. /\ r \in CallStates /\ r.at = "write"
            /\ r.child = treeCall[c].child /\ r.copy = treeCall[c].copy
        BY <2>2, <3>1 DEF CallStates, AllocateStates
      <3>4. TreeTypes' /\ treeCall'[c] = r /\ \A d \in TreeCalls \ {c} : treeCall'[d] = treeCall[d]
        BY <3>2, <3>3, <2>1, <1>t, CallMoves DEF TreeTypes
      <3>5. ASSUME NEW d \in TreeCalls, OnRow(d)' PROVE treeRow'[treeCall'[d].child] \in Rows
        <4>1. treeCall'[d].child = treeCall[d].child /\ OnRow(d)
          BY <3>3, <3>4, <3>5, <2>2 DEF OnRow
        <4> QED BY <4>1, <2>1, <1>t DEF CallsKnowRows
      <3>6. ASSUME NEW d \in TreeCalls, Inserting(d)'
            PROVE  /\ treeRow'[treeCall'[d].child] = Unborn
                   /\ \A e \in TreeCalls : Inserting(e)' /\ treeCall'[e].child = treeCall'[d].child => e = d
        BY <3>3, <3>4, <3>6, <2>1, <1>t DEF Inserting, CallsKnowRows
      <3>7. ASSUME ~ treeRaced', NEW d \in TreeCalls PROVE CallHolds(d)'
        <4>1. CASE d = c
          <5>1. CallHolds(c)
            BY <3>7, <2>1, SMTT(30) DEF TreeInv, CallsHoldLocks
          <5> QED BY <4>1, <5>1, <3>2, <3>3, <3>4, <2>1, <2>2 DEF CallHolds, OnRow, Allocating
        <4>2. CASE d # c
          BY <3>2, <3>4, <3>7, <4>2, <2>1, OtherCall, SMTT(30)
        <4> QED BY <4>1, <4>2
      <3>8. TreeBreaksNeedRace'
        BY <2>1, <1>t DEF TreeBreaksNeedRace
      <3> QED BY <3>4, <3>5, <3>6, <3>7, <3>8 DEF TreeInv, CallsKnowRows, CallsHoldLocks
    <2>4. CASE ~ (treeRow[Root].live /\ treeCall[c].amount <= Remaining(treeRow[Root]))
      <3>1. Leaves(c, "refused")
        BY <2>4, <1>7 DEF CheckParent
      <3> QED BY <3>1, <2>1, <1>t, LeavingReleases, RefusedCall
    <2> QED BY <2>3, <2>4
  <1>8. ASSUME NEW c \in TreeCalls, WriteChild(c) PROVE TreeInv'
    <2> DEFINE b == treeCall[c].child
    <2>1. /\ treeCall[c].at = "write"
          /\ treeRow' = [treeRow EXCEPT ![b].limit = treeCall[c].copy + treeCall[c].amount]
          /\ allocated' = [allocated EXCEPT ![b] = @ + treeCall[c].amount]
          /\ Leaves(c, "done") /\ UNCHANGED <<edited, treeRaced>>
      BY <1>8 DEF WriteChild
    <2>2. /\ Allocating(c) /\ OnRow(c) /\ treeCall[c] \in AllocateStates
          /\ b \in Children /\ b \in AllBudgets /\ b # Root /\ treeRow[b] \in Rows
      BY <2>1, <1>t, CallFields DEF Allocating, OnRow, AllocateStates, CallsKnowRows, AllBudgets
    <2>3. PICK new : new = treeCall[c].copy + treeCall[c].amount
      OBVIOUS
    <2>4. new \in Nat /\ treeCall[c].amount \in Nat /\ treeCall[c].copy \in Nat
      BY <2>2, <2>3 DEF AllocateStates
    <2>5. PICK row : row = [treeRow[b] EXCEPT !.limit = new]
      BY Zenon
    <2>6. row \in Rows /\ row.live = treeRow[b].live /\ row.limit = new /\ row.spent = treeRow[b].spent
      BY <2>2, <2>4, <2>5 DEF Rows
    <2>7. treeRow' = [treeRow EXCEPT ![b] = row]
      BY <2>1, <2>2, <2>3, <2>5, <1>t DEF TreeTypes
    <2>8. ~ treeRaced' => \A d \in TreeCalls \ {c} :
            Allocating(d) /\ treeCall[d].child = b => row.limit = treeRow[b].limit
      BY <2>1, <2>2, OneCallPerRow DEF OnRow, Allocating
    <2>9. \A d \in TreeCalls \ {c} : Inserting(d) => treeCall[d].child # b
      BY <2>2, RowsAreNotInserted
    <2>10. /\ Goes(c, Ended("done")) /\ treeLock' \in [AllBudgets -> Nat]
           /\ \A x \in AllBudgets : treeLock[x] # c => treeLock'[x] = treeLock[x]
      BY <2>1, <1>t, LeavingReleases
    <2>11. /\ allocated' \in [Children -> Nat] /\ allocated'[b] = allocated[b] + treeCall[c].amount
           /\ \A x \in Children \ {b} : allocated'[x] = allocated[x]
      BY <2>1, <2>2, <2>4, <1>t DEF TreeTypes
    <2>12. edited' \subseteq AllBudgets /\ treeRaced' \in BOOLEAN /\ (treeRaced => treeRaced')
      BY <2>1, <1>t DEF TreeTypes
    <2>13. ~ treeRaced => treeCall[c].copy = treeRow[b].limit
      BY <2>2, SMTT(30) DEF TreeInv, CallsHoldLocks, CallHolds
    <2> HIDE DEF b
    <2>14. TreeTypes' /\ CallsKnowRows' /\ (~ treeRaced' => CallsHoldLocks')
      <3>1. row \in Rows /\ b \in AllBudgets
        BY <2>2, <2>6
      <3> QED BY <3>1, <2>7, <2>8, <2>9, <2>10, <2>11, <2>12, WritingCall, Zenon
    <2>15. TreeBreaksNeedRace'
      <3>1. treeRow'[b] = row /\ \A x \in AllBudgets \ {b} : treeRow'[x] = treeRow[x]
        BY <2>7, <2>2, <1>t DEF TreeTypes
      <3>2. ASSUME ~ treeRaced',
            b \notin edited' PROVE row.limit = allocated'[b] /\ row.spent <= row.limit
        <4>1. treeRow[b].limit = allocated[b] /\ treeRow[b].spent <= treeRow[b].limit
          BY <3>2, <2>1, <2>2, <1>t, UnbornIsNoRow DEF TreeBreaksNeedRace
        <4>2. treeRow[b].limit \in Nat /\ treeRow[b].spent \in Nat
          BY <2>2 DEF Rows
        <4> QED BY <4>1, <4>2, <3>2, <2>1, <2>3, <2>4, <2>6, <2>11, <2>13
      <3> QED BY <3>1, <3>2, <2>1, <2>2, <2>6, <2>11, <1>t, ZenonT(60) DEF TreeBreaksNeedRace, AllBudgets
    <2> QED BY <2>14, <2>15 DEF TreeInv
  <1>9. ASSUME NEW c \in TreeCalls, ReserveBudget(c) PROVE TreeInv'
    <2>1. PICK b \in AllBudgets, amount \in TreeAmounts :
            IF treeRow[b] # Unborn /\ treeRow[b].spent + amount <= treeRow[b].limit
            THEN /\ treeRow' = [treeRow EXCEPT ![b].spent = @ + amount]
                 /\ Goes(c, Ended("done"))
            ELSE /\ Goes(c, Ended("refused"))
                 /\ UNCHANGED treeRow
      BY <1>9 DEF ReserveBudget
    <2>2. UNCHANGED <<treeLock, allocated, edited, treeRaced>>
      BY <1>9 DEF ReserveBudget
    <2>3. treeLock' \in [AllBudgets -> Nat] /\ allocated' \in [Children -> Nat]
      BY <2>2, <1>t DEF TreeTypes
    <2>4. CASE treeRow[b] # Unborn /\ treeRow[b].spent + amount <= treeRow[b].limit
      <3>1. Goes(c, Ended("done")) /\ treeRow' = [treeRow EXCEPT ![b].spent = @ + amount]
        BY <2>1, <2>4
      <3>2. treeRow[b] \in Rows /\ amount \in Nat
        BY <2>4, <1>t DEF TreeTypes
      <3>3. PICK new : new = treeRow[b].spent + amount
        OBVIOUS
      <3>4. new \in Nat /\ new <= treeRow[b].limit
        BY <3>2, <3>3, <2>4 DEF Rows
      <3>5. PICK row : row = [treeRow[b] EXCEPT !.spent = new]
        BY Zenon
      <3>6. row \in Rows /\ row.live = treeRow[b].live /\ row.limit = treeRow[b].limit /\ row.spent = new
        BY <3>2, <3>4, <3>5 DEF Rows
      <3>7. treeRow' = [treeRow EXCEPT ![b] = row]
        BY <3>1, <3>3, <3>5, <1>t DEF TreeTypes
      <3>8. \A d \in TreeCalls \ {c} : Inserting(d) => treeCall[d].child # b
        BY <3>2, RowsAreNotInserted
      <3>9. edited' \subseteq AllBudgets /\ treeRaced' \in BOOLEAN /\ (treeRaced => treeRaced')
        BY <2>2, <1>t DEF TreeTypes
      <3>10. TreeTypes' /\ CallsKnowRows' /\ (~ treeRaced' => CallsHoldLocks')
        BY <3>1, <3>6, <3>7, <3>8, <3>9, <2>2, <2>3, WritingCall, Zenon
      <3>11. TreeBreaksNeedRace'
        <4>1. treeRow'[b] = row /\ \A x \in AllBudgets \ {b} : treeRow'[x] = treeRow[x]
          BY <3>7, <1>t DEF TreeTypes
        <4> QED BY <4>1, <3>4, <3>6, <2>2, <2>4, <1>t DEF TreeBreaksNeedRace, AllBudgets
      <3> QED BY <3>10, <3>11 DEF TreeInv
    <2>5. CASE ~ (treeRow[b] # Unborn /\ treeRow[b].spent + amount <= treeRow[b].limit)
      BY <2>1, <2>2, <2>3, <2>5, RefusedCall, SMTT(30)
    <2> QED BY <2>4, <2>5
  <1>10. ASSUME NEW c \in TreeCalls, RemoveBudget(c) PROVE TreeInv'
    <2>1. PICK b \in AllBudgets :
            EntersWithLock(c, b, b = Root => \A x \in Children : ~treeRow[x].live,
                           [at |-> "delete", child |-> b])
      BY <1>10 DEF RemoveBudget
    <2>2. PICK r : r = [at |-> "delete", child |-> b]
      BY Zenon
    <2>3. r \in CallStates /\ r.at = "delete" /\ r.child = b
      BY <2>2 DEF CallStates, DeleteStates
    <2> QED BY <2>1, <2>2, <2>3, EnteringCall, SMTT(30)
  <1>11. ASSUME NEW c \in TreeCalls, SoftDeleteBudget(c) PROVE TreeInv'
    <2> DEFINE b == treeCall[c].child
    <2>1. /\ treeCall[c].at = "delete" /\ treeRow' = [treeRow EXCEPT ![b].live = FALSE]
          /\ treeRaced' = (treeRaced \/ (b = Root /\ \E x \in Children : treeRow[x].live))
          /\ Leaves(c, "done") /\ UNCHANGED <<allocated, edited>>
      BY <1>11 DEF SoftDeleteBudget
    <2>2. OnRow(c) /\ b \in AllBudgets /\ treeRow[b] \in Rows
      BY <2>1, <1>t, CallFields DEF OnRow, CallsKnowRows
    <2>3. PICK row : row = [treeRow[b] EXCEPT !.live = FALSE]
      BY Zenon
    <2>4. /\ row \in Rows /\ row.live = FALSE
          /\ row.limit = treeRow[b].limit /\ row.spent = treeRow[b].spent
      BY <2>2, <2>3, Zenon DEF Rows
    <2>5. treeRow' = [treeRow EXCEPT ![b] = row]
      BY <2>1, <2>2, <2>3, <1>t DEF TreeTypes
    <2>6. \A d \in TreeCalls \ {c} : Inserting(d) => treeCall[d].child # b
      BY <2>2, RowsAreNotInserted
    <2>7. /\ Goes(c, Ended("done")) /\ treeLock' \in [AllBudgets -> Nat]
          /\ \A x \in AllBudgets : treeLock[x] # c => treeLock'[x] = treeLock[x]
      BY <2>1, <1>t, LeavingReleases
    <2>8. /\ allocated' \in [Children -> Nat] /\ edited' \subseteq AllBudgets
          /\ treeRaced' \in BOOLEAN /\ (treeRaced => treeRaced')
      BY <2>1, <1>t DEF TreeTypes
    <2> HIDE DEF b
    <2>9. TreeTypes' /\ CallsKnowRows' /\ (~ treeRaced' => CallsHoldLocks')
      <3>1. row \in Rows /\ b \in AllBudgets /\ row.limit = treeRow[b].limit
        BY <2>2, <2>4
      <3> QED BY <3>1, <2>5, <2>6, <2>7, <2>8, WritingCall, Zenon
    <2>10. TreeBreaksNeedRace'
      <3>1. treeRow'[b] = row /\ \A x \in AllBudgets \ {b} : treeRow'[x] = treeRow[x]
        BY <2>5, <2>2, <1>t DEF TreeTypes
      <3> QED
        BY <3>1, <2>1, <2>2, <2>4, <1>t, UnbornIsNoRow, ZenonT(60) DEF TreeBreaksNeedRace, AllBudgets
    <2> QED BY <2>9, <2>10 DEF TreeInv
  <1>12. ASSUME NEW b \in AllBudgets, LockLapses(b) PROVE TreeInv'
    <2>1. /\ treeLock' = [treeLock EXCEPT ![b] = 0] /\ treeRaced' = TRUE
          /\ UNCHANGED <<treeRow, treeCall, allocated, edited>>
      BY <1>12 DEF LockLapses
    <2>2. TreeTypes' /\ CallsKnowRows'
      BY <2>1, <1>t DEF TreeTypes, CallsKnowRows, OnRow, Inserting
    <2> QED BY <2>1, <2>2 DEF TreeInv, TreeBreaksNeedRace
  <1>13. CASE UNCHANGED treeVars
    BY <1>13 DEF treeVars, TreeInv, TreeTypes, CallsKnowRows, CallsHoldLocks, CallHolds,
        OnRow, Inserting, Allocating, TreeBreaksNeedRace
  <1> QED BY <1>1, <1>2, <1>3, <1>4, <1>5, <1>6, <1>7, <1>8, <1>9, <1>10, <1>11, <1>12, <1>13
        DEF TreeNext

\* BudgetService's tree: an allocation is lost, a limit passed or a parent missing
\* only when a lock lapsed under its handler or a creation raced a removal.
THEOREM TreeHolds == TreeSpec => []TreeBreaksNeedRace
  <1>1. TreeInv => TreeBreaksNeedRace
    BY SMTT(30) DEF TreeInv
  <1> QED BY <1>1, TreeInitHolds, TreeStep, PTL DEF TreeSpec

-----------------------------------------------------------------------------
(* Sums of amounts                                                         *)

\* A sum as the number of units of its terms.
Units(f, S) == UNION {{x} \X (1..f[x]) : x \in S}

\* Finitely many terms have finitely many units.
LEMMA UnitsFinite ==
  ASSUME NEW S, IsFiniteSet(S), NEW f, \A x \in S : f[x] \in Nat
  PROVE  IsFiniteSet(Units(f, S)) /\ Cardinality(Units(f, S)) \in Nat
  <1> DEFINE F == [x \in S |-> {x} \X (1..f[x])]
             T == {{x} \X (1..f[x]) : x \in S}
  <1>1. F \in Surjection(S, T)
    BY Zenon DEF Surjection
  <1>2. ASSUME NEW x \in S PROVE IsFiniteSet({x} \X (1..f[x]))
    <2>1. f[x] \in Int
      OBVIOUS
    <2>2. IsFiniteSet(1..f[x])
      BY <2>1, FS_Interval
    <2>3. IsFiniteSet({x})
      BY FS_Singleton, Zenon
    <2> QED BY <2>2, <2>3, FS_Product, Zenon
  <1>3. \A U \in T : IsFiniteSet(U)
    BY <1>2
  <1>4. IsFiniteSet(T)
    <2> HIDE DEF F, T
    <2> QED BY <1>1, FS_Surjection
  <1>5. IsFiniteSet(UNION T)
    <2> HIDE DEF T
    <2> QED BY <1>3, <1>4, FS_UNION
  <1>6. IsFiniteSet(Units(f, S))
    BY <1>5 DEF Units
  <1> QED BY <1>6, FS_CardinalityType

\* The units of one term.
LEMMA UnitsOfOne ==
  ASSUME NEW p, NEW n \in Nat
  PROVE  IsFiniteSet({p} \X (1..n)) /\ Cardinality({p} \X (1..n)) = n
  <1>1. IsFiniteSet({p}) /\ Cardinality({p}) = 1
    BY FS_Singleton
  <1> DEFINE T == 1..n
  <1>2. IsFiniteSet(T) /\ Cardinality(T) = IF 1 > n THEN 0 ELSE n - 1 + 1
    BY FS_Interval
  <1>3. IsFiniteSet(T) /\ Cardinality(T) = n
    BY <1>2
  <1> HIDE DEF T
  <1>4. IsFiniteSet({p} \X T) /\ Cardinality({p} \X T) = Cardinality({p}) * Cardinality(T)
    BY <1>1, <1>3, FS_Product, SMTT(30)
  <1>5. Cardinality({p} \X T) = 1 * n
    BY <1>1, <1>3, <1>4
  <1>6. Cardinality({p} \X T) = n
    BY <1>5
  <1> QED BY <1>4, <1>6 DEF T

\* A union has at most as many elements as its two sets between them.
LEMMA UnionIsNoLarger ==
  ASSUME NEW S, NEW T, IsFiniteSet(S), IsFiniteSet(T)
  PROVE  /\ IsFiniteSet(S \cup T) /\ Cardinality(S \cup T) \in Nat
         /\ Cardinality(S \cup T) <= Cardinality(S) + Cardinality(T)
  <1>1. IsFiniteSet(S \cap T)
    BY FS_Subset
  <1> DEFINE a == Cardinality(S)
             b == Cardinality(T)
             c == Cardinality(S \cap T)
             d == Cardinality(S \cup T)
  <1>2. a \in Nat /\ b \in Nat /\ c \in Nat
    BY <1>1, FS_CardinalityType
  <1>3. IsFiniteSet(S \cup T) /\ d = a + b - c
    BY FS_Union
  <1>4. d \in Nat
    BY <1>3, FS_CardinalityType
  <1> HIDE DEF a, b, c, d
  <1>5. d <= a + b
    BY <1>2, <1>3
  <1> QED BY <1>3, <1>4, <1>5 DEF a, b, d

-----------------------------------------------------------------------------
(* Rolling windows                                                         *)

\* A spend by where it is.
SpendStates ==
    [at : {"new", "exceeded"}] \cup [at : {"reserved"}, amount : Nat]
    \cup [at : {"row"}, amount : Nat, excluded : BOOLEAN, settled : BOOLEAN, created : Nat]

InTheWindow == {s \in Numbered : InWindow(spend[s], rollingClock)}

Reserved == {s \in Numbered : spend[s].at = "reserved"}

\* With callers that keep the contract one spend at a time is between its check and
\* its row, and the window has room for it.
RollingInv ==
    /\ callersLock \in BOOLEAN /\ rollingClock \in Nat /\ limitsOf \in SUBSET Nat
    /\ spend \in [Numbered -> SpendStates]
    /\ callersLock => \A s \in Reserved : callerHolds = s
    /\ callersLock /\ limitsOf # {} =>
         /\ Sum(InTheWindow) <= EffectiveBudget
         /\ \A s \in Reserved : Sum(InTheWindow \cup {s}) <= EffectiveBudget

\* The tightest limit exists.
LEMMA EffectiveIsNat == ASSUME limitsOf \in SUBSET Nat, limitsOf # {} PROVE EffectiveBudget \in Nat
  <1>1. PICK l \in limitsOf : \A m \in limitsOf : ~ (<<m, l>> \in OpToRel(<, Nat))
    BY WFMin, NatLessThanWellFounded
  <1>2. l \in Nat /\ \A m \in limitsOf : m \in Nat /\ ~ (m < l)
    BY <1>1, Zenon DEF OpToRel
  <1>3. \A m \in limitsOf : l <= m
    BY <1>2
  <1> QED BY <1>3, Zenon DEF EffectiveBudget

\* What has an amount.
LEMMA AmountsAreNat ==
  ASSUME spend \in [Numbered -> SpendStates], NEW s \in Numbered, spend[s].at \in {"reserved", "row"}
  PROVE  spend[s].amount \in Nat
  BY DEF SpendStates

\* A sum of amounts is a count of finitely many units.
LEMMA SumIsNat ==
  ASSUME NEW R \in SUBSET Numbered, \A s \in R : spend[s].amount \in Nat
  PROVE  /\ Sum(R) \in Nat
         /\ IsFiniteSet(UNION {{s} \X (1..spend[s].amount) : s \in R})
  <1> USE RollingAssumption
  <1> DEFINE f == [s \in R |-> spend[s].amount]
             A == UNION {{s} \X (1..spend[s].amount) : s \in R}
  <1>1. IsFiniteSet(R)
    <2>1. IsFiniteSet(Numbered)
      BY FS_Interval DEF Numbered
    <2> QED BY <2>1, FS_Subset
  <1>2. \A s \in R : f[s] \in Nat
    OBVIOUS
  <1>3. A = Units(f, R)
    BY DEF Units
  <1>4. IsFiniteSet(A) /\ Cardinality(A) \in Nat
    <2> HIDE DEF f, A
    <2> QED BY <1>1, <1>2, <1>3, UnitsFinite
  <1> QED BY <1>4 DEF Sum

\* The sum of fewer rows with the same amounts is no larger.
LEMMA SumShrinks ==
  ASSUME NEW R \in SUBSET Numbered, NEW Q \in SUBSET R,
         \A s \in R : spend[s].amount \in Nat,
         \A s \in Q : spend'[s].amount = spend[s].amount
  PROVE  /\ Sum(R) \in Nat /\ Cardinality(UNION {{s} \X (1..spend'[s].amount) : s \in Q}) \in Nat
         /\ Cardinality(UNION {{s} \X (1..spend'[s].amount) : s \in Q}) <= Sum(R)
  <1> DEFINE A == UNION {{s} \X (1..spend[s].amount) : s \in R}
             B == UNION {{s} \X (1..spend'[s].amount) : s \in Q}
  <1>1. IsFiniteSet(A) /\ Sum(R) \in Nat
    BY SumIsNat, SMTT(30)
  <1>2. B \in SUBSET A
    <2> SUFFICES ASSUME NEW s \in Q, NEW u \in {s} \X (1..spend'[s].amount) PROVE u \in A
      OBVIOUS
    <2>1. u \in {s} \X (1..spend[s].amount) /\ s \in R
      OBVIOUS
    <2> QED BY <2>1
  <1> HIDE DEF A, B
  <1>3. IsFiniteSet(B) /\ Cardinality(B) <= Cardinality(A) /\ Cardinality(B) \in Nat
    BY <1>1, <1>2, FS_Subset, FS_CardinalityType
  <1> QED BY <1>1, <1>3 DEF A, B, Sum

\* No window is used at first.
LEMMA RollingInitHolds == ASSUME RollingInit PROVE RollingInv
  <1> USE RollingAssumption
  <1>1. spend \in [Numbered -> SpendStates]
    BY DEF RollingInit, SpendStates
  <1>2. InTheWindow = {} /\ Reserved = {}
    BY DEF RollingInit, InTheWindow, Reserved, InWindow
  <1>3. Sum({}) = 0
    <2>1. UNION {{s} \X (1..spend[s].amount) : s \in {}} = {}
      OBVIOUS
    <2> QED BY <2>1, FS_EmptySet DEF Sum
  <1>4. callersLock \in BOOLEAN /\ rollingClock \in Nat /\ limitsOf \in SUBSET Nat
    BY DEF RollingInit
  <1>5. limitsOf # {} => EffectiveBudget \in Nat
    BY <1>4, EffectiveIsNat
  <1> QED BY <1>1, <1>2, <1>3, <1>4, <1>5 DEF RollingInv

\* Every step keeps the windows.
LEMMA RollingStep == ASSUME RollingInv, [RollingNext]_rollingVars PROVE RollingInv'
  <1> USE RollingAssumption
  <1> DEFINE W == InTheWindow
             E == EffectiveBudget
  <1>t. /\ callersLock \in BOOLEAN /\ rollingClock \in Nat /\ limitsOf \in SUBSET Nat
        /\ spend \in [Numbered -> SpendStates]
    BY DEF RollingInv
  <1>h. callersLock => \A s \in Reserved : callerHolds = s
    BY DEF RollingInv
  <1>w. callersLock /\ limitsOf # {} => Sum(W) <= E /\ \A s \in Reserved : Sum(W \cup {s}) <= E
    BY DEF RollingInv
  <1>e. limitsOf # {} => E \in Nat
    BY <1>t, EffectiveIsNat
  <1>a. \A s \in Numbered : spend[s].at \in {"reserved", "row"} => spend[s].amount \in Nat
    BY <1>t, AmountsAreNat
  <1>m. W \in SUBSET Numbered /\ \A s \in W : spend[s].at = "row"
    BY DEF InTheWindow, InWindow
  <1>n. Sum(W) \in Nat
    BY <1>a, <1>m, SumIsNat, Zenon
  \* Fewer rows with the same amounts, and no new reservation.
  <1>s. ASSUME UNCHANGED <<callersLock, limitsOf, callerHolds>>,
               spend' \in [Numbered -> SpendStates], rollingClock' \in Nat, Reserved' = Reserved,
               W' \subseteq W, \A s \in W' \cup Reserved' : spend'[s].amount = spend[s].amount
        PROVE  RollingInv'
    <2>1. E' = E
      BY <1>s DEF EffectiveBudget
    <2>2. Sum(W)' <= Sum(W) /\ Sum(W)' \in Nat
      BY <1>s, <1>a, <1>m, SumShrinks, Zenon DEF Sum
    <2>3. ASSUME NEW s \in Reserved
          PROVE  Sum(W \cup {s})' <= Sum(W \cup {s}) /\ Sum(W \cup {s})' \in Nat /\ Sum(W \cup {s}) \in Nat
      <3>1. s \in Numbered /\ spend[s].at = "reserved"
        BY <2>3 DEF Reserved
      <3>2. W' \cup {s} \subseteq W \cup {s} /\ W \cup {s} \in SUBSET Numbered
        BY <1>s, <1>m, <3>1
      <3> HIDE DEF W
      <3> QED BY <3>1, <3>2, <1>a, <1>m, <1>s, SumShrinks, Zenon DEF Sum
    <2> HIDE DEF W, E
    <2>4. callersLock /\ limitsOf # {} => Sum(W)' <= E
      BY <2>2, <1>w, <1>e, <1>n
    <2>5. ASSUME NEW s \in Reserved, callersLock, limitsOf # {} PROVE Sum(W \cup {s})' <= E
      <3>1. Sum(W \cup {s}) <= E /\ E \in Nat
        BY <2>5, <1>w, <1>e
      <3> QED BY <3>1, <2>3
    <2> QED BY <1>s, <1>t, <1>h, <2>1, <2>4, <2>5 DEF RollingInv, W, E
  <1>1. ASSUME NEW s \in Numbered, CheckAndReserveBudget(s) PROVE RollingInv'
    <2> USE <1>1
    <2>1. PICK amount \in SpendAmounts :
            IF limitsOf # {} /\ SpentInWindow(rollingClock) + amount > E
            THEN /\ spend' = [spend EXCEPT ![s] = [at |-> "exceeded"]]
                 /\ UNCHANGED callerHolds
            ELSE /\ spend' = [spend EXCEPT ![s] = [at |-> "reserved", amount |-> amount]]
                 /\ callerHolds' = IF callersLock THEN s ELSE 0
      BY DEF CheckAndReserveBudget
    <2>2. /\ spend[s].at = "new" /\ (callersLock => callerHolds = 0)
          /\ UNCHANGED <<callersLock, rollingClock, limitsOf>>
      BY DEF CheckAndReserveBudget
    <2>3. CASE limitsOf # {} /\ SpentInWindow(rollingClock) + amount > E
      <3>1. spend' = [spend EXCEPT ![s] = [at |-> "exceeded"]] /\ UNCHANGED callerHolds
        BY <2>1, <2>3
      <3>2. spend' \in [Numbered -> SpendStates]
        BY <3>1, <1>t, SMTT(30) DEF SpendStates
      <3>3. Reserved' = Reserved /\ W' = W
        BY <3>1, <2>2, <1>t DEF Reserved, InTheWindow, InWindow
      <3>4. \A r \in W' \cup Reserved' : spend'[r].amount = spend[r].amount
        BY <3>1, <3>3, <2>2, <1>m, <1>t, SMTT(30) DEF Reserved
      <3> HIDE DEF W
      <3> QED BY <3>1, <3>2, <3>3, <3>4, <2>2, <1>t, <1>s, SMTT(30)
    <2>4. CASE ~ (limitsOf # {} /\ SpentInWindow(rollingClock) + amount > E)
      <3>1. /\ spend' = [spend EXCEPT ![s] = [at |-> "reserved", amount |-> amount]]
            /\ callerHolds' = IF callersLock THEN s ELSE 0
        BY <2>1, <2>4
      <3>2. amount \in Nat
        OBVIOUS
      <3>3. spend' \in [Numbered -> SpendStates]
        BY <3>1, <3>2, <1>t DEF SpendStates
      <3>4. W' = W
        BY <3>1, <2>2, <1>t DEF InTheWindow, InWindow
      <3>5. Reserved' = Reserved \cup {s}
        BY <3>1, <2>2, <1>t DEF Reserved
      <3>6. callersLock => Reserved = {}
        <4>1. \A r \in Reserved : r # 0
          BY DEF Reserved, Numbered
        <4> QED BY <4>1, <1>h, <2>2
      <3>7. \A r \in W : spend'[r].amount = spend[r].amount
        BY <3>1, <2>2, <1>m, <1>t, SMTT(30)
      <3>8. E' = E
        BY <2>2 DEF EffectiveBudget
      <3>9. limitsOf # {} => Sum(W) + amount <= E
        BY <2>4, <3>2, <1>n, <1>e DEF SpentInWindow, InTheWindow
      <3> DEFINE U == UNION {{r} \X (1..spend'[r].amount) : r \in W}
                 V == {s} \X (1..amount)
      <3>10. Cardinality(U) \in Nat /\ Cardinality(U) <= Sum(W) /\ IsFiniteSet(U)
        <4>1. Cardinality(U) \in Nat /\ Cardinality(U) <= Sum(W)
          BY <3>7, <1>m, <1>a, SumShrinks, Zenon
        <4>2. U = UNION {{r} \X (1..spend[r].amount) : r \in W}
          BY <3>7
        <4>3. IsFiniteSet(UNION {{r} \X (1..spend[r].amount) : r \in W})
          BY <1>m, <1>a, SumIsNat
        <4> HIDE DEF U
        <4> QED BY <4>1, <4>2, <4>3, SMTT(30)
      <3>11. IsFiniteSet(V) /\ Cardinality(V) = amount
        BY <3>2, UnitsOfOne, Zenon
      <3>12. UNION {{r} \X (1..spend'[r].amount) : r \in W \cup {s}} = U \cup V
        <4>1. spend'[s].amount = amount
          BY <3>1, <1>t
        <4> HIDE DEF W
        <4> QED BY <4>1
      <3> HIDE DEF U, V
      <3>13. Cardinality(U \cup V) \in Nat /\ Cardinality(U \cup V) <= Cardinality(U) + amount
        BY <3>10, <3>11, UnionIsNoLarger
      <3>14. Sum(W)' = Cardinality(U) /\ Sum(W \cup {s})' = Cardinality(U \cup V)
        BY <3>4, <3>12, Zenon DEF Sum, U
      <3> HIDE DEF W, E
      <3>15. limitsOf # {} => Sum(W)' <= E /\ Sum(W \cup {s})' <= E
        BY <3>2, <3>9, <3>10, <3>13, <3>14, <1>n, <1>e
      <3>16. (callersLock => \A r \in Reserved : callerHolds = r)'
        BY <3>1, <3>5, <3>6, <2>2
      <3>17. (callersLock /\ limitsOf # {} =>
                Sum(W) <= E /\ \A r \in Reserved : Sum(W \cup {r}) <= E)'
        BY <3>5, <3>6, <3>8, <3>15, <2>2
      <3> QED BY <3>3, <3>16, <3>17, <2>2, <1>t, SMTT(30) DEF RollingInv, W, E
    <2> QED BY <2>3, <2>4
  <1>2. ASSUME NEW s \in Numbered, SpendRow(s) PROVE RollingInv'
    <2> USE <1>2
    <2> DEFINE row == [at |-> "row", amount |-> spend[s].amount, excluded |-> FALSE,
                       settled |-> FALSE, created |-> rollingClock]
    <2>1. /\ spend[s].at = "reserved" /\ spend' = [spend EXCEPT ![s] = row]
          /\ callerHolds' = 0 /\ UNCHANGED <<callersLock, rollingClock, limitsOf>>
      BY DEF SpendRow
    <2>2. spend[s].amount \in Nat /\ s \in Reserved
      BY <2>1, <1>a DEF Reserved
    <2>3. row \in SpendStates
      BY <2>2, <1>t DEF SpendStates
    <2>4. spend' \in [Numbered -> SpendStates]
      <3> HIDE DEF row
      <3> QED BY <2>1, <2>3, <1>t
    <2>5. W' \subseteq W \cup {s}
      BY <2>1, <1>t DEF InTheWindow, InWindow
    <2>6. Reserved' = Reserved \ {s}
      BY <2>1, <1>t DEF Reserved
    <2>7. callersLock => Reserved' = {}
      BY <2>2, <2>6, <1>h
    <2>8. \A r \in W \cup {s} : spend'[r].amount = spend[r].amount /\ spend[r].amount \in Nat
      BY <2>1, <2>2, <1>m, <1>a, <1>t
    <2>9. W \cup {s} \in SUBSET Numbered
      BY <1>m
    <2>10. E' = E
      BY <2>1, SMTT(30) DEF EffectiveBudget
    <2> HIDE DEF W, row, E
    <2>11. Sum(W)' <= Sum(W \cup {s}) /\ Sum(W)' \in Nat /\ Sum(W \cup {s}) \in Nat
      BY <2>5, <2>8, <2>9, SumShrinks, Zenon DEF Sum
    <2>12. callersLock /\ limitsOf # {} => Sum(W)' <= E
      BY <2>2, <2>11, <1>w, <1>e
    <2> QED BY <2>1, <2>4, <2>7, <2>10, <2>12, <1>t DEF RollingInv, W, E
  <1>3. ASSUME NEW s \in Numbered, FinishRow(s) PROVE RollingInv'
    <2> USE <1>3
    <2>1. PICK paid \in BOOLEAN :
            spend' = [spend EXCEPT ![s].settled = paid, ![s].excluded = ~ paid]
      BY Zenon DEF FinishRow
    <2>2. /\ spend[s].at = "row" /\ ~ spend[s].excluded
          /\ UNCHANGED <<callersLock, rollingClock, limitsOf, callerHolds>>
      BY DEF FinishRow
    <2>3. spend' \in [Numbered -> SpendStates]
      <3>1. PICK row : row = [spend[s] EXCEPT !.settled = paid, !.excluded = ~ paid]
        OBVIOUS
      <3>2. row \in SpendStates
        BY <3>1, <2>2, <1>t, Zenon DEF SpendStates
      <3>3. spend' = [spend EXCEPT ![s] = row]
        BY <2>1, <3>1, <1>t, Zenon
      <3> QED BY <3>2, <3>3, <1>t
    <2>4. W' \subseteq W /\ Reserved' = Reserved
      BY <2>1, <2>2, <1>t DEF InTheWindow, InWindow, Reserved, SpendStates
    <2>5. \A r \in W' \cup Reserved' : spend'[r].amount = spend[r].amount
      BY <2>1, <2>2, <2>4, <1>t, <1>m DEF Reserved, SpendStates
    <2> HIDE DEF W
    <2> QED BY <2>2, <2>3, <2>4, <2>5, <1>t, <1>s
  <1>4. CASE RollingTick
    <2>1. /\ rollingClock' = rollingClock + 1
          /\ UNCHANGED <<callersLock, limitsOf, spend, callerHolds>>
      BY <1>4 DEF RollingTick
    <2>2. ASSUME NEW s \in Numbered, InWindow(spend[s], rollingClock + 1)
          PROVE  InWindow(spend[s], rollingClock)
      BY <2>2, <1>t DEF InWindow, SpendStates
    <2>3. W' \subseteq W /\ Reserved' = Reserved
      BY <2>1, <2>2 DEF InTheWindow, Reserved
    <2> HIDE DEF W
    <2> QED BY <2>1, <2>3, <1>t, <1>s
  <1>5. CASE UNCHANGED rollingVars
    <2>1. UNCHANGED <<callersLock, limitsOf, spend, callerHolds, rollingClock>>
      BY <1>5 DEF rollingVars
    <2>2. W' = W /\ Reserved' = Reserved
      BY <2>1 DEF InTheWindow, Reserved
    <2> HIDE DEF W
    <2> QED BY <2>1, <2>2, <1>t, <1>s
  <1> QED BY <1>1, <1>2, <1>3, <1>4, <1>5 DEF RollingNext

\* checkAndReserveBudget, with callers that keep its contract, keeps every trailing
\* window within the tightest limit.
THEOREM WindowsHold == RollingSpec => []WindowWithinLimit
  <1>1. RollingInv => WindowWithinLimit
    BY DEF RollingInv, WindowWithinLimit, SpentInWindow, InTheWindow
  <1> QED BY <1>1, RollingInitHolds, RollingStep, PTL DEF RollingSpec

\* Budgets hold (budget.service.ts, rolling-window-budget.service.ts): in the
\* tree while no lock lapses and no creation races a removal, and in every
\* rolling window while callers keep the contract.
THEOREM BudgetsHeld == TreeSpec /\ RollingSpec => []BudgetsHold
  BY TreeHolds, WindowsHold, PTL DEF BudgetsHold
=============================================================================
