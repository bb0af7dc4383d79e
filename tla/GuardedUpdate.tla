---------------------------- MODULE GuardedUpdate ----------------------------
(***************************************************************************)
(* What execute() and cancel() of TransactionService rely on when they      *)
(* change a status inside runWithRetry: each call takes effect once, at one *)
(* moment at which its guard holds, or not at all.                          *)
(***************************************************************************)
CONSTANTS Updates, InitialStatus,
          Admits,    \* Admits[u]: the statuses that call u accepts
          Target     \* Target[u]: the status that it writes

VARIABLES status, outcome

guardedVars == <<status, outcome>>

GuardedInit ==
  /\ status = InitialStatus
  /\ outcome = [u \in Updates |-> "open"]

Apply(u) ==
  /\ outcome[u] = "open"
  /\ status \in Admits[u]
  /\ status' = Target[u]
  /\ outcome' = [outcome EXCEPT ![u] = "applied"]

Refuse(u) ==
  /\ outcome[u] = "open"
  /\ status \notin Admits[u]
  /\ outcome' = [outcome EXCEPT ![u] = "refused"]
  /\ UNCHANGED status

Fail(u) ==
  /\ outcome[u] = "open"
  /\ outcome' = [outcome EXCEPT ![u] = "failed"]
  /\ UNCHANGED status

GuardedNext == \E u \in Updates : Apply(u) \/ Refuse(u) \/ Fail(u)

GuardedSpec == GuardedInit /\ [][GuardedNext]_guardedVars
==============================================================================
