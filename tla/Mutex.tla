-------------------------------- MODULE Mutex --------------------------------
(***************************************************************************)
(* What the lock interceptors promise together: the handlers of one        *)
(* resource run one at a time.                                             *)
(***************************************************************************)
CONSTANTS Procs, Keys, KeyOf, None

VARIABLE holder   \* holder[k]: the process inside the section of k, or None

Init == holder = [k \in Keys |-> None]

Enter(p) ==
    /\ holder[KeyOf[p]] = None
    /\ holder' = [holder EXCEPT ![KeyOf[p]] = p]

Leave(p) ==
    /\ holder[KeyOf[p]] = p
    /\ holder' = [holder EXCEPT ![KeyOf[p]] = None]

Next == \E p \in Procs : Enter(p) \/ Leave(p)

Spec == Init /\ [][Next]_holder
=============================================================================
