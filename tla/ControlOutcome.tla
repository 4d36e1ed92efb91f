--------------------------- MODULE ControlOutcome ---------------------------
(***************************************************************************)
(* What a control request promises the host that waits for it: one outcome *)
(* at most, which never changes; an expired request stays without one; and *)
(* a result, once shown, stays shown until the request is forgotten.       *)
(*                                                                         *)
(* The outcome is committed before it can be shown in full: a host that    *)
(* asks in between (after a crash) sees a request that ended without a     *)
(* result, which may still turn into the delivery of the committed one.    *)
(***************************************************************************)
CONSTANTS Ids, Results

VARIABLES
    shown,      \* what the host is told of each request
    committed   \* the outcome of each request, "none" before

vars == <<shown, committed>>

Init ==
    /\ shown = [r \in Ids |-> "absent"]
    /\ committed = [r \in Ids |-> "none"]

Open(r) ==
    /\ shown[r] = "absent"
    /\ shown' = [shown EXCEPT ![r] = "pending"]
    /\ UNCHANGED committed

(* A request ends plainly, with a failure or with a result                 *)
Commit(r, outcome) ==
    /\ shown[r] = "pending"
    /\ committed' = [committed EXCEPT ![r] = outcome]
    /\ shown' = [shown EXCEPT ![r] =
         IF outcome = "failed" THEN "failed" ELSE "cancelled"]

Publish(r) ==
    /\ shown[r] = "cancelled" /\ committed[r] \in Results
    /\ shown' = [shown EXCEPT ![r] = "delivered"]
    /\ UNCHANGED committed

Expire(R) ==
    /\ R # {} /\ \A r \in R : shown[r] = "pending"
    /\ shown' = [r \in Ids |-> IF r \in R THEN "expired" ELSE shown[r]]
    /\ UNCHANGED committed

Forget(r) ==
    /\ shown[r] \in {"expired", "cancelled", "failed", "delivered"}
    /\ shown' = [shown EXCEPT ![r] = "absent"]
    /\ committed' = [committed EXCEPT ![r] = "none"]

Next ==
    \/ \E r \in Ids : Open(r) \/ Publish(r) \/ Forget(r)
    \/ \E r \in Ids, outcome \in {"cancelled", "failed"} \cup Results :
          Commit(r, outcome)
    \/ \E R \in SUBSET Ids : Expire(R)

Spec == Init /\ [][Next]_vars
=============================================================================
