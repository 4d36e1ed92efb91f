----------------------------- MODULE MCCheckout -----------------------------
(* The files of one checkout that share nothing, and the lock that each of *)
(* them is changed under, checked side by side: a behaviour is one of      *)
(* `part` alone.                                                           *)
EXTENDS MCFileLock, ExecutionRecords, SessionState

VARIABLE part

MCCheckoutInit ==
    /\ part \in {"lock", "records", "session"}
    /\ MCInit /\ RecordsInit /\ SessionInit
    /\ part # "lock" => lock = NoFile

MCCheckoutNext ==
    /\ part' = part
    /\ \/ /\ part = "lock" /\ MCNext
          /\ UNCHANGED <<recordsVars, sessionVars>>
       \/ /\ part = "records" /\ RecordsNext
          /\ UNCHANGED <<vars, sessionVars>>
       \/ /\ part = "session" /\ SessionNext
          /\ UNCHANGED <<vars, recordsVars>>

MCCheckoutSpec ==
    /\ MCCheckoutInit
    /\ [][MCCheckoutNext]_<<part, vars, recordsVars, sessionVars>>
    /\ SF_vars(part = "lock" /\ Age)
    /\ \A p \in Procs :
          WF_vars(/\ part = "lock"
                  /\ Step(p) \/ Crash(p) \/ \E n \in Least : Creates(p, n))
=============================================================================
