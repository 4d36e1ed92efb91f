---------------------------- MODULE MCControlStore ----------------------------
(* The life of control requests, and the migration of an earlier version's *)
(* mailbox into their store, checked side by side: they work on different   *)
(* files, and a behaviour is one of `part` alone.                           *)
EXTENDS MCControlRequests, ControlStoreMigration

VARIABLE part

MCControlStoreInit ==
    /\ part \in {"requests", "migration"}
    /\ Init /\ MigrationInit
    /\ part = "requests" => /\ mailbox = NoDirectory
                            /\ reference = [r \in Requests |-> "none"]

MCControlStoreNext ==
    /\ part' = part
    /\ \/ part = "requests" /\ MCNext /\ UNCHANGED migrationVars
       \/ part = "migration" /\ MigrationNext /\ UNCHANGED vars

MCControlStoreSpec ==
    MCControlStoreInit /\ [][MCControlStoreNext]_<<part, vars, migrationVars>>

StoreSymmetric == Symmetric \cup Permutations(Requests)
=============================================================================
