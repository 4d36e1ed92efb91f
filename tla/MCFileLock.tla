----------------------------- MODULE MCFileLock -----------------------------
(* FileLock for TLC: a new file takes the least free inode.                *)
EXTENDS FileLock, TLC

Least == {n \in Inodes \ InUse : \A m \in Inodes \ InUse : n <= m}

MCNext ==
    \/ \E p \in Procs : Step(p) \/ Crash(p) \/ \E n \in Least : Creates(p, n)
    \/ Age

MCInit == Init /\ lock.inode \in {NoInode, 1}

Symmetric == Permutations(Procs)

MCSpec == MCInit /\ [][MCNext]_vars

MCFairSpec ==
    /\ MCSpec /\ SF_vars(Age)
    /\ \A p \in Procs :
          WF_vars(Step(p) \/ Crash(p) \/ \E n \in Least : Creates(p, n))
=============================================================================
