------------------------------ MODULE FileLock ------------------------------
(***************************************************************************)
(* The file lock of config/paths.ts: withFileLock and withFileLockAsync,   *)
(* which processes that share a state directory use around every change of *)
(* the state in it, and the recovery of a lock whose owner died.           *)
(*                                                                         *)
(* The lock is a file that is created exclusively and then names its       *)
(* owner.  It is abandoned when it is older than staleMs and names no live *)
(* process.  A contender that takes it away first publishes a marker of    *)
(* its own, a file under a random name, which whoever creates the lock has *)
(* to look for before it enters.                                           *)
(*                                                                         *)
(* A step is one file operation, or one look at a file that ends in one.   *)
(* A file is its inode: the inode of a file that is linked or open is not  *)
(* given to another.  A process that gives up or times out is out and may  *)
(* start again; that also stands for its next attempt.                     *)
(***************************************************************************)
EXTENDS Naturals, FiniteSets

CONSTANTS
    Procs,    \* processes (their pids)
    Mortal,   \* those that may die
    Inodes

Nobody == "nobody"     \* the owner of a file that names none
NoInode == 0

ASSUME LockAssumption ==
    /\ Nobody \notin Procs /\ Mortal \subseteq Procs
    /\ Inodes \subseteq Nat \ {NoInode}

VARIABLES
    lock,      \* the lock file in the directory, or NoFile
    markers,   \* the reaper markers in the directory
    pc,        \* where each process is
    own,       \* the inode of the lock it created (its open descriptor)
    mark,      \* the inode of the marker it created
    seen,      \* the inode of the lock it found abandoned
    todo,      \* the markers it has still to look at
    found      \* whether one of them was active

vars == <<lock, markers, pc, own, mark, seen, todo, found>>

File == [inode: Inodes, owner: Procs \cup {Nobody}, old: BOOLEAN]
NoFile == [inode |-> NoInode, owner |-> Nobody, old |-> FALSE]
Empty(n) == [inode |-> n, owner |-> Nobody, old |-> FALSE]

(* A process that is dead stays dead: its pid is not given to another      *)
Alive(p) == p \in Procs /\ pc[p] # "dead"

(* Faults: the age alone decides; a file that names nobody is taken for    *)
(* one that is about to be written                                         *)
AbandonedByAge(f) == f.old
AbandonedIfNamed(f) == f.old /\ f.owner \in Procs /\ ~Alive(f.owner)

Abandoned(f) == f.old /\ ~Alive(f.owner)

InUse == {lock.inode} \cup {f.inode : f \in markers}
         \cup UNION {{own[p], mark[p], seen[p]} \cup todo[p] : p \in Procs}

-----------------------------------------------------------------------------

(* The directory is new, or the lock was left behind by a process that     *)
(* died before                                                             *)
Init ==
    /\ lock \in {NoFile} \cup {[inode |-> n, owner |-> Nobody, old |-> TRUE] : n \in Inodes}
    /\ markers = {}
    /\ pc = [p \in Procs |-> "out"]
    /\ own = [p \in Procs |-> NoInode]
    /\ mark = [p \in Procs |-> NoInode]
    /\ seen = [p \in Procs |-> NoInode]
    /\ todo = [p \in Procs |-> {}]
    /\ found = [p \in Procs |-> FALSE]

Goto(p, from, to) == pc[p] = from /\ pc' = [pc EXCEPT ![p] = to]

(* activeReaperExists lists the markers ...                                *)
List(p, from, to) ==
    /\ Goto(p, from, to)
    /\ todo' = [todo EXCEPT ![p] = {f.inode : f \in markers}]
    /\ found' = [found EXCEPT ![p] = FALSE]
    /\ UNCHANGED <<lock, markers, own, mark, seen>>

(* ... and looks at one after the other: one that is gone is skipped, one  *)
(* that is abandoned removed, any other is active.                         *)
LookAt(p, n) ==
    /\ pc[p] \in {"look", "check"} /\ n \in todo[p]
    /\ todo' = [todo EXCEPT ![p] = @ \ {n}]
    /\ markers' = {f \in markers : ~(f.inode = n /\ Abandoned(f))}
    /\ found' = [found EXCEPT ![p] =
                   @ \/ \E f \in markers : f.inode = n /\ ~Abandoned(f)]
    /\ UNCHANGED <<lock, pc, own, mark, seen>>

(* Fault: the markers are looked at before the lock is created only        *)
LookedOnce(p, from, to, otherwise) ==
    /\ todo[p] = {}
    /\ Goto(p, from, IF found[p] /\ from = "look" THEN otherwise ELSE to)
    /\ found' = [found EXCEPT ![p] = FALSE]
    /\ UNCHANGED <<lock, markers, own, mark, seen, todo>>

Looked(p, from, to, otherwise) ==
    /\ todo[p] = {}
    /\ Goto(p, from, IF found[p] THEN otherwise ELSE to)
    /\ found' = [found EXCEPT ![p] = FALSE]
    /\ UNCHANGED <<lock, markers, own, mark, seen, todo>>

(* createOwnedLock: an exclusive creation, then the owner's pid            *)
Create(p, n) ==
    /\ lock = NoFile /\ n \notin InUse
    /\ Goto(p, "create", "write")
    /\ lock' = Empty(n)
    /\ own' = [own EXCEPT ![p] = n]
    /\ UNCHANGED <<markers, mark, seen, todo, found>>

(* Fault: written by name                                                  *)
OwnedByName(f, p, n) == [f EXCEPT !.owner = p, !.old = FALSE]

(* Written through the descriptor: the file may be unlinked already        *)
Owned(f, p, n) == IF f.inode = n THEN [f EXCEPT !.owner = p, !.old = FALSE] ELSE f

Write(p) ==
    /\ Goto(p, "write", "list")
    /\ lock' = Owned(lock, p, own[p])
    /\ UNCHANGED <<markers, own, mark, seen, todo, found>>

(* ownedLockIsPublished *)
Enter(p) ==
    /\ Goto(p, "published", IF lock.inode = own[p] THEN "in" ELSE "leave")
    /\ UNCHANGED <<lock, markers, own, mark, seen, todo, found>>

(* The action ends, or the candidate is given up: releaseOwnedLock         *)
Leave(p) ==
    /\ pc[p] \in {"in", "leave"}
    /\ pc' = [pc EXCEPT ![p] = IF lock.inode = own[p] THEN "unlink" ELSE "out"]
    /\ own' = [own EXCEPT ![p] = IF lock.inode = @ THEN @ ELSE NoInode]
    /\ UNCHANGED <<lock, markers, mark, seen, todo, found>>

Unlink(p) ==
    /\ Goto(p, "unlink", "out")
    /\ lock' = NoFile
    /\ own' = [own EXCEPT ![p] = NoInode]
    /\ UNCHANGED <<markers, mark, seen, todo, found>>

(* The lock exists: removeAbandonedLock publishes a marker, ...            *)
Exists(p) ==
    /\ lock # NoFile
    /\ Goto(p, "create", "reap")
    /\ UNCHANGED <<lock, markers, own, mark, seen, todo, found>>

CreateMarker(p, n) ==
    /\ n \notin InUse
    /\ Goto(p, "reap", "writeMarker")
    /\ markers' = markers \cup {Empty(n)}
    /\ mark' = [mark EXCEPT ![p] = n]
    /\ UNCHANGED <<lock, own, seen, todo, found>>

WriteMarker(p) ==
    /\ Goto(p, "writeMarker", "open")
    /\ markers' = {Owned(f, p, mark[p]) : f \in markers}
    /\ UNCHANGED <<lock, own, mark, seen, todo, found>>

(* ... looks whether the lock is abandoned, ...                            *)
Judge(p) ==
    /\ Goto(p, "open", IF lock # NoFile /\ Abandoned(lock) THEN "compare" ELSE "done")
    /\ seen' = [seen EXCEPT ![p] =
                  IF lock # NoFile /\ Abandoned(lock) THEN lock.inode ELSE NoInode]
    /\ UNCHANGED <<lock, markers, own, mark, todo, found>>

(* ... whether it is still the same file, ...                              *)
Compare(p) ==
    /\ Goto(p, "compare", IF lock.inode = seen[p] THEN "reapUnlink" ELSE "done")
    /\ UNCHANGED <<lock, markers, own, mark, seen, todo, found>>

(* ... and unlinks whatever file then has the lock's name.                 *)
ReapUnlink(p) ==
    /\ Goto(p, "reapUnlink", "done")
    /\ lock' = NoFile
    /\ UNCHANGED <<markers, own, mark, seen, todo, found>>

Done(p) ==
    /\ Goto(p, "done", "out")
    /\ markers' = {f \in markers : f.inode # mark[p]}
    /\ mark' = [mark EXCEPT ![p] = NoInode]
    /\ seen' = [seen EXCEPT ![p] = NoInode]
    /\ UNCHANGED <<lock, own, todo, found>>

(* The process dies: its descriptors are closed, its files stay            *)
Crash(p) ==
    /\ p \in Mortal /\ pc[p] # "dead"
    /\ pc' = [pc EXCEPT ![p] = "dead"]
    /\ own' = [own EXCEPT ![p] = NoInode]
    /\ mark' = [mark EXCEPT ![p] = NoInode]
    /\ seen' = [seen EXCEPT ![p] = NoInode]
    /\ todo' = [todo EXCEPT ![p] = {}]
    /\ found' = [found EXCEPT ![p] = FALSE]
    /\ UNCHANGED <<lock, markers>>

(* Nobody stalls for staleMs before it has named itself in a file that it  *)
(* created: its file would be taken for abandoned.                         *)
Prompt == \A p \in Procs : pc[p] \notin {"write", "writeMarker"}

(* More than staleMs pass                                                  *)
Age ==
    /\ Prompt
    /\ lock' = IF lock = NoFile THEN lock ELSE [lock EXCEPT !.old = TRUE]
    /\ markers' = {[f EXCEPT !.old = TRUE] : f \in markers}
    /\ UNCHANGED <<pc, own, mark, seen, todo, found>>

Step(p) ==
    \/ List(p, "out", "look") \/ Looked(p, "look", "create", "out")
    \/ Write(p)
    \/ List(p, "list", "check") \/ Looked(p, "check", "published", "leave")
    \/ \E n \in todo[p] : LookAt(p, n)
    \/ Enter(p) \/ Leave(p) \/ Unlink(p)
    \/ Exists(p) \/ WriteMarker(p) \/ Judge(p) \/ Compare(p)
    \/ ReapUnlink(p) \/ Done(p)

Creates(p, n) == Create(p, n) \/ CreateMarker(p, n)

Next ==
    \/ \E p \in Procs : Step(p) \/ Crash(p) \/ \E n \in Inodes : Creates(p, n)
    \/ Age

Spec == Init /\ [][Next]_vars

(* Nobody has died before, and (with Mortal = {}) nobody does              *)
HealthySpec == Init /\ lock = NoFile /\ [][Next]_vars

(* Time passes, and a process goes on until it dies: whoever lives keeps   *)
(* asking for the lock                                                     *)
FairSpec ==
    /\ Spec /\ SF_vars(Age)
    /\ \A p \in Procs :
          WF_vars(Step(p) \/ Crash(p) \/ \E n \in Inodes : Creates(p, n))
-----------------------------------------------------------------------------
(* Properties *)

(* The files and the processes are where the code can put them.            *)
TypeOK ==
    /\ lock \in File \cup {NoFile}
    /\ markers \subseteq File
    /\ pc \in [Procs -> {"out", "look", "create", "write", "list", "check",
                         "published", "in", "leave", "unlink", "reap",
                         "writeMarker", "open", "compare", "reapUnlink",
                         "done", "dead"}]
    /\ own \in [Procs -> Inodes \cup {NoInode}]
    /\ mark \in [Procs -> Inodes \cup {NoInode}]
    /\ seen \in [Procs -> Inodes \cup {NoInode}]
    /\ todo \in [Procs -> SUBSET Inodes]
    /\ found \in [Procs -> BOOLEAN]

(* Two processes are never in their actions at once: whatever recovery is  *)
(* under way, and whoever died during it, state changes are serialized.    *)
MutualExclusion ==
    \A p, q \in Procs : pc[p] = "in" /\ pc[q] = "in" => p = q

(* What the marker is for: a reaper never takes away the lock of a process *)
(* that is in its action, though it unlinks by name.                       *)
ReaperSparesHolder ==
    \A p, q \in Procs :
       pc[p] = "in" /\ pc[q] = "reapUnlink" => lock.inode # own[p]

(* A process in its action is protected by a lock file that names it, so   *)
(* that the lock is not taken away from it while it is alive.              *)
LockNamesHolder ==
    \A p \in Procs : pc[p] = "in" => lock.inode = own[p] /\ lock.owner = p

(* A lock left by a dead process does not stay: as long as somebody who    *)
(* does not die asks for it, it is taken away.                             *)
AbandonedIsRecovered ==
    \A n \in Inodes :
       lock.inode = n /\ ~Alive(lock.owner) ~> lock.inode # n \/ Alive(lock.owner)
=============================================================================
