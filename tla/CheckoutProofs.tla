--------------------------- MODULE CheckoutProofs ---------------------------
(***************************************************************************)
(* The files of one checkout, for any number of processes and sessions.    *)
(*                                                                         *)
(* The file lock: its types, and, when no process has died, that two of    *)
(* them are never in their actions at once and that no lock is taken away, *)
(* however long an action takes; whoever dies, that a reaper spares the    *)
(* lock of a process in its action.  The session files and the execution   *)
(* records, which are written under it: what is read of them stays right   *)
(* wherever a process dies.                                                *)
(***************************************************************************)
EXTENDS FileLock, ExecutionRecords, SessionState,
        FiniteSetTheorems, SequenceTheorems, TLAPS

-----------------------------------------------------------------------------
(* The file lock                                                           *)

Holding == {"write", "list", "check", "published", "in", "leave", "unlink"}

(* The lock file is the one that its owner has open, ...                   *)
Linked == \A p \in Procs : own[p] # NoInode => lock.inode = own[p]

(* ... there is one owner, ...                                             *)
Single == \A p, q \in Procs : own[p] = own[q] /\ own[p] # NoInode => p = q

(* ... who has created the lock and not removed it yet, ...                *)
Held == \A p \in Procs : pc[p] \in Holding => own[p] \in Inodes

(* ... has named itself in it, ...                                         *)
Signed == \A p \in Procs : pc[p] \in Holding \ {"write"} => lock.owner = p

(* ... and has done so before the file can look old.                       *)
Named ==
    /\ lock.old => lock.owner \in Procs
    /\ lock # NoFile /\ lock.owner = Nobody => \E p \in Procs : pc[p] = "write"

(* Nobody dies, and nobody is about to take a lock away.                   *)
Lively == \A p \in Procs : pc[p] \notin {"dead", "compare", "reapUnlink"}

(* A process that names itself in a file has one to write to.              *)
TypeInv == TypeOK /\ Held

HealthyInv == TypeInv /\ Linked /\ Single /\ Signed /\ Named /\ Lively

-----------------------------------------------------------------------------
(* Types                                                                   *)


(* A file that a process names itself in is a file.                        *)
LEMMA OwnedType ==
    ASSUME NEW p \in Procs, NEW n, NEW f \in File
    PROVE  Owned(f, p, n) \in File
  BY DEF Owned, File

(* The step of one process, as far as it changes where that process is.    *)
LEMMA StepTyped ==
    ASSUME TypeInv, NEW p \in Procs, Step(p)
    PROVE  TypeInv'
  <1>1. CASE List(p, "out", "look")
    BY <1>1, LockAssumption DEF TypeInv, TypeOK, Held, Holding, File, NoFile, NoInode, Nobody, List, Goto
  <1>2. CASE Looked(p, "look", "create", "out")
    BY <1>2, LockAssumption DEF TypeInv, TypeOK, Held, Holding, File, NoFile, NoInode, Nobody, Looked, Goto
  <1>3. CASE Write(p)
    BY <1>3, LockAssumption DEF TypeInv, TypeOK, Held, Holding, File, NoFile, NoInode, Nobody, Write, Goto, Owned
  <1>4. CASE List(p, "list", "check")
    BY <1>4, LockAssumption DEF TypeInv, TypeOK, Held, Holding, File, NoFile, NoInode, Nobody, List, Goto
  <1>5. CASE Looked(p, "check", "published", "leave")
    BY <1>5, LockAssumption DEF TypeInv, TypeOK, Held, Holding, File, NoFile, NoInode, Nobody, Looked, Goto
  <1>6. CASE Enter(p)
    BY <1>6, LockAssumption DEF TypeInv, TypeOK, Held, Holding, File, NoFile, NoInode, Nobody, Enter, Goto
  <1>7. CASE Leave(p)
    BY <1>7, LockAssumption DEF TypeInv, TypeOK, Held, Holding, File, NoFile, NoInode, Nobody, Leave
  <1>8. CASE Unlink(p)
    BY <1>8, LockAssumption DEF TypeInv, TypeOK, Held, Holding, File, NoFile, NoInode, Nobody, Unlink, Goto
  <1>9. CASE Exists(p)
    BY <1>9, LockAssumption DEF TypeInv, TypeOK, Held, Holding, File, NoFile, NoInode, Nobody, Exists, Goto
  <1>10. CASE WriteMarker(p)
    <2>1. markers' \subseteq File
      <3>1. \A f \in markers : Owned(f, p, mark[p]) \in File
        BY OwnedType DEF TypeInv, TypeOK
      <3> QED  BY <1>10, <3>1 DEF WriteMarker
    <2> QED  BY <1>10, <2>1 DEF TypeInv, TypeOK, Held, Holding, WriteMarker, Goto
  <1>11. CASE Judge(p)
    BY <1>11, LockAssumption DEF TypeInv, TypeOK, Held, Holding, File, NoFile, NoInode, Nobody, Judge, Goto
  <1>12. CASE Compare(p)
    BY <1>12, LockAssumption DEF TypeInv, TypeOK, Held, Holding, File, NoFile, NoInode, Nobody, Compare, Goto
  <1>13. CASE ReapUnlink(p)
    BY <1>13, LockAssumption DEF TypeInv, TypeOK, Held, Holding, File, NoFile, NoInode, Nobody, ReapUnlink, Goto
  <1>14. CASE Done(p)
    BY <1>14, LockAssumption DEF TypeInv, TypeOK, Held, Holding, File, NoFile, NoInode, Nobody, Done, Goto
  <1>15. CASE \E n \in todo[p] : LookAt(p, n)
    BY <1>15, LockAssumption DEF TypeInv, TypeOK, Held, Holding, LookAt
  <1> QED  BY <1>1, <1>2, <1>3, <1>4, <1>5, <1>6, <1>7, <1>8, <1>9, <1>10, <1>11, <1>12, <1>13, <1>14, <1>15 DEF Step

(* A process that creates a file or dies.                                  *)
LEMMA CreatesTyped ==
    ASSUME TypeInv, NEW p \in Procs, Crash(p) \/ \E n \in Inodes : Creates(p, n)
    PROVE  TypeInv'
  <1>1. CASE Crash(p)
    BY <1>1 DEF TypeInv, TypeOK, Held, Holding, Crash
  <1>2. CASE \E n \in Inodes : Create(p, n)
    BY <1>2 DEF TypeInv, TypeOK, Held, Holding, Create, Goto, Empty, File, Nobody
  <1>3. CASE \E n \in Inodes : CreateMarker(p, n)
    <2> PICK n \in Inodes : CreateMarker(p, n)
      BY <1>3
    <2>1. Empty(n) \in File
      BY DEF Empty, File
    <2>2. markers' \subseteq File
      BY <2>1 DEF CreateMarker, TypeInv, TypeOK
    <2> QED  BY <2>2 DEF TypeInv, TypeOK, Held, Holding, CreateMarker, Goto
  <1> QED  BY <1>1, <1>2, <1>3 DEF Creates

(* Every step of the specification.                                        *)
LEMMA TypePreserved == TypeInv /\ [Next]_vars => TypeInv'
  <1> SUFFICES ASSUME TypeInv, [Next]_vars PROVE TypeInv'
    OBVIOUS
  <1>1. CASE Age
    <2>1. markers' \subseteq File
      <3>1. \A f \in markers : [f EXCEPT !.old = TRUE] \in File
        BY DEF TypeInv, TypeOK, File
      <3> QED  BY <1>1, <3>1 DEF Age
    <2>2. lock' \in File \cup {NoFile}
      BY <1>1 DEF TypeInv, TypeOK, Age, File
    <2> QED  BY <1>1, <2>1, <2>2 DEF TypeInv, TypeOK, Held, Age
  <1>2. CASE UNCHANGED vars
    BY <1>2 DEF TypeInv, TypeOK, Held, vars
  <1> QED  BY <1>1, <1>2, StepTyped, CreatesTyped DEF Next

(* The directory is new or holds an abandoned lock.                        *)
LEMMA InitTyped == Init => TypeInv
  <1> SUFFICES ASSUME Init PROVE TypeInv
    OBVIOUS
  <1>1. CASE lock # NoFile
    <2> PICK n \in Inodes : lock = [inode |-> n, owner |-> Nobody, old |-> TRUE]
      BY <1>1 DEF Init
    <2>1. lock \in File
      BY DEF File
    <2> QED  BY <2>1 DEF Init, TypeInv, TypeOK, Held, Holding
  <1>2. CASE lock = NoFile
    BY <1>2 DEF Init, TypeInv, TypeOK, Held, Holding
  <1> QED  BY <1>1, <1>2

(* Whatever dies and whatever is recovered, the lock file and the markers  *)
(* are files that name a process or nobody, and each process is at one of  *)
(* the places of the code.                                                 *)
THEOREM Typed == Spec => []TypeOK
  <1>1. Init => TypeInv
    BY InitTyped
  <1>2. TypeInv => TypeOK
    BY DEF TypeInv
  <1> QED  BY <1>1, <1>2, TypePreserved, PTL DEF Spec

-----------------------------------------------------------------------------
(* Nobody dies *)

(* A lock that a live process has created is not abandoned.                *)
LEMMA NotAbandoned ==
    ASSUME HealthyInv
    PROVE  ~Abandoned(lock)
  BY LockAssumption DEF HealthyInv, TypeInv, TypeOK, Named, Lively, Abandoned, Alive

(* Whoever has the lock open is the only one, and it is the lock.          *)
LEMMA OwnsLock ==
    ASSUME HealthyInv, NEW p \in Procs, pc[p] \in Holding
    PROVE  /\ own[p] # NoInode /\ lock.inode = own[p] /\ lock \in File
           /\ \A q \in Procs : own[q] # NoInode => q = p
           /\ \A q \in Procs : pc[q] \in Holding => q = p
  <1>1. \A q \in Procs : pc[q] \in Holding => own[q] # NoInode
    BY LockAssumption DEF HealthyInv, TypeInv, Held
  <1>2. \A q \in Procs : own[q] # NoInode => lock.inode = own[q] /\ q = p
    BY <1>1 DEF HealthyInv, Linked, Single
  <1>3. lock # NoFile
    BY <1>1, <1>2 DEF NoFile
  <1> QED  BY <1>1, <1>2, <1>3 DEF HealthyInv, TypeInv, TypeOK

(* The steps that leave the lock and its owners alone.                     *)
LEMMA LockUntouched ==
    ASSUME HealthyInv, TypeInv', UNCHANGED <<lock, own>>,
           Lively',
           \A p \in Procs : pc'[p] \in Holding \ {"write"} => pc[p] \in Holding \ {"write"},
           \A p \in Procs : pc[p] = "write" => pc'[p] = "write"
    PROVE  HealthyInv'
  BY DEF HealthyInv, Linked, Single, Held, Signed, Named

(* The step of one process: only its own changes the lock.                 *)
LEMMA StepHealthy ==
    ASSUME HealthyInv, NEW p \in Procs, Step(p)
    PROVE  HealthyInv'
  <1> USE DEF Lively, Holding
  <1>0. TypeInv'
    BY StepTyped DEF HealthyInv
  <1>1. CASE List(p, "out", "look")
    BY <1>0, <1>1, LockUntouched DEF HealthyInv, TypeInv, TypeOK, List, Goto
  <1>2. CASE Looked(p, "look", "create", "out")
    BY <1>0, <1>2, LockUntouched DEF HealthyInv, TypeInv, TypeOK, Looked, Goto
  <1>3. CASE List(p, "list", "check")
    BY <1>0, <1>3, LockUntouched DEF HealthyInv, TypeInv, TypeOK, List, Goto
  <1>4. CASE Looked(p, "check", "published", "leave")
    BY <1>0, <1>4, LockUntouched DEF HealthyInv, TypeInv, TypeOK, Looked, Goto
  <1>5. CASE Enter(p)
    BY <1>0, <1>5, LockUntouched DEF HealthyInv, TypeInv, TypeOK, Enter, Goto
  <1>6. CASE Exists(p)
    BY <1>0, <1>6, LockUntouched DEF HealthyInv, TypeInv, TypeOK, Exists, Goto
  <1>7. CASE WriteMarker(p)
    BY <1>0, <1>7, LockUntouched DEF HealthyInv, TypeInv, TypeOK, WriteMarker, Goto
  <1>8. CASE Done(p)
    BY <1>0, <1>8, LockUntouched DEF HealthyInv, TypeInv, TypeOK, Done, Goto
  <1>9. CASE Judge(p)
    BY <1>0, <1>9, NotAbandoned, LockUntouched DEF HealthyInv, TypeInv, TypeOK, Judge, Goto
  <1>10. CASE \E n \in todo[p] : LookAt(p, n)
    BY <1>0, <1>10, LockUntouched DEF HealthyInv, TypeInv, TypeOK, LookAt
  <1>11. CASE Leave(p)
    BY <1>0, <1>11, LockUntouched, LockAssumption DEF HealthyInv, TypeInv, TypeOK, Held, Linked, Leave
  <1>12. CASE Write(p)
    <2>1. lock.inode = own[p] /\ lock \in File
      BY <1>12, OwnsLock DEF Write, Goto
    <2>2. lock'.inode = lock.inode /\ lock'.owner = p /\ ~lock'.old
      BY <1>12, <2>1 DEF Write, Owned, File
    <2>3. \A q \in Procs : pc[q] \in Holding => q = p
      BY <1>12, OwnsLock DEF Write, Goto
    <2>4. UNCHANGED own /\ Goto(p, "write", "list")
      BY <1>12 DEF Write
    <2>5. Linked' /\ Single'
      BY <2>2, <2>4 DEF HealthyInv, Linked, Single
    <2>6. Signed' /\ Lively'
      BY <2>2, <2>3, <2>4 DEF HealthyInv, TypeInv, TypeOK, Signed, Goto
    <2>7. Named'
      BY <2>2, LockAssumption DEF Named
    <2> QED  BY <1>0, <2>5, <2>6, <2>7 DEF HealthyInv
  <1>13. CASE Unlink(p)
    <2>1. \A q \in Procs : own'[q] = NoInode /\ pc'[q] \notin Holding
      BY <1>13, OwnsLock DEF HealthyInv, TypeInv, TypeOK, Unlink, Goto
    <2>2. Named' /\ Lively'
      BY <1>13 DEF HealthyInv, TypeInv, TypeOK, Named, Unlink, Goto, NoFile
    <2> QED  BY <1>0, <2>1, <2>2 DEF HealthyInv, Linked, Single, Signed
  <1>14. CASE Compare(p) \/ ReapUnlink(p)
    BY <1>14 DEF HealthyInv, Compare, ReapUnlink, Goto
  <1> QED  BY <1>1, <1>2, <1>3, <1>4, <1>5, <1>6, <1>7, <1>8, <1>9, <1>10, <1>11, <1>12, <1>13, <1>14 DEF Step

(* A process that creates a file: a lock only where there is none.         *)
LEMMA CreatesHealthy ==
    ASSUME HealthyInv, NEW p \in Procs, NEW n \in Inodes, Creates(p, n)
    PROVE  HealthyInv'
  <1> USE DEF Lively, Holding
  <1>0. TypeInv'
    BY CreatesTyped DEF HealthyInv
  <1>1. CASE CreateMarker(p, n)
    BY <1>0, <1>1, LockUntouched DEF HealthyInv, TypeInv, TypeOK, CreateMarker, Goto
  <1>2. CASE Create(p, n)
    <2>1. \A q \in Procs : own[q] = NoInode
      BY <1>2 DEF HealthyInv, Linked, Create, NoFile
    <2> QED  BY <1>0, <1>2, <2>1, LockAssumption
             DEF HealthyInv, TypeInv, TypeOK, Held, Linked, Single, Signed, Named, Create, Goto, Empty, NoFile
  <1> QED  BY <1>1, <1>2 DEF Creates

(* Time: a lock can look old only when nobody is about to write its pid.   *)
LEMMA AgeHealthy ==
    ASSUME HealthyInv, Age
    PROVE  HealthyInv'
  <1>1. TypeInv'
    BY TypePreserved DEF HealthyInv, Next
  <1>2. lock'.inode = lock.inode /\ lock'.owner = lock.owner
    BY DEF Age, HealthyInv, TypeInv, TypeOK, File
  <1>3. lock = NoFile => lock' = NoFile
    BY DEF Age
  <1>4. Named'
    BY <1>2, <1>3 DEF HealthyInv, TypeInv, TypeOK, File, Named, Prompt, Age, NoFile
  <1> QED  BY <1>1, <1>2, <1>4 DEF HealthyInv, Linked, Single, Signed, Lively, Age

(* As long as no process dies, two processes are never in their actions at *)
(* once, however many contend for the lock and however long actions take,  *)
(* and each is protected by a lock file that names it.                     *)
THEOREM Serialized ==
    ASSUME Mortal = {}
    PROVE  HealthySpec => [](MutualExclusion /\ LockNamesHolder)
  <1>1. Init /\ lock = NoFile => HealthyInv
    <2> SUFFICES ASSUME Init, lock = NoFile PROVE HealthyInv
      OBVIOUS
    <2>1. TypeInv
      BY InitTyped
    <2> QED  BY <2>1 DEF Init, HealthyInv, Linked, Single, Signed, Named, Lively, Holding, NoFile
  <1>2. HealthyInv /\ [Next]_vars => HealthyInv'
    <2> SUFFICES ASSUME HealthyInv, [Next]_vars PROVE HealthyInv'
      OBVIOUS
    <2>1. CASE UNCHANGED vars
      BY <2>1 DEF vars, HealthyInv, TypeInv, TypeOK, Held, Linked, Single, Signed, Named, Lively
    <2>2. \A p \in Procs : ~Crash(p)
      BY DEF Crash
    <2> QED  BY <2>1, <2>2, StepHealthy, CreatesHealthy, AgeHealthy DEF Next
  <1>3. HealthyInv => MutualExclusion /\ LockNamesHolder
    BY LockAssumption
    DEF HealthyInv, TypeInv, Held, Linked, Single, Signed, Holding, MutualExclusion, LockNamesHolder
  <1> QED  BY <1>1, <1>2, <1>3, PTL DEF HealthySpec

-----------------------------------------------------------------------------
(* Whoever dies                                                            *)

(* A process that has a lock file open is at work with it, and nobody else *)
(* has it open, ...                                                        *)
Owners ==
    /\ \A p \in Procs : own[p] # NoInode => pc[p] \in Holding
    /\ \A p, q \in Procs : own[p] # NoInode /\ own[p] = own[q] => p = q

(* ... if the file is still the lock, it is named before it is old, ...    *)
Signs ==
    \A p \in Procs :
       own[p] # NoInode /\ lock.inode = own[p] =>
          IF pc[p] = "write" THEN ~lock.old ELSE lock.owner = p

(* ... so that nobody has found it abandoned.                              *)
Unseen == \A p, q \in Procs : seen[q] # NoInode => own[p] # seen[q]

(* A reaper has a marker of its own, which is not taken for abandoned, ... *)
Judging == {"open", "compare", "reapUnlink"}
Distinct == \A p, q \in Procs : mark[p] # NoInode /\ mark[p] = mark[q] => p = q
Marked ==
    \A q \in Procs :
       /\ pc[q] \in Judging \cup {"writeMarker"} => mark[q] # NoInode
       /\ pc[q] \in Judging => \E f \in markers : f.inode = mark[q] /\ f.owner = q
       /\ pc[q] = "writeMarker" => \E f \in markers : f.inode = mark[q] /\ ~f.old
       /\ pc[q] = "compare" => seen[q] # NoInode

(* ... so that who creates the lock while it is about to unlink finds it.  *)
Spared ==
    \A p, q \in Procs :
       pc[q] = "reapUnlink" /\ own[p] # NoInode /\ lock.inode = own[p] =>
          /\ pc[p] \notin {"published", "in"}
          /\ pc[p] = "check" => found[p] \/ mark[q] \in todo[p]

ReaperIInv ==
    TypeInv /\ Owners /\ Signs /\ Unseen /\ Distinct /\ Marked /\ Spared

LEMMA ReaperTypes ==
    ASSUME ReaperIInv
    PROVE  /\ TypeOK /\ Held /\ Owners /\ Signs /\ Unseen /\ Distinct /\ Marked /\ Spared
           /\ NoInode \notin Inodes /\ Nobody \notin Procs
BY LockAssumption DEF ReaperIInv, TypeInv, NoInode

(* A process that goes on without a change of the files, and does not      *)
(* become one that has found the lock abandoned.                           *)
LEMMA MovesKeep ==
    ASSUME ReaperIInv, TypeInv', NEW p \in Procs, NEW x, pc' = [pc EXCEPT ![p] = x],
           UNCHANGED <<lock, markers, own, mark, seen>>,
           own[p] # NoInode => x \in Holding,
           x = "write" <=> pc[p] = "write",
           x \in {"open", "compare", "writeMarker"} => pc[p] = x,
           x = "reapUnlink" => pc[p] = "compare",
           Spared'
    PROVE  ReaperIInv'
<1>1. /\ pc'[p] = x /\ \A q \in Procs : q # p => pc'[q] = pc[q]
      /\ lock' = lock /\ markers' = markers /\ own' = own /\ mark' = mark /\ seen' = seen
  BY ReaperTypes DEF TypeOK
<1>2. Owners'
  BY <1>1, ReaperTypes DEF Owners
<1>3. Signs' /\ Unseen' /\ Distinct'
  BY <1>1, ReaperTypes DEF Signs, Unseen, Distinct
<1>4. Marked'
  <2>1. ASSUME NEW q \in Procs, q # p
        PROVE  /\ pc'[q] \in Judging \cup {"writeMarker"} => mark'[q] # NoInode
               /\ pc'[q] \in Judging => \E f \in markers' : f.inode = mark'[q] /\ f.owner = q
               /\ pc'[q] = "writeMarker" => \E f \in markers' : f.inode = mark'[q] /\ ~f.old
               /\ pc'[q] = "compare" => seen'[q] # NoInode
    BY <1>1, <2>1, ReaperTypes DEF Marked
  <2>2. /\ pc'[p] \in Judging \cup {"writeMarker"} => mark'[p] # NoInode
        /\ pc'[p] \in Judging => \E f \in markers' : f.inode = mark'[p] /\ f.owner = p
        /\ pc'[p] = "writeMarker" => \E f \in markers' : f.inode = mark'[p] /\ ~f.old
        /\ pc'[p] = "compare" => seen'[p] # NoInode
    BY <1>1, ReaperTypes DEF Marked, Judging
  <2> QED BY <2>1, <2>2 DEF Marked
<1> QED BY <1>2, <1>3, <1>4 DEF ReaperIInv

(* Spared is of the processes that hold the lock and those that unlink it. *)
LEMMA SparedKept ==
    ASSUME ReaperIInv, NEW p \in Procs, pc'[p] \notin {"reapUnlink", "check", "published", "in"},
           lock' = lock, own' = own,
           \A q \in Procs : q # p => /\ pc'[q] = pc[q] /\ found'[q] = found[q]
                                     /\ todo'[q] = todo[q] /\ mark'[q] = mark[q]
    PROVE  Spared'
BY ReaperTypes DEF Spared

LEMMA ListKeeps ==
    ASSUME ReaperIInv, NEW p \in Procs,
           List(p, "out", "look") \/ List(p, "list", "check")
    PROVE  ReaperIInv'
<1>0. TypeInv'
  BY StepTyped DEF ReaperIInv, Step
<1>1. /\ UNCHANGED <<lock, markers, own, mark, seen>>
      /\ found' = [found EXCEPT ![p] = FALSE]
      /\ todo' = [todo EXCEPT ![p] = {f.inode : f \in markers}]
  BY DEF List
<1>2. CASE pc[p] = "out" /\ pc' = [pc EXCEPT ![p] = "look"]
  <2>1. own[p] = NoInode
    BY <1>2, ReaperTypes DEF Owners, Holding
  <2>2. Spared'
    BY <1>1, <1>2, <2>1, ReaperTypes DEF Spared, TypeOK
  <2> QED BY <1>0, <1>1, <1>2, <2>1, <2>2, MovesKeep
<1>3. CASE pc[p] = "list" /\ pc' = [pc EXCEPT ![p] = "check"]
  <2>1. Spared'
    <3> SUFFICES ASSUME NEW a \in Procs, NEW q \in Procs, pc'[q] = "reapUnlink",
                        own'[a] # NoInode, lock'.inode = own'[a]
                 PROVE  /\ pc'[a] \notin {"published", "in"}
                        /\ pc'[a] = "check" => found'[a] \/ mark'[q] \in todo'[a]
      BY DEF Spared
    <3>1. q # p /\ pc[q] = "reapUnlink"
      BY <1>3, ReaperTypes DEF TypeOK
    <3>2. CASE a # p
      BY <1>1, <1>3, <3>1, <3>2, ReaperTypes DEF Spared, TypeOK
    <3>3. CASE a = p
      <4>1. PICK f \in markers : f.inode = mark[q]
        BY <3>1, ReaperTypes DEF Marked, Judging
      <4>2. mark'[q] \in todo'[p] /\ pc'[p] = "check"
        BY <1>1, <1>3, <4>1, ReaperTypes DEF TypeOK
      <4> QED BY <3>3, <4>2
    <3> QED BY <3>2, <3>3
  <2> QED BY <1>0, <1>1, <1>3, <2>1, MovesKeep DEF Holding
<1> QED BY <1>2, <1>3 DEF List, Goto


LEMMA LookedKeeps ==
    ASSUME ReaperIInv, NEW p \in Procs,
           Looked(p, "look", "create", "out") \/ Looked(p, "check", "published", "leave")
    PROVE  ReaperIInv'
<1>0. TypeInv'
  BY StepTyped DEF ReaperIInv, Step
<1>1. /\ UNCHANGED <<lock, markers, own, mark, seen>> /\ todo[p] = {}
      /\ found' = [found EXCEPT ![p] = FALSE] /\ todo' = todo
  BY DEF Looked
<1>2. CASE Looked(p, "look", "create", "out")
  <2> DEFINE x == IF found[p] THEN "out" ELSE "create"
  <2>1. pc[p] = "look" /\ pc' = [pc EXCEPT ![p] = x]
    BY <1>2 DEF Looked, Goto
  <2>2. x \in {"create", "out"}
    OBVIOUS
  <2> HIDE DEF x
  <2>3. own[p] = NoInode
    BY <2>1, ReaperTypes DEF Owners, Holding
  <2>4. Spared'
    BY <1>1, <2>1, <2>2, ReaperTypes, SparedKept DEF TypeOK
  <2> QED BY <1>0, <1>1, <2>1, <2>2, <2>3, <2>4, MovesKeep
<1>3. CASE Looked(p, "check", "published", "leave")
  <2> DEFINE x == IF found[p] THEN "leave" ELSE "published"
  <2>1. pc[p] = "check" /\ pc' = [pc EXCEPT ![p] = x]
    BY <1>3 DEF Looked, Goto
  <2>2. /\ x \in {"leave", "published"}
        /\ x = "published" => ~found[p]
    OBVIOUS
  <2> HIDE DEF x
  <2>3. Spared'
    <3> SUFFICES ASSUME NEW a \in Procs, NEW q \in Procs, pc'[q] = "reapUnlink",
                        own'[a] # NoInode, lock'.inode = own'[a]
                 PROVE  /\ pc'[a] \notin {"published", "in"}
                        /\ pc'[a] = "check" => found'[a] \/ mark'[q] \in todo'[a]
      BY DEF Spared
    <3>1. q # p /\ pc[q] = "reapUnlink"
      BY <2>1, <2>2, ReaperTypes DEF TypeOK
    <3>2. CASE a # p
      BY <1>1, <2>1, <3>1, <3>2, ReaperTypes DEF Spared, TypeOK
    <3>3. CASE a = p
      <4>1. found[p]
        BY <1>1, <2>1, <3>1, <3>3, ReaperTypes DEF Spared
      <4>2. pc'[p] = "leave"
        BY <2>1, <2>2, <4>1, ReaperTypes DEF TypeOK
      <4> QED BY <3>3, <4>2
    <3> QED BY <3>2, <3>3
  <2> QED BY <1>0, <1>1, <2>1, <2>2, <2>3, MovesKeep DEF Holding
<1> QED BY <1>2, <1>3

(* A look at a marker: one that is in use is not removed.                  *)
LEMMA LookAtKeeps ==
    ASSUME ReaperIInv, NEW p \in Procs, NEW n \in todo[p], LookAt(p, n)
    PROVE  ReaperIInv'
<1>0. TypeInv'
  BY StepTyped DEF ReaperIInv, Step
<1>1. /\ UNCHANGED <<lock, pc, own, mark, seen>>
      /\ todo' = [todo EXCEPT ![p] = @ \ {n}]
      /\ markers' = {f \in markers : ~(f.inode = n /\ Abandoned(f))}
      /\ found' = [found EXCEPT ![p] =
                     @ \/ \E f \in markers : f.inode = n /\ ~Abandoned(f)]
  BY DEF LookAt
<1>2. Owners' /\ Signs' /\ Unseen' /\ Distinct'
  BY <1>1, ReaperTypes DEF Owners, Signs, Unseen, Distinct
<1>3. \A f \in markers, q \in Procs :
         (f.owner = q /\ pc[q] # "dead") \/ ~f.old => ~Abandoned(f)
  BY DEF Abandoned, Alive
<1>4. Marked'
  BY <1>1, <1>3, ReaperTypes DEF Marked, Judging
<1>5. Spared'
  <2> SUFFICES ASSUME NEW a \in Procs, NEW q \in Procs, pc'[q] = "reapUnlink",
                      own'[a] # NoInode, lock'.inode = own'[a]
               PROVE  /\ pc'[a] \notin {"published", "in"}
                      /\ pc'[a] = "check" => found'[a] \/ mark'[q] \in todo'[a]
    BY DEF Spared
  <2>1. /\ pc[a] \notin {"published", "in"}
        /\ pc[a] = "check" => found[a] \/ mark[q] \in todo[a]
    BY <1>1, ReaperTypes DEF Spared
  <2>2. CASE a # p \/ mark[q] # n
    BY <1>1, <2>1, <2>2, ReaperTypes DEF TypeOK
  <2>3. CASE a = p /\ mark[q] = n
    <3>1. PICK f \in markers : f.inode = mark[q] /\ f.owner = q
      BY <1>1, ReaperTypes DEF Marked, Judging
    <3>2. ~Abandoned(f)
      BY <1>1, <1>3, <3>1
    <3>3. found'[p]
      BY <1>1, <2>3, <3>1, <3>2, ReaperTypes DEF TypeOK
    <3> QED BY <1>1, <2>1, <2>3, <3>3
  <2> QED BY <2>2, <2>3
<1> QED BY <1>0, <1>2, <1>4, <1>5 DEF ReaperIInv

(* The steps that change neither file nor descriptor.                      *)
LEMMA EnterKeeps ==
    ASSUME ReaperIInv, NEW p \in Procs, Enter(p)
    PROVE  ReaperIInv'
<1>0. TypeInv'
  BY StepTyped DEF ReaperIInv, Step
<1> DEFINE x == IF lock.inode = own[p] THEN "in" ELSE "leave"
<1>1. /\ UNCHANGED <<lock, markers, own, mark, seen, todo, found>>
      /\ pc[p] = "published" /\ pc' = [pc EXCEPT ![p] = x]
  BY DEF Enter, Goto
<1>2. x \in {"in", "leave"}
  OBVIOUS
<1> HIDE DEF x
<1>3. Spared'
  BY <1>1, <1>2, ReaperTypes DEF Spared, TypeOK
<1> QED BY <1>0, <1>1, <1>2, <1>3, MovesKeep DEF Holding

LEMMA ExistsKeeps ==
    ASSUME ReaperIInv, NEW p \in Procs, Exists(p)
    PROVE  ReaperIInv'
<1>0. TypeInv'
  BY StepTyped DEF ReaperIInv, Step
<1>1. /\ UNCHANGED <<lock, markers, own, mark, seen, todo, found>>
      /\ pc[p] = "create" /\ pc' = [pc EXCEPT ![p] = "reap"]
  BY DEF Exists, Goto
<1>2. own[p] = NoInode
  BY <1>1, ReaperTypes DEF Owners, Holding
<1>3. Spared'
  BY <1>1, ReaperTypes, SparedKept DEF TypeOK
<1> QED BY <1>0, <1>1, <1>2, <1>3, MovesKeep

(* Who compares and finds the file it saw is not looking at the lock of a  *)
(* process that lives.                                                     *)
LEMMA CompareKeeps ==
    ASSUME ReaperIInv, NEW p \in Procs, Compare(p)
    PROVE  ReaperIInv'
<1>0. TypeInv'
  BY StepTyped DEF ReaperIInv, Step
<1> DEFINE x == IF lock.inode = seen[p] THEN "reapUnlink" ELSE "done"
<1>1. /\ UNCHANGED <<lock, markers, own, mark, seen, todo, found>>
      /\ pc[p] = "compare" /\ pc' = [pc EXCEPT ![p] = x]
  BY DEF Compare, Goto
<1>2. x \in {"reapUnlink", "done"} /\ (x = "reapUnlink" => lock.inode = seen[p])
  OBVIOUS
<1> HIDE DEF x
<1>3. own[p] = NoInode
  BY <1>1, ReaperTypes DEF Owners, Holding
<1>4. Spared'
  <2>1. seen[p] # NoInode
    BY <1>1, ReaperTypes DEF Marked
  <2>2. x = "reapUnlink" => \A a \in Procs : lock.inode # own[a]
    BY <1>2, <2>1, ReaperTypes DEF Unseen
  <2>3. pc'[p] = x /\ \A q \in Procs : q # p => pc'[q] = pc[q]
    BY <1>1, ReaperTypes DEF TypeOK
  <2> QED BY <1>1, <1>2, <2>2, <2>3, ReaperTypes DEF Spared
<1> QED BY <1>0, <1>1, <1>2, <1>3, <1>4, MovesKeep

(* A lock that is judged abandoned is nobody's who lives.                  *)
LEMMA JudgeKeeps ==
    ASSUME ReaperIInv, NEW p \in Procs, Judge(p)
    PROVE  ReaperIInv'
<1>0. TypeInv'
  BY StepTyped DEF ReaperIInv, Step
<1> DEFINE gone == lock # NoFile /\ Abandoned(lock)
<1>1. /\ UNCHANGED <<lock, markers, own, mark, todo, found>>
      /\ pc[p] = "open" /\ pc' = [pc EXCEPT ![p] = IF gone THEN "compare" ELSE "done"]
      /\ seen' = [seen EXCEPT ![p] = IF gone THEN lock.inode ELSE NoInode]
  BY DEF Judge, Goto
<1>2. gone => lock.inode # NoInode
  BY ReaperTypes DEF TypeOK, File
<1>3. gone => \A a \in Procs : own[a] # lock.inode
  <2> SUFFICES ASSUME gone, NEW a \in Procs, own[a] = lock.inode PROVE FALSE
    OBVIOUS
  <2>1. own[a] # NoInode /\ pc[a] # "dead"
    BY <1>2, ReaperTypes DEF Owners, Holding
  <2>2. IF pc[a] = "write" THEN ~lock.old ELSE lock.owner = a
    BY <2>1, ReaperTypes DEF Signs
  <2> QED BY <2>1, <2>2 DEF Abandoned, Alive
<1> HIDE DEF gone
<1>4. /\ pc'[p] \in {"compare", "done"} /\ (pc'[p] = "compare" => gone)
      /\ seen'[p] = (IF gone THEN lock.inode ELSE NoInode)
      /\ \A q \in Procs : q # p => pc'[q] = pc[q] /\ seen'[q] = seen[q]
  BY <1>1, ReaperTypes DEF TypeOK
<1>5. own[p] = NoInode
  BY <1>1, ReaperTypes DEF Owners, Holding
<1>6. Owners'
  BY <1>1, <1>4, <1>5, ReaperTypes DEF Owners
<1>7. Signs'
  BY <1>1, <1>4, <1>5, ReaperTypes DEF Signs
<1>8. Unseen' /\ Distinct'
  BY <1>1, <1>3, <1>4, ReaperTypes DEF Unseen, Distinct
<1>9. Marked'
  BY <1>1, <1>2, <1>4, ReaperTypes DEF Marked, Judging
<1>10. Spared'
  BY <1>1, <1>4, ReaperTypes, SparedKept
<1> QED BY <1>0, <1>6, <1>7, <1>8, <1>9, <1>10 DEF ReaperIInv

LEMMA WriteKeeps ==
    ASSUME ReaperIInv, NEW p \in Procs, Write(p)
    PROVE  ReaperIInv'
<1>0. TypeInv'
  BY StepTyped DEF ReaperIInv, Step
<1>1. /\ UNCHANGED <<markers, own, mark, seen, todo, found>>
      /\ pc[p] = "write" /\ pc' = [pc EXCEPT ![p] = "list"]
      /\ lock' = Owned(lock, p, own[p])
  BY DEF Write, Goto
<1>2. /\ pc'[p] = "list" /\ \A q \in Procs : q # p => pc'[q] = pc[q]
  BY <1>1, ReaperTypes DEF TypeOK
<1>3. /\ lock'.inode = lock.inode
      /\ lock.inode = own[p] => lock'.owner = p /\ ~lock'.old
      /\ lock.inode # own[p] => lock' = lock
  BY <1>1, ReaperTypes DEF Owned, TypeOK, File, NoFile
<1>4. Owners' /\ Unseen' /\ Distinct'
  BY <1>1, <1>2, ReaperTypes DEF Owners, Unseen, Distinct, Holding
<1>5. Signs'
  BY <1>1, <1>2, <1>3, ReaperTypes DEF Signs, Owners
<1>6. Marked'
  BY <1>1, <1>2, ReaperTypes DEF Marked, Judging
<1>7. Spared'
  BY <1>1, <1>2, <1>3, ReaperTypes DEF Spared
<1> QED BY <1>0, <1>4, <1>5, <1>6, <1>7 DEF ReaperIInv

(* The lock goes, or its owner closes it.                                  *)
LEMMA LeaveKeeps ==
    ASSUME ReaperIInv, NEW p \in Procs, Leave(p) \/ Unlink(p) \/ ReapUnlink(p)
    PROVE  ReaperIInv'
<1>0. TypeInv'
  BY StepTyped DEF ReaperIInv, Step
<1>1. /\ UNCHANGED <<markers, mark, seen, todo, found>>
      /\ pc'[p] \in {"unlink", "out", "done"}
      /\ \A q \in Procs : q # p => pc'[q] = pc[q] /\ own'[q] = own[q]
      /\ pc'[p] # "unlink" => own'[p] = NoInode
      /\ own'[p] \in {own[p], NoInode}
      /\ lock' = lock \/ lock' = NoFile
      /\ pc[p] # "write"
  <2>1. CASE Leave(p)
    BY <2>1, ReaperTypes DEF Leave, TypeOK
  <2>2. CASE Unlink(p)
    BY <2>2, ReaperTypes DEF Unlink, Goto, TypeOK
  <2>3. CASE ReapUnlink(p)
    <3>1. own[p] = NoInode
      BY <2>3, ReaperTypes DEF ReapUnlink, Goto, Owners, Holding
    <3> QED BY <2>3, <3>1, ReaperTypes DEF ReapUnlink, Goto, TypeOK
  <2> QED BY <2>1, <2>2, <2>3
<1>2. NoFile.inode = NoInode
  BY DEF NoFile
<1>3. Owners'
  BY <1>1, ReaperTypes DEF Owners, Holding
<1>4. Signs'
  BY <1>1, <1>2, ReaperTypes DEF Signs
<1>5. Unseen' /\ Distinct'
  BY <1>1, ReaperTypes DEF Unseen, Distinct
<1>6. Marked'
  BY <1>1, ReaperTypes DEF Marked, Judging
<1>7. Spared'
  BY <1>1, <1>2, ReaperTypes DEF Spared
<1> QED BY <1>0, <1>3, <1>4, <1>5, <1>6, <1>7 DEF ReaperIInv

(* Markers are written, removed by their owners, and created.              *)
LEMMA WriteMarkerKeeps ==
    ASSUME ReaperIInv, NEW p \in Procs, WriteMarker(p)
    PROVE  ReaperIInv'
<1>0. TypeInv'
  BY StepTyped DEF ReaperIInv, Step
<1>1. /\ UNCHANGED <<lock, own, mark, seen, todo, found>>
      /\ pc[p] = "writeMarker" /\ pc' = [pc EXCEPT ![p] = "open"]
      /\ markers' = {Owned(f, p, mark[p]) : f \in markers}
  BY DEF WriteMarker, Goto
<1>2. /\ pc'[p] = "open" /\ \A q \in Procs : q # p => pc'[q] = pc[q]
  BY <1>1, ReaperTypes DEF TypeOK
<1>3. \A f \in markers :
         /\ f.inode = mark[p] => /\ Owned(f, p, mark[p]).inode = mark[p]
                                 /\ Owned(f, p, mark[p]).owner = p
         /\ f.inode # mark[p] => Owned(f, p, mark[p]) = f
         /\ Owned(f, p, mark[p]) \in markers'
  BY <1>1, ReaperTypes DEF Owned, TypeOK, File
<1>4. own[p] = NoInode
  BY <1>1, ReaperTypes DEF Owners, Holding
<1>5. Owners' /\ Signs' /\ Unseen' /\ Distinct'
  BY <1>1, <1>2, <1>4, ReaperTypes DEF Owners, Signs, Unseen, Distinct
<1>6. mark[p] # NoInode /\ \E f \in markers : f.inode = mark[p]
  BY <1>1, ReaperTypes DEF Marked
<1>7. Marked'
  <2>1. ASSUME NEW q \in Procs, q # p, pc[q] \in Judging \cup {"writeMarker"}
        PROVE  \A f \in markers : f.inode = mark[q] => f \in markers'
    <3>1. mark[q] # mark[p]
      BY <1>6, <2>1, ReaperTypes DEF Marked, Distinct
    <3> QED BY <1>3, <3>1
  <2>2. ASSUME NEW q \in Procs, q # p
        PROVE  /\ pc'[q] \in Judging \cup {"writeMarker"} => mark'[q] # NoInode
               /\ pc'[q] \in Judging => \E f \in markers' : f.inode = mark'[q] /\ f.owner = q
               /\ pc'[q] = "writeMarker" => \E f \in markers' : f.inode = mark'[q] /\ ~f.old
               /\ pc'[q] = "compare" => seen'[q] # NoInode
    BY <1>1, <1>2, <2>1, <2>2, ReaperTypes DEF Marked
  <2>3. \E f \in markers' : f.inode = mark[p] /\ f.owner = p
    BY <1>3, <1>6
  <2> QED BY <1>1, <1>2, <1>6, <2>2, <2>3 DEF Marked
<1>8. Spared'
  BY <1>1, <1>2, ReaperTypes, SparedKept
<1> QED BY <1>0, <1>5, <1>7, <1>8 DEF ReaperIInv

LEMMA DoneKeeps ==
    ASSUME ReaperIInv, NEW p \in Procs, Done(p)
    PROVE  ReaperIInv'
<1>0. TypeInv'
  BY StepTyped DEF ReaperIInv, Step
<1>1. /\ UNCHANGED <<lock, own, todo, found>>
      /\ pc[p] = "done" /\ pc' = [pc EXCEPT ![p] = "out"]
      /\ markers' = {f \in markers : f.inode # mark[p]}
      /\ mark' = [mark EXCEPT ![p] = NoInode] /\ seen' = [seen EXCEPT ![p] = NoInode]
  BY DEF Done, Goto
<1>2. /\ pc'[p] = "out" /\ mark'[p] = NoInode /\ seen'[p] = NoInode
      /\ \A q \in Procs : q # p => pc'[q] = pc[q] /\ mark'[q] = mark[q] /\ seen'[q] = seen[q]
  BY <1>1, ReaperTypes DEF TypeOK
<1>3. own[p] = NoInode
  BY <1>1, ReaperTypes DEF Owners, Holding
<1>4. Owners' /\ Signs' /\ Unseen' /\ Distinct'
  BY <1>1, <1>2, <1>3, ReaperTypes DEF Owners, Signs, Unseen, Distinct
<1>5. Marked'
  <2>1. ASSUME NEW q \in Procs, q # p, mark[q] # NoInode
        PROVE  \A f \in markers : f.inode = mark[q] => f \in markers'
    BY <1>1, <2>1, ReaperTypes DEF Distinct
  <2> QED BY <1>1, <1>2, <2>1, ReaperTypes DEF Marked, Judging
<1>6. Spared'
  BY <1>1, <1>2, ReaperTypes, SparedKept
<1> QED BY <1>0, <1>4, <1>5, <1>6 DEF ReaperIInv

LEMMA CreateKeeps ==
    ASSUME ReaperIInv, NEW p \in Procs, NEW n \in Inodes, Creates(p, n)
    PROVE  ReaperIInv'
<1>0. TypeInv'
  BY CreatesTyped DEF ReaperIInv
<1>1. n # NoInode
  BY ReaperTypes
<1>2. CASE Create(p, n)
  <2>1. /\ UNCHANGED <<markers, mark, seen, todo, found>> /\ n \notin InUse
        /\ pc[p] = "create" /\ pc' = [pc EXCEPT ![p] = "write"]
        /\ lock = NoFile /\ lock' = Empty(n) /\ own' = [own EXCEPT ![p] = n]
    BY <1>2 DEF Create, Goto
  <2>2. /\ pc'[p] = "write" /\ own'[p] = n
        /\ \A q \in Procs : q # p => pc'[q] = pc[q] /\ own'[q] = own[q]
    BY <2>1, ReaperTypes DEF TypeOK
  <2>3. \A q \in Procs : own[q] # n /\ seen[q] # n
    BY <2>1 DEF InUse
  <2>4. lock'.inode = n /\ ~lock'.old
    BY <2>1 DEF Empty
  <2>5. Owners' /\ Signs' /\ Unseen' /\ Distinct'
    BY <2>1, <2>2, <2>3, <2>4, ReaperTypes DEF Owners, Signs, Unseen, Distinct, Holding
  <2>6. Marked'
    BY <2>1, <2>2, ReaperTypes DEF Marked, Judging
  <2>7. Spared'
    BY <2>1, <2>2, <2>3, <2>4, ReaperTypes DEF Spared
  <2> QED BY <1>0, <2>5, <2>6, <2>7 DEF ReaperIInv
<1>3. CASE CreateMarker(p, n)
  <2>1. /\ UNCHANGED <<lock, own, seen, todo, found>> /\ n \notin InUse
        /\ pc[p] = "reap" /\ pc' = [pc EXCEPT ![p] = "writeMarker"]
        /\ markers' = markers \cup {Empty(n)} /\ mark' = [mark EXCEPT ![p] = n]
    BY <1>3 DEF CreateMarker, Goto
  <2>2. /\ pc'[p] = "writeMarker" /\ mark'[p] = n
        /\ \A q \in Procs : q # p => pc'[q] = pc[q] /\ mark'[q] = mark[q]
    BY <2>1, ReaperTypes DEF TypeOK
  <2>3. \A q \in Procs : mark[q] # n
    BY <2>1 DEF InUse
  <2>4. Empty(n).inode = n /\ ~Empty(n).old /\ Empty(n) \in markers'
    BY <2>1 DEF Empty
  <2>5. own[p] = NoInode
    BY <2>1, ReaperTypes DEF Owners, Holding
  <2>6. Owners' /\ Signs' /\ Unseen' /\ Distinct'
    BY <2>1, <2>2, <2>3, <2>5, ReaperTypes DEF Owners, Signs, Unseen, Distinct
  <2>7. Marked'
    <3>1. \A q \in Procs : q # p => /\ pc'[q] = pc[q] /\ mark'[q] = mark[q]
                                    /\ seen'[q] = seen[q]
      BY <2>1, <2>2
    <3>2. markers \subseteq markers'
      BY <2>1
    <3> QED BY <1>1, <2>2, <2>4, <3>1, <3>2, ReaperTypes DEF Marked, Judging
  <2>8. Spared'
    BY <2>1, <2>2, ReaperTypes, SparedKept
  <2> QED BY <1>0, <2>6, <2>7, <2>8 DEF ReaperIInv
<1> QED BY <1>2, <1>3 DEF Creates

(* A death takes no file away, and time makes no file of nobody's old.     *)
LEMMA CrashKeeps ==
    ASSUME ReaperIInv, NEW p \in Procs, Crash(p)
    PROVE  ReaperIInv'
<1>0. TypeInv'
  BY CreatesTyped DEF ReaperIInv
<1>1. /\ UNCHANGED <<lock, markers>>
      /\ pc'[p] = "dead" /\ own'[p] = NoInode /\ mark'[p] = NoInode /\ seen'[p] = NoInode
      /\ \A q \in Procs : q # p => /\ pc'[q] = pc[q] /\ own'[q] = own[q]
                                   /\ mark'[q] = mark[q] /\ seen'[q] = seen[q]
                                   /\ todo'[q] = todo[q] /\ found'[q] = found[q]
  BY ReaperTypes DEF Crash, TypeOK
<1>2. Owners' /\ Signs' /\ Unseen' /\ Distinct'
  BY <1>1, ReaperTypes DEF Owners, Signs, Unseen, Distinct
<1>3. Marked'
  BY <1>1, ReaperTypes DEF Marked, Judging
<1>4. Spared'
  BY <1>1, ReaperTypes DEF Spared
<1> QED BY <1>0, <1>2, <1>3, <1>4 DEF ReaperIInv

LEMMA AgeKeeps ==
    ASSUME ReaperIInv, Age
    PROVE  ReaperIInv'
<1>0. TypeInv'
  BY TypePreserved DEF ReaperIInv, Next
<1>1. /\ UNCHANGED <<pc, own, mark, seen, todo, found>> /\ Prompt
      /\ markers' = {[f EXCEPT !.old = TRUE] : f \in markers}
  BY DEF Age
<1>2. lock'.inode = lock.inode /\ lock'.owner = lock.owner
  BY ReaperTypes DEF Age, TypeOK, File
<1>3. Owners' /\ Signs' /\ Unseen' /\ Distinct'
  BY <1>1, <1>2, ReaperTypes DEF Owners, Signs, Unseen, Distinct, Prompt
<1>4. \A f \in markers : \E g \in markers' : g.inode = f.inode /\ g.owner = f.owner
  <2> SUFFICES ASSUME NEW f \in markers
               PROVE  \E g \in markers' : g.inode = f.inode /\ g.owner = f.owner
    OBVIOUS
  <2> DEFINE g == [f EXCEPT !.old = TRUE]
  <2>1. g.inode = f.inode /\ g.owner = f.owner
    BY ReaperTypes DEF TypeOK, File
  <2>2. g \in markers'
    BY <1>1
  <2> QED BY <2>1, <2>2
<1>5. Marked'
  <2> SUFFICES ASSUME NEW q \in Procs
               PROVE  /\ pc'[q] \in Judging \cup {"writeMarker"} => mark'[q] # NoInode
                      /\ pc'[q] \in Judging =>
                            \E f \in markers' : f.inode = mark'[q] /\ f.owner = q
                      /\ pc'[q] = "writeMarker" =>
                            \E f \in markers' : f.inode = mark'[q] /\ ~f.old
                      /\ pc'[q] = "compare" => seen'[q] # NoInode
    BY DEF Marked
  <2>1. pc'[q] = pc[q] /\ mark'[q] = mark[q] /\ seen'[q] = seen[q] /\ pc[q] # "writeMarker"
    BY <1>1 DEF Prompt
  <2>2. ASSUME pc[q] \in Judging
        PROVE  \E f \in markers' : f.inode = mark[q] /\ f.owner = q
    <3>1. PICK f \in markers : f.inode = mark[q] /\ f.owner = q
      BY <2>2, ReaperTypes DEF Marked
    <3> QED BY <3>1, <1>4
  <2> QED BY <2>1, <2>2, ReaperTypes DEF Marked
<1>6. Spared'
  BY <1>1, <1>2, ReaperTypes DEF Spared
<1> QED BY <1>0, <1>3, <1>5, <1>6 DEF ReaperIInv

LEMMA ReaperPreserved ==
    ASSUME ReaperIInv, [Next]_vars
    PROVE  ReaperIInv'
<1>1. CASE UNCHANGED vars
  <2>1. /\ UNCHANGED <<lock, markers, pc, own, mark, seen, todo, found>>
    BY <1>1 DEF vars
  <2>2. TypeInv'
    BY TypePreserved DEF ReaperIInv
  <2> QED BY <2>1, <2>2 DEF ReaperIInv, Owners, Signs, Unseen, Distinct, Marked, Spared
<1>2. ASSUME NEW p \in Procs, Step(p) PROVE ReaperIInv'
  BY <1>2, ListKeeps, LookedKeeps, LookAtKeeps, EnterKeeps, ExistsKeeps, CompareKeeps,
     JudgeKeeps, WriteKeeps, LeaveKeeps, WriteMarkerKeeps, DoneKeeps DEF Step
<1> QED BY <1>1, <1>2, CreateKeeps, CrashKeeps, AgeKeeps DEF Next

(* Whoever dies and however recovery goes on, a reaper about to unlink the *)
(* lock does not unlink that of a process in its action, though it unlinks *)
(* by name: what a second look at the markers is for.                      *)
THEOREM SparedTheorem == Spec => []ReaperSparesHolder
<1>1. Init => ReaperIInv
  <2> SUFFICES ASSUME Init PROVE ReaperIInv
    OBVIOUS
  <2>1. /\ \A p \in Procs : /\ pc[p] = "out" /\ own[p] = NoInode
                            /\ mark[p] = NoInode /\ seen[p] = NoInode
    BY DEF Init
  <2> QED BY <2>1, InitTyped
          DEF ReaperIInv, Owners, Signs, Unseen, Distinct, Marked, Judging, Spared
<1>2. ReaperIInv /\ [Next]_vars => ReaperIInv'
  BY ReaperPreserved
<1>3. ReaperIInv => ReaperSparesHolder
  <2> SUFFICES ASSUME ReaperIInv, NEW p \in Procs, NEW q \in Procs,
                      pc[p] = "in", pc[q] = "reapUnlink"
               PROVE  lock.inode # own[p]
    BY DEF ReaperSparesHolder
  <2>1. own[p] # NoInode
    BY ReaperTypes DEF Held, Holding
  <2> QED BY <2>1, ReaperTypes DEF Spared
<1> QED BY <1>1, <1>2, <1>3, PTL DEF Spec

-----------------------------------------------------------------------------
(* Session state                                                           *)

(* What readSessionUnlocked accepts and a session can go on with.          *)
GoodThread(t) ==
    /\ t \in Thread /\ Readable(t)
    /\ t.checkpoint # None => t.checkpoint.request \in {None, t.checkpoint.turn}

(* What the operation that holds the session lock may be about to write.   *)
Writers ==
    [at: {"free"}, op: {None}, session: {None}, next: {Absent}]
    \cup [at: {"thread"}, op: {"update", "clear", "reconcile"}, session: Sessions,
          next: Thread \cup {Absent}]
    \cup [at: {"shared"}, op: {"clear", "reconcile"}, session: Sessions,
          next: Projects \cup {None}]
    \cup [at: {"done"}, op: {"reconcile"}, session: Sessions, next: {Absent}]

(* The machine binds sessions to chats of its own Project.                 *)
Bound == \A s \in Sessions : binding[s] # None => binding[s].project = machine

(* The second write: of a thread that can be read and has the progress of  *)
(* the one it replaces, unless progress was what changed; after a          *)
(* reconciliation it completes what the machine says.                      *)
WritesThread ==
    writer.at = "thread" =>
       /\ writer.next # Absent => GoodThread(writer.next)
       /\ writer.op # "update" =>
             Progress(writer.next) = Progress(thread[writer.session])
       /\ writer.op = "reconcile" =>
             /\ writer.next # Absent /\ writer.next.route = binding[writer.session]
             /\ shared = [project |-> machine]

WritesShared ==
    writer.at = "shared" =>
       /\ thread[writer.session] = Absent
       /\ writer.op = "reconcile" =>
             binding[writer.session] = None /\ writer.next = machine

AllGood == \A s \in Sessions : thread[s] # Absent => GoodThread(thread[s])

(* The invariant of the session files.                                     *)
SessionIInv ==
    /\ SessionTypeOK /\ writer \in Writers
    /\ AllGood /\ Bound
    /\ WritesThread /\ WritesShared
    /\ ReconciledIsAuthority

(* No value and no file are told from the others.                          *)
LEMMA Apart ==
    /\ None \notin Projects /\ None \notin Tasks /\ None \notin Iterations
    /\ None \notin Route /\ None \notin Turns /\ None \notin Checkpoint
    /\ Absent \notin Thread /\ Absent \notin [project: Projects \cup {None}]
    /\ None # "this turn's" /\ None # "clear" /\ None # "reconcile" /\ None # "update"
    /\ MAX_C2C_ITERATION \in Nat /\ 0 \in Iterations
<1>1. MAX_C2C_ITERATION \in Nat
  BY SessionAssumption DEF SessionAssumption
<1>2. 0 \in Iterations
  BY <1>1 DEF Iterations
<1> QED BY <1>1, <1>2, SessionAssumption DEF SessionAssumption

(* A thread without anything in it is good.                                *)
LEMMA NewIsGood ==
    /\ GoodThread(NewThread) /\ NewThread # Absent
    /\ Progress(NewThread) = Progress(Absent)
<1>1. NewThread \in Thread
  BY DEF NewThread, Thread
<1>2. NewThread.checkpoint = None /\ NewThread # Absent
  BY <1>1, Apart DEF NewThread
<1>3. Progress(NewThread) = Progress(Absent)
  BY <1>2 DEF Progress, NewThread
<1> QED BY <1>1, <1>2, <1>3 DEF GoodThread, Readable

(* What an operation starts from is good, and has the progress saved.      *)
LEMMA PreviousIsGood ==
    ASSUME AllGood, NEW s \in Sessions
    PROVE  GoodThread(Previous(s)) /\ Progress(Previous(s)) = Progress(thread[s])
BY NewIsGood DEF AllGood, Previous

LEMMA GoodIsThread ==
    ASSUME NEW t, GoodThread(t)
    PROVE  /\ t \in Thread /\ t # Absent
           /\ t.route \in Route \cup {None} /\ t.task \in Tasks \cup {None}
           /\ t.iteration \in Iterations \cup {None}
           /\ t.checkpoint \in Checkpoint \cup {None}
           /\ t = [route |-> t.route, task |-> t.task, iteration |-> t.iteration,
                   checkpoint |-> t.checkpoint]
           /\ t.checkpoint # None =>
                /\ t.checkpoint.turn \in Turns
                /\ t.checkpoint.turn = [task |-> t.task, iteration |-> t.iteration]
                /\ t.checkpoint.route = t.route
                /\ t.checkpoint.request \in {None, t.checkpoint.turn}
                /\ t.checkpoint = [turn |-> t.checkpoint.turn, route |-> t.route,
                                   request |-> t.checkpoint.request]
<1>1. t \in Thread /\ t # Absent
  BY Apart DEF GoodThread
<1>2. /\ t.route \in Route \cup {None} /\ t.task \in Tasks \cup {None}
      /\ t.iteration \in Iterations \cup {None}
      /\ t.checkpoint \in Checkpoint \cup {None}
      /\ t = [route |-> t.route, task |-> t.task, iteration |-> t.iteration,
              checkpoint |-> t.checkpoint]
  BY <1>1 DEF Thread
<1>3. ASSUME t.checkpoint # None
      PROVE  /\ t.checkpoint.turn = [task |-> t.task, iteration |-> t.iteration]
             /\ t.checkpoint.route = t.route
             /\ t.checkpoint.request \in {None, t.checkpoint.turn}
  BY <1>1, <1>3 DEF GoodThread, Readable
<1>4. ASSUME t.checkpoint # None
      PROVE  /\ t.checkpoint.turn \in Turns
             /\ t.checkpoint = [turn |-> t.checkpoint.turn,
                                route |-> t.checkpoint.route,
                                request |-> t.checkpoint.request]
  BY <1>2, <1>4 DEF Checkpoint
<1> QED BY <1>1, <1>2, <1>3, <1>4

(* Another route keeps the progress.                                       *)
LEMMA RoutedIsGood ==
    ASSUME NEW t, GoodThread(t), NEW route \in Route \cup {None}
    PROVE  /\ GoodThread(Routed(t, route)) /\ Routed(t, route).route = route
           /\ Progress(Routed(t, route)) = Progress(t)
<1> DEFINE u == Routed(t, route)
<1> SUFFICES /\ GoodThread(u) /\ u.route = route
             /\ Progress(u) = Progress(t)
  OBVIOUS
<1>0. /\ t \in Thread
      /\ t.task \in Tasks \cup {None} /\ t.iteration \in Iterations \cup {None}
      /\ t.checkpoint \in Checkpoint \cup {None}
      /\ t.checkpoint # None =>
           /\ t.checkpoint.turn \in Turns
           /\ t.checkpoint.turn = [task |-> t.task, iteration |-> t.iteration]
           /\ t.checkpoint.request \in {None, t.checkpoint.turn}
  BY GoodIsThread
<1> DEFINE c == IF t.checkpoint = None THEN None ELSE [t.checkpoint EXCEPT !.route = route]
<1>1. u = [[t EXCEPT !.route = route] EXCEPT !.checkpoint = c]
  BY <1>0 DEF Routed, Thread
<1> HIDE DEF u, c
<1>2. /\ u.route = route /\ u.task = t.task /\ u.iteration = t.iteration
      /\ u.checkpoint = c
  BY <1>0, <1>1 DEF Thread
<1>3. c \in Checkpoint \cup {None} => u \in Thread /\ u # Absent
  <2>2. route \in Route \cup {None}
    OBVIOUS
  <2>3. t.task \in Tasks \cup {None} /\ t.iteration \in Iterations \cup {None}
    BY <1>0
  <2>1. u = [route |-> route, task |-> t.task, iteration |-> t.iteration,
             checkpoint |-> c]
    BY <1>0, <1>1 DEF Thread
  <2>4. c \in Checkpoint \cup {None} => u \in Thread
    BY <2>1, <2>2, <2>3 DEF Thread
  <2> QED BY <2>4, Apart
<1>4. route \in Route \cup {None}
  OBVIOUS
<1>5. t # Absent
  BY <1>0, Apart
<1>6. CASE t.checkpoint = None
  <2>1. u.checkpoint = None
    BY <1>2, <1>6 DEF c
  <2>2. u \in Thread /\ u # Absent
    BY <1>2, <1>3, <2>1
  <2>3. GoodThread(u)
    BY <2>1, <2>2 DEF GoodThread, Readable
  <2> QED BY <1>2, <1>5, <1>6, <2>1, <2>2, <2>3 DEF Progress
<1>7. CASE t.checkpoint # None
  <2>1. t.checkpoint \in Checkpoint
    BY <1>0, <1>7
  <2>2. c = [t.checkpoint EXCEPT !.route = route]
    BY <1>7 DEF c
  <2>3. /\ c \in Checkpoint /\ c.route = route
        /\ c.turn = t.checkpoint.turn /\ c.request = t.checkpoint.request
    BY <2>1, <2>2, <1>4 DEF Checkpoint
  <2>4. u \in Thread /\ u # Absent /\ u.checkpoint # None
    BY <1>2, <1>3, <2>3, Apart
  <2>5. GoodThread(u)
    BY <1>0, <1>2, <1>7, <2>3, <2>4 DEF GoodThread, Readable
  <2> QED BY <1>2, <1>5, <1>7, <2>3, <2>4, <2>5 DEF Progress
<1> QED BY <1>6, <1>7

(* mergeSession, when it does not refuse, makes a good thread of one.      *)
LEMMA MergedIsGood ==
    ASSUME AllGood, NEW s \in Sessions, NEW patch \in Patch, UpdateAllowed(s, patch)
    PROVE  GoodThread(Merged(patch, Previous(s)))
<1> DEFINE old == Previous(s)
           u == Merged(patch, old)
           task == Given(patch.task, old.task)
           iteration == TurnIteration(patch, Given(patch.iteration, old.iteration))
           turn == [task |-> task, iteration |-> iteration]
<1> SUFFICES GoodThread(u)
  OBVIOUS
<1>1. GoodThread(old)
  BY PreviousIsGood
<1>2. /\ patch.task \in Tasks \cup {None} /\ patch.iteration \in Iterations \cup {None}
      /\ patch.mode \in {"keep", "set", "clear"}
  BY DEF Patch
<1>3. /\ old.route \in Route \cup {None} /\ old.task \in Tasks \cup {None}
      /\ old.iteration \in Iterations \cup {None}
      /\ old.checkpoint \in Checkpoint \cup {None}
  BY <1>1, GoodIsThread
<1>4. task \in Tasks \cup {None}
  BY <1>2, <1>3 DEF Given
<1>5. /\ iteration \in Iterations \cup {None}
      /\ patch.mode = "set" => iteration \in Iterations
  BY <1>2, <1>3, Apart DEF Given, TurnIteration
<1>6. u = [route |-> old.route, task |-> task, iteration |-> iteration,
           checkpoint |-> u.checkpoint]
      /\ u.route = old.route /\ u.task = task /\ u.iteration = iteration
  BY DEF Merged
<1>7. u.checkpoint \in Checkpoint \cup {None} => u \in Thread
  BY <1>3, <1>4, <1>5, <1>6 DEF Thread
<1>8. CASE patch.mode = "keep"
  <2>1. u.checkpoint = old.checkpoint
    BY <1>8 DEF Merged
  <2>2. ASSUME old.checkpoint # None PROVE task = old.task /\ iteration = old.iteration
    <3>1. /\ patch.task \in {None, old.checkpoint.turn.task}
          /\ patch.iteration \in {None, old.checkpoint.turn.iteration}
      BY <1>8, <2>2 DEF UpdateAllowed, SameTurn
    <3>2. old.checkpoint.turn = [task |-> old.task, iteration |-> old.iteration]
      BY <1>1, <2>2, GoodIsThread
    <3>3. patch.task \in {None, old.task} /\ patch.iteration \in {None, old.iteration}
      BY <3>1, <3>2
    <3> QED BY <1>8, <3>3 DEF Given, TurnIteration
  <2>3. u \in Thread
    BY <1>3, <1>7, <2>1
  <2>4. old.checkpoint # None =>
           /\ old.checkpoint.turn = [task |-> old.task, iteration |-> old.iteration]
           /\ old.checkpoint.route = old.route
           /\ old.checkpoint.request \in {None, old.checkpoint.turn}
    BY <1>1, GoodIsThread
  <2> HIDE DEF u, old, task, iteration
  <2> QED BY <1>6, <2>1, <2>2, <2>3, <2>4 DEF GoodThread, Readable
<1>9. CASE patch.mode = "clear"
  <2>1. u.checkpoint = None
    BY <1>9 DEF Merged
  <2> HIDE DEF u
  <2> QED BY <1>7, <2>1, Apart DEF GoodThread, Readable
<1>10. CASE patch.mode = "set"
  <2>1. u.checkpoint = [turn |-> turn, route |-> old.route,
                        request |-> RequestOf(patch, turn, old.checkpoint)]
    BY <1>10 DEF Merged
  <2>2. turn \in Turns
    BY <1>4, <1>5, <1>10 DEF UpdateAllowed, Turns
  <2>3. RequestOf(patch, turn, old.checkpoint) \in {None, turn}
    <3> HIDE DEF old, turn
    <3> QED BY <1>1, GoodIsThread DEF RequestOf
  <2> HIDE DEF u, old, turn
  <2>4. u.checkpoint \in Checkpoint
    BY <1>3, <2>1, <2>2, <2>3 DEF Checkpoint
  <2>5. u \in Thread /\ u.checkpoint # None
    BY <1>7, <2>4, Apart
  <2>6. u.checkpoint.turn = [task |-> u.task, iteration |-> u.iteration]
    BY <1>6, <2>1 DEF turn
  <2>7. u.checkpoint.route = u.route /\ u.checkpoint.request \in {None, u.checkpoint.turn}
    BY <1>6, <2>1, <2>3
  <2> QED BY <2>5, <2>6, <2>7 DEF GoodThread, Readable
<1> QED BY <1>2, <1>8, <1>9, <1>10

(* The first of the two writes leaves the second one to come.              *)
LEMMA WriteSharedKeeps ==
    ASSUME SessionIInv, writer.at = "free",
           NEW s \in Sessions, NEW op \in {"update", "clear", "reconcile"},
           NEW project \in Projects \cup {None}, NEW t, GoodThread(t),
           op # "update" => Progress(t) = Progress(thread[s]),
           op = "reconcile" => project = machine /\ t.route = binding[s] /\ t # NewThread,
           WriteShared(s, op, project, t)
    PROVE  SessionIInv'
<1> DEFINE next == IF t = NewThread THEN thread[s] ELSE t
<1>1. /\ shared' = [project |-> project]
      /\ writer' = [at |-> "thread", op |-> op, session |-> s, next |-> next]
      /\ thread' = thread /\ machine' = machine /\ binding' = binding
  BY DEF WriteShared
<1>2. /\ thread \in [Sessions -> Thread \cup {Absent}] /\ AllGood
      /\ SessionTypeOK /\ Bound
  BY DEF SessionIInv, SessionTypeOK
<1>3. t \in Thread
  BY GoodIsThread
<1>4. /\ next \in Thread \cup {Absent}
      /\ next # Absent => GoodThread(next)
      /\ op # "update" => Progress(next) = Progress(thread[s])
      /\ op = "reconcile" => next = t /\ t # Absent
  BY <1>2, <1>3, Apart DEF AllGood
<1> HIDE DEF next
<1>5. writer' \in Writers
  BY <1>1, <1>4 DEF Writers
<1>6. SessionTypeOK'
  BY <1>1, <1>2 DEF SessionTypeOK
<1>7. AllGood' /\ Bound'
  BY <1>1, <1>2 DEF AllGood, Bound
<1>8. WritesThread'
  BY <1>1, <1>4 DEF WritesThread
<1>9. WritesShared' /\ ReconciledIsAuthority'
  BY <1>1 DEF WritesShared, ReconciledIsAuthority
<1> QED BY <1>5, <1>6, <1>7, <1>8, <1>9 DEF SessionIInv

LEMMA UpdateKeeps ==
    ASSUME SessionIInv, NEW s \in Sessions, NEW patch \in Patch, Update(s, patch)
    PROVE  SessionIInv'
<1>1. /\ writer.at = "free" /\ UpdateAllowed(s, patch)
      /\ WriteShared(s, "update", Project, Merged(patch, Previous(s)))
  BY DEF Update, Opens
<1>2. GoodThread(Merged(patch, Previous(s)))
  BY <1>1, MergedIsGood DEF SessionIInv
<1>3. Project \in Projects \cup {None}
  BY DEF Project, SessionIInv, SessionTypeOK
<1> HIDE DEF Update
<1> QED BY <1>1, <1>2, <1>3, WriteSharedKeeps

(* Clearing a route, for the sake of the machine or of the user.           *)
LEMMA ClearRouteKeeps ==
    ASSUME SessionIInv, writer.at = "free",
           NEW s \in Sessions, NEW op \in {"clear", "reconcile"},
           NEW project \in Projects \cup {None},
           op = "reconcile" => project = machine /\ binding[s] = None,
           ClearRoute(s, op, project)
    PROVE  SessionIInv'
<1> DEFINE old == Previous(s)
           t == Routed(old, None)
<1>1. GoodThread(old) /\ Progress(old) = Progress(thread[s])
  BY PreviousIsGood DEF SessionIInv
<1>2. /\ thread \in [Sessions -> Thread \cup {Absent}] /\ AllGood
      /\ SessionTypeOK /\ Bound
      /\ shared = Absent \/ shared # Absent
  BY DEF SessionIInv, SessionTypeOK
<1>3. CASE Nothing(s, op)
  <2>1. /\ op = "reconcile" /\ ~Saved(s)
        /\ writer' = [NoWriter EXCEPT !.at = "done", !.op = op, !.session = s]
        /\ shared' = shared /\ thread' = thread /\ machine' = machine /\ binding' = binding
    BY <1>3 DEF Nothing, Unwritten
  <2>2. writer' = [at |-> "done", op |-> "reconcile", session |-> s, next |-> Absent]
    BY <2>1 DEF NoWriter
  <2>3. writer' \in Writers /\ SessionTypeOK' /\ AllGood' /\ Bound'
    BY <1>2, <2>1, <2>2 DEF Writers, SessionTypeOK, AllGood, Bound
  <2>4. WritesThread' /\ WritesShared'
    BY <2>2 DEF WritesThread, WritesShared
  <2>5. ReconciledIsAuthority'
    BY <2>1, <2>2
       DEF ReconciledIsAuthority, Saved, Previous, ChatMatches, NewThread
  <2> QED BY <2>3, <2>4, <2>5 DEF SessionIInv
<1>4. CASE /\ WorthKeeping(old)
           /\ WriteShared(s, op, project, t)
  <2>1. /\ GoodThread(t) /\ t.route = None /\ Progress(t) = Progress(old)
    BY <1>1, RoutedIsGood
  <2>2. t # NewThread
    <3>1. old.task # None \/ old.iteration # None \/ old.checkpoint # None
      BY <1>4 DEF WorthKeeping
    <3>2. Progress(t) # Progress(NewThread) \/ t.checkpoint # None
      <4>1. old \in Thread
        BY <1>1, GoodIsThread
      <4>2. /\ t.task = old.task /\ t.iteration = old.iteration
            /\ t.checkpoint = IF old.checkpoint = None THEN None
                              ELSE [old.checkpoint EXCEPT !.route = None]
        <5> HIDE DEF old
        <5> QED BY <4>1 DEF Routed, Thread
      <4>3. old.checkpoint # None => t.checkpoint # None
        <5>1. old.checkpoint \in Checkpoint \cup {None}
          BY <1>1, GoodIsThread
        <5>2. None \in Route \cup {None}
          OBVIOUS
        <5> HIDE DEF old, t
        <5>3. old.checkpoint # None => t.checkpoint \in Checkpoint
          BY <4>2, <5>1, <5>2 DEF Checkpoint
        <5> QED BY <5>3, Apart
      <4>4. t # Absent /\ NewThread # Absent
        BY <2>1, GoodIsThread, NewIsGood
      <4> HIDE DEF old, t
      <4> QED BY <3>1, <4>2, <4>3, <4>4 DEF Progress, NewThread
    <3> HIDE DEF t
    <3> QED BY <3>2 DEF NewThread
  <2> HIDE DEF old, t
  <2> QED BY <1>1, <1>4, <2>1, <2>2, WriteSharedKeeps
<1>5. CASE ~WorthKeeping(old) /\ Drop(s, op, project)
  <2>1. /\ thread' = [thread EXCEPT ![s] = Absent]
        /\ writer' = [at |-> "shared", op |-> op, session |-> s, next |-> project]
        /\ shared' = shared /\ machine' = machine /\ binding' = binding
    BY <1>5 DEF Drop
  <2>2. /\ thread'[s] = Absent
        /\ \A x \in Sessions : x # s => thread'[x] = thread[x]
        /\ thread' \in [Sessions -> Thread \cup {Absent}]
    BY <1>2, <2>1
  <2>3. writer' \in Writers /\ SessionTypeOK' /\ Bound'
    BY <1>2, <2>1, <2>2 DEF Writers, SessionTypeOK, Bound
  <2>4. AllGood'
    BY <1>2, <2>2 DEF AllGood
  <2>5. WritesThread' /\ WritesShared' /\ ReconciledIsAuthority'
    BY <2>1, <2>2 DEF WritesThread, WritesShared, ReconciledIsAuthority
  <2> QED BY <2>3, <2>4, <2>5 DEF SessionIInv
<1> QED BY <1>3, <1>4, <1>5 DEF ClearRoute

(* What is saved is what the machine says.                                 *)
LEMMA UnwrittenKeeps ==
    ASSUME SessionIInv, NEW s \in Sessions, binding[s] # None,
           MatchesAuthority(s), Unwritten(s)
    PROVE  SessionIInv'
<1>1. /\ writer' = [NoWriter EXCEPT !.at = "done", !.op = "reconcile", !.session = s]
      /\ shared' = shared /\ thread' = thread /\ machine' = machine /\ binding' = binding
  BY DEF Unwritten
<1>2. writer' = [at |-> "done", op |-> "reconcile", session |-> s, next |-> Absent]
  BY <1>1 DEF NoWriter
<1>3. SessionTypeOK /\ AllGood /\ Bound
  BY DEF SessionIInv
<1>4. writer' \in Writers /\ SessionTypeOK' /\ AllGood' /\ Bound'
  BY <1>1, <1>2, <1>3 DEF Writers, SessionTypeOK, AllGood, Bound
<1>5. WritesThread' /\ WritesShared'
  BY <1>2 DEF WritesThread, WritesShared
<1>6. /\ Project = machine /\ Previous(s).route = binding[s]
      /\ ChatMatches(Project, Previous(s).route)
  BY <1>3 DEF MatchesAuthority, Bound, ChatMatches
<1>7. Project' = Project /\ Previous(s)' = Previous(s)
  BY <1>1 DEF Project, Previous
<1>8. ReconciledIsAuthority'
  BY <1>1, <1>2, <1>6, <1>7 DEF ReconciledIsAuthority, ChatMatches, Previous
<1> QED BY <1>4, <1>5, <1>8 DEF SessionIInv

LEMMA ReconcileKeeps ==
    ASSUME SessionIInv, NEW s \in Sessions, ReconcileRoute(s)
    PROVE  SessionIInv'
<1> DEFINE t == Routed(Previous(s), binding[s])
<1>1. writer.at = "free"
  BY DEF ReconcileRoute, Opens
<1>2. machine \in Projects \cup {None} /\ binding[s] \in Route \cup {None}
  BY DEF SessionIInv, SessionTypeOK
<1>3. CASE binding[s] = None
  BY <1>1, <1>2, <1>3, ClearRouteKeeps DEF ReconcileRoute
<1>4. CASE binding[s] # None /\ MatchesAuthority(s)
  BY <1>4, UnwrittenKeeps DEF ReconcileRoute
<1>5. CASE binding[s] # None /\ ~MatchesAuthority(s)
  <2>1. binding[s].project = machine /\ binding[s] \in Route
    BY <1>2, <1>5 DEF SessionIInv, Bound
  <2>2. WriteShared(s, "reconcile", machine, t)
    BY <1>5, <2>1 DEF ReconcileRoute
  <2>3. GoodThread(Previous(s)) /\ Progress(Previous(s)) = Progress(thread[s])
    BY PreviousIsGood DEF SessionIInv
  <2>4. GoodThread(t) /\ t.route = binding[s] /\ Progress(t) = Progress(Previous(s))
    BY <1>2, <2>3, RoutedIsGood
  <2>5. t # NewThread
    <3> HIDE DEF t
    <3> QED BY <1>5, <2>4 DEF NewThread
  <2> HIDE DEF t
  <2> QED BY <1>1, <1>2, <2>2, <2>3, <2>4, <2>5, WriteSharedKeeps
<1> QED BY <1>3, <1>4, <1>5

LEMMA ClearChatKeeps ==
    ASSUME SessionIInv, NEW s \in Sessions, ClearChat(s)
    PROVE  SessionIInv'
<1>1. writer.at = "free" /\ ClearRoute(s, "clear", Project)
  BY DEF ClearChat, Opens
<1>2. Project \in Projects \cup {None}
  BY DEF Project, SessionIInv, SessionTypeOK
<1> QED BY <1>1, <1>2, ClearRouteKeeps

(* The second write, of the session's file or of the shared one.           *)
LEMMA WriteThreadKeeps ==
    ASSUME SessionIInv, WriteThread
    PROVE  SessionIInv'
<1> DEFINE s == writer.session
<1>1. /\ writer.at = "thread"
      /\ thread' = [thread EXCEPT ![s] = writer.next]
      /\ writer' = Ends
      /\ shared' = shared /\ machine' = machine /\ binding' = binding
  BY DEF WriteThread
<1>2. /\ writer \in [at: {"thread"}, op: {"update", "clear", "reconcile"},
                     session: Sessions, next: Thread \cup {Absent}]
  BY <1>1 DEF SessionIInv, Writers
<1>3. /\ s \in Sessions /\ writer.next \in Thread \cup {Absent}
      /\ writer.next # Absent => GoodThread(writer.next)
      /\ writer.op = "reconcile" =>
            /\ writer.next # Absent /\ writer.next.route = binding[s]
            /\ shared = [project |-> machine]
  BY <1>1, <1>2 DEF SessionIInv, WritesThread
<1>4. /\ thread \in [Sessions -> Thread \cup {Absent}] /\ AllGood
      /\ SessionTypeOK /\ Bound
  BY DEF SessionIInv, SessionTypeOK
<1> HIDE DEF s
<1>5. /\ thread' \in [Sessions -> Thread \cup {Absent}] /\ thread'[s] = writer.next
      /\ \A x \in Sessions : x # s => thread'[x] = thread[x]
  BY <1>1, <1>3, <1>4
<1>6. AllGood' /\ Bound'
  BY <1>1, <1>3, <1>4, <1>5 DEF AllGood, Bound
<1>7. CASE writer.op = "reconcile"
  <2>1. writer' = [at |-> "done", op |-> "reconcile", session |-> s, next |-> Absent]
    BY <1>1, <1>2, <1>7 DEF Ends, s
  <2>2. writer' \in Writers /\ SessionTypeOK'
    BY <1>1, <1>3, <1>4, <1>5, <2>1 DEF Writers, SessionTypeOK
  <2>3. WritesThread' /\ WritesShared'
    BY <2>1 DEF WritesThread, WritesShared
  <2>4. shared' # Absent /\ shared'.project = machine
    <3>1. [project |-> machine] \in [project: Projects \cup {None}]
      BY <1>4 DEF SessionTypeOK
    <3>2. [project |-> machine] # Absent
      BY <3>1, Apart
    <3> QED BY <1>1, <1>3, <1>7, <3>2
  <2>5. thread'[s] # Absent /\ thread'[s].route = binding[s]
    BY <1>3, <1>5, <1>7
  <2>6. ReconciledIsAuthority'
    BY <1>1, <1>3, <1>4, <2>1, <2>4, <2>5
       DEF ReconciledIsAuthority, Previous, Project, Bound, ChatMatches
  <2> QED BY <1>6, <2>2, <2>3, <2>6 DEF SessionIInv
<1>8. CASE writer.op # "reconcile"
  <2>1. writer' = NoWriter
    BY <1>1, <1>8 DEF Ends
  <2>2. writer' \in Writers /\ SessionTypeOK'
    BY <1>1, <1>4, <1>5, <2>1 DEF NoWriter, Writers, SessionTypeOK
  <2>3. WritesThread' /\ WritesShared' /\ ReconciledIsAuthority'
    BY <2>1 DEF NoWriter, WritesThread, WritesShared, ReconciledIsAuthority
  <2> QED BY <1>6, <2>2, <2>3 DEF SessionIInv
<1> QED BY <1>7, <1>8

LEMMA DropSharedKeeps ==
    ASSUME SessionIInv, DropShared
    PROVE  SessionIInv'
<1> DEFINE s == writer.session
<1>1. /\ writer.at = "shared"
      /\ shared' = IF writer.next = None THEN Absent ELSE [project |-> writer.next]
      /\ writer' = Ends
      /\ thread' = thread /\ machine' = machine /\ binding' = binding
  BY DEF DropShared
<1>2. /\ writer \in [at: {"shared"}, op: {"clear", "reconcile"}, session: Sessions,
                     next: Projects \cup {None}]
  BY <1>1 DEF SessionIInv, Writers
<1>3. /\ s \in Sessions /\ writer.next \in Projects \cup {None}
      /\ thread[s] = Absent
      /\ writer.op = "reconcile" => binding[s] = None /\ writer.next = machine
  BY <1>1, <1>2 DEF SessionIInv, WritesShared
<1>4. /\ SessionTypeOK /\ AllGood /\ Bound
  BY DEF SessionIInv
<1> HIDE DEF s
<1>5. /\ shared' \in {Absent} \cup [project: Projects \cup {None}]
      /\ shared' # Absent => shared'.project = writer.next
      /\ shared' = Absent => writer.next = None
  <2>1. writer.next # None =>
           [project |-> writer.next] \in [project: Projects \cup {None}]
    BY <1>3
  <2>2. writer.next # None => [project |-> writer.next] # Absent
    BY <2>1, Apart
  <2> QED BY <1>1, <1>3, <2>1, <2>2
<1>6. AllGood' /\ Bound'
  BY <1>1, <1>4 DEF AllGood, Bound
<1>7. CASE writer.op = "reconcile"
  <2>1. writer' = [at |-> "done", op |-> "reconcile", session |-> s, next |-> Absent]
    BY <1>1, <1>2, <1>7 DEF Ends, s
  <2>2. writer' \in Writers /\ SessionTypeOK'
    BY <1>1, <1>3, <1>4, <1>5, <2>1 DEF Writers, SessionTypeOK
  <2>3. WritesThread' /\ WritesShared'
    BY <2>1 DEF WritesThread, WritesShared
  <2>4. Project' = machine'
    BY <1>1, <1>3, <1>5, <1>7 DEF Project
  <2>5. thread'[s] = Absent
    BY <1>1, <1>3
  <2>6. ReconciledIsAuthority'
    BY <1>1, <1>3, <1>7, <2>1, <2>4, <2>5
       DEF ReconciledIsAuthority, Previous, NewThread, ChatMatches
  <2> QED BY <1>6, <2>2, <2>3, <2>6 DEF SessionIInv
<1>8. CASE writer.op # "reconcile"
  <2>1. writer' = NoWriter
    BY <1>1, <1>8 DEF Ends
  <2>2. writer' \in Writers /\ SessionTypeOK'
    BY <1>1, <1>4, <1>5, <2>1 DEF NoWriter, Writers, SessionTypeOK
  <2>3. WritesThread' /\ WritesShared' /\ ReconciledIsAuthority'
    BY <2>1 DEF NoWriter, WritesThread, WritesShared, ReconciledIsAuthority
  <2> QED BY <1>6, <2>2, <2>3 DEF SessionIInv
<1> QED BY <1>7, <1>8

(* What leaves the lock alone: the machine's side, a retirement, a death.  *)
LEMMA ReturnKeeps ==
    ASSUME SessionIInv, Return \/ Killed
    PROVE  SessionIInv'
<1>1. /\ writer' = NoWriter /\ shared' = shared /\ thread' = thread
      /\ machine' = machine /\ binding' = binding
  BY DEF Return, Killed
<1>2. /\ SessionTypeOK' /\ AllGood' /\ Bound' /\ writer' \in Writers
  BY <1>1 DEF SessionIInv, SessionTypeOK, AllGood, Bound, NoWriter, Writers
<1>3. WritesThread' /\ WritesShared' /\ ReconciledIsAuthority'
  BY <1>1 DEF NoWriter, WritesThread, WritesShared, ReconciledIsAuthority
<1> QED BY <1>2, <1>3 DEF SessionIInv

LEMMA MachineKeeps ==
    ASSUME SessionIInv, Settled,
           machine' \in Projects \cup {None}, binding' \in [Sessions -> Route \cup {None}],
           Bound', UNCHANGED <<shared, thread, writer>>
    PROVE  SessionIInv'
<1>1. SessionTypeOK' /\ AllGood' /\ writer' \in Writers
  BY DEF SessionIInv, SessionTypeOK, AllGood
<1>2. WritesThread' /\ WritesShared' /\ ReconciledIsAuthority'
  BY DEF SessionIInv, Settled, WritesThread, WritesShared, ReconciledIsAuthority
<1> QED BY <1>1, <1>2 DEF SessionIInv

LEMMA BindKeeps ==
    ASSUME SessionIInv, NEW s \in Sessions, NEW route \in Route, Bind(s, route)
    PROVE  SessionIInv'
<1>1. /\ machine \in Projects \cup {None} /\ binding \in [Sessions -> Route \cup {None}]
      /\ \A x \in Sessions : binding[x] # None => binding[x].project = machine
  BY DEF SessionIInv, SessionTypeOK, Bound
<1>2. /\ Settled /\ machine \in {None, route.project}
      /\ machine' = route.project /\ binding' = [binding EXCEPT ![s] = route]
      /\ UNCHANGED <<shared, thread, writer>>
  BY DEF Bind
<1>3. route.project \in Projects
  BY DEF Route
<1>4. \A x \in Sessions : binding[x] # None => binding[x].project \in Projects
  BY <1>1 DEF Route
<1>5. \A x \in Sessions : binding[x] # None => machine = route.project
  BY <1>1, <1>2, <1>4, Apart
<1>6. /\ machine' \in Projects \cup {None} /\ binding' \in [Sessions -> Route \cup {None}]
  BY <1>1, <1>2, <1>3
<1>7. Bound'
  BY <1>1, <1>2, <1>5 DEF Bound
<1> QED BY <1>2, <1>6, <1>7, MachineKeeps

LEMMA UnbindKeeps ==
    ASSUME SessionIInv, UnregisterProject \/ \E s \in Sessions : Unbind(s)
    PROVE  SessionIInv'
<1>1. /\ machine \in Projects \cup {None} /\ binding \in [Sessions -> Route \cup {None}]
      /\ Bound
  BY DEF SessionIInv, SessionTypeOK
<1>2. /\ Settled /\ UNCHANGED <<shared, thread, writer>>
      /\ machine' \in Projects \cup {None} /\ binding' \in [Sessions -> Route \cup {None}]
      /\ Bound'
  BY <1>1 DEF UnregisterProject, Unbind, Bound
<1> QED BY <1>2, MachineKeeps

LEMMA RetireKeeps ==
    ASSUME SessionIInv, NEW s \in Sessions, RetireSession(s)
    PROVE  SessionIInv'
<1>1. /\ writer.at = "free" /\ thread' = [thread EXCEPT ![s] = Absent]
      /\ shared' = shared /\ machine' = machine /\ binding' = binding /\ writer' = writer
  BY DEF RetireSession
<1>2. /\ SessionTypeOK' /\ AllGood' /\ Bound' /\ writer' \in Writers
  BY <1>1 DEF SessionIInv, SessionTypeOK, AllGood, Bound
<1>3. WritesThread' /\ WritesShared' /\ ReconciledIsAuthority'
  BY <1>1 DEF WritesThread, WritesShared, ReconciledIsAuthority
<1> QED BY <1>2, <1>3 DEF SessionIInv

LEMMA SessionIInvInductive ==
    ASSUME SessionIInv, [SessionNext]_sessionVars
    PROVE  SessionIInv'
<1>1. CASE \E s \in Sessions : \E patch \in Patch : Update(s, patch)
  BY <1>1, UpdateKeeps
<1>2. CASE \E s \in Sessions : \E route \in Route : Bind(s, route)
  BY <1>2, BindKeeps
<1>3. CASE \E s \in Sessions : ReconcileRoute(s)
  BY <1>3, ReconcileKeeps
<1>4. CASE \E s \in Sessions : ClearChat(s)
  BY <1>4, ClearChatKeeps
<1>5. CASE UnregisterProject \/ \E s \in Sessions : Unbind(s)
  BY <1>5, UnbindKeeps
<1>6. CASE \E s \in Sessions : RetireSession(s)
  BY <1>6, RetireKeeps
<1>7. CASE WriteThread
  BY <1>7, WriteThreadKeeps
<1>8. CASE DropShared
  BY <1>8, DropSharedKeeps
<1>9. CASE Return \/ Killed
  BY <1>9, ReturnKeeps
<1>10. CASE UNCHANGED sessionVars
  <2>1. UNCHANGED <<shared, thread, machine, binding, writer>>
    BY <1>10 DEF sessionVars
  <2>2. /\ SessionTypeOK' /\ AllGood' /\ Bound' /\ writer' \in Writers
    BY <2>1 DEF SessionIInv, SessionTypeOK, AllGood, Bound
  <2>3. WritesThread' /\ WritesShared' /\ ReconciledIsAuthority'
    BY <2>1 DEF SessionIInv, WritesThread, WritesShared, ReconciledIsAuthority,
                Previous, Project, Saved
  <2> QED BY <2>2, <2>3 DEF SessionIInv
<1> QED BY <1>1, <1>2, <1>3, <1>4, <1>5, <1>6, <1>7, <1>8, <1>9, <1>10 DEF SessionNext

LEMMA SessionIInvInit == SessionInit => SessionIInv
<1> SUFFICES ASSUME SessionInit PROVE SessionIInv
  OBVIOUS
<1>1. /\ shared = Absent /\ thread = [s \in Sessions |-> Absent]
      /\ machine = None /\ binding = [s \in Sessions |-> None]
      /\ writer = NoWriter
  BY DEF SessionInit
<1>2. /\ SessionTypeOK /\ AllGood /\ Bound /\ writer \in Writers
  BY <1>1 DEF SessionTypeOK, AllGood, Bound, NoWriter, Writers
<1>3. WritesThread /\ WritesShared /\ ReconciledIsAuthority
  BY <1>1 DEF NoWriter, WritesThread, WritesShared, ReconciledIsAuthority
<1> QED BY <1>2, <1>3 DEF SessionIInv

LEMMA SessionIInvTheorem == SessionSpec => []SessionIInv
<1>1. SessionIInv /\ [SessionNext]_sessionVars => SessionIInv'
  BY SessionIInvInductive
<1> QED BY <1>1, SessionIInvInit, PTL DEF SessionSpec

(* The session files, in every state and however an operation is cut short *)
(* between its two writes: every session can be read, a checkpoint names a *)
(* request of its own turn, and a reconciled session is as the machine     *)
(* says.                                                                   *)
THEOREM SessionTheorem == SessionSpec => []SessionInv
<1>1. SessionIInv => SessionInv
  <2> SUFFICES ASSUME SessionIInv PROVE SessionInv
    OBVIOUS
  <2>1. AllGood /\ SessionTypeOK /\ ReconciledIsAuthority
    BY DEF SessionIInv
  <2>2. \A s \in Sessions : Readable(thread[s])
    BY <2>1 DEF AllGood, GoodThread, Readable
  <2>3. RequestIsOfTurn
    BY <2>1 DEF AllGood, GoodThread, RequestIsOfTurn
  <2> QED BY <2>1, <2>2, <2>3 DEF SessionInv, SessionReadable
<1> QED BY <1>1, SessionIInvTheorem, PTL

(* Only an update of a session, or its retirement, changes what it is      *)
(* doing: the route is written and cleared around it, in two writes that   *)
(* may be cut short.                                                       *)
THEOREM ProgressTheorem == SessionSpec => ProgressSurvivesRoutes
<1> DEFINE Kept == \A s \in Sessions :
                      \/ Progress(thread'[s]) = Progress(thread[s])
                      \/ writer.op = "update" /\ writer.session = s
                      \/ RetireSession(s)
<1>1. SessionIInv /\ [SessionNext]_sessionVars => [Kept]_sessionVars
  <2> SUFFICES ASSUME SessionIInv, SessionNext PROVE Kept
    OBVIOUS
  <2>0. thread \in [Sessions -> Thread \cup {Absent}]
    BY DEF SessionIInv, SessionTypeOK
  <2>1. CASE thread' = thread
    BY <2>1
  <2>2. CASE WriteThread
    <3>1. /\ writer.at = "thread" /\ thread' = [thread EXCEPT ![writer.session] = writer.next]
      BY <2>2 DEF WriteThread
    <3>2. writer.op # "update" => Progress(writer.next) = Progress(thread[writer.session])
      BY <3>1 DEF SessionIInv, WritesThread
    <3>3. \A s \in Sessions : \/ s # writer.session /\ thread'[s] = thread[s]
                              \/ s = writer.session /\ thread'[s] = writer.next
      BY <2>0, <3>1
    <3> QED BY <3>2, <3>3
  <2>3. ASSUME NEW s \in Sessions, NEW op, NEW project, Drop(s, op, project),
               ~WorthKeeping(Previous(s))
        PROVE  Kept
    <3>1. thread' = [thread EXCEPT ![s] = Absent]
      BY <2>3 DEF Drop
    <3>2. Progress(Previous(s)) = Progress(thread[s]) /\ GoodThread(Previous(s))
      BY PreviousIsGood DEF SessionIInv
    <3>3. Progress(Previous(s)) = Progress(Absent)
      <4>1. Previous(s) # Absent
        BY <3>2, GoodIsThread
      <4> QED BY <2>3, <4>1 DEF WorthKeeping, Progress
    <3>4. \A x \in Sessions : \/ x # s /\ thread'[x] = thread[x]
                              \/ x = s /\ thread'[x] = Absent
      BY <2>0, <3>1
    <3> QED BY <3>2, <3>3, <3>4
  <2>4. ASSUME NEW s \in Sessions, NEW op, NEW project, ClearRoute(s, op, project)
        PROVE  Kept
    <3>1. CASE Nothing(s, op)
      BY <2>1, <3>1 DEF Nothing, Unwritten
    <3>2. CASE WriteShared(s, op, project, Routed(Previous(s), None))
      BY <2>1, <3>2 DEF WriteShared
    <3>3. CASE ~WorthKeeping(Previous(s)) /\ Drop(s, op, project)
      BY <2>3, <3>3
    <3> QED BY <2>4, <3>1, <3>2, <3>3 DEF ClearRoute
  <2>5. ASSUME NEW s \in Sessions, ReconcileRoute(s) PROVE Kept
    <3>1. CASE binding[s] = None
      BY <2>4, <2>5, <3>1 DEF ReconcileRoute
    <3>2. CASE binding[s] # None
      BY <2>1, <2>5, <3>2 DEF ReconcileRoute, Unwritten, WriteShared
    <3> QED BY <3>1, <3>2
  <2>6. ASSUME NEW s \in Sessions, ClearChat(s) PROVE Kept
    BY <2>4, <2>6 DEF ClearChat
  <2>7. ASSUME NEW s \in Sessions, RetireSession(s) PROVE Kept
    <3>1. thread' = [thread EXCEPT ![s] = Absent]
      BY <2>7 DEF RetireSession
    <3>2. \A x \in Sessions : x # s => thread'[x] = thread[x]
      BY <2>0, <3>1
    <3> QED BY <2>7, <3>2
  <2>8. CASE \E s \in Sessions : \/ \E patch \in Patch : Update(s, patch)
                                 \/ \E route \in Route : Bind(s, route)
                                 \/ Unbind(s)
    BY <2>1, <2>8 DEF Update, WriteShared, Bind, Unbind
  <2>9. CASE Return \/ Killed \/ DropShared \/ UnregisterProject
    BY <2>1, <2>9 DEF Return, Killed, DropShared, UnregisterProject
  <2> HIDE DEF Kept
  <2> QED BY <2>2, <2>5, <2>6, <2>7, <2>8, <2>9 DEF SessionNext
<1> QED BY <1>1, SessionIInvTheorem, PTL DEF SessionSpec, ProgressSurvivesRoutes

-----------------------------------------------------------------------------
(* Execution records                                                       *)

(* A byte of the log after another, the first one after a newline.         *)
Follows(before, byte) ==
    \/ before = Newline /\ \E n \in Numbers : byte = <<n, 1>>
    \/ \E n \in Numbers : before = <<n, 1>> /\ byte = <<n, 2>>
    \/ \E n \in Numbers : before = <<n, 2>> /\ byte = Newline

Before(bytes, i) == IF i = 1 THEN Newline ELSE bytes[i - 1]

(* A log in order is whole lines and at most one that is not finished.     *)
InOrder(bytes) == \A i \in 1..Len(bytes) : Follows(Before(bytes, i), bytes[i])

(* What a process may have in hand.                                        *)
AllBytes == {Newline} \cup (Numbers \X {1, 2})
Items == [id: Numbers, text: Texts \cup {NoText}]
RecorderSteps == {"idle", "save", "body", "index", "drop", "append",
                  "truncate", "write"}
RecorderStates == [at: RecorderSteps, text: Texts \cup {NoText, NoOutput},
                   id: 0..MaxRecords, n: 0..MaxRecords, left: Seq(Items) \cup Seq(AllBytes)]

Left(n) == {Line(n), <<<<n, 2>>, Newline>>, <<Newline>>}

RecordsShaped ==
    /\ log \in Seq(AllBytes) /\ index.items \in Seq(Items)
    /\ recorder \in [Recorders -> RecorderStates]
    /\ \A p \in Recorders :
          /\ recorder[p].at # "idle" => recorder[p].n \in Numbers
          /\ recorder[p].at \in {"save", "body", "index"} => recorder[p].text # NoOutput

(* At most one process holds the lock of the log, and what it has still to *)
(* write continues the log.                                                *)
AtLog == {"truncate", "write"}
LogLocked ==
    \A p \in Recorders :
       /\ recorder[p].at \in AtLog =>
             \A q \in Recorders : recorder[q].at \in AtLog => q = p
       /\ recorder[p].at = "write" =>
             /\ recorder[p].left \in Left(recorder[p].n)
             /\ Follows(Before(log, Len(log) + 1), recorder[p].left[1])

(* The records begun are enough for the ids to come.                       *)
Due == {p \in Recorders : recorder[p].at \in {"save", "body", "index"}}
IdsSuffice == IsFiniteSet(Due) /\ index.nextId + Cardinality(Due) <= begun + 1

(* At most one process holds the lock of the outputs; the output it saves  *)
(* is the next one, and what it drops is no longer in the index.           *)
Saving == {"body", "index", "drop"}
OutputsLocked ==
    \A p \in Recorders :
       recorder[p].at \in Saving =>
          /\ \A q \in Recorders : recorder[q].at \in Saving => q = p
          /\ recorder[p].at # "drop" => recorder[p].id = index.nextId
          /\ recorder[p].at = "body" => recorder[p].text # NoText
          /\ recorder[p].at = "index" /\ recorder[p].text # NoText =>
                bodies[recorder[p].id] = recorder[p].text
          /\ recorder[p].at = "drop" =>
                /\ recorder[p].left \in Seq(Items)
                /\ \A k \in DOMAIN recorder[p].left, m \in DOMAIN index.items :
                      recorder[p].left[k].id # index.items[m].id

(* Ids are given in order.                                                 *)
IdsInOrder ==
    /\ \A k \in DOMAIN index.items : index.items[k].id < index.nextId
    /\ \A k, m \in DOMAIN index.items : k < m => index.items[k].id < index.items[m].id

(* The invariant of the records, when no character is of two bytes.        *)
RecordsIInv ==
    /\ RecordsTypeOK /\ RecordsShaped
    /\ InOrder(log) /\ LogLocked
    /\ IdsSuffice /\ OutputsLocked /\ IdsInOrder
    /\ IndexedIsReadable

(* Where a record starts.                                                  *)
Starts(byte) == \E n \in Numbers : byte = <<n, 1>>

(* Every record that is read is read again, before those that are new.     *)
Grows(before, after) ==
    \A i \in ReadRecords(before) :
       /\ i \in ReadRecords(after) /\ after[i] = before[i]
       /\ \A j \in ReadRecords(after) \ ReadRecords(before) : i < j

(* The same, but for one that has no newline behind it.                    *)
GrowsButLast(before, after) ==
    \A i \in ReadRecords(before) :
       \/ /\ i \in ReadRecords(after) /\ after[i] = before[i]
          /\ \A j \in ReadRecords(after) \ ReadRecords(before) : i < j
       \/ i = LastNewline(before) + 1

(* What a step does to the records that are read.                          *)
LogGrows ==
    \/ Grows(log, log')
    \/ GrowsButLast(log, log') /\ \E p \in Recorders : recorder[p].at = "truncate"

LEMMA Amounts ==
    /\ MAX_OUTPUT_RECORDS \in Nat \ {0} /\ MaxRecords \in Nat
    /\ NoText \notin Texts /\ Torn \notin Texts /\ NoOutput \notin Texts
    /\ NoText # Torn /\ NoText # NoOutput
BY RecordsAssumption DEF RecordsAssumption, NoText, Torn, NoOutput

(* What the bytes of a log in order say of their neighbours.               *)
LEMMA ByteKinds ==
    ASSUME NEW bytes \in Seq(AllBytes), InOrder(bytes), NEW i \in 1..Len(bytes)
    PROVE  /\ Starts(bytes[i]) => bytes[i] # Newline /\ Before(bytes, i) = Newline
           /\ bytes[i] = Newline =>
                 i > 1 /\ \E n \in Numbers : bytes[i - 1] = <<n, 2>>
           /\ (\E n \in Numbers : bytes[i] = <<n, 2>>) =>
                 /\ i > 1 /\ bytes[i] # Newline /\ ~Starts(bytes[i])
                 /\ Before(bytes, i) # Newline
                 /\ \E n \in Numbers : bytes[i - 1] = <<n, 1>> /\ bytes[i] = <<n, 2>>
           /\ \/ Starts(bytes[i]) \/ bytes[i] = Newline
              \/ \E n \in Numbers : bytes[i] = <<n, 2>>
           /\ ~Starts(bytes[i]) \/ bytes[i] # Newline
           /\ Before(bytes, i) # Newline => i > 1 /\ Before(bytes, i) = bytes[i - 1]
<1>1. Follows(Before(bytes, i), bytes[i])
  BY DEF InOrder
<1>2. \A n \in Numbers : <<n, 1>> # Newline /\ <<n, 2>> # Newline
  BY Amounts DEF Newline, Numbers
<1>3. \A n, m \in Numbers : <<n, 1>> # <<m, 2>> /\ (<<n, 2>> = <<m, 2>> => n = m)
  OBVIOUS
<1>4. /\ i = 1 => Before(bytes, i) = Newline
      /\ i # 1 => i > 1 /\ Before(bytes, i) = bytes[i - 1]
  BY DEF Before
<1> HIDE DEF Newline, Numbers
<1> QED BY <1>1, <1>2, <1>3, <1>4 DEF Follows, Starts

LEMMA InOrderAppend ==
    ASSUME NEW bytes \in Seq(AllBytes), InOrder(bytes),
           NEW byte \in AllBytes, Follows(Before(bytes, Len(bytes) + 1), byte)
    PROVE  /\ Append(bytes, byte) \in Seq(AllBytes) /\ InOrder(Append(bytes, byte))
           /\ Len(Append(bytes, byte)) = Len(bytes) + 1
           /\ Before(Append(bytes, byte), Len(bytes) + 2) = byte
<1> DEFINE after == Append(bytes, byte)
<1>1. /\ after \in Seq(AllBytes) /\ Len(after) = Len(bytes) + 1 /\ Len(bytes) \in Nat
      /\ \A i \in 1..Len(bytes) : after[i] = bytes[i]
      /\ after[Len(bytes) + 1] = byte
  OBVIOUS
<1> HIDE DEF after
<1>2. \A i \in 1..(Len(bytes) + 1) : Before(after, i) = Before(bytes, i)
  BY <1>1 DEF Before
<1>3. InOrder(after)
  BY <1>1, <1>2 DEF InOrder
<1>4. Before(after, Len(bytes) + 2) = byte
  BY <1>1 DEF Before
<1> QED BY <1>1, <1>3, <1>4 DEF after

LEMMA InOrderPrefix ==
    ASSUME NEW bytes \in Seq(AllBytes), InOrder(bytes), NEW k \in 0..Len(bytes)
    PROVE  /\ SubSeq(bytes, 1, k) \in Seq(AllBytes) /\ InOrder(SubSeq(bytes, 1, k))
           /\ Len(SubSeq(bytes, 1, k)) = k
           /\ \A i \in 1..k : SubSeq(bytes, 1, k)[i] = bytes[i]
<1> DEFINE after == SubSeq(bytes, 1, k)
<1>1. /\ after \in Seq(AllBytes) /\ Len(after) = k /\ Len(bytes) \in Nat
      /\ \A i \in 1..k : after[i] = bytes[i]
  OBVIOUS
<1> HIDE DEF after
<1>2. \A i \in 1..k : Before(after, i) = Before(bytes, i)
  BY <1>1 DEF Before
<1>3. InOrder(after)
  BY <1>1, <1>2 DEF InOrder
<1> QED BY <1>1, <1>3 DEF after

(* In such a log, a record is whole when its two bytes are there.          *)
LEMMA WholeIsStarted ==
    ASSUME NEW bytes \in Seq(AllBytes), InOrder(bytes), NEW i \in 1..Len(bytes)
    PROVE  WholeAt(bytes, i) <=> i < Len(bytes) /\ Starts(bytes[i])
<1>0. Len(bytes) \in Nat
  OBVIOUS
<1>1. ASSUME WholeAt(bytes, i) PROVE i < Len(bytes) /\ Starts(bytes[i])
  <2>1. PICK n \in Numbers : SubSeq(bytes, i, i + 1) = Bytes(n)
    BY <1>1 DEF WholeAt
  <2>2. i < Len(bytes)
    BY <1>1 DEF WholeAt
  <2>3. SubSeq(bytes, i, i + 1)[1] = bytes[i]
    BY <1>0, <2>2
  <2>4. Bytes(n)[1] = <<n, 1>>
    BY DEF Bytes
  <2> QED BY <2>1, <2>2, <2>3, <2>4 DEF Starts
<1>2. ASSUME i < Len(bytes), Starts(bytes[i]) PROVE WholeAt(bytes, i)
  <2>1. PICK n \in Numbers : bytes[i] = <<n, 1>>
    BY <1>2 DEF Starts
  <2>2. i = 1 \/ bytes[i - 1] = Newline
    BY <1>2, ByteKinds DEF Before
  <2>3. i + 1 \in 1..Len(bytes) /\ Before(bytes, i + 1) = bytes[i]
    BY <1>0, <1>2 DEF Before
  <2>4. bytes[i + 1] = <<n, 2>>
    <3>1. Follows(bytes[i], bytes[i + 1])
      BY <2>3 DEF InOrder
    <3>2. <<n, 1>> # Newline
      BY Amounts DEF Newline, Numbers
    <3> QED BY <2>1, <3>1, <3>2 DEF Follows
  <2>5. SubSeq(bytes, i, i + 1) = Bytes(n)
    <3> DEFINE two == SubSeq(bytes, i, i + 1)
    <3>1. two \in Seq(AllBytes) /\ Len(two) = 2 /\ two[1] = bytes[i] /\ two[2] = bytes[i + 1]
      <4>1. i \in Nat /\ i + 1 <= Len(bytes) /\ 1 <= i /\ (i + 1) - i + 1 = 2
        BY <1>0, <1>2
      <4>2. \A j \in i..(i + 1) : bytes[j] \in AllBytes
        BY <1>0, <4>1
      <4>3. two = [k \in 1..2 |-> bytes[i + k - 1]]
        BY <4>1 DEF two
      <4>4. \A k \in 1..2 : i + k - 1 \in i..(i + 1)
        BY <4>1
      <4>5. two \in Seq(AllBytes) /\ Len(two) = 2
        BY <4>2, <4>3, <4>4
      <4>6. two[1] = bytes[i + 1 - 1] /\ two[2] = bytes[i + 2 - 1]
        BY <4>3
      <4>7. i + 1 - 1 = i /\ i + 2 - 1 = i + 1
        BY <4>1
      <4> HIDE DEF two
      <4> QED BY <4>5, <4>6, <4>7
    <3> HIDE DEF two
    <3>2. two = <<two[1], two[2]>>
      BY <3>1
    <3> QED BY <2>1, <2>4, <3>1, <3>2 DEF two, Bytes
  <2>6. i + 2 <= Len(bytes) => bytes[i + 2] = Newline
    <3> SUFFICES ASSUME i + 2 <= Len(bytes) PROVE bytes[i + 2] = Newline
      OBVIOUS
    <3>1. i + 2 \in 1..Len(bytes) /\ Before(bytes, i + 2) = bytes[i + 1]
      BY <1>0 DEF Before
    <3>2. Follows(<<n, 2>>, bytes[i + 2])
      BY <2>4, <3>1 DEF InOrder
    <3>3. <<n, 2>> # Newline
      BY Amounts DEF Newline, Numbers
    <3> QED BY <3>2, <3>3 DEF Follows
  <2> QED BY <1>2, <2>2, <2>5, <2>6 DEF WholeAt
<1> QED BY <1>1, <1>2

LEMMA InOrderIsReadable ==
    ASSUME NEW bytes \in Seq(AllBytes), InOrder(bytes)
    PROVE  ~Malformed(bytes)
<1> SUFFICES ASSUME NEW i \in 1..Len(bytes), NEW j \in i..Len(bytes),
                    i = 1 \/ bytes[i - 1] = Newline, bytes[j] = Newline,
                    bytes[i] # Newline
             PROVE  WholeAt(bytes, i)
  BY DEF Malformed
<1>1. i < j /\ j \in 1..Len(bytes) /\ Len(bytes) \in Nat
  OBVIOUS
<1>2. Before(bytes, i) = Newline
  BY DEF Before
<1>3. Starts(bytes[i])
  BY <1>2, ByteKinds
<1> QED BY <1>1, <1>3, WholeIsStarted

(* One more byte.                                                          *)
LEMMA AppendGrows ==
    ASSUME NEW bytes \in Seq(AllBytes), InOrder(bytes),
           NEW byte \in AllBytes, Follows(Before(bytes, Len(bytes) + 1), byte)
    PROVE  Grows(bytes, Append(bytes, byte))
<1> DEFINE after == Append(bytes, byte)
<1>1. /\ after \in Seq(AllBytes) /\ InOrder(after) /\ Len(after) = Len(bytes) + 1
  BY InOrderAppend
<1>2. Len(bytes) \in Nat /\ \A i \in 1..Len(bytes) : after[i] = bytes[i]
  OBVIOUS
<1> HIDE DEF after
<1>3. \A i : i \in ReadRecords(bytes) <=> i \in 1..Len(bytes) /\ i < Len(bytes) /\ Starts(bytes[i])
  BY WholeIsStarted DEF ReadRecords
<1>4. \A i : i \in ReadRecords(after) <=> i \in 1..Len(after) /\ i < Len(after) /\ Starts(after[i])
  BY <1>1, WholeIsStarted DEF ReadRecords
<1>5. ASSUME NEW i \in ReadRecords(bytes)
      PROVE  /\ i \in ReadRecords(after) /\ after[i] = bytes[i]
             /\ \A j \in ReadRecords(after) \ ReadRecords(bytes) : i < j
  <2>1. i \in 1..Len(bytes) /\ i < Len(bytes) /\ Starts(bytes[i])
    BY <1>3
  <2>2. i \in ReadRecords(after) /\ after[i] = bytes[i]
    BY <1>1, <1>2, <1>4, <2>1
  <2>3. ASSUME NEW j \in ReadRecords(after) \ ReadRecords(bytes) PROVE i < j
    <3>1. j \in 1..Len(after) /\ j < Len(after) /\ Starts(after[j])
      BY <1>4
    <3>2. j \in 1..Len(bytes) /\ after[j] = bytes[j]
      BY <1>1, <1>2, <3>1
    <3>3. ~(j < Len(bytes))
      BY <1>3, <3>1, <3>2
    <3> QED BY <1>2, <2>1, <3>2, <3>3
  <2> QED BY <2>2, <2>3
<1> QED BY <1>5 DEF Grows, after

LEMMA GrowsRefl == ASSUME NEW bytes PROVE Grows(bytes, bytes)
BY DEF Grows

(* The last newline is the last byte but two, or a later one.              *)
LEMMA LastNewlineIs ==
    ASSUME NEW bytes \in Seq(AllBytes), NEW k \in 0..Len(bytes),
           k = 0 \/ bytes[k] = Newline,
           \A j \in (k + 1)..Len(bytes) : bytes[j] # Newline
    PROVE  LastNewline(bytes) = k
<1> DEFINE newlines == {0} \cup {i \in 1..Len(bytes) : bytes[i] = Newline}
<1>1. Len(bytes) \in Nat
  OBVIOUS
<1>2. k \in newlines /\ \A j \in newlines : j \in 0..Len(bytes) /\ j <= k
  BY <1>1
<1>3. \A i \in newlines : (\A j \in newlines : j <= i) => i = k
  BY <1>1, <1>2
<1>4. LastNewline(bytes) = CHOOSE i \in newlines : \A j \in newlines : j <= i
  BY DEF LastNewline
<1> HIDE DEF newlines
<1> QED BY <1>2, <1>3, <1>4

(* A log in order ends with its last newline and at most two bytes more.   *)
LEMMA LastNewlineEnds ==
    ASSUME NEW bytes \in Seq(AllBytes), InOrder(bytes)
    PROVE  /\ LastNewline(bytes) \in 0..Len(bytes)
           /\ LastNewline(bytes) = 0 \/ bytes[LastNewline(bytes)] = Newline
           /\ \A j \in (LastNewline(bytes) + 1)..Len(bytes) : bytes[j] # Newline
<1> DEFINE last == Len(bytes)
           EndsAt(k) == /\ k = 0 \/ bytes[k] = Newline
                        /\ \A j \in (k + 1)..last : bytes[j] # Newline
<1>0. last \in Nat
  OBVIOUS
<1>1. \E k \in 0..last : EndsAt(k)
  <2>1. CASE last = 0 \/ bytes[last] = Newline
    <3>1. last \in 0..last /\ \A j \in (last + 1)..last : FALSE
      BY <1>0
    <3> QED BY <2>1, <3>1
  <2>2. CASE last # 0 /\ Starts(bytes[last])
    <3>1. last \in 1..last /\ last - 1 \in 0..last
      BY <1>0, <2>2
    <3>2. Before(bytes, last) = Newline /\ bytes[last] # Newline
      BY <2>2, <3>1, ByteKinds
    <3>3. last - 1 = 0 \/ bytes[last - 1] = Newline
      BY <3>1, <3>2 DEF Before
    <3>4. \A j \in (last - 1 + 1)..last : j = last
      BY <1>0
    <3> QED BY <3>1, <3>2, <3>3, <3>4
  <2>3. CASE last # 0 /\ bytes[last] # Newline /\ ~Starts(bytes[last])
    <3>1. last \in 1..last
      BY <1>0, <2>3
    <3>2. PICK n \in Numbers : last > 1 /\ bytes[last - 1] = <<n, 1>>
      BY <2>3, <3>1, ByteKinds
    <3>3. last - 1 \in 1..last /\ last - 2 \in 0..last
      BY <1>0, <3>2
    <3>4. Starts(bytes[last - 1])
      BY <3>2 DEF Starts
    <3>5. Before(bytes, last - 1) = Newline /\ bytes[last - 1] # Newline
      BY <3>3, <3>4, ByteKinds
    <3>6. last - 2 = 0 \/ bytes[last - 2] = Newline
      BY <3>3, <3>5 DEF Before
    <3>7. \A j \in (last - 2 + 1)..last : j = last - 1 \/ j = last
      BY <1>0
    <3> QED BY <2>3, <3>3, <3>5, <3>6, <3>7
  <2> QED BY <2>1, <2>2, <2>3
<1>2. PICK k \in 0..last : EndsAt(k)
  BY <1>1
<1>3. LastNewline(bytes) = k
  BY <1>2, LastNewlineIs
<1> QED BY <1>2, <1>3

LEMMA CharactersAreBytes ==
    ASSUME Wide = {}, NEW bytes, NEW k \in Nat
    PROVE  Characters(bytes, k) = k
<1>1. {i \in 1..k : ~Continues(bytes[i])} = 1..k
  BY DEF Continues
<1>2. Cardinality(1..k) = k
  BY FS_Interval
<1> QED BY <1>1, <1>2 DEF Characters

(* A repair leaves whole lines, and all the records there were.            *)
LEMMA RepairedIsWhole ==
    ASSUME Wide = {}, NEW bytes \in Seq(AllBytes), InOrder(bytes)
    PROVE  /\ Repaired(bytes) \in Seq(AllBytes) /\ InOrder(Repaired(bytes))
           /\ Before(Repaired(bytes), Len(Repaired(bytes)) + 1) = Newline
           /\ Grows(bytes, Repaired(bytes))
<1> DEFINE last == Len(bytes)
<1>0. last \in Nat
  OBVIOUS
<1>1. CASE last = 0 \/ bytes[last] = Newline
  <2>1. LastNewline(bytes) = last
    BY <1>0, <1>1, LastNewlineIs
  <2>2. Repaired(bytes) = bytes
    BY <2>1 DEF Repaired
  <2>3. Before(bytes, last + 1) = Newline
    BY <1>0, <1>1 DEF Before
  <2> QED BY <2>2, <2>3, GrowsRefl
<1>2. CASE last # 0 /\ Starts(bytes[last])
  <2>1. last \in 1..last /\ last - 1 \in 0..last /\ last - 1 \in Nat
    BY <1>0, <1>2
  <2>2. Before(bytes, last) = Newline /\ bytes[last] # Newline
    BY <1>2, <2>1, ByteKinds
  <2>3. last - 1 = 0 \/ bytes[last - 1] = Newline
    BY <2>1, <2>2 DEF Before
  <2>4. LastNewline(bytes) = last - 1
    BY <1>0, <2>1, <2>2, <2>3, LastNewlineIs
  <2> DEFINE after == SubSeq(bytes, 1, last - 1)
  <2>5. ~WholeAt(bytes, last)
    BY DEF WholeAt
  <2>6. Repaired(bytes) = after
    BY <1>0, <2>1, <2>4, <2>5, CharactersAreBytes DEF Repaired, TailIsRecord, Cut
  <2>7. /\ after \in Seq(AllBytes) /\ InOrder(after) /\ Len(after) = last - 1
        /\ \A i \in 1..(last - 1) : after[i] = bytes[i]
    BY <2>1, InOrderPrefix
  <2> HIDE DEF after
  <2>8. Before(after, Len(after) + 1) = Newline
    BY <2>1, <2>3, <2>7 DEF Before
  <2>9. last - 1 # 0 => ~Starts(bytes[last - 1])
    <3> SUFFICES ASSUME last - 1 # 0 PROVE ~Starts(bytes[last - 1])
      OBVIOUS
    <3>1. last - 1 \in 1..last
      <4>1. \A l \in Nat : l - 1 # 0 /\ l - 1 \in 0..l => l - 1 \in 1..l
        OBVIOUS
      <4> QED BY <1>0, <2>1, <4>1
    <3>2. bytes[last - 1] = Newline
      BY <2>3
    <3> QED BY <3>1, <3>2, ByteKinds
  <2>10. \A i : i \in ReadRecords(bytes) <=> i \in 1..last /\ i < last /\ Starts(bytes[i])
    BY WholeIsStarted DEF ReadRecords
  <2>11. \A i : i \in ReadRecords(after) <=>
                   i \in 1..Len(after) /\ i < Len(after) /\ Starts(after[i])
    BY <2>7, WholeIsStarted DEF ReadRecords
  <2>12. \A i : i \in ReadRecords(bytes) <=> i \in ReadRecords(after)
    <3> TAKE i
    <3>1. i \in 1..last /\ i < last <=> i \in 1..(last - 1)
      BY <1>0
    <3>2. i \in 1..(last - 1) /\ Starts(bytes[i]) => i # last - 1
      <4>1. i \in 1..(last - 1) => last - 1 # 0
        <5>1. \A l \in Nat : i \in 1..(l - 1) => l - 1 # 0
          OBVIOUS
        <5> QED BY <1>0, <5>1
      <4> HIDE DEF last
      <4> QED BY <2>9, <4>1
    <3>3. i \in 1..(last - 1) => after[i] = bytes[i]
      BY <2>7
    <3>4. i \in 1..(last - 1) => (i < last - 1 <=> i # last - 1)
      BY <2>1
    <3> QED BY <2>7, <2>10, <2>11, <3>1, <3>2, <3>3, <3>4
  <2>13. Grows(bytes, after)
    BY <1>0, <2>7, <2>10, <2>12 DEF Grows
  <2> QED BY <2>6, <2>7, <2>8, <2>13
<1>3. CASE last # 0 /\ bytes[last] # Newline /\ ~Starts(bytes[last])
  <2>1. last \in 1..last
    BY <1>0, <1>3
  <2>2. PICK n \in Numbers : last > 1 /\ bytes[last - 1] = <<n, 1>> /\ bytes[last] = <<n, 2>>
    BY <1>3, <2>1, ByteKinds
  <2>3. last - 1 \in 1..last /\ last - 2 \in 0..last
    BY <1>0, <2>2
  <2>4. Starts(bytes[last - 1])
    BY <2>2 DEF Starts
  <2>5. Before(bytes, last - 1) = Newline /\ bytes[last - 1] # Newline
    BY <2>3, <2>4, ByteKinds
  <2>6. last - 2 = 0 \/ bytes[last - 2] = Newline
    BY <2>3, <2>5 DEF Before
  <2>7. LastNewline(bytes) = last - 2
    <3>1. \A j \in (last - 2 + 1)..last : j = last - 1 \/ j = last
      BY <1>0
    <3> QED BY <1>3, <2>3, <2>5, <2>6, <3>1, LastNewlineIs
  <2>8. WholeAt(bytes, last - 1)
    BY <1>0, <2>3, <2>4, WholeIsStarted
  <2>9. Repaired(bytes) = Append(bytes, Newline)
    <3>1. last - 2 # last /\ last - 2 + 1 = last - 1
      BY <1>0
    <3> QED BY <2>7, <2>8, <3>1 DEF Repaired, TailIsRecord
  <2>10. Newline \in AllBytes /\ Follows(Before(bytes, last + 1), Newline)
    <3>1. Before(bytes, last + 1) = bytes[last]
      BY <1>0, <1>3 DEF Before
    <3> QED BY <2>2, <3>1 DEF AllBytes, Follows
  <2>11. last + 1 + 1 = last + 2
    BY <1>0
  <2> HIDE DEF last
  <2> QED BY <2>9, <2>10, <2>11, InOrderAppend, AppendGrows DEF last
<1> QED BY <1>1, <1>2, <1>3

(* A cut leaves the whole lines: what is behind the last newline is lost,  *)
(* a record too.                                                           *)
LEMMA CutIsWhole ==
    ASSUME Wide = {}, NEW bytes \in Seq(AllBytes), InOrder(bytes)
    PROVE  /\ Cut(bytes) \in Seq(AllBytes) /\ InOrder(Cut(bytes))
           /\ Before(Cut(bytes), Len(Cut(bytes)) + 1) = Newline
           /\ GrowsButLast(bytes, Cut(bytes))
<1> DEFINE k == LastNewline(bytes)
           after == SubSeq(bytes, 1, k)
<1>1. /\ Len(bytes) \in Nat /\ k \in 0..Len(bytes) /\ k \in Nat
      /\ k = 0 \/ bytes[k] = Newline
      /\ \A j \in (k + 1)..Len(bytes) : bytes[j] # Newline
  BY LastNewlineEnds
<1>2. Cut(bytes) = after
  BY <1>1, CharactersAreBytes DEF Cut
<1> HIDE DEF k
<1>3. /\ after \in Seq(AllBytes) /\ InOrder(after) /\ Len(after) = k
      /\ \A i \in 1..k : after[i] = bytes[i]
  BY <1>1, InOrderPrefix
<1> HIDE DEF after
<1>4. Before(after, Len(after) + 1) = Newline
  BY <1>1, <1>3 DEF Before
<1>5. \A i : i \in ReadRecords(bytes) <=>
               i \in 1..Len(bytes) /\ i < Len(bytes) /\ Starts(bytes[i])
  BY WholeIsStarted DEF ReadRecords
<1>6. \A i : i \in ReadRecords(after) <=>
               i \in 1..Len(after) /\ i < Len(after) /\ Starts(after[i])
  BY <1>3, WholeIsStarted DEF ReadRecords
<1>7. ReadRecords(after) \subseteq ReadRecords(bytes)
  <2> SUFFICES ASSUME NEW i \in ReadRecords(after) PROVE i \in ReadRecords(bytes)
    OBVIOUS
  <2>1. i \in 1..k /\ i < k /\ Starts(after[i])
    BY <1>3, <1>6
  <2>2. i \in 1..Len(bytes) /\ i < Len(bytes)
    BY <1>1, <2>1
  <2> QED BY <1>3, <1>5, <2>1, <2>2
<1>8. ASSUME NEW i \in ReadRecords(bytes), i # k + 1
      PROVE  i \in ReadRecords(after) /\ after[i] = bytes[i]
  <2>1. i \in 1..Len(bytes) /\ Starts(bytes[i])
    BY <1>5
  <2>2. bytes[i] # Newline /\ Before(bytes, i) = Newline
    BY <2>1, ByteKinds
  <2>3. ~(i > k)
    <3> SUFFICES ASSUME i > k PROVE FALSE
      OBVIOUS
    <3>1. i # 1 /\ i - 1 \in (k + 1)..Len(bytes)
      BY <1>1, <1>8, <2>1
    <3> QED BY <1>1, <2>2, <3>1 DEF Before
  <2>4. i \in 1..k /\ i # k
    BY <1>1, <2>1, <2>2, <2>3
  <2>5. i \in 1..k /\ i < k
    BY <1>1, <2>4
  <2> QED BY <1>3, <1>6, <2>1, <2>5
<1>9. GrowsButLast(bytes, after)
  BY <1>7, <1>8 DEF GrowsButLast, k
<1> QED BY <1>2, <1>3, <1>4, <1>9

-----------------------------------------------------------------------------
(* The steps                                                               *)

LEMMA LineIs ==
    ASSUME NEW n \in Numbers
    PROVE  Line(n) = <<<<n, 1>>, <<n, 2>>, Newline>>
<1> DEFINE two == <<<<n, 1>>, <<n, 2>>>>
           one == <<Newline>>
           line == two \o one
<1>1. <<n, 1>> \in AllBytes /\ <<n, 2>> \in AllBytes /\ Newline \in AllBytes
  BY DEF AllBytes
<1>2. /\ two \in Seq(AllBytes) /\ Len(two) = 2 /\ two[1] = <<n, 1>> /\ two[2] = <<n, 2>>
      /\ one \in Seq(AllBytes) /\ Len(one) = 1 /\ one[1] = Newline
  BY <1>1
<1> HIDE DEF two, one
<1>3. /\ line \in Seq(AllBytes) /\ Len(line) = 3
      /\ line[1] = <<n, 1>> /\ line[2] = <<n, 2>> /\ line[3] = Newline
  <2>1. /\ line \in Seq(AllBytes) /\ Len(line) = Len(two) + Len(one)
        /\ \A i \in 1..Len(two) + Len(one) :
              line[i] = IF i <= Len(two) THEN two[i] ELSE one[i - Len(two)]
    BY <1>2, ConcatProperties
  <2> HIDE DEF line
  <2>2. \A i \in 1..3 : line[i] = IF i <= 2 THEN two[i] ELSE one[i - 2]
    BY <1>2, <2>1
  <2> QED BY <1>2, <2>1, <2>2
<1>4. Line(n) = line
  BY DEF Line, Bytes, two, one
<1> HIDE DEF line
<1> DEFINE three == <<<<n, 1>>, <<n, 2>>, Newline>>
<1>5. /\ three \in Seq(AllBytes) /\ Len(three) = 3
      /\ three[1] = <<n, 1>> /\ three[2] = <<n, 2>> /\ three[3] = Newline
  BY <1>1
<1>6. line = three
  <2> HIDE DEF three
  <2>1. \A i \in 1..Len(line) : line[i] = three[i]
    BY <1>3, <1>5
  <2> QED BY <1>3, <1>5, <2>1, SeqEqual
<1> QED BY <1>4, <1>6

LEMMA RecorderTo ==
    ASSUME recorder \in [Recorders -> RecorderStates], NEW p \in Recorders,
           NEW r \in RecorderStates, recorder' = [recorder EXCEPT ![p] = r]
    PROVE  /\ recorder' \in [Recorders -> RecorderStates] /\ recorder'[p] = r
           /\ \A q \in Recorders : q # p => recorder'[q] = recorder[q]
OBVIOUS

LEMMA StateFields ==
    ASSUME NEW r \in RecorderStates
    PROVE  /\ r.at \in RecorderSteps /\ r.text \in Texts \cup {NoText, NoOutput}
           /\ r.id \in 0..MaxRecords /\ r.n \in 0..MaxRecords
           /\ r.left \in Seq(Items) \cup Seq(AllBytes)
BY DEF RecorderStates

LEMMA IdleIsState == Idle0 \in RecorderStates /\ Idle0.at = "idle"
<1>1. <<>> \in Seq(Items) /\ 0 \in 0..MaxRecords
  BY Amounts
<1> QED BY <1>1 DEF Idle0, RecorderStates, RecorderSteps

(* A process lets go of the log, or of the outputs.                        *)
LEMMA LogLetGo ==
    ASSUME LogLocked, NEW p \in Recorders, recorder'[p].at \notin AtLog, log' = log,
           \A q \in Recorders : q # p => recorder'[q] = recorder[q]
    PROVE  LogLocked'
<1>1. \A q \in Recorders : recorder'[q].at \in AtLog => q # p /\ recorder'[q] = recorder[q]
  OBVIOUS
<1> QED BY <1>1 DEF LogLocked, AtLog

LEMMA OutputsLetGo ==
    ASSUME OutputsLocked, NEW p \in Recorders, recorder'[p].at \notin Saving,
           index' = index, bodies' = bodies,
           \A q \in Recorders : q # p => recorder'[q] = recorder[q]
    PROVE  OutputsLocked'
<1>1. ASSUME NEW q \in Recorders, recorder'[q].at \in Saving
      PROVE  q # p /\ recorder'[q] = recorder[q]
  BY <1>1
<1> QED BY <1>1 DEF OutputsLocked

(* The records begun and the ids they need.                                *)
LEMMA DueChanges ==
    ASSUME IsFiniteSet(Due), NEW p \in Recorders,
           \A q \in Recorders : q # p => recorder'[q] = recorder[q]
    PROVE  /\ IsFiniteSet(Due') /\ Cardinality(Due) \in Nat /\ Cardinality(Due') \in Nat
           /\ p \notin Due' => Cardinality(Due') <= Cardinality(Due)
           /\ p \in Due => Cardinality(Due') <= Cardinality(Due)
           /\ p \in Due /\ p \notin Due' => Cardinality(Due') + 1 <= Cardinality(Due)
           /\ Cardinality(Due') <= Cardinality(Due) + 1
           /\ p \in Due => Cardinality(Due) >= 1
<1>1. Due' \subseteq Due \cup {p} /\ Due \subseteq Due' \cup {p}
  BY DEF Due
<1>2. /\ IsFiniteSet(Due \cup {p}) /\ Cardinality(Due) \in Nat
      /\ Cardinality(Due \cup {p}) <= Cardinality(Due) + 1
      /\ Cardinality(Due \cup {p}) \in Nat
  <2>1. Cardinality(Due) \in Nat
    BY FS_CardinalityType
  <2>2. /\ IsFiniteSet(Due \cup {p})
        /\ Cardinality(Due \cup {p}) = IF p \in Due THEN Cardinality(Due)
                                       ELSE Cardinality(Due) + 1
    BY FS_AddElement
  <2> HIDE DEF Due
  <2> QED BY <2>1, <2>2
<1>3. IsFiniteSet(Due') /\ Cardinality(Due') <= Cardinality(Due \cup {p})
  BY <1>1, <1>2, FS_Subset
<1>4. Cardinality(Due') \in Nat
  BY <1>3, FS_CardinalityType
<1>5. p \notin Due' => Cardinality(Due') <= Cardinality(Due)
  <2>1. p \notin Due' => Due' \subseteq Due
    BY <1>1
  <2> QED BY <2>1, FS_Subset
<1>6. p \in Due => Cardinality(Due') <= Cardinality(Due)
  <2>1. p \in Due => Due' \subseteq Due
    BY <1>1
  <2> QED BY <2>1, FS_Subset
<1>7. p \in Due => /\ IsFiniteSet(Due \ {p})
                   /\ Cardinality(Due \ {p}) = Cardinality(Due) - 1
                   /\ Cardinality(Due \ {p}) \in Nat
  BY FS_RemoveElement, FS_CardinalityType
<1>8. p \in Due /\ p \notin Due' => Cardinality(Due') + 1 <= Cardinality(Due)
  <2>1. p \notin Due' => Due' \subseteq Due \ {p}
    BY <1>1
  <2>2. p \in Due /\ p \notin Due' => Cardinality(Due') <= Cardinality(Due \ {p})
    BY <1>7, <2>1, FS_Subset
  <2> QED BY <1>2, <1>4, <1>7, <2>2
<1>9. Cardinality(Due') <= Cardinality(Due) + 1
  BY <1>2, <1>3, <1>4
<1>10. p \in Due => Cardinality(Due) >= 1
  BY <1>2, <1>7
<1> QED BY <1>2, <1>3, <1>4, <1>5, <1>6, <1>8, <1>9, <1>10

(* What the invariant says, for use below.                                 *)
LEMMA RecordsFacts ==
    ASSUME RecordsIInv
    PROVE  /\ log \in Seq(AllBytes) /\ InOrder(log)
           /\ index.items \in Seq(Items) /\ Len(index.items) \in 0..MAX_OUTPUT_RECORDS
           /\ index.nextId \in 1..(MaxRecords + 1)
           /\ bodies \in [Numbers -> Texts \cup {NoText, Torn}]
           /\ begun \in 0..MaxRecords
           /\ recorder \in [Recorders -> RecorderStates]
           /\ IsFiniteSet(Due)
           /\ LogLocked /\ OutputsLocked /\ IdsInOrder /\ IndexedIsReadable
           /\ index.nextId + Cardinality(Due) <= begun + 1
           /\ \A p \in Recorders :
                 /\ recorder[p].at # "idle" => recorder[p].n \in Numbers
                 /\ recorder[p].at \in {"save", "body", "index"} => recorder[p].text # NoOutput
<1>1. Len(index.items) \in 0..MAX_OUTPUT_RECORDS
  BY Amounts DEF RecordsIInv, RecordsTypeOK, RecordsShaped
<1> QED BY <1>1 DEF RecordsIInv, RecordsTypeOK, RecordsShaped, IdsSuffice

LEMMA ItemFacts ==
    ASSUME RecordsIInv
    PROVE  \A k \in 1..Len(index.items) :
              /\ index.items[k] \in Items /\ index.items[k].id \in Numbers
              /\ index.items[k].text \in Texts \cup {NoText}
              /\ index.items[k].id < index.nextId /\ index.items[k].id # index.nextId
<1> SUFFICES ASSUME NEW k \in 1..Len(index.items)
             PROVE  /\ index.items[k] \in Items /\ index.items[k].id \in Numbers
                    /\ index.items[k].text \in Texts \cup {NoText}
                    /\ index.items[k].id < index.nextId
                    /\ index.items[k].id # index.nextId
  OBVIOUS
<1>1. index.items \in Seq(Items) /\ IdsInOrder /\ index.nextId \in Nat
  BY RecordsFacts, Amounts
<1>2. index.items[k] \in Items
  BY <1>1
<1>3. index.items[k].id \in Numbers /\ index.items[k].text \in Texts \cup {NoText}
  BY <1>2 DEF Items
<1>4. index.items[k].id \in Nat
  BY <1>3, Amounts DEF Numbers
<1>5. index.items[k].id < index.nextId
  BY <1>1 DEF IdsInOrder
<1> QED BY <1>1, <1>2, <1>3, <1>4, <1>5

LEMMA BytesTyped ==
    ASSUME NEW bytes \in Seq(AllBytes)
    PROVE  \A i \in 1..Len(bytes) : bytes[i] \in {Newline} \cup (Numbers \X {1, 2})
BY DEF AllBytes

(* A process that begins, saves nothing or dies changes no file.           *)
LEMMA BeginKeeps ==
    ASSUME RecordsIInv, NEW p \in Recorders,
           NEW text \in Texts \cup {NoText, NoOutput}, BeginRecord(p, text)
    PROVE  RecordsIInv'
<1> DEFINE r == [Idle0 EXCEPT !.at = IF text = NoOutput THEN "append" ELSE "save",
                              !.text = text, !.n = begun + 1]
<1>1. /\ recorder[p].at = "idle" /\ begun < MaxRecords /\ begun' = begun + 1
      /\ recorder' = [recorder EXCEPT ![p] = r]
      /\ log' = log /\ index' = index /\ bodies' = bodies
  BY DEF BeginRecord
<1>2. /\ begun + 1 \in Numbers /\ begun + 1 \in 0..MaxRecords
  BY <1>1, RecordsFacts, Amounts DEF Numbers
<1>3. /\ r \in RecorderStates /\ r.n = begun + 1 /\ r.text = text
      /\ r.at = IF text = NoOutput THEN "append" ELSE "save"
  BY <1>2, IdleIsState DEF Idle0, RecorderStates, RecorderSteps
<1> HIDE DEF r
<1>4. /\ recorder' \in [Recorders -> RecorderStates] /\ recorder'[p] = r
      /\ \A q \in Recorders : q # p => recorder'[q] = recorder[q]
  BY <1>1, <1>3, RecordsFacts, RecorderTo
<1>5. RecordsTypeOK' /\ RecordsShaped' /\ InOrder(log)'
  <2>1. RecordsTypeOK'
    BY <1>1, <1>2, RecordsFacts, BytesTyped DEF RecordsTypeOK, RecordsIInv
  <2>2. RecordsShaped'
    BY <1>1, <1>2, <1>3, <1>4, RecordsFacts DEF RecordsShaped
  <2> QED BY <1>1, <2>1, <2>2, RecordsFacts DEF InOrder, Before
<1>6. LogLocked' /\ OutputsLocked'
  BY <1>1, <1>3, <1>4, RecordsFacts, LogLetGo, OutputsLetGo DEF Saving, AtLog
<1>7. IdsSuffice'
  <2>1. /\ IsFiniteSet(Due') /\ Cardinality(Due) \in Nat /\ Cardinality(Due') \in Nat
        /\ Cardinality(Due') <= Cardinality(Due) + 1
    BY <1>4, RecordsFacts, DueChanges
  <2>2. index.nextId + Cardinality(Due) <= begun + 1 /\ index.nextId \in Nat /\ begun \in Nat
    BY RecordsFacts, Amounts
  <2> HIDE DEF Due
  <2>3. index.nextId + Cardinality(Due') <= begun + 1 + 1
    BY <2>1, <2>2
  <2> QED BY <1>1, <2>1, <2>3 DEF IdsSuffice
<1>8. IdsInOrder' /\ IndexedIsReadable'
  BY <1>1, RecordsFacts DEF IdsInOrder, IndexedIsReadable
<1> QED BY <1>5, <1>6, <1>7, <1>8 DEF RecordsIInv

LEMMA KillKeeps ==
    ASSUME RecordsIInv, NEW p \in Recorders, KillRecorder(p)
    PROVE  RecordsIInv'
<1>1. /\ recorder' = [recorder EXCEPT ![p] = Idle0]
      /\ log' = log /\ index' = index /\ bodies' = bodies /\ begun' = begun
  BY DEF KillRecorder
<1>2. /\ recorder' \in [Recorders -> RecorderStates] /\ recorder'[p] = Idle0
      /\ \A q \in Recorders : q # p => recorder'[q] = recorder[q]
  BY <1>1, RecordsFacts, RecorderTo, IdleIsState
<1>3. RecordsTypeOK' /\ RecordsShaped' /\ InOrder(log)'
  <2>1. RecordsTypeOK'
    BY <1>1 DEF RecordsTypeOK, RecordsIInv
  <2>2. RecordsShaped'
    BY <1>1, <1>2, RecordsFacts, IdleIsState DEF RecordsShaped
  <2> QED BY <1>1, <2>1, <2>2, RecordsFacts DEF InOrder, Before
<1>4. LogLocked' /\ OutputsLocked'
  BY <1>1, <1>2, RecordsFacts, IdleIsState, LogLetGo, OutputsLetGo DEF Saving, AtLog
<1>5. IdsSuffice'
  <2>1. p \notin Due'
    BY <1>2, IdleIsState DEF Due
  <2>2. /\ IsFiniteSet(Due') /\ Cardinality(Due) \in Nat /\ Cardinality(Due') \in Nat
        /\ Cardinality(Due') <= Cardinality(Due)
    BY <1>2, <2>1, RecordsFacts, DueChanges
  <2>3. index.nextId + Cardinality(Due) <= begun + 1 /\ index.nextId \in Nat /\ begun \in Nat
    BY RecordsFacts, Amounts
  <2> HIDE DEF Due
  <2>4. index.nextId + Cardinality(Due') <= begun + 1
    BY <2>2, <2>3
  <2> QED BY <1>1, <2>2, <2>4 DEF IdsSuffice
<1>6. IdsInOrder' /\ IndexedIsReadable'
  BY <1>1, RecordsFacts DEF IdsInOrder, IndexedIsReadable
<1> QED BY <1>3, <1>4, <1>5, <1>6 DEF RecordsIInv

(* The lock of the outputs, and the body's file.                           *)
LEMMA SaveKeeps ==
    ASSUME RecordsIInv, NEW p \in Recorders, SaveOutput(p)
    PROVE  RecordsIInv'
<1> DEFINE r == [recorder[p] EXCEPT !.id = index.nextId,
                     !.at = IF recorder[p].text = NoText THEN "index" ELSE "body"]
<1>1. /\ recorder[p].at = "save" /\ Unlocked(Saving)
      /\ recorder' = [recorder EXCEPT ![p] = r]
      /\ bodies' = IF recorder[p].text = NoText THEN bodies
                   ELSE [bodies EXCEPT ![index.nextId] = Torn]
      /\ log' = log /\ index' = index /\ begun' = begun
  BY DEF SaveOutput, Saving
<1>2. /\ recorder[p] \in RecorderStates /\ recorder[p].n \in Numbers
      /\ recorder[p].text # NoOutput
  BY <1>1, RecordsFacts
<1>3. p \in Due
  BY <1>1 DEF Due
<1>4. index.nextId \in Numbers /\ index.nextId \in 0..MaxRecords
  <2>1. Cardinality(Due) \in Nat /\ Cardinality(Due) >= 1
    <3>1. IsFiniteSet(Due \ {p}) /\ Cardinality(Due \ {p}) = Cardinality(Due) - 1
      BY <1>3, RecordsFacts, FS_RemoveElement
    <3> QED BY <3>1, RecordsFacts, FS_CardinalityType
  <2>2. /\ index.nextId + Cardinality(Due) <= begun + 1
        /\ index.nextId \in 1..(MaxRecords + 1) /\ begun \in 0..MaxRecords
    BY RecordsFacts
  <2> HIDE DEF Due
  <2> QED BY <2>1, <2>2, Amounts DEF Numbers
<1>5. /\ r \in RecorderStates /\ r.n = recorder[p].n /\ r.text = recorder[p].text
      /\ r.id = index.nextId
      /\ r.at = IF recorder[p].text = NoText THEN "index" ELSE "body"
  BY <1>2, <1>4 DEF RecorderStates, RecorderSteps
<1> HIDE DEF r
<1>6. /\ recorder' \in [Recorders -> RecorderStates] /\ recorder'[p] = r
      /\ \A q \in Recorders : q # p => recorder'[q] = recorder[q]
  BY <1>1, <1>5, RecordsFacts, RecorderTo
<1>7. bodies' \in [Numbers -> Texts \cup {NoText, Torn}]
  BY <1>1, <1>4, RecordsFacts
<1>8. RecordsTypeOK' /\ RecordsShaped' /\ InOrder(log)'
  <2>1. RecordsTypeOK'
    BY <1>1, <1>7 DEF RecordsTypeOK, RecordsIInv
  <2>2. RecordsShaped'
    BY <1>1, <1>2, <1>5, <1>6, RecordsFacts DEF RecordsShaped
  <2> QED BY <1>1, <2>1, <2>2, RecordsFacts DEF InOrder, Before
<1>9. LogLocked'
  BY <1>1, <1>5, <1>6, RecordsFacts, LogLetGo DEF AtLog
<1>10. OutputsLocked'
  <2>1. \A q \in Recorders : q # p => recorder'[q].at \notin Saving
    BY <1>1, <1>6 DEF Unlocked
  <2> QED BY <1>1, <1>5, <1>6, <2>1 DEF OutputsLocked
<1>11. IdsSuffice'
  <2>1. Cardinality(Due') <= Cardinality(Due) /\ IsFiniteSet(Due')
        /\ Cardinality(Due) \in Nat /\ Cardinality(Due') \in Nat
    BY <1>3, <1>6, RecordsFacts, DueChanges
  <2>2. index.nextId + Cardinality(Due) <= begun + 1 /\ index.nextId \in Nat /\ begun \in Nat
    BY RecordsFacts, Amounts
  <2> HIDE DEF Due
  <2>3. index.nextId + Cardinality(Due') <= begun + 1
    BY <2>1, <2>2
  <2> QED BY <1>1, <2>1, <2>3 DEF IdsSuffice
<1>12. IdsInOrder'
  BY <1>1, RecordsFacts DEF IdsInOrder
<1>13. IndexedIsReadable'
  <2>1. \A k \in 1..Len(index.items) : /\ index.items[k].id # index.nextId
                                       /\ index.items[k].id \in Numbers
    BY ItemFacts
  <2>2. \A k \in 1..Len(index.items) : bodies'[index.items[k].id] = bodies[index.items[k].id]
    BY <1>1, <2>1, RecordsFacts
  <2> QED BY <1>1, <2>2, RecordsFacts DEF IndexedIsReadable
<1> QED BY <1>8, <1>9, <1>10, <1>11, <1>12, <1>13 DEF RecordsIInv

LEMMA WriteBodyKeeps ==
    ASSUME RecordsIInv, NEW p \in Recorders, WriteBody(p)
    PROVE  RecordsIInv'
<1> DEFINE r == [recorder[p] EXCEPT !.at = "index"]
<1>1. /\ recorder[p].at = "body" /\ recorder' = [recorder EXCEPT ![p] = r]
      /\ bodies' = [bodies EXCEPT ![recorder[p].id] = recorder[p].text]
      /\ log' = log /\ index' = index /\ begun' = begun
  BY DEF WriteBody, Goes
<1>2. /\ recorder[p] \in RecorderStates /\ recorder[p].n \in Numbers
      /\ recorder[p].text # NoOutput /\ recorder[p].id = index.nextId
      /\ recorder[p].text \in Texts
      /\ \A q \in Recorders : recorder[q].at \in Saving => q = p
  <2>1. /\ recorder[p] \in RecorderStates /\ recorder[p].n \in Numbers
        /\ recorder[p].text # NoOutput
    BY <1>1, RecordsFacts
  <2>2. /\ recorder[p].id = index.nextId /\ recorder[p].text # NoText
        /\ \A q \in Recorders : recorder[q].at \in Saving => q = p
    BY <1>1, RecordsFacts DEF OutputsLocked, Saving
  <2> QED BY <2>1, <2>2, StateFields
<1>3. index.nextId \in Numbers
  BY <1>2, RecordsFacts, StateFields, Amounts DEF Numbers
<1>5. /\ r \in RecorderStates /\ r.n = recorder[p].n /\ r.text = recorder[p].text
      /\ r.id = index.nextId /\ r.at = "index"
  BY <1>2 DEF RecorderStates, RecorderSteps
<1> HIDE DEF r
<1>6. /\ recorder' \in [Recorders -> RecorderStates] /\ recorder'[p] = r
      /\ \A q \in Recorders : q # p => recorder'[q] = recorder[q]
  BY <1>1, <1>5, RecordsFacts, RecorderTo
<1>7. /\ bodies' \in [Numbers -> Texts \cup {NoText, Torn}]
      /\ bodies'[index.nextId] = recorder[p].text
  BY <1>1, <1>2, <1>3, RecordsFacts
<1>8. RecordsTypeOK' /\ RecordsShaped' /\ InOrder(log)'
  <2>1. RecordsTypeOK'
    BY <1>1, <1>7 DEF RecordsTypeOK, RecordsIInv
  <2>2. RecordsShaped'
    BY <1>1, <1>2, <1>5, <1>6, RecordsFacts DEF RecordsShaped
  <2> QED BY <1>1, <2>1, <2>2, RecordsFacts DEF InOrder, Before
<1>9. LogLocked'
  BY <1>1, <1>5, <1>6, RecordsFacts, LogLetGo DEF AtLog
<1>10. OutputsLocked'
  <2>1. \A q \in Recorders : q # p => recorder'[q].at \notin Saving
    BY <1>2, <1>6
  <2> QED BY <1>1, <1>2, <1>5, <1>6, <1>7, <2>1 DEF OutputsLocked
<1>11. IdsSuffice'
  <2>0. p \in Due
    BY <1>1 DEF Due
  <2>1. Cardinality(Due') <= Cardinality(Due) /\ IsFiniteSet(Due')
        /\ Cardinality(Due) \in Nat /\ Cardinality(Due') \in Nat
    BY <1>6, <2>0, RecordsFacts, DueChanges
  <2>2. index.nextId + Cardinality(Due) <= begun + 1 /\ index.nextId \in Nat /\ begun \in Nat
    BY RecordsFacts, Amounts
  <2> HIDE DEF Due
  <2>3. index.nextId + Cardinality(Due') <= begun + 1
    BY <2>1, <2>2
  <2> QED BY <1>1, <2>1, <2>3 DEF IdsSuffice
<1>12. IdsInOrder'
  BY <1>1, RecordsFacts DEF IdsInOrder
<1>13. IndexedIsReadable'
  <2>1. \A k \in 1..Len(index.items) : /\ index.items[k].id # index.nextId
                                       /\ index.items[k].id \in Numbers
    BY ItemFacts
  <2>2. \A k \in 1..Len(index.items) : bodies'[index.items[k].id] = bodies[index.items[k].id]
    BY <1>1, <1>2, <2>1, RecordsFacts
  <2> QED BY <1>1, <2>2, RecordsFacts DEF IndexedIsReadable
<1> QED BY <1>8, <1>9, <1>10, <1>11, <1>12, <1>13 DEF RecordsIInv

(* The index, from which the oldest output falls out.                      *)
LEMMA WriteIndexKeeps ==
    ASSUME RecordsIInv, NEW p \in Recorders, WriteIndex(p)
    PROVE  RecordsIInv'
<1> DEFINE item == [id |-> recorder[p].id, text |-> recorder[p].text]
           items == Append(index.items, item)
           left == SubSeq(items, 1, Len(items) - MAX_OUTPUT_RECORDS)
           r == [recorder[p] EXCEPT !.at = "drop", !.left = left]
           len == Len(index.items)
<1>1. /\ recorder[p].at = "index" /\ recorder' = [recorder EXCEPT ![p] = r]
      /\ index' = [items |-> Retained(items), nextId |-> recorder[p].id + 1]
      /\ log' = log /\ bodies' = bodies /\ begun' = begun
  BY DEF WriteIndex
<1>2. /\ recorder[p] \in RecorderStates /\ recorder[p].n \in Numbers
      /\ recorder[p].id = index.nextId
      /\ recorder[p].text \in Texts \cup {NoText}
      /\ recorder[p].text # NoText => bodies[recorder[p].id] = recorder[p].text
      /\ \A q \in Recorders : recorder[q].at \in Saving => q = p
  <2>1. /\ recorder[p] \in RecorderStates /\ recorder[p].n \in Numbers
        /\ recorder[p].text # NoOutput
    BY <1>1, RecordsFacts
  <2>2. /\ recorder[p].id = index.nextId
        /\ recorder[p].text # NoText => bodies[recorder[p].id] = recorder[p].text
        /\ \A q \in Recorders : recorder[q].at \in Saving => q = p
    BY <1>1, RecordsFacts DEF OutputsLocked, Saving
  <2> QED BY <2>1, <2>2, StateFields
<1>3. index.nextId \in Numbers /\ index.nextId \in 0..MaxRecords /\ index.nextId \in Nat
  BY <1>2, RecordsFacts, StateFields, Amounts DEF Numbers
<1>4. item \in Items /\ item.id = index.nextId /\ item.text = recorder[p].text
  BY <1>2, <1>3 DEF Items
<1> HIDE DEF item
<1>5. /\ items \in Seq(Items) /\ Len(items) = len + 1 /\ len \in Nat
      /\ \A k \in 1..len : items[k] = index.items[k]
      /\ items[len + 1] = item
  <2>1. index.items \in Seq(Items)
    BY RecordsFacts
  <2> QED BY <1>4, <2>1
<1>6. len \in 0..MAX_OUTPUT_RECORDS
  BY RecordsFacts
<1>7. \A k \in 1..(len + 1) :
         /\ items[k] \in Items /\ items[k].id \in Nat /\ items[k].id <= index.nextId
         /\ items[k].text # NoText => bodies[items[k].id] = items[k].text
         /\ \A m \in 1..(len + 1) : k < m => items[k].id < items[m].id
  <2> SUFFICES ASSUME NEW k \in 1..(len + 1)
               PROVE  /\ items[k] \in Items /\ items[k].id \in Nat
                      /\ items[k].id <= index.nextId
                      /\ items[k].text # NoText => bodies[items[k].id] = items[k].text
                      /\ \A m \in 1..(len + 1) : k < m => items[k].id < items[m].id
    OBVIOUS
  <2>1. CASE k = len + 1
    BY <1>2, <1>3, <1>4, <1>5, <2>1
  <2>2. CASE k \in 1..len
    <3>1. /\ items[k] = index.items[k] /\ index.items[k].id < index.nextId
          /\ index.items[k] \in Items /\ index.items[k].id \in Nat
      BY <1>5, <2>2, ItemFacts, Amounts DEF Numbers
    <3>2. items[k].text # NoText => bodies[items[k].id] = items[k].text
      BY <2>2, <3>1, RecordsFacts DEF IndexedIsReadable
    <3>3. ASSUME NEW m \in 1..(len + 1), k < m PROVE items[k].id < items[m].id
      <4>1. CASE m = len + 1
        BY <1>4, <1>5, <3>1, <4>1
      <4>2. CASE m \in 1..len
        <5>1. index.items[k].id < index.items[m].id
          BY <2>2, <3>3, <4>2, RecordsFacts DEF IdsInOrder
        <5> QED BY <1>5, <3>1, <4>2, <5>1
      <4> QED BY <1>5, <4>1, <4>2
    <3> QED BY <1>3, <3>1, <3>2, <3>3
  <2> QED BY <1>5, <2>1, <2>2
<1> HIDE DEF items
<1> DEFINE kept == Retained(items)
           off == IF len + 1 > MAX_OUTPUT_RECORDS THEN 1 ELSE 0
<1>8. /\ kept \in Seq(Items) /\ Len(kept) = len + 1 - off
      /\ Len(kept) \in 0..MAX_OUTPUT_RECORDS
      /\ \A k \in 1..Len(kept) : kept[k] = items[k + off] /\ k + off \in 1..(len + 1)
  <2>1. CASE len + 1 > MAX_OUTPUT_RECORDS
    <3>1. kept = Tail(items) /\ items # <<>>
      BY <1>5, <2>1 DEF Retained
    <3>2. /\ Tail(items) \in Seq(Items) /\ Len(Tail(items)) = len
          /\ \A k \in 1..len : Tail(items)[k] = items[k + 1]
      BY <1>5, <3>1
    <3>3. Len(kept) = len /\ len + 1 - 1 = len /\ len \in 0..MAX_OUTPUT_RECORDS
      BY <1>5, <1>6, <3>1, <3>2
    <3>4. \A k \in 1..len : k + 1 \in 1..(len + 1)
      BY <1>5
    <3>5. off = 1
      BY <2>1
    <3> HIDE DEF kept, off, len
    <3> QED BY <3>1, <3>2, <3>3, <3>4, <3>5
  <2>2. CASE ~(len + 1 > MAX_OUTPUT_RECORDS)
    <3>1. kept = items
      BY <1>5, <2>2 DEF Retained
    <3>2. off = 0
      BY <2>2
    <3>3. len + 1 - 0 = len + 1 /\ len + 1 \in 0..MAX_OUTPUT_RECORDS
      BY <1>5, <1>6, <2>2, Amounts
    <3>4. \A k \in 1..(len + 1) : k + 0 = k
      BY <1>5
    <3> HIDE DEF kept, off, len
    <3> QED BY <1>5, <3>1, <3>2, <3>3, <3>4
  <2> QED BY <2>1, <2>2
<1>9. /\ left \in Seq(Items)
      /\ \A k \in DOMAIN left : off = 1 /\ k = 1 /\ left[k] = items[1]
  <2>1. CASE len + 1 > MAX_OUTPUT_RECORDS
    <3>1. Len(items) - MAX_OUTPUT_RECORDS = 1
      BY <1>5, <1>6, <2>1, Amounts
    <3>2. left = SubSeq(items, 1, 1)
      BY <3>1, Zenon
    <3>3. off = 1
      BY <2>1
    <3>4. SubSeq(items, 1, 1) = [k \in 1..1 |-> items[k]]
      BY <1>5
    <3>5. items[1] \in Items
      BY <1>5, <1>7
    <3>6. \A k \in 1..1 : k = 1
      OBVIOUS
    <3>7. [k \in 1..1 |-> items[k]] \in Seq(Items)
      BY <3>5, <3>6
    <3> QED BY <3>2, <3>3, <3>4, <3>6, <3>7
  <2>2. CASE ~(len + 1 > MAX_OUTPUT_RECORDS)
    <3>1. Len(items) - MAX_OUTPUT_RECORDS \in Int /\ Len(items) - MAX_OUTPUT_RECORDS <= 0
      BY <1>5, <2>2, Amounts
    <3>2. \A l \in Int : l <= 0 => SubSeq(items, 1, l) = <<>>
      BY <1>5
    <3>3. left = <<>>
      BY <3>1, <3>2, Zenon
    <3>4. <<>> \in Seq(Items) /\ \A k \in DOMAIN <<>> : FALSE
      OBVIOUS
    <3> HIDE DEF left
    <3> QED BY <3>3, <3>4
  <2> QED BY <2>1, <2>2
<1> HIDE DEF kept, left, off
<1>10. /\ r \in RecorderStates /\ r.n = recorder[p].n /\ r.text = recorder[p].text
       /\ r.at = "drop" /\ r.left = left
  BY <1>2, <1>9 DEF RecorderStates, RecorderSteps
<1> HIDE DEF r
<1>11. /\ recorder' \in [Recorders -> RecorderStates] /\ recorder'[p] = r
       /\ \A q \in Recorders : q # p => recorder'[q] = recorder[q]
  BY <1>1, <1>10, RecordsFacts, RecorderTo
<1>12. index'.items = kept /\ index'.nextId = index.nextId + 1
  BY <1>1, <1>2 DEF kept
<1>13. off \in {0, 1} /\ DOMAIN kept = 1..Len(kept)
  <2>1. off \in {0, 1}
    BY DEF off
  <2> QED BY <1>8, <2>1
<1>14. \A k \in DOMAIN kept :
          /\ kept[k] = items[k + off] /\ k + off \in 1..(len + 1)
          /\ kept[k].id \in Nat /\ kept[k].id < index.nextId + 1
          /\ kept[k].text # NoText => bodies[kept[k].id] = kept[k].text
  <2> TAKE k \in DOMAIN kept
  <2>1. kept[k] = items[k + off] /\ k + off \in 1..(len + 1)
    BY <1>8, <1>13
  <2>2. /\ items[k + off].id \in Nat /\ items[k + off].id <= index.nextId
        /\ items[k + off].text # NoText => bodies[items[k + off].id] = items[k + off].text
    BY <1>7, <2>1
  <2> QED BY <1>3, <2>1, <2>2
<1>15. RecordsTypeOK' /\ RecordsShaped' /\ InOrder(log)'
  <2>1. index'.nextId \in 1..(MaxRecords + 1) /\ Len(index'.items) <= MAX_OUTPUT_RECORDS
    BY <1>3, <1>8, <1>12, Amounts
  <2>2. RecordsTypeOK'
    BY <1>1, <2>1 DEF RecordsTypeOK, RecordsIInv
  <2>3. RecordsShaped'
    BY <1>1, <1>2, <1>8, <1>10, <1>11, <1>12, RecordsFacts DEF RecordsShaped
  <2> QED BY <1>1, <2>2, <2>3, RecordsFacts DEF InOrder, Before
<1>16. LogLocked'
  BY <1>1, <1>10, <1>11, RecordsFacts, LogLetGo DEF AtLog
<1>17. OutputsLocked'
  <2>1. \A q \in Recorders : q # p => recorder'[q].at \notin Saving
    BY <1>2, <1>11
  <2>2. ASSUME NEW k \in DOMAIN left, NEW m \in DOMAIN kept
        PROVE  left[k].id # kept[m].id
    <3>1. off = 1 /\ left[k] = items[1]
      BY <1>9
    <3>2. kept[m] = items[m + 1] /\ m + 1 \in 1..(len + 1) /\ m \in Nat /\ m >= 1
      BY <1>13, <1>14, <3>1
    <3>3. 1 \in 1..(len + 1) /\ 1 < m + 1
      BY <1>5, <3>2
    <3>4. items[1].id < items[m + 1].id /\ items[1].id \in Nat /\ items[m + 1].id \in Nat
      BY <1>7, <3>2, <3>3
    <3> QED BY <3>1, <3>2, <3>4
  <2> QED BY <1>9, <1>10, <1>11, <1>12, <2>1, <2>2 DEF OutputsLocked
<1>18. IdsSuffice'
  <2>0. p \in Due /\ p \notin Due'
    BY <1>1, <1>10, <1>11 DEF Due
  <2>1. Cardinality(Due') + 1 <= Cardinality(Due) /\ IsFiniteSet(Due')
        /\ Cardinality(Due) \in Nat /\ Cardinality(Due') \in Nat
    BY <1>11, <2>0, RecordsFacts, DueChanges
  <2>2. index.nextId + Cardinality(Due) <= begun + 1 /\ index.nextId \in Nat /\ begun \in Nat
    BY RecordsFacts, Amounts
  <2> HIDE DEF Due
  <2>3. index.nextId + 1 + Cardinality(Due') <= begun + 1
    BY <2>1, <2>2
  <2> QED BY <1>1, <1>12, <2>1, <2>3 DEF IdsSuffice
<1>19. IdsInOrder'
  <2>1. ASSUME NEW k \in DOMAIN kept, NEW m \in DOMAIN kept, k < m
        PROVE  kept[k].id < kept[m].id
    <3>1. k + off \in 1..(len + 1) /\ m + off \in 1..(len + 1) /\ k + off < m + off
      BY <1>13, <1>14, <2>1
    <3> QED BY <1>7, <1>14, <3>1
  <2> QED BY <1>12, <1>14, <2>1 DEF IdsInOrder
<1>20. IndexedIsReadable'
  BY <1>1, <1>12, <1>13, <1>14 DEF IndexedIsReadable
<1> QED BY <1>15, <1>16, <1>17, <1>18, <1>19, <1>20 DEF RecordsIInv

(* The bodies of the outputs that fell out.                                *)
LEMMA DropKeeps ==
    ASSUME RecordsIInv, NEW p \in Recorders, DropBodies(p)
    PROVE  RecordsIInv'
<1> DEFINE r == [recorder[p] EXCEPT !.at = "append", !.left = <<>>]
           left == recorder[p].left
<1>1. /\ recorder[p].at = "drop" /\ recorder' = [recorder EXCEPT ![p] = r]
      /\ bodies' = [id \in DOMAIN bodies |->
                      IF \E k \in DOMAIN left : left[k].id = id THEN NoText ELSE bodies[id]]
      /\ log' = log /\ index' = index /\ begun' = begun
  BY DEF DropBodies
<1>2. /\ recorder[p] \in RecorderStates /\ recorder[p].n \in Numbers
      /\ \A k \in DOMAIN left, m \in DOMAIN index.items : left[k].id # index.items[m].id
  BY <1>1, RecordsFacts DEF OutputsLocked, Saving
<1>3. /\ r \in RecorderStates /\ r.n = recorder[p].n /\ r.at = "append"
  <2>1. <<>> \in Seq(Items)
    OBVIOUS
  <2> QED BY <1>2, <2>1 DEF RecorderStates, RecorderSteps
<1> HIDE DEF r
<1>4. /\ recorder' \in [Recorders -> RecorderStates] /\ recorder'[p] = r
      /\ \A q \in Recorders : q # p => recorder'[q] = recorder[q]
  BY <1>1, <1>3, RecordsFacts, RecorderTo
<1>5. bodies' \in [Numbers -> Texts \cup {NoText, Torn}]
  BY <1>1, RecordsFacts
<1>6. RecordsTypeOK' /\ RecordsShaped' /\ InOrder(log)'
  <2>1. RecordsTypeOK'
    BY <1>1, <1>5 DEF RecordsTypeOK, RecordsIInv
  <2>2. RecordsShaped'
    BY <1>1, <1>2, <1>3, <1>4, RecordsFacts DEF RecordsShaped
  <2> QED BY <1>1, <2>1, <2>2, RecordsFacts DEF InOrder, Before
<1>7. LogLocked'
  BY <1>1, <1>3, <1>4, RecordsFacts, LogLetGo DEF AtLog
<1>8. OutputsLocked'
  <2>1. \A q \in Recorders : recorder[q].at \in Saving => q = p
    BY <1>1, RecordsFacts DEF OutputsLocked, Saving
  <2>2. \A q \in Recorders : recorder'[q].at \notin Saving
    BY <1>3, <1>4, <2>1 DEF Saving
  <2> QED BY <2>2 DEF OutputsLocked
<1>9. IdsSuffice'
  <2>0. p \notin Due'
    BY <1>3, <1>4 DEF Due
  <2>1. Cardinality(Due') <= Cardinality(Due) /\ IsFiniteSet(Due')
        /\ Cardinality(Due) \in Nat /\ Cardinality(Due') \in Nat
    BY <1>4, <2>0, RecordsFacts, DueChanges
  <2>2. index.nextId + Cardinality(Due) <= begun + 1 /\ index.nextId \in Nat /\ begun \in Nat
    BY RecordsFacts, Amounts
  <2> HIDE DEF Due
  <2>3. index.nextId + Cardinality(Due') <= begun + 1
    BY <2>1, <2>2
  <2> QED BY <1>1, <2>1, <2>3 DEF IdsSuffice
<1>10. IdsInOrder'
  BY <1>1, RecordsFacts DEF IdsInOrder
<1>11. IndexedIsReadable'
  <2>1. \A m \in 1..Len(index.items) : /\ index.items[m].id \in DOMAIN bodies
                                       /\ m \in DOMAIN index.items
    BY ItemFacts, RecordsFacts
  <2>2. \A m \in 1..Len(index.items) : bodies'[index.items[m].id] = bodies[index.items[m].id]
    BY <1>1, <1>2, <2>1
  <2> QED BY <1>1, <2>2, RecordsFacts DEF IndexedIsReadable
<1> QED BY <1>6, <1>7, <1>8, <1>9, <1>10, <1>11 DEF RecordsIInv

(* A process that goes on to write its line, behind whole ones.            *)
LEMMA WritesKeeps ==
    ASSUME RecordsIInv, NEW p \in Recorders, recorder[p].at \in {"append", "truncate"},
           \A q \in Recorders : q # p => recorder[q].at \notin AtLog,
           log' \in Seq(AllBytes), InOrder(log'),
           Before(log', Len(log') + 1) = Newline,
           Writes(p), UNCHANGED <<index, bodies, begun>>
    PROVE  RecordsIInv'
<1> DEFINE r == [recorder[p] EXCEPT !.at = "write", !.left = Line(recorder[p].n)]
           n == recorder[p].n
<1>1. /\ recorder' = [recorder EXCEPT ![p] = r]
      /\ index' = index /\ bodies' = bodies /\ begun' = begun
  BY DEF Writes
<1>2. /\ recorder[p] \in RecorderStates /\ n \in Numbers
  BY RecordsFacts
<1>4. Line(n) = <<<<n, 1>>, <<n, 2>>, Newline>>
  BY <1>2, LineIs
<1>5. /\ r \in RecorderStates /\ r.n = n /\ r.at = "write" /\ r.left = Line(n)
  <2>1. <<n, 1>> \in AllBytes /\ <<n, 2>> \in AllBytes /\ Newline \in AllBytes
    BY <1>2 DEF AllBytes
  <2>2. Line(n) \in Seq(AllBytes)
    BY <1>4, <2>1
  <2> HIDE DEF n
  <2> QED BY <1>2, <2>2 DEF RecorderStates, RecorderSteps, n
<1> HIDE DEF r
<1>6. /\ recorder' \in [Recorders -> RecorderStates] /\ recorder'[p] = r
      /\ \A q \in Recorders : q # p => recorder'[q] = recorder[q]
  BY <1>1, <1>5, RecordsFacts, RecorderTo
<1>7. RecordsTypeOK' /\ RecordsShaped' /\ InOrder(log)'
  <2>1. RecordsTypeOK'
    BY <1>1, BytesTyped DEF RecordsTypeOK, RecordsIInv
  <2>2. RecordsShaped'
    BY <1>1, <1>2, <1>5, <1>6, RecordsFacts DEF RecordsShaped
  <2> QED BY <2>1, <2>2 DEF InOrder, Before
<1>8. LogLocked'
  <2>1. \A q \in Recorders : q # p => recorder'[q].at \notin AtLog
    BY <1>6
  <2>2. recorder'[p].left[1] = <<n, 1>> /\ recorder'[p].left \in Left(recorder'[p].n)
    BY <1>4, <1>5, <1>6 DEF Left
  <2>3. Follows(Newline, <<n, 1>>)
    BY <1>2 DEF Follows
  <2>4. Follows(Before(log, Len(log) + 1), recorder[p].left[1])'
    BY <2>2, <2>3 DEF Follows, Before
  <2> QED BY <2>1, <2>2, <2>4 DEF LogLocked, AtLog
<1>9. OutputsLocked'
  BY <1>1, <1>5, <1>6, RecordsFacts, OutputsLetGo DEF Saving
<1>10. IdsSuffice'
  <2>0. p \notin Due'
    BY <1>5, <1>6 DEF Due
  <2>1. Cardinality(Due') <= Cardinality(Due) /\ IsFiniteSet(Due')
        /\ Cardinality(Due) \in Nat /\ Cardinality(Due') \in Nat
    BY <1>6, <2>0, RecordsFacts, DueChanges
  <2>2. index.nextId + Cardinality(Due) <= begun + 1 /\ index.nextId \in Nat /\ begun \in Nat
    BY RecordsFacts, Amounts
  <2> HIDE DEF Due
  <2>3. index.nextId + Cardinality(Due') <= begun + 1
    BY <2>1, <2>2
  <2> QED BY <1>1, <2>1, <2>3 DEF IdsSuffice
<1>11. IdsInOrder' /\ IndexedIsReadable'
  BY <1>1, RecordsFacts DEF IdsInOrder, IndexedIsReadable
<1> QED BY <1>7, <1>8, <1>9, <1>10, <1>11 DEF RecordsIInv

(* The lock of the log, and its repair.                                    *)
LEMMA LockLogKeeps ==
    ASSUME RecordsIInv, Wide = {}, NEW p \in Recorders, LockLog(p)
    PROVE  RecordsIInv' /\ Grows(log, log')
<1>1. /\ recorder[p].at = "append" /\ log' = Repaired(log)
      /\ Writes(p) /\ UNCHANGED <<index, bodies, begun>>
      /\ \A q \in Recorders : recorder[q].at \notin AtLog
  BY DEF LockLog, Unlocked, AtLog
<1>2. /\ log' \in Seq(AllBytes) /\ InOrder(log') /\ Grows(log, log')
      /\ Before(log', Len(log') + 1) = Newline
  BY <1>1, RecordsFacts, RepairedIsWhole
<1> QED BY <1>1, <1>2, WritesKeeps

(* The newline that fails, with the lock held.                             *)
LEMMA NewlineFailsKeeps ==
    ASSUME RecordsIInv, NEW p \in Recorders, NewlineFails(p)
    PROVE  RecordsIInv'
<1> DEFINE r == [recorder[p] EXCEPT !.at = "truncate"]
<1>1. /\ recorder[p].at = "append"
      /\ \A q \in Recorders : recorder[q].at \notin AtLog
      /\ recorder' = [recorder EXCEPT ![p] = r]
      /\ log' = log /\ index' = index /\ bodies' = bodies /\ begun' = begun
  BY DEF NewlineFails, Unlocked, Goes, AtLog
<1>2. recorder[p] \in RecorderStates /\ recorder[p].n \in Numbers
  BY <1>1, RecordsFacts
<1>3. r \in RecorderStates /\ r.n = recorder[p].n /\ r.at = "truncate"
  BY <1>2 DEF RecorderStates, RecorderSteps
<1> HIDE DEF r
<1>4. /\ recorder' \in [Recorders -> RecorderStates] /\ recorder'[p] = r
      /\ \A q \in Recorders : q # p => recorder'[q] = recorder[q]
  BY <1>1, <1>3, RecordsFacts, RecorderTo
<1>5. RecordsTypeOK' /\ RecordsShaped' /\ InOrder(log)'
  <2>1. RecordsTypeOK'
    BY <1>1 DEF RecordsTypeOK, RecordsIInv
  <2>2. RecordsShaped'
    BY <1>1, <1>2, <1>3, <1>4, RecordsFacts DEF RecordsShaped
  <2> QED BY <1>1, <2>1, <2>2, RecordsFacts DEF InOrder, Before
<1>6. LogLocked'
  BY <1>1, <1>3, <1>4 DEF LogLocked, AtLog
<1>7. OutputsLocked'
  BY <1>1, <1>3, <1>4, RecordsFacts, OutputsLetGo DEF Saving
<1>8. IdsSuffice'
  <2>0. p \notin Due'
    BY <1>3, <1>4 DEF Due
  <2>1. Cardinality(Due') <= Cardinality(Due) /\ IsFiniteSet(Due')
        /\ Cardinality(Due) \in Nat /\ Cardinality(Due') \in Nat
    BY <1>4, <2>0, RecordsFacts, DueChanges
  <2>2. index.nextId + Cardinality(Due) <= begun + 1 /\ index.nextId \in Nat /\ begun \in Nat
    BY RecordsFacts, Amounts
  <2> HIDE DEF Due
  <2>3. index.nextId + Cardinality(Due') <= begun + 1
    BY <2>1, <2>2
  <2> QED BY <1>1, <2>1, <2>3 DEF IdsSuffice
<1>9. IdsInOrder' /\ IndexedIsReadable'
  BY <1>1, RecordsFacts DEF IdsInOrder, IndexedIsReadable
<1> QED BY <1>5, <1>6, <1>7, <1>8, <1>9 DEF RecordsIInv

(* The last record is cut off, whole as it may be.                         *)
LEMMA TruncateKeeps ==
    ASSUME RecordsIInv, Wide = {}, NEW p \in Recorders, TruncateRecord(p)
    PROVE  RecordsIInv' /\ LogGrows
<1>1. /\ recorder[p].at = "truncate" /\ log' = Cut(log)
      /\ Writes(p) /\ UNCHANGED <<index, bodies, begun>>
  BY DEF TruncateRecord
<1>2. \A q \in Recorders : q # p => recorder[q].at \notin AtLog
  BY <1>1, RecordsFacts DEF LogLocked, AtLog
<1>3. /\ log' \in Seq(AllBytes) /\ InOrder(log') /\ GrowsButLast(log, log')
      /\ Before(log', Len(log') + 1) = Newline
  BY <1>1, RecordsFacts, CutIsWhole
<1>4. RecordsIInv'
  BY <1>1, <1>2, <1>3, WritesKeeps
<1> QED BY <1>1, <1>3, <1>4 DEF LogGrows

(* One byte more, which may be the last one of its writer.                 *)
LEMMA AppendKeeps ==
    ASSUME RecordsIInv, NEW p \in Recorders, AppendByte(p)
    PROVE  RecordsIInv' /\ Grows(log, log')
<1> DEFINE left == recorder[p].left
           n == recorder[p].n
           r == IF Len(left) = 1 THEN Idle0 ELSE [recorder[p] EXCEPT !.left = Tail(left)]
<1>1. /\ recorder[p].at = "write" /\ log' = Append(log, Head(left))
      /\ recorder' = [recorder EXCEPT ![p] = r]
      /\ index' = index /\ bodies' = bodies /\ begun' = begun
  BY DEF AppendByte
<1>2. /\ recorder[p] \in RecorderStates /\ n \in Numbers
  BY <1>1, RecordsFacts
<1>3. /\ left \in Left(n) /\ Follows(Before(log, Len(log) + 1), left[1])
      /\ \A q \in Recorders : recorder[q].at \in AtLog => q = p
  BY <1>1, RecordsFacts DEF LogLocked, AtLog
<1>4. /\ Head(left) = left[1] /\ Head(left) \in AllBytes
      /\ Len(left) # 1 =>
            /\ Tail(left) \in Left(n) /\ Tail(left) \in Seq(AllBytes)
            /\ Follows(Head(left), Tail(left)[1])
  <2> HIDE DEF left
  <2>0. <<n, 1>> \in AllBytes /\ <<n, 2>> \in AllBytes /\ Newline \in AllBytes
    BY <1>2 DEF AllBytes
  <2>1. CASE left = Line(n)
    <3>1. left = <<<<n, 1>>, <<n, 2>>, Newline>>
      BY <1>2, <2>1, LineIs
    <3>2. Head(left) = <<n, 1>> /\ left[1] = <<n, 1>> /\ Tail(left) = <<<<n, 2>>, Newline>>
      BY <3>1
    <3>3. Follows(<<n, 1>>, <<n, 2>>)
      BY <1>2 DEF Follows
    <3>4. <<<<n, 2>>, Newline>> \in Seq(AllBytes) /\ <<<<n, 2>>, Newline>>[1] = <<n, 2>>
      BY <2>0
    <3> QED BY <2>0, <3>2, <3>3, <3>4 DEF Left
  <2>2. CASE left = <<<<n, 2>>, Newline>>
    <3>1. Head(left) = <<n, 2>> /\ left[1] = <<n, 2>> /\ Tail(left) = <<Newline>>
      BY <2>2
    <3>2. Follows(<<n, 2>>, Newline)
      BY <1>2 DEF Follows
    <3>3. <<Newline>> \in Seq(AllBytes) /\ <<Newline>>[1] = Newline
      BY <2>0
    <3> QED BY <2>0, <3>1, <3>2, <3>3 DEF Left
  <2>3. CASE left = <<Newline>>
    <3>1. Head(left) = Newline /\ left[1] = Newline /\ Len(left) = 1
      BY <2>3
    <3> QED BY <2>0, <3>1
  <2> QED BY <1>3, <2>1, <2>2, <2>3 DEF Left
<1> HIDE DEF left
<1>5. /\ r \in RecorderStates
      /\ r.at = IF Len(left) = 1 THEN "idle" ELSE "write"
      /\ Len(left) # 1 => r.n = n /\ r.left = Tail(left)
  <2>1. CASE Len(left) = 1
    BY <2>1, IdleIsState
  <2>2. CASE Len(left) # 1
    BY <1>1, <1>2, <1>4, <2>2 DEF RecorderStates
  <2> QED BY <2>1, <2>2
<1> HIDE DEF r, n
<1>6. /\ recorder' \in [Recorders -> RecorderStates] /\ recorder'[p] = r
      /\ \A q \in Recorders : q # p => recorder'[q] = recorder[q]
  BY <1>1, <1>5, RecordsFacts, RecorderTo
<1>7. /\ log' \in Seq(AllBytes) /\ InOrder(log') /\ Grows(log, log')
      /\ Before(log', Len(log') + 1) = Head(left)
  <2>1. /\ log \in Seq(AllBytes) /\ InOrder(log) /\ Head(left) \in AllBytes
        /\ Follows(Before(log, Len(log) + 1), Head(left))
    BY <1>3, <1>4, RecordsFacts
  <2>2. Len(log) \in Nat
    BY <2>1
  <2>3. Len(log) + 1 + 1 = Len(log) + 2
    BY <2>2
  <2> QED BY <1>1, <2>1, <2>3, InOrderAppend, AppendGrows
<1>8. RecordsTypeOK' /\ RecordsShaped' /\ InOrder(log)'
  <2>1. RecordsTypeOK'
    BY <1>1, <1>7, BytesTyped DEF RecordsTypeOK, RecordsIInv
  <2>2. RecordsShaped'
    BY <1>1, <1>2, <1>5, <1>6, <1>7, RecordsFacts DEF RecordsShaped, n
  <2> QED BY <1>7, <2>1, <2>2 DEF InOrder, Before
<1>9. LogLocked'
  <2>1. \A q \in Recorders : q # p => recorder'[q].at \notin AtLog
    BY <1>3, <1>6
  <2>2. recorder'[p].at = "write" =>
           /\ recorder'[p].left \in Left(recorder'[p].n)
           /\ Follows(Before(log', Len(log') + 1), recorder'[p].left[1])
    BY <1>4, <1>5, <1>6, <1>7
  <2>3. recorder'[p].at = "write" =>
           Follows(Before(log, Len(log) + 1), recorder[p].left[1])'
    BY <2>2 DEF Follows, Before
  <2> QED BY <2>1, <2>2, <2>3 DEF LogLocked, AtLog
<1>10. OutputsLocked'
  BY <1>1, <1>5, <1>6, RecordsFacts, OutputsLetGo DEF Saving
<1>11. IdsSuffice'
  <2>0. p \notin Due'
    BY <1>5, <1>6 DEF Due
  <2>1. Cardinality(Due') <= Cardinality(Due) /\ IsFiniteSet(Due')
        /\ Cardinality(Due) \in Nat /\ Cardinality(Due') \in Nat
    BY <1>6, <2>0, RecordsFacts, DueChanges
  <2>2. index.nextId + Cardinality(Due) <= begun + 1 /\ index.nextId \in Nat /\ begun \in Nat
    BY RecordsFacts, Amounts
  <2> HIDE DEF Due
  <2>3. index.nextId + Cardinality(Due') <= begun + 1
    BY <2>1, <2>2
  <2> QED BY <1>1, <2>1, <2>3 DEF IdsSuffice
<1>12. IdsInOrder' /\ IndexedIsReadable'
  BY <1>1, RecordsFacts DEF IdsInOrder, IndexedIsReadable
<1> QED BY <1>7, <1>8, <1>9, <1>10, <1>11, <1>12 DEF RecordsIInv

LEMMA RecordsIInvInductive ==
    ASSUME RecordsIInv, Wide = {}, [RecordsNext]_recordsVars
    PROVE  RecordsIInv' /\ LogGrows
<1>1. ASSUME log' = log PROVE LogGrows
  BY <1>1, GrowsRefl DEF LogGrows
<1>2. ASSUME NEW p \in Recorders, NEW text \in Texts \cup {NoText, NoOutput},
             BeginRecord(p, text)
      PROVE  RecordsIInv' /\ LogGrows
  BY <1>1, <1>2, BeginKeeps DEF BeginRecord
<1>3. ASSUME NEW p \in Recorders, SaveOutput(p) PROVE RecordsIInv' /\ LogGrows
  BY <1>1, <1>3, SaveKeeps DEF SaveOutput
<1>4. ASSUME NEW p \in Recorders, WriteBody(p) PROVE RecordsIInv' /\ LogGrows
  BY <1>1, <1>4, WriteBodyKeeps DEF WriteBody
<1>5. ASSUME NEW p \in Recorders, WriteIndex(p) PROVE RecordsIInv' /\ LogGrows
  BY <1>1, <1>5, WriteIndexKeeps DEF WriteIndex
<1>6. ASSUME NEW p \in Recorders, DropBodies(p) PROVE RecordsIInv' /\ LogGrows
  BY <1>1, <1>6, DropKeeps DEF DropBodies
<1>7. ASSUME NEW p \in Recorders, KillRecorder(p) PROVE RecordsIInv' /\ LogGrows
  BY <1>1, <1>7, KillKeeps DEF KillRecorder
<1>8. ASSUME NEW p \in Recorders, NewlineFails(p) PROVE RecordsIInv' /\ LogGrows
  BY <1>1, <1>8, NewlineFailsKeeps DEF NewlineFails
<1>9. ASSUME NEW p \in Recorders, LockLog(p) \/ AppendByte(p)
      PROVE  RecordsIInv' /\ LogGrows
  BY <1>9, LockLogKeeps, AppendKeeps DEF LogGrows
<1>10. CASE UNCHANGED recordsVars
  <2>1. /\ log' = log /\ index' = index /\ bodies' = bodies /\ begun' = begun
        /\ recorder' = recorder
    BY <1>10 DEF recordsVars
  <2>2. RecordsTypeOK' /\ RecordsShaped' /\ InOrder(log)' /\ LogLocked'
    BY <2>1, RecordsFacts
       DEF RecordsIInv, RecordsTypeOK, RecordsShaped, InOrder, Before, LogLocked
  <2>3. IdsSuffice' /\ OutputsLocked' /\ IdsInOrder' /\ IndexedIsReadable'
    BY <2>1 DEF RecordsIInv, IdsSuffice, Due, OutputsLocked, IdsInOrder, IndexedIsReadable
  <2> QED BY <1>1, <2>1, <2>2, <2>3 DEF RecordsIInv
<1> QED BY <1>2, <1>3, <1>4, <1>5, <1>6, <1>7, <1>8, <1>9, <1>10, TruncateKeeps
        DEF RecordsNext

LEMMA RecordsIInvInit == RecordsInit => RecordsIInv
<1> SUFFICES ASSUME RecordsInit PROVE RecordsIInv
  OBVIOUS
<1>1. /\ log = <<>> /\ index = [items |-> <<>>, nextId |-> 1]
      /\ bodies = [id \in Numbers |-> NoText]
      /\ recorder = [p \in Recorders |-> Idle0] /\ begun = 0
  BY DEF RecordsInit
<1>2. /\ <<>> \in Seq(AllBytes) /\ <<>> \in Seq(Items) /\ Len(<<>>) = 0
      /\ \A i \in 1..0 : FALSE
  OBVIOUS
<1>3. \A p \in Recorders : recorder[p] \in RecorderStates /\ recorder[p].at = "idle"
  BY <1>1, IdleIsState
<1>4. RecordsTypeOK
  BY <1>1, <1>2, Amounts DEF RecordsTypeOK
<1>5. RecordsShaped
  BY <1>1, <1>2, <1>3 DEF RecordsShaped
<1>6. InOrder(log)
  BY <1>1, <1>2 DEF InOrder
<1>7. LogLocked /\ OutputsLocked
  BY <1>3 DEF LogLocked, AtLog, OutputsLocked, Saving
<1>8. IdsSuffice
  <2>1. Due = {}
    BY <1>3 DEF Due
  <2> QED BY <1>1, <2>1, FS_EmptySet DEF IdsSuffice
<1>9. IdsInOrder /\ IndexedIsReadable
  <2>1. index.items = <<>> /\ \A k \in DOMAIN <<>> : FALSE
    BY <1>1
  <2> QED BY <1>2, <2>1 DEF IdsInOrder, IndexedIsReadable
<1> QED BY <1>4, <1>5, <1>6, <1>7, <1>8, <1>9 DEF RecordsIInv

LEMMA RecordsIInvTheorem == Wide = {} => (RecordsSpec => []RecordsIInv)
<1> SUFFICES ASSUME Wide = {} PROVE RecordsSpec => []RecordsIInv
  OBVIOUS
<1>1. RecordsIInv /\ [RecordsNext]_recordsVars => RecordsIInv'
  BY RecordsIInvInductive
<1> QED BY <1>1, RecordsIInvInit, PTL DEF RecordsSpec

(* The files of the executions, whichever process dies at which byte: the  *)
(* log can be read without a lock, and an output that is indexed reads as  *)
(* it was saved. With a character of two bytes a repair may cut the log in *)
(* the middle of a line.                                                   *)
THEOREM RecordsTheorem == Wide = {} => (RecordsSpec => []RecordsInv)
<1> SUFFICES ASSUME Wide = {} PROVE RecordsSpec => []RecordsInv
  OBVIOUS
<1>1. RecordsIInv => RecordsInv
  BY RecordsFacts, InOrderIsReadable DEF RecordsIInv, RecordsInv, LogReadable
<1> QED BY <1>1, RecordsIInvTheorem, PTL

(* A record that was read once is read from then on, before those that are *)
(* new, also through the repairs. One without a newline can be lost, and   *)
(* only where a process cuts the log because its newline failed.           *)
THEOREM GrowthTheorem == Wide = {} => (RecordsSpec => RecordsOnlyGrow)
<1> SUFFICES ASSUME Wide = {} PROVE RecordsSpec => RecordsOnlyGrow
  OBVIOUS
<1>1. RecordsIInv /\ [RecordsNext]_recordsVars =>
         [\A i \in ReadRecords(log) :
            \/ /\ i \in ReadRecords(log') /\ log'[i] = log[i]
               /\ \A j \in ReadRecords(log') \ ReadRecords(log) : i < j
            \/ /\ i = LastNewline(log) + 1
               /\ \E p \in Recorders : recorder[p].at = "truncate"]_recordsVars
  BY RecordsIInvInductive DEF LogGrows, Grows, GrowsButLast
<1> QED BY <1>1, RecordsIInvTheorem, PTL DEF RecordsSpec, RecordsOnlyGrow

=============================================================================
