----------------------- MODULE ControlStoreMigration -----------------------
(***************************************************************************)
(* The store of control requests takes over the history of the mailbox     *)
(* that earlier versions kept: control/requests.ts, with the clearing of   *)
(* the mailbox by gateway/machine-gateway.ts and session/state.ts.         *)
(*                                                                         *)
(* The first use of a workspace's store builds it in a directory of its    *)
(* own, from the requests of the mailbox that have evidence of a page, and *)
(* publishes it by one rename, with a marker that says what was taken.     *)
(* Clearing the mailbox is a request of its own: when the mailbox is still *)
(* the one that was read, and the store still has what was taken, the      *)
(* mailbox is renamed away, compared once more, and deleted; the marker    *)
(* says how far that went, and an interrupted clearing resumes from there. *)
(*                                                                         *)
(* Locks make it one process that works here, and it may die between any   *)
(* two writes.  An earlier version that still runs knows nothing of those  *)
(* locks and may write its mailbox at any time.                            *)
(*                                                                         *)
(* What a request keeps is one of a few kinds, that tell apart what the    *)
(* scan and the comparisons do; its files are written together.            *)
(***************************************************************************)
EXTENDS Naturals

CONSTANTS
    Requests,
    Found,        \* the kinds of request found in the mailbox
    MaxDrifts     \* bound on the writes of an earlier version

Kinds == {"absent", "unbound", "callback", "broken",
          "waiting", "generating", "failed", "result"}

ASSUME MigrationAssumption ==
    Requests # {} /\ Found \subseteq Kinds /\ MaxDrifts \in Nat

VARIABLES
    mailbox,    \* the mailbox's root directory
    retired,    \* the directory that the root is renamed to
    stage,      \* the store that is being built
    marker,     \* migration-v1.json
    entries,    \* the requests of the published store
    source,     \* the copies of what was taken, in migration-source
    reference,  \* what a session's checkpoint says of a request
    expired,    \* the requests whose time is over
    work,       \* where the process is
    drifts,     \* writes of an earlier version since the mailbox was read
    refused     \* an integrity error has been reported (history)

migrationVars == <<mailbox, retired, stage, marker, entries, source, reference,
                   expired, work, drifts, refused>>
storeVars == <<entries, source>>
legacyVars == <<mailbox, retired, drifts>>

Trees == [Requests -> Kinds]
NoTree == [r \in Requests |-> "none"]
EmptyTree == [r \in Requests |-> "absent"]
NoDirectory == [inode |-> 0, tree |-> NoTree]
Unpublished == [published |-> FALSE, manifest |-> NoTree, files |-> {},
             cleared |-> FALSE, phase |-> "none", inode |-> 0]
Idle == [at |-> "idle", manifest |-> NoTree, scan |-> NoTree, root |-> FALSE]

States == {"absent", "waiting", "generating", "failed", "result", "lost", "cancelled"}
Unfinished == {"waiting", "generating"}

(* What a request that was taken may have become since                     *)
Became ==
    [waiting |-> States \ {"absent"},
     generating |-> States \ {"absent", "waiting"},
     failed |-> {"failed"}, result |-> {"result"}]

MigrationInit ==
    /\ \E tree \in [Requests -> Found] \cup {NoTree} :
          mailbox = [inode |-> IF tree = NoTree THEN 0 ELSE 1, tree |-> tree]
    /\ retired = NoDirectory /\ stage = NoTree /\ marker = Unpublished
    /\ entries = EmptyTree /\ source = EmptyTree
    /\ reference \in [Requests -> {"none", "mailbox", "paired"}]
    /\ expired = {} /\ work = Idle /\ drifts = 0 /\ refused = FALSE

-----------------------------------------------------------------------------
(* Reading a mailbox                                                       *)

Taken(tree) == {r \in Requests : tree[r] \in DOMAIN Became}

Readable(tree) == \A r \in Requests : tree[r] # "broken"

IsLive(kind, r) == kind \in Unfinished /\ r \notin expired

Refuse == refused' = TRUE /\ work' = Idle

Goes(at) == work' = [work EXCEPT !.at = at] /\ UNCHANGED refused

-----------------------------------------------------------------------------
(* ensureControlRequestStoreUnlocked                                       *)

(* legacyTreeManifest, and what an interrupted migration left is removed   *)
Survey ==
    /\ work.at = "idle" /\ ~marker.published
    /\ work' = [Idle EXCEPT !.at = "scan", !.manifest = mailbox.tree]
    /\ stage' = NoTree
    /\ UNCHANGED <<legacyVars, marker, storeVars, reference, expired, refused>>

(* scanLegacyStore refuses the whole mailbox for one bad file              *)
ScanLegacyStore ==
    /\ work.at = "scan"
    /\ LET tree == IF work.manifest = NoTree THEN EmptyTree ELSE mailbox.tree IN
       IF Readable(tree)
       THEN /\ work' = [work EXCEPT !.at = "stage", !.scan = tree]
            /\ stage' = EmptyTree
            /\ UNCHANGED refused
       ELSE Refuse /\ UNCHANGED stage
    /\ UNCHANGED <<legacyVars, marker, storeVars, reference, expired>>

StageFiles(r) ==
    /\ work.at = "stage"
    /\ r \in Taken(work.scan) /\ stage[r] = "absent"
    /\ stage' = [stage EXCEPT ![r] = work.scan[r]]
    /\ UNCHANGED <<legacyVars, marker, storeVars, reference, expired, work, refused>>

Staged == \A r \in Taken(work.scan) : stage[r] = work.scan[r]

(* Fault: what was scanned is not compared with what was there before      *)
SourceUnchangedAlways == TRUE

SourceUnchanged == work.manifest # NoTree => mailbox.tree = work.manifest

(* Fault: the stage is copied to its place                                 *)
PublishByCopy ==
    /\ work.at = "stage" /\ Staged
    /\ IF SourceUnchanged
       THEN /\ marker' = [Unpublished EXCEPT !.published = TRUE,
                             !.manifest = work.manifest,
                             !.files = Taken(work.scan)]
            /\ entries' = stage /\ source' = stage
            /\ work' = Idle /\ UNCHANGED refused
       ELSE Refuse /\ UNCHANGED <<marker, storeVars>>
    /\ UNCHANGED <<stage, legacyVars, reference, expired>>

(* The marker is in the stage when that is renamed                         *)
PublishStore ==
    /\ work.at = "stage" /\ Staged
    /\ stage' = NoTree
    /\ IF SourceUnchanged
       THEN /\ marker' = [Unpublished EXCEPT !.published = TRUE,
                             !.manifest = work.manifest,
                             !.files = Taken(work.scan)]
            /\ entries' = stage /\ source' = stage
            /\ work' = Idle /\ UNCHANGED refused
       ELSE Refuse /\ UNCHANGED <<marker, storeVars>>
    /\ UNCHANGED <<legacyVars, reference, expired>>

-----------------------------------------------------------------------------
(* The store in use                                                        *)

InUse == work.at = "idle" /\ marker.published

OpenRequest(r) ==
    /\ InUse /\ entries[r] = "absent" /\ source[r] = "absent" /\ reference[r] = "none"
    /\ mailbox.tree[r] \in {"none", "absent"} /\ r \notin expired
    /\ entries' = [entries EXCEPT ![r] = "waiting"]
    /\ UNCHANGED <<legacyVars, stage, marker, source, reference, expired, work, refused>>

(* An observation of the page, or a cancellation                           *)
RequestMoves(r) ==
    /\ InUse /\ IsLive(entries[r], r)
    /\ \E state \in Became[entries[r]] \ {entries[r]} :
          entries' = [entries EXCEPT ![r] = state]
    /\ UNCHANGED <<legacyVars, stage, marker, source, reference, expired, work, refused>>

Expire(r) ==
    /\ r \notin expired
    /\ \/ entries[r] \in Unfinished
       \/ mailbox.tree[r] \in Unfinished
    /\ expired' = expired \cup {r}
    /\ UNCHANGED <<legacyVars, stage, marker, storeVars, reference, work, refused>>

CleanupPending ==
    /\ marker.manifest # NoTree
    /\ ~marker.cleared \/ mailbox # NoDirectory \/ marker.phase # "none"

(* Fault: requests are protected until the clearing is authorized          *)
ProtectedUntilCleared == IF marker.cleared THEN {} ELSE marker.files

(* Requests that the mailbox's clearing will be compared with stay         *)
ProtectedRequests == IF CleanupPending THEN marker.files ELSE {}

(* pruneControlRequestsUnlocked writes the marker before it removes        *)
PruneRecorded(r) ==
    /\ InUse /\ entries[r] # "absent" /\ ~IsLive(entries[r], r)
    /\ r \notin ProtectedRequests
    /\ marker' = IF marker.cleared /\ ~CleanupPending
                 THEN [marker EXCEPT !.files = @ \ {r}] ELSE marker
    /\ work' = [Idle EXCEPT !.at = "prune",
                            !.scan = [EmptyTree EXCEPT ![r] = entries[r]]]
    /\ UNCHANGED <<legacyVars, stage, storeVars, reference, expired, refused>>

PruneRemoves ==
    /\ work.at = "prune"
    /\ entries' = [r \in Requests |->
                   IF work.scan[r] = "absent" THEN entries[r] ELSE "absent"]
    /\ work' = Idle
    /\ UNCHANGED <<legacyVars, stage, marker, source, reference, expired, refused>>

-----------------------------------------------------------------------------
(* clearLegacyControlMailbox                                               *)

(* A request whose page was lost since has no response id any more, and    *)
(* counts as one that no longer contains its evidence                      *)
Retains(kind, state) ==
    state \in Became[kind] /\ ~(kind = "generating" /\ state = "lost")

(* validateMigratedFiles                                                   *)
StoreRetains == \A r \in marker.files : Retains(source[r], entries[r])

(* assertSourceMatchesMigration, which compares the digests of what would  *)
(* be taken now with those of what was                                     *)
SourceMatchesMigration ==
    /\ mailbox = NoDirectory => marker.manifest = NoTree \/ marker.cleared
    /\ mailbox # NoDirectory =>
          /\ mailbox.tree = marker.manifest /\ Readable(mailbox.tree)
          /\ Taken(mailbox.tree) = marker.files
          /\ \A r \in marker.files : source[r] = mailbox.tree[r]
    /\ StoreRetains

(* Fault: a page that is already at work is not waited for                 *)
NoneWaits ==
    \A r \in Requests : entries[r] # "waiting" /\ mailbox.tree[r] # "waiting"

NoneIsLive ==
    \A r \in Requests : ~IsLive(entries[r], r) /\ ~IsLive(mailbox.tree[r], r)

(* One that is refused for a live request changes nothing                  *)
CheckCleanup ==
    /\ InUse
    /\ IF SourceMatchesMigration
       THEN /\ NoneIsLive
            /\ work' = [Idle EXCEPT !.at = "authorize", !.root = mailbox # NoDirectory]
            /\ UNCHANGED refused
       ELSE Refuse
    /\ UNCHANGED <<legacyVars, stage, marker, storeVars, reference, expired>>

AuthorizeCleanup ==
    /\ work.at = "authorize"
    /\ \/ /\ work.root /\ mailbox.tree = marker.manifest
          /\ marker' = IF marker.phase # "none" THEN marker
                       ELSE [marker EXCEPT !.cleared = TRUE, !.phase = "reserved",
                                           !.inode = mailbox.inode]
          /\ Goes("retire")
       \/ /\ work.root /\ mailbox.tree # marker.manifest
          /\ Refuse /\ UNCHANGED marker
       \/ /\ ~work.root
          /\ Goes(IF marker.phase = "none" THEN "references" ELSE "retire")
          /\ UNCHANGED marker
    /\ UNCHANGED <<legacyVars, stage, storeVars, reference, expired>>

RootSeen == work.root /\ mailbox # NoDirectory

(* Fault: what is not at its place any more is taken for missing           *)
MayRenameAgain ==
    /\ RootSeen /\ retired = NoDirectory
    /\ mailbox.inode = marker.inode /\ mailbox.tree = marker.manifest

(* removeRetiredLegacyRoot, reserved: to be renamed, or renamed already    *)
MayRename ==
    \/ /\ RootSeen /\ retired = NoDirectory
       /\ mailbox.inode = marker.inode /\ mailbox.tree = marker.manifest
    \/ ~RootSeen /\ retired # NoDirectory

MayDelete == marker.phase = "deleting" /\ ~RootSeen

ResumeRetirement ==
    /\ work.at = "retire"
    /\ \/ /\ marker.phase = "reserved" /\ MayRename
          /\ Goes(IF RootSeen THEN "rename" ELSE "confirm")
       \/ MayDelete /\ Goes("delete")
       \/ ~(marker.phase = "reserved" /\ MayRename) /\ ~MayDelete /\ Refuse
    /\ UNCHANGED <<legacyVars, stage, marker, storeVars, reference, expired>>

RenameRoot ==
    /\ work.at = "rename"
    /\ retired' = mailbox /\ mailbox' = NoDirectory
    /\ Goes("confirm")
    /\ UNCHANGED <<drifts, stage, marker, storeVars, reference, expired>>

(* Fault: the comparison before the rename is taken to be enough           *)
ConfirmedByInode == retired.inode = marker.inode

Confirmed == retired.inode = marker.inode /\ retired.tree = marker.manifest

ConfirmRetired ==
    /\ work.at = "confirm"
    /\ \/ /\ Confirmed
          /\ marker' = [marker EXCEPT !.phase = "deleting"] /\ Goes("delete")
       \/ ~Confirmed /\ Refuse /\ UNCHANGED marker
    /\ UNCHANGED <<legacyVars, stage, storeVars, reference, expired>>

(* rmSync takes one entry after the other                                  *)
DeleteEntry(r) ==
    /\ work.at = "delete" /\ retired # NoDirectory
    /\ retired.tree[r] # "absent"
    /\ retired' = [retired EXCEPT !.tree[r] = "absent"]
    /\ UNCHANGED <<mailbox, drifts, stage, marker, storeVars, reference, expired,
                   work, refused>>

DeleteRetired ==
    /\ work.at = "delete" /\ retired.tree = EmptyTree
    /\ retired' = NoDirectory
    /\ UNCHANGED <<mailbox, drifts, stage, marker, storeVars, reference, expired,
                   work, refused>>

FinishRetirement ==
    /\ work.at = "delete" /\ retired = NoDirectory
    /\ marker' = [marker EXCEPT !.phase = "none", !.inode = 0]
    /\ Goes("references")
    /\ UNCHANGED <<legacyVars, stage, storeVars, reference, expired>>

-----------------------------------------------------------------------------
(* clearLegacyControlCheckpointReferences                                  *)

(* Fault: the reference is kept for whatever the checkpoint names          *)
MigratedAlways(r) == TRUE

(* getControlRequestStatus finds the request in the store                  *)
Migrated(r) == entries[r] # "absent"

ClearReference(r) ==
    /\ work.at = "references" /\ reference[r] \in {"mailbox", "paired"}
    /\ reference' = [reference EXCEPT ![r] =
                       CASE @ = "paired" -> "current"
                         [] @ = "mailbox" /\ Migrated(r) -> "kept"
                         [] OTHER -> "none"]
    /\ UNCHANGED <<legacyVars, stage, marker, storeVars, expired, work, refused>>

ReferencesCleared ==
    /\ work.at = "references"
    /\ \A r \in Requests : reference[r] \notin {"mailbox", "paired"}
    /\ Goes("idle")
    /\ UNCHANGED <<legacyVars, stage, marker, storeVars, reference, expired>>

-----------------------------------------------------------------------------
(* What may happen meanwhile                                               *)

(* The process dies; what it has written stays                             *)
WorkCrashes ==
    /\ work.at # "idle" /\ work' = Idle
    /\ UNCHANGED <<legacyVars, stage, marker, storeVars, reference, expired, refused>>

(* An earlier version writes a request, in a root it makes if need be      *)
EarlierVersionWrites(r) ==
    /\ drifts < MaxDrifts /\ drifts' = drifts + 1
    /\ \E kind \in Found \ {mailbox.tree[r]} :
          mailbox' = IF mailbox = NoDirectory
                     THEN [inode |-> 2 + drifts, tree |-> [EmptyTree EXCEPT ![r] = kind]]
                     ELSE [mailbox EXCEPT !.tree[r] = kind]
    /\ UNCHANGED <<retired, stage, marker, storeVars, reference, expired, work, refused>>

MigrationNext ==
    \/ Survey \/ ScanLegacyStore \/ PublishStore
    \/ PruneRemoves
    \/ CheckCleanup \/ AuthorizeCleanup \/ ResumeRetirement \/ RenameRoot
    \/ ConfirmRetired \/ DeleteRetired \/ FinishRetirement
    \/ ReferencesCleared \/ WorkCrashes
    \/ \E r \in Requests :
          \/ StageFiles(r) \/ OpenRequest(r) \/ RequestMoves(r) \/ Expire(r)
          \/ PruneRecorded(r) \/ DeleteEntry(r) \/ ClearReference(r)
          \/ EarlierVersionWrites(r)

MigrationSpec == MigrationInit /\ [][MigrationNext]_migrationVars

-----------------------------------------------------------------------------
(* Properties                                                              *)

Directories == [inode: 0..(1 + MaxDrifts), tree: Trees \cup {NoTree}]

(* Every part has its shape, and a stage exists only while one is built or *)
(* after a migration that was interrupted.                                 *)
MigrationTypeOK ==
    /\ mailbox \in Directories /\ retired \in Directories
    /\ stage \in Trees \cup {NoTree} /\ (marker.published => stage = NoTree)
    /\ marker \in [published: BOOLEAN, manifest: Trees \cup {NoTree},
                   files: SUBSET Requests, cleared: BOOLEAN,
                   phase: {"none", "reserved", "deleting"},
                   inode: 0..(1 + MaxDrifts)]
    /\ entries \in [Requests -> States] /\ source \in Trees
    /\ reference \in [Requests -> {"none", "mailbox", "paired", "kept", "current"}]
    /\ expired \subseteq Requests

(* A published store is whole, whatever wrote the mailbox meanwhile and    *)
(* whenever the process died: it has what was taken, with the evidence it  *)
(* had or more, until retention removes it after the mailbox was cleared.  *)
(* That is every request of the recorded manifest, except that two writes  *)
(* of an earlier version may undo each other around the scan, which only   *)
(* the clearing finds out: once it is authorized, there is no exception.   *)
PublishedIsWhole ==
    marker.published =>
       /\ \A r \in marker.files : entries[r] \in Became[source[r]]
       /\ drifts < 2 \/ marker.cleared =>
             /\ marker.files \subseteq Taken(marker.manifest)
             /\ marker.files # Taken(marker.manifest) => marker.cleared
             /\ \A r \in marker.files : source[r] = marker.manifest[r]

(* What is deleted of the mailbox for good is in the store: no evidence    *)
(* that an earlier version wrote after the migration goes with it, however *)
(* its writes fall between the comparisons, the rename and the deletion.   *)
DeletedIsTaken ==
    [][\A r \in Taken(retired.tree) :
          retired'.tree[r] # retired.tree[r] =>
             /\ r \in marker.files /\ source[r] = retired.tree[r]
             /\ entries[r] \in Became[source[r]]]_migrationVars

(* From the authorization on, however often the clearing is interrupted,   *)
(* no request that was taken from the mailbox is waiting for its page.     *)
RetiredIsFinished ==
    marker.phase # "none" => \A r \in marker.files : ~IsLive(entries[r], r)

(* A migration or a clearing that crashed always resumes: it is refused    *)
(* only for a mailbox that was unreadable or has been written since, or    *)
(* for a request that was taken while its page was at work and lost it.    *)
RefusedForCause ==
    refused =>
       \/ drifts > 0 \/ ~Readable(mailbox.tree)
       \/ \E r \in Requests : source[r] = "generating" /\ entries[r] = "lost"

(* A checkpoint keeps a reference of the mailbox only to a request that    *)
(* was taken over, also when the clearing was interrupted after the        *)
(* mailbox went and the request was removed by retention in between.       *)
KeptReferenceWasTaken ==
    \A r \in Requests : reference[r] = "kept" => source[r] # "absent"

(* The migration in every state: what is published is whole, what is being *)
(* deleted is finished, and an interrupted clearing can go on.             *)
MigrationInv ==
    /\ MigrationTypeOK
    /\ PublishedIsWhole
    /\ RetiredIsFinished
    /\ RefusedForCause
    /\ KeptReferenceWasTaken
=============================================================================
