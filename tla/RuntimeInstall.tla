--------------------------- MODULE RuntimeInstall ---------------------------
(***************************************************************************)
(* The installed runtime: config/runtime-install.ts, with the snapshot and *)
(* the rollback that `c2c machine setup` puts around it.                   *)
(*                                                                         *)
(* A release is built and validated in a directory of its own.  One rename *)
(* of the `current` link publishes it, and the launcher in the user's home *)
(* is pointed at that link.  When the launcher cannot be written both are  *)
(* put back, and only then does the new release go; older ones stay, for   *)
(* processes that still run from them.  Locks serialize installations; a   *)
(* crash may end one anywhere, and a build may fail or go wrong anywhere.  *)
(***************************************************************************)
EXTENDS Naturals

CONSTANTS MaxReleases       \* bound on the releases staged

ASSUME InstallAssumption == MaxReleases \in Nat

VARIABLES
    tree,       \* what is in each release directory
    link,       \* the release that `current` points to
    launcher,   \* what is at ~/.local/bin/c2c
    setup       \* the running installation

installVars == <<tree, link, launcher, setup>>

Releases == 1..MaxReleases
NoRelease == 0
Trees == {"absent", "partial", "whole"}
Launchers == {"missing", "managed", "foreign"}

NoSetup == [at |-> "idle", stage |-> NoRelease, link |-> NoRelease,
            launcher |-> "missing", former |-> NoRelease,
            latest |-> "missing", clean |-> TRUE]

SetupAt(at) == setup' = [setup EXCEPT !.at = at]

-----------------------------------------------------------------------------
(* Pointers                                                                *)

(* Fault: whatever has the launcher's name is taken for it *)
ManageableAlways == TRUE

(* ensureRuntimeLauncher replaces only what is its own *)
Manageable == launcher # "foreign"

(* restoreCurrentPointer refuses a target that is not there *)
CurrentRestored(target) ==
    /\ target # NoRelease => tree[target] # "absent"
    /\ link' = target

(* snapshotRuntimeInstallation, before the setup *)
BeginSetup ==
    /\ setup.at = "idle"
    /\ setup' = [at |-> "build", stage |-> NoRelease,
                 link |-> link, launcher |-> launcher,
                 former |-> link, latest |-> launcher, clean |-> TRUE]
    /\ UNCHANGED <<tree, link, launcher>>

(* A process that runs from the valid current release keeps it *)
Keep ==
    /\ setup.at = "build" /\ link # NoRelease /\ tree[link] = "whole"
    /\ Manageable
    /\ launcher' = "managed" /\ SetupAt("installed")
    /\ UNCHANGED <<tree, link>>

-----------------------------------------------------------------------------
(* installRuntime                                                          *)

Free(release) == tree[release] = "absent" /\ \A r \in 1..(release - 1) : tree[r] # "absent"

(* installRuntime remembers the pointers itself, as they are by now *)
Stage(release) ==
    /\ setup.at = "build" /\ Free(release)
    /\ tree' = [tree EXCEPT ![release] = "partial"]
    /\ setup' = [setup EXCEPT !.at = "deploy", !.stage = release,
                               !.former = link, !.latest = launcher]
    /\ UNCHANGED <<link, launcher>>

(* Copies and dependencies are complete, or something is missing *)
Deploy ==
    /\ setup.at = "deploy"
    /\ \E content \in {"partial", "whole"} :
          tree' = [tree EXCEPT ![setup.stage] = content]
    /\ SetupAt("validate")
    /\ UNCHANGED <<link, launcher>>

(* Fault: a tree is published as it was copied *)
ValidAlways(release) == TRUE

(* validateRuntimeTree, verifyRuntimeLaunch *)
Valid(release) == tree[release] = "whole"

Validate ==
    /\ setup.at = "validate" /\ Valid(setup.stage)
    /\ SetupAt("publish")
    /\ UNCHANGED <<tree, link, launcher>>

(* Fault: the launcher is written before the pointer                       *)
PublishLater ==
    /\ setup.at = "publish" /\ SetupAt("launch")
    /\ UNCHANGED <<tree, link, launcher>>

(* Fault: the release that was current before is tidied away               *)
PublishStageAlone ==
    /\ setup.at = "publish"
    /\ tree' = [r \in Releases |-> IF r = setup.stage THEN "whole" ELSE "absent"]
    /\ link' = setup.stage /\ SetupAt("launch")
    /\ UNCHANGED launcher

PublishStage ==
    /\ setup.at = "publish"
    /\ link' = setup.stage /\ SetupAt("launch")
    /\ UNCHANGED <<tree, launcher>>

(* Any step before the publication fails: the stage is removed *)
StageFails ==
    /\ setup.at \in {"build", "deploy", "validate", "publish"}
    /\ tree' = IF setup.stage = NoRelease THEN tree
               ELSE [tree EXCEPT ![setup.stage] = "absent"]
    /\ SetupAt("restore")
    /\ UNCHANGED <<link, launcher>>

Launch ==
    /\ setup.at = "launch" /\ Manageable
    /\ launcher' = "managed" /\ SetupAt("installed")
    /\ UNCHANGED <<tree, link>>

(* The launcher is not the gateway's, or cannot be written *)
LaunchFails ==
    /\ setup.at = "launch"
    /\ SetupAt("undo")
    /\ UNCHANGED <<tree, link, launcher>>

UndoCurrent ==
    /\ setup.at = "undo"
    /\ \/ CurrentRestored(setup.former) /\ SetupAt("undoLauncher")
       \/ /\ UNCHANGED link
          /\ setup' = [setup EXCEPT !.at = "undoLauncher", !.clean = FALSE]
    /\ UNCHANGED <<tree, launcher>>

(* Fault: the stage is removed whether or not the pointers are back *)
RemovableAlways == TRUE

Removable == setup.clean

(* The stage goes only when both pointers are back *)
UndoLauncher ==
    /\ setup.at = "undoLauncher"
    /\ \/ /\ launcher' = setup.latest
          /\ tree' = IF Removable
                     THEN [tree EXCEPT ![setup.stage] = "absent"] ELSE tree
       \/ UNCHANGED <<launcher, tree>>
    /\ SetupAt("restore")
    /\ UNCHANGED link

-----------------------------------------------------------------------------
(* The rest of the setup: it ends well, or restores what it began with     *)

EndSetup ==
    /\ setup.at = "installed"
    /\ setup' \in {NoSetup, [setup EXCEPT !.at = "restore"]}
    /\ UNCHANGED <<tree, link, launcher>>

RestoreInstallation ==
    /\ setup.at = "restore"
    /\ \/ CurrentRestored(setup.link) /\ launcher' \in {launcher, setup.launcher}
       \/ UNCHANGED <<link, launcher>>
    /\ setup' = NoSetup
    /\ UNCHANGED tree

KillSetup ==
    /\ setup.at # "idle"
    /\ setup' = NoSetup
    /\ UNCHANGED <<tree, link, launcher>>

(* `c2c skill install` installs too, without the setup's lock: before or   *)
(* after the installation of the setup, and before its rollback            *)
InstallBeside(release) ==
    /\ setup.at \in {"idle", "build", "installed", "restore"} /\ Free(release)
    /\ tree' = [tree EXCEPT ![release] = "whole"] /\ link' = release
    /\ launcher' \in {launcher, IF Manageable THEN "managed" ELSE launcher}
    /\ UNCHANGED setup

(* The user puts something else where the launcher is *)
UserLauncher ==
    /\ launcher' \in Launchers \ {launcher}
    /\ UNCHANGED <<tree, link, setup>>

InstallInit ==
    /\ tree = [r \in Releases |-> "absent"]
    /\ link = NoRelease /\ launcher \in {"missing", "foreign"}
    /\ setup = NoSetup

InstallNext ==
    \/ BeginSetup \/ Keep \/ Deploy \/ Validate \/ PublishStage \/ StageFails
    \/ (\E release \in Releases : Stage(release) \/ InstallBeside(release))
    \/ Launch \/ LaunchFails \/ UndoCurrent \/ UndoLauncher
    \/ EndSetup \/ RestoreInstallation \/ KillSetup \/ UserLauncher

InstallSpec == InstallInit /\ [][InstallNext]_installVars

-----------------------------------------------------------------------------
(* An installation that has published knows what it published.             *)
InstallTypeOK ==
    /\ tree \in [Releases -> Trees] /\ link \in Releases \cup {NoRelease}
    /\ launcher \in Launchers
    /\ setup.stage \in Releases \cup {NoRelease}
    /\ setup.at = "launch" => link = setup.stage

(* Whatever fails, dies or is taken back, and in whatever order, `current` *)
(* names a release that is complete: the next gateway can start from it.   *)
CurrentIsWhole == link # NoRelease => tree[link] = "whole"

(* What a failed installation can go back to is still there: no release    *)
(* that was published is removed while a snapshot names it.                *)
RollbackStands ==
    setup.at # "idle" =>
        \A r \in {setup.link, setup.former} \ {NoRelease} : tree[r] = "whole"

(* A launcher that is not the gateway's when the setup begins and when the *)
(* installation does, and that stays, is not replaced by either.  (One put *)
(* there in between is: the rollback takes the earlier snapshot back.)     *)
ForeignKept ==
    [][/\ setup.at # "idle" /\ setup.launcher = "foreign"
       /\ setup.latest = "foreign" /\ launcher = "foreign"
       => launcher' = "foreign" \/ UserLauncher]_installVars

(* The installation in every state: what is current, and what it may be    *)
(* set back to, is a complete release.                                     *)
InstallInv == InstallTypeOK /\ CurrentIsWhole /\ RollbackStands
=============================================================================
