-------------------------- MODULE WorkspaceRegistry --------------------------
(***************************************************************************)
(* The registry of checkouts: gateway/workspace-registry.ts, with the      *)
(* capabilities and the surface ownership that a removal takes away.       *)
(*                                                                         *)
(* A registration lives in the memory of the gateway; the checkout it is   *)
(* for is also a member in a file that survives the process, so that the   *)
(* next one knows which Projects still have a checkout.  When a Project    *)
(* loses its last one, the file says so in the same write, and only then   *)
(* is the Project's surface ownership removed: a file of its own.  An      *)
(* operation is one commit of the file and the memory (Reconcile), one     *)
(* cleanup per emptied Project, and a second commit that forgets them.     *)
(* The gateway does nothing else meanwhile, but it may die between any two *)
(* of these, and a cleanup or a write may fail.                            *)
(*                                                                         *)
(* Checkouts are directories that the user moves, replaces, retargets to   *)
(* another Git project at any time.  A path project has its root for an    *)
(* identity, a Git project may have many checkouts.  An operation reads    *)
(* all of them at once, but may fail to read some (unread): a checkout     *)
(* whose status is uncertain is neither served nor removed.                *)
(***************************************************************************)
EXTENDS Naturals, FiniteSets

CONSTANTS
    Roots,              \* the canonical directories, one workspace id each
    Prints,             \* RootFingerprint: the directory's inode
    GitProjects,
    MaxRegistrations,   \* bound on the registrations made
    Rivals              \* whether a process may start beside the gateway

ASSUME RegistryAssumption ==
    /\ Roots \cap GitProjects = {}
    /\ MaxRegistrations \in Nat /\ Rivals \in BOOLEAN

VARIABLES
    disk,        \* what is at a root
    stored,      \* the membership file
    gateway,     \* the memory of the gateway
    entries,     \* its registrations
    live,        \* registrations for which there is a live capability
    surfaces,    \* projects with leases, bindings or a URL in the index
    work,        \* what the running operation has still to do
    boot,        \* the constructor of a process that starts
    drawn        \* registration ids drawn

registryVars ==
    <<disk, stored, gateway, entries, live, surfaces, work, boot, drawn>>

AllProjects == GitProjects \cup Roots

Member == [root: Roots, print: Prints, project: AllProjects]
Checkouts(r) == [print: Prints, project: GitProjects \cup {r}]
Gone == [print |-> "none", project |-> "none"]
NoMember == [root |-> "none", print |-> "none", project |-> "none"]

Membership == [members: SUBSET Member, pending: SUBSET AllProjects]
Down == [up |-> FALSE, members |-> {}, pending |-> {}]
Running(members) == [up |-> TRUE, members |-> members, pending |-> {}]
Idle == [busy |-> FALSE, left |-> {}, candidate |-> NoMember]
NotBooting == [on |-> FALSE, members |-> {}, pending |-> {}, left |-> {}]

ProjectsOf(members) == {m.project : m \in members}
At(r, found) == [root |-> r, print |-> found.print, project |-> found.project]
MemberOf(e) == At(e.root, e)
Seen(m) == [print |-> m.print, project |-> m.project]

Current(m, unread) == m.root \notin unread /\ disk[m.root] = Seen(m)
Stale(m, unread) == m.root \notin unread /\ disk[m.root] # Seen(m)

-----------------------------------------------------------------------------
(* reconcileMemberships                                                    *)

RootsOf(members) == {m.root : m \in members}

StaleRoots(explicit, unread) ==
    RootsOf(explicit)
    \cup RootsOf({m \in entries \cup gateway.members : Stale(m, unread)})

(* A checkout that has become a Git checkout in place takes the place of   *)
(* its path project, also when the status of that one is uncertain         *)
Promoted(kept, candidate) ==
    {m \in kept : /\ m.root = candidate.root /\ m.print = candidate.print
                  /\ m.project = m.root
                  /\ candidate.project \in GitProjects}

(* Fault: a directory that was moved is registered beside its old root     *)
CollidesAtRoot(kept, candidate) ==
    \E m \in kept : m # candidate /\ m.root = candidate.root

Collides(kept, candidate) ==
    \E m \in kept :
        /\ m # candidate
        /\ m.root = candidate.root \/ m.print = candidate.print

(* Fault: cleanup that is pending is not kept when memberships change      *)
NextPendingOfRemoved(members, removed) ==
    ProjectsOf(removed) \ ProjectsOf(members)

NextPending(members, removed) ==
    (gateway.pending \cup ProjectsOf(removed)) \ ProjectsOf(members)

(* Fault: a removal adds what it has not got *)
AddedAlways(candidate) == {candidate}

(* Fault: a registration is kept in memory only                            *)
AddedNever(candidate) == {}

Added(candidate) == IF candidate = NoMember THEN {} ELSE {candidate}

(* Fault: the registration of a checkout that became a Git checkout stays  *)
RemovedRootsKeepingPromoted(stale, promoted) == stale

RemovedRoots(stale, promoted) == stale \cup RootsOf(promoted)

(* One commit: the file, the memory, the registrations and capabilities.   *)
(* Fault: memberships without the cleanup that is to follow                *)
CommitMembersOnly(members, pending) ==
    /\ stored' = [members |-> members, pending |-> stored.pending]
    /\ gateway' = [up |-> TRUE, members |-> members, pending |-> pending]

Commit(members, pending) ==
    /\ stored' = [members |-> members, pending |-> pending]
    /\ gateway' = [up |-> TRUE, members |-> members, pending |-> pending]

Reconcile(candidate, explicit, unread) ==
    LET stale == StaleRoots(explicit, unread)
        kept == {m \in gateway.members : m.root \notin stale}
        promoted == Promoted(kept, candidate)
        rest == kept \ promoted
        members == rest \cup Added(candidate)
        removedRoots == RemovedRoots(stale, promoted)
        dropped == {e \in entries : e.root \in removedRoots}
        removed == (gateway.members \ rest) \cup {MemberOf(e) : e \in dropped}
        pending == NextPending(members, removed)
    IN  /\ ~Collides(rest, candidate)
        /\ Commit(members, pending)
        /\ entries' = entries \ dropped
        /\ live' = live \ {e.id : e \in dropped}
        /\ work' = [busy |-> TRUE, left |-> pending, candidate |-> candidate]
        /\ UNCHANGED <<disk, surfaces, boot, drawn>>

Ready == gateway.up /\ ~work.busy

(* register, up to the second commit *)
Register(r, unread) ==
    /\ Ready /\ disk[r] # Gone
    /\ drawn < MaxRegistrations
    /\ Reconcile(At(r, disk[r]), {}, unread)

(* lookup of a registration whose checkout has changed: it is removed      *)
LookupStale(e, unread) ==
    /\ Ready /\ Stale(e, unread)
    /\ Reconcile(NoMember, {e}, unread)

(* unregisterWorkspace: a lookup and then the removal                      *)
Unregister(e, unread) ==
    /\ Ready /\ Current(e, unread)
    /\ Reconcile(NoMember, {e}, unread)

-----------------------------------------------------------------------------
(* drainPendingProjectRemovals                                             *)

Cleaned(x, members) ==
    IF x \in ProjectsOf(members) THEN surfaces ELSE surfaces \ {x}

Clean(x) ==
    /\ work.busy /\ x \in work.left
    /\ surfaces' = Cleaned(x, gateway.members)
    /\ work' = [work EXCEPT !.left = @ \ {x}]
    /\ UNCHANGED <<disk, stored, gateway, entries, live, boot, drawn>>

(* What was emptied is forgotten, and a new registration is made           *)
Finish ==
    LET c == work.candidate
        known == {e \in entries : e.print = c.print}
    IN  /\ work.busy /\ work.left = {}
        /\ IF gateway.pending = {} THEN UNCHANGED <<stored, gateway>>
           ELSE Commit(gateway.members, {})
        /\ IF c = NoMember \/ known # {} THEN UNCHANGED <<entries, drawn>>
           ELSE /\ drawn' = drawn + 1
                /\ entries' = entries \cup
                     {[root |-> c.root, print |-> c.print,
                       project |-> c.project, id |-> drawn + 1]}
        /\ work' = Idle
        /\ UNCHANGED <<disk, live, surfaces, boot>>

(* A cleanup or the second commit fails, and the operation throws          *)
Fail ==
    /\ work.busy /\ gateway.pending # {}
    /\ work' = Idle
    /\ UNCHANGED <<disk, stored, gateway, entries, live, surfaces, boot, drawn>>

-----------------------------------------------------------------------------
(* What a registration is used for, after a lookup of it                   *)

IssueTurn(e) ==
    /\ Ready /\ Current(e, {})
    /\ live' = live \cup {e.id}
    /\ UNCHANGED <<disk, stored, gateway, entries, surfaces, work, boot, drawn>>

ClaimSurface(e) ==
    /\ Ready /\ Current(e, {})
    /\ surfaces' = surfaces \cup {e.project}
    /\ UNCHANGED <<disk, stored, gateway, entries, live, work, boot, drawn>>

-----------------------------------------------------------------------------
(* Processes come and go                                                   *)

(* The constructor reads the file and cleans what it finds pending; it     *)
(* comes before the process asks for the machine's lifetime                *)
Start ==
    /\ ~boot.on /\ (gateway.up => Rivals)
    /\ boot' = [on |-> TRUE, members |-> stored.members,
                pending |-> stored.pending, left |-> stored.pending]
    /\ UNCHANGED <<disk, stored, gateway, entries, live, surfaces, work, drawn>>

BootClean(x) ==
    /\ boot.on /\ x \in boot.left
    /\ surfaces' = Cleaned(x, boot.members)
    /\ boot' = [boot EXCEPT !.left = @ \ {x}]
    /\ UNCHANGED <<disk, stored, gateway, entries, live, work, drawn>>

(* The file is written if it had something pending.  A process that finds  *)
(* the lifetime taken is no gateway                                        *)
Booted ==
    /\ boot.on /\ boot.left = {}
    /\ stored' = IF boot.pending = {} THEN stored
                 ELSE [members |-> boot.members, pending |-> {}]
    /\ gateway' = IF gateway.up THEN gateway ELSE Running(boot.members)
    /\ boot' = NotBooting
    /\ UNCHANGED <<disk, entries, live, surfaces, work, drawn>>

(* ... also because a cleanup failed *)
BootDies ==
    /\ boot.on
    /\ boot' = NotBooting
    /\ UNCHANGED <<disk, stored, gateway, entries, live, surfaces, work, drawn>>

Die ==
    /\ gateway.up
    /\ gateway' = Down /\ entries' = {} /\ live' = {} /\ work' = Idle
    /\ UNCHANGED <<disk, stored, surfaces, boot, drawn>>

(* The user changes a checkout: no directory is at two roots               *)
Elsewhere(r) == {disk[s].print : s \in Roots \ {r}}

Change(r) ==
    /\ \E found \in Checkouts(r) \cup {Gone} :
          /\ found.print \notin Elsewhere(r) \/ found = Gone
          /\ disk' = [disk EXCEPT ![r] = found]
    /\ UNCHANGED <<stored, gateway, entries, live, surfaces, work, boot, drawn>>

RegistryInit ==
    /\ disk = [r \in Roots |-> Gone]
    /\ stored = [members |-> {}, pending |-> {}]
    /\ gateway = Down /\ entries = {} /\ live = {}
    /\ surfaces = {} /\ work = Idle /\ boot = NotBooting /\ drawn = 0

RegistryNext ==
    \/ \E r \in Roots, unread \in SUBSET Roots : Register(r, unread)
    \/ \E e \in entries, unread \in SUBSET Roots :
          LookupStale(e, unread) \/ Unregister(e, unread)
    \/ \E e \in entries : IssueTurn(e) \/ ClaimSurface(e)
    \/ \E r \in Roots : Change(r)
    \/ \E x \in work.left : Clean(x)
    \/ \E x \in boot.left : BootClean(x)
    \/ Finish \/ Fail \/ Start \/ Booted \/ BootDies \/ Die

RegistrySpec == RegistryInit /\ [][RegistryNext]_registryVars

-----------------------------------------------------------------------------
(* Memory and file hold what the constructor and the handlers put there.   *)
RegistryTypeOK ==
    /\ stored \in Membership
    /\ gateway \in [up: BOOLEAN, members: SUBSET Member, pending: SUBSET AllProjects]
    /\ entries \subseteq [root: Roots, print: Prints, project: AllProjects,
                          id: 1..MaxRegistrations]
    /\ live \subseteq 1..MaxRegistrations
    /\ surfaces \subseteq AllProjects
    /\ work \in [busy: BOOLEAN, left: SUBSET AllProjects,
                 candidate: Member \cup {NoMember}]
    /\ boot \in [on: BOOLEAN, members: SUBSET Member,
                 pending: SUBSET AllProjects, left: SUBSET AllProjects]
    /\ drawn \in 0..MaxRegistrations

(* The next process can read the file: loadMemberships refuses one with a  *)
(* root or a directory in it twice, and the gateway would not start.       *)
StoredLoadable ==
    \A m, n \in stored.members : m.root = n.root \/ m.print = n.print => m = n

(* A capability is of a registration that stands, and a registration is of *)
(* a checkout the file knows: whatever the user did to the checkouts, no   *)
(* turn outlives its registration, and no registration its membership.     *)
AuthorityIsRegistered ==
    /\ live \subseteq {e.id : e \in entries}
    /\ {MemberOf(e) : e \in entries} \subseteq gateway.members

(* Surface ownership of a Project without a checkout is always on its way  *)
(* out: the file says so, also between two steps of a removal and after a  *)
(* crash or a failed cleanup there.                                        *)
EmptiedIsPending ==
    surfaces \subseteq ProjectsOf(stored.members) \cup stored.pending

(* A Project keeps its surface ownership while a checkout of it is         *)
(* registered (docs/protocol.md, 243-244: "A Project's authority is        *)
(* removed only when its last registered checkout is unregistered.").      *)
RemovedOnlyWhenEmpty ==
    [][\A e \in entries : e.project \in surfaces => e.project \in surfaces'
                          \/ e \notin entries']_registryVars

(* The registry in every state: its file can be loaded, its authority is   *)
(* of registered checkouts, and what an emptied Project left is pending.   *)
RegistryInv ==
    /\ RegistryTypeOK
    /\ StoredLoadable
    /\ AuthorityIsRegistered
    /\ EmptiedIsPending
=============================================================================
