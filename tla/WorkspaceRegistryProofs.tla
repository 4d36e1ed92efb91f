---------------------- MODULE WorkspaceRegistryProofs ----------------------
(***************************************************************************)
(* The registry of workspaces, for any number of checkouts, Projects and   *)
(* registrations: its file can be loaded, no registration or capability    *)
(* outlives its membership, and what an emptied Project left is pending.   *)
(*                                                                         *)
(* The invariant relates the three copies that there are of memberships:   *)
(* the file, the memory of the gateway and what a constructor has read     *)
(* (Agreed), and says of an operation that is under way what it still has  *)
(* to clean (Draining).  It is for a machine on which no process starts    *)
(* beside a gateway.                                                       *)
(***************************************************************************)
EXTENDS WorkspaceRegistry, TLAPS

DiskOK ==
    \A r \in Roots : disk[r] # Gone => disk[r].print \in Prints
                                       /\ disk[r].project \in AllProjects

Agreed ==
    /\ gateway.up => /\ stored.members = gateway.members
                     /\ stored.pending = gateway.pending
    /\ ~gateway.up => entries = {} /\ live = {} /\ ~work.busy
    /\ boot.on => /\ ~gateway.up
                  /\ stored.members = boot.members /\ stored.pending = boot.pending

Draining ==
    /\ work.busy => surfaces \subseteq ProjectsOf(gateway.members) \cup work.left
    /\ work.busy /\ work.candidate # NoMember =>
          work.candidate \in gateway.members /\ drawn < MaxRegistrations
    /\ boot.on => surfaces \subseteq ProjectsOf(boot.members) \cup boot.left

IInv ==
    /\ RegistryTypeOK /\ DiskOK /\ Agreed /\ StoredLoadable
    /\ AuthorityIsRegistered /\ EmptiedIsPending /\ Draining

USE RegistryAssumption DEF RegistryAssumption

-----------------------------------------------------------------------------
(* The shapes of what is assigned as a whole.                              *)
LEMMA Shapes ==
    /\ Idle \in [busy: BOOLEAN, left: SUBSET AllProjects,
                 candidate: Member \cup {NoMember}]
    /\ ~Idle.busy
    /\ NotBooting \in [on: BOOLEAN, members: SUBSET Member,
                       pending: SUBSET AllProjects, left: SUBSET AllProjects]
    /\ ~NotBooting.on
    /\ Down \in [up: BOOLEAN, members: SUBSET Member, pending: SUBSET AllProjects]
    /\ ~Down.up /\ Down.members = {}
  BY DEF Idle, NotBooting, Down

(* A fresh machine has no checkouts.                                       *)
LEMMA InvInit == RegistryInit => IInv
  <1> SUFFICES ASSUME RegistryInit PROVE IInv
    OBVIOUS
  <1>1. RegistryTypeOK /\ DiskOK
    BY Shapes DEF RegistryInit, RegistryTypeOK, DiskOK, Membership
  <1>2. Agreed /\ Draining
    BY Shapes DEF RegistryInit, Agreed, Draining
  <1>3. StoredLoadable /\ AuthorityIsRegistered /\ EmptiedIsPending
    BY DEF RegistryInit, StoredLoadable, AuthorityIsRegistered, EmptiedIsPending
  <1> QED  BY <1>1, <1>2, <1>3 DEF IInv

-----------------------------------------------------------------------------
(* A reconciliation takes away what is stale with all that hangs on it, and*)
(* adds the candidate only where it collides with nothing.                 *)
LEMMA ReconcileKeeps ==
    ASSUME IInv, gateway.up, NEW candidate \in Member \cup {NoMember},
           candidate # NoMember => candidate \in Member /\ drawn < MaxRegistrations,
           NEW explicit, NEW unread, Reconcile(candidate, explicit, unread)
    PROVE  IInv'
  <1> DEFINE stale == StaleRoots(explicit, unread)
             kept == {m \in gateway.members : m.root \notin stale}
             promoted == Promoted(kept, candidate)
             rest == kept \ promoted
             members == rest \cup Added(candidate)
             removedRoots == RemovedRoots(stale, promoted)
             dropped == {e \in entries : e.root \in removedRoots}
             removed == (gateway.members \ rest) \cup {MemberOf(e) : e \in dropped}
             pending == NextPending(members, removed)
             ids == 1..MaxRegistrations
  <1>1. /\ ~Collides(rest, candidate)
        /\ stored' = [members |-> members, pending |-> pending]
        /\ gateway' = [up |-> TRUE, members |-> members, pending |-> pending]
        /\ entries' = entries \ dropped
        /\ live' = live \ {e.id : e \in dropped}
        /\ work' = [busy |-> TRUE, left |-> pending, candidate |-> candidate]
        /\ UNCHANGED <<disk, surfaces, boot, drawn>>
    BY DEF Reconcile, Commit
  <1>2. rest \subseteq gateway.members /\ gateway.members \subseteq Member
    BY DEF IInv, RegistryTypeOK
  <1>3. members \subseteq Member
    BY <1>2 DEF Added
  <1>4. removed \subseteq gateway.members
    BY DEF IInv, AuthorityIsRegistered
  <1>5. pending \subseteq AllProjects
    <2>1. pending \subseteq gateway.pending \cup ProjectsOf(gateway.members)
      BY <1>4 DEF NextPending, ProjectsOf
    <2>2. ProjectsOf(gateway.members) \subseteq AllProjects
      BY <1>2 DEF ProjectsOf, Member
    <2>3. gateway.pending \subseteq AllProjects
      BY DEF IInv, RegistryTypeOK
    <2> QED  BY <2>1, <2>2, <2>3
  <1>6. pending = (gateway.pending \cup ProjectsOf(removed)) \ ProjectsOf(members)
    BY DEF NextPending
  <1>7. \A e \in entries \ dropped : MemberOf(e) \in rest
    <2> SUFFICES ASSUME NEW e \in entries, e.root \notin removedRoots
                 PROVE  MemberOf(e) \in rest
      OBVIOUS
    <2>1. MemberOf(e) \in gateway.members /\ MemberOf(e).root = e.root
      BY DEF IInv, AuthorityIsRegistered, MemberOf, At
    <2>2. e.root \notin stale /\ e.root \notin RootsOf(promoted)
      BY DEF RemovedRoots
    <2>3. MemberOf(e) \notin promoted
      BY <2>1, <2>2 DEF RootsOf
    <2> QED  BY <2>1, <2>2, <2>3
  <1>8. \A m, n \in members : m.root = n.root \/ m.print = n.print => m = n
    BY <1>1, <1>2 DEF Collides, Added, IInv, Agreed, StoredLoadable
  <1>9. surfaces \subseteq ProjectsOf(members) \cup pending
    <2> SUFFICES ASSUME NEW x \in surfaces, x \notin ProjectsOf(members)
                 PROVE  x \in pending
      OBVIOUS
    <2>1. x \in ProjectsOf(gateway.members) \/ x \in gateway.pending
      BY DEF IInv, EmptiedIsPending, Agreed
    <2>2. CASE x \in ProjectsOf(gateway.members)
      <3>1. PICK m \in gateway.members : m.project = x
        BY <2>2 DEF ProjectsOf
      <3>2. m \notin rest
        BY <3>1 DEF ProjectsOf
      <3> QED  BY <1>6, <3>1, <3>2 DEF ProjectsOf
    <2> QED  BY <1>6, <2>1, <2>2
  <1>10. candidate # NoMember => candidate \in members
    BY DEF Added
  <1> HIDE DEF members, pending, rest, dropped, removed, ids
  <1>11. RegistryTypeOK'
    <2>1. gateway' \in [up: BOOLEAN, members: SUBSET Member, pending: SUBSET AllProjects]
      BY <1>1, <1>3, <1>5
    <2>2. work' \in [busy: BOOLEAN, left: SUBSET AllProjects,
                     candidate: Member \cup {NoMember}]
      BY <1>1, <1>5
    <2> QED  BY <1>1, <1>3, <1>5, <2>1, <2>2 DEF IInv, RegistryTypeOK, Membership
  <1>12. DiskOK' /\ StoredLoadable' /\ EmptiedIsPending'
    BY <1>1, <1>8, <1>9 DEF IInv, DiskOK, StoredLoadable, EmptiedIsPending
  <1>13. Agreed'
    BY <1>1 DEF IInv, Agreed
  <1>14. AuthorityIsRegistered'
    <2>1. live' \subseteq {e.id : e \in entries \ dropped}
      BY <1>1 DEF IInv, AuthorityIsRegistered
    <2>2. \A e \in entries \ dropped : MemberOf(e) \in members
      BY <1>7 DEF members
    <2> QED  BY <1>1, <2>1, <2>2 DEF AuthorityIsRegistered
  <1>15. Draining'
    BY <1>1, <1>9, <1>10 DEF IInv, Draining, Agreed
  <1> QED  BY <1>11, <1>12, <1>13, <1>14, <1>15 DEF IInv

(* The operations that reconcile.                                          *)
LEMMA OperationKeeps ==
    ASSUME IInv,
           \/ \E r \in Roots, unread \in SUBSET Roots : Register(r, unread)
           \/ \E e \in entries, unread \in SUBSET Roots :
                 LookupStale(e, unread) \/ Unregister(e, unread)
    PROVE  IInv'
  <1>1. CASE \E r \in Roots, unread \in SUBSET Roots : Register(r, unread)
    <2>1. PICK r \in Roots, unread \in SUBSET Roots : Register(r, unread)
      BY <1>1
    <2>2. At(r, disk[r]) \in Member
      BY <2>1 DEF Register, IInv, DiskOK, At, Member
    <2> QED  BY <2>1, <2>2, ReconcileKeeps DEF Register, Ready
  <1>2. CASE \E e \in entries, unread \in SUBSET Roots :
                LookupStale(e, unread) \/ Unregister(e, unread)
    BY <1>2, ReconcileKeeps DEF LookupStale, Unregister, Ready
  <1> QED  BY <1>1, <1>2

-----------------------------------------------------------------------------
(* The cleanup of emptied Projects, its end and its failure.               *)
LEMMA DrainKeeps ==
    ASSUME IInv, (\E x \in work.left : Clean(x)) \/ Finish \/ Fail
    PROVE  IInv'
  <1> USE DEF IInv
  <1>0. work.busy /\ gateway.up /\ ~boot.on
    BY DEF Clean, Finish, Fail, Agreed
  <1>1. CASE \E x \in work.left : Clean(x)
    <2>1. PICK x \in work.left : Clean(x)
      BY <1>1
    <2>2. surfaces' \subseteq surfaces
          /\ (x \in surfaces' => x \in ProjectsOf(gateway.members))
      BY <2>1 DEF Clean, Cleaned
    <2>3. /\ UNCHANGED <<disk, stored, gateway, entries, live, boot, drawn>>
          /\ work' = [work EXCEPT !.left = work.left \ {x}]
      BY <2>1 DEF Clean
    <2>4. work' \in [busy: BOOLEAN, left: SUBSET AllProjects,
                     candidate: Member \cup {NoMember}]
      BY <2>3 DEF RegistryTypeOK
    <2>5. RegistryTypeOK'
      BY <2>2, <2>3, <2>4 DEF RegistryTypeOK
    <2>6. work'.left = work.left \ {x} /\ work'.busy
          /\ work'.candidate = work.candidate
      BY <1>0, <2>3 DEF RegistryTypeOK
    <2>7. Draining'
      BY <1>0, <2>2, <2>3, <2>6 DEF Draining
    <2> QED  BY <1>0, <2>2, <2>3, <2>5, <2>7
             DEF DiskOK, Agreed, StoredLoadable, AuthorityIsRegistered,
                 EmptiedIsPending, MemberOf, At
  <1>2. CASE Finish
    <2> DEFINE c == work.candidate
               new == [root |-> c.root, print |-> c.print, project |-> c.project,
                       id |-> drawn + 1]
    <2>1. /\ work.left = {} /\ work' = Idle
          /\ UNCHANGED <<disk, live, surfaces, boot>>
      BY <1>2 DEF Finish
    <2>2. gateway'.members = gateway.members /\ gateway'.up /\ gateway'.pending = {}
          /\ stored'.members = gateway.members /\ stored'.pending = {}
          /\ stored' \in Membership
          /\ gateway' \in [up: BOOLEAN, members: SUBSET Member,
                           pending: SUBSET AllProjects]
      <3>1. CASE gateway.pending = {}
        <4>1. UNCHANGED <<stored, gateway>>
          BY <1>2, <3>1 DEF Finish
        <4> QED  BY <1>0, <3>1, <4>1 DEF RegistryTypeOK, Agreed
      <3>2. CASE gateway.pending # {}
        <4>1. Commit(gateway.members, {})
          BY <1>2, <3>2 DEF Finish
        <4> QED  BY <4>1 DEF Commit, RegistryTypeOK, Membership
      <3> QED  BY <3>1, <3>2
    <2>3. \/ entries' = entries /\ drawn' = drawn
          \/ /\ c # NoMember /\ drawn' = drawn + 1 /\ entries' = entries \cup {new}
      BY <1>2 DEF Finish
    <2>4. CASE entries' = entries /\ drawn' = drawn
      <3>1. RegistryTypeOK'
        BY <2>1, <2>2, <2>4, Shapes DEF RegistryTypeOK
      <3>2. AuthorityIsRegistered'
        BY <2>1, <2>2, <2>4 DEF AuthorityIsRegistered
      <3>3. EmptiedIsPending' /\ StoredLoadable' /\ DiskOK'
        BY <1>0, <2>1, <2>2 DEF EmptiedIsPending, StoredLoadable, DiskOK, Draining,
                                Agreed
      <3>4. Agreed' /\ Draining'
        BY <1>0, <2>1, <2>2, Shapes DEF Agreed, Draining
      <3> QED  BY <3>1, <3>2, <3>3, <3>4
    <2>5. CASE c # NoMember /\ drawn' = drawn + 1 /\ entries' = entries \cup {new}
      <3>1. c \in gateway.members /\ drawn < MaxRegistrations /\ c \in Member
        BY <1>0, <2>5 DEF Draining, RegistryTypeOK
      <3>2. MemberOf(new) = c
        BY <3>1 DEF MemberOf, At, Member
      <3>3. new \in [root: Roots, print: Prints, project: AllProjects,
                     id: 1..MaxRegistrations] /\ drawn + 1 \in 0..MaxRegistrations
        BY <3>1 DEF Member, RegistryTypeOK
      <3> HIDE DEF new
      <3>4. RegistryTypeOK'
        BY <2>1, <2>2, <2>5, <3>3, Shapes DEF RegistryTypeOK
      <3>5. AuthorityIsRegistered'
        BY <2>1, <2>2, <2>5, <3>1, <3>2 DEF AuthorityIsRegistered
      <3>6. EmptiedIsPending' /\ StoredLoadable' /\ DiskOK'
        BY <1>0, <2>1, <2>2 DEF EmptiedIsPending, StoredLoadable, DiskOK, Draining,
                                Agreed
      <3>7. Agreed' /\ Draining'
        BY <1>0, <2>1, <2>2, Shapes DEF Agreed, Draining
      <3> QED  BY <3>4, <3>5, <3>6, <3>7
    <2> QED  BY <2>3, <2>4, <2>5
  <1>3. CASE Fail
    BY <1>0, <1>3, Shapes DEF Fail, RegistryTypeOK, DiskOK, Agreed, StoredLoadable,
            AuthorityIsRegistered, EmptiedIsPending, Draining, MemberOf, At
  <1> QED  BY <1>1, <1>2, <1>3

(* Turns and surfaces are of registrations, and what the user changes is   *)
(* found out at the next operation.                                        *)
LEMMA UseKeeps ==
    ASSUME IInv,
           \/ \E e \in entries : IssueTurn(e) \/ ClaimSurface(e)
           \/ \E r \in Roots : Change(r)
    PROVE  IInv'
  <1> USE DEF IInv
  <1>1. CASE \E e \in entries : IssueTurn(e)
    <2>1. PICK e \in entries : IssueTurn(e)
      BY <1>1
    <2>2. live' = live \cup {e.id}
          /\ UNCHANGED <<disk, stored, gateway, entries, surfaces, work, boot, drawn>>
      BY <2>1 DEF IssueTurn
    <2>3. e.id \in 1..MaxRegistrations
      BY DEF RegistryTypeOK
    <2>4. RegistryTypeOK'
      BY <2>2, <2>3 DEF RegistryTypeOK
    <2>5. AuthorityIsRegistered'
      BY <2>2 DEF AuthorityIsRegistered
    <2>6. Agreed'
      BY <2>1, <2>2 DEF Agreed, IssueTurn, Ready
    <2> QED  BY <2>2, <2>4, <2>5, <2>6 DEF DiskOK, StoredLoadable, EmptiedIsPending,
                  Draining
  <1>2. CASE \E e \in entries : ClaimSurface(e)
    <2>1. PICK e \in entries : ClaimSurface(e)
      BY <1>2
    <2>2. MemberOf(e) \in gateway.members /\ MemberOf(e).project = e.project
      BY DEF AuthorityIsRegistered, MemberOf, At
    <2>3. e.project \in ProjectsOf(gateway.members)
      BY <2>2 DEF ProjectsOf
    <2>4. gateway.up /\ ~work.busy /\ ~boot.on
          /\ surfaces' = surfaces \cup {e.project}
          /\ UNCHANGED <<disk, stored, gateway, entries, live, work, boot, drawn>>
      BY <2>1 DEF ClaimSurface, Ready, Agreed
    <2> QED  BY <2>3, <2>4 DEF RegistryTypeOK, DiskOK, Agreed, StoredLoadable,
                  AuthorityIsRegistered, EmptiedIsPending, Draining
  <1>3. CASE \E r \in Roots : Change(r)
    <2>0. PICK r \in Roots : Change(r)
      BY <1>3
    <2>1. PICK found \in Checkouts(r) \cup {Gone} :
             disk' = [disk EXCEPT ![r] = found]
      BY <2>0 DEF Change
    <2>2. UNCHANGED <<stored, gateway, entries, live, surfaces, work, boot, drawn>>
      BY <1>3 DEF Change
    <2>3. found # Gone => found.print \in Prints /\ found.project \in AllProjects
      BY <2>1 DEF Checkouts, AllProjects
    <2>4. \A s \in Roots : disk'[s] = found \/ disk'[s] = disk[s]
      BY <2>1
    <2>5. DiskOK'
      BY <2>3, <2>4 DEF DiskOK
    <2> QED  BY <2>2, <2>5 DEF RegistryTypeOK, Agreed, StoredLoadable,
                  AuthorityIsRegistered, EmptiedIsPending, Draining
  <1> QED  BY <1>1, <1>2, <1>3

-----------------------------------------------------------------------------
(* A process that starts finds what the last one left, and cleans it.      *)
LEMMA ProcessKeeps ==
    ASSUME IInv, Rivals = FALSE,
           Start \/ (\E x \in boot.left : BootClean(x)) \/ Booted \/ BootDies \/ Die
    PROVE  IInv'
  <1> USE DEF IInv
  <1>1. CASE Start
    <2>1. ~gateway.up /\ ~work.busy
      BY <1>1 DEF Start, Agreed
    <2>2. boot' = [on |-> TRUE, members |-> stored.members,
                   pending |-> stored.pending, left |-> stored.pending]
          /\ UNCHANGED <<disk, stored, gateway, entries, live, surfaces, work, drawn>>
      BY <1>1 DEF Start
    <2>3. RegistryTypeOK'
      BY <2>2 DEF RegistryTypeOK, Membership
    <2> QED  BY <2>1, <2>2, <2>3 DEF DiskOK, Agreed, StoredLoadable,
                  AuthorityIsRegistered, EmptiedIsPending, Draining, MemberOf, At
  <1>2. CASE \E x \in boot.left : BootClean(x)
    <2>1. PICK x \in boot.left : BootClean(x)
      BY <1>2
    <2>2. boot.on /\ ~gateway.up /\ ~work.busy
      BY <2>1 DEF BootClean, Agreed
    <2>3. surfaces' \subseteq surfaces
          /\ (x \in surfaces' => x \in ProjectsOf(boot.members))
      BY <2>1 DEF BootClean, Cleaned
    <2>4. /\ UNCHANGED <<disk, stored, gateway, entries, live, work, drawn>>
          /\ boot' = [boot EXCEPT !.left = boot.left \ {x}]
      BY <2>1 DEF BootClean
    <2>5. RegistryTypeOK' /\ boot'.left = boot.left \ {x} /\ boot'.on
          /\ boot'.members = boot.members /\ boot'.pending = boot.pending
      BY <2>2, <2>3, <2>4 DEF RegistryTypeOK
    <2> QED  BY <2>2, <2>3, <2>4, <2>5 DEF DiskOK, Agreed, StoredLoadable,
                  AuthorityIsRegistered, EmptiedIsPending, Draining, MemberOf, At
  <1>3. CASE Booted
    <2>1. boot.on /\ boot.left = {} /\ ~gateway.up /\ ~work.busy
          /\ entries = {} /\ live = {}
      BY <1>3 DEF Booted, Agreed
    <2>2. stored'.members = boot.members /\ stored'.pending = {}
          /\ stored' \in Membership
      BY <1>3, <2>1 DEF Booted, Agreed, RegistryTypeOK, Membership
    <2>3. gateway' = [up |-> TRUE, members |-> boot.members, pending |-> {}]
      BY <1>3, <2>1 DEF Booted, Running
    <2>4. boot' = NotBooting /\ UNCHANGED <<disk, entries, live, surfaces, work, drawn>>
      BY <1>3 DEF Booted
    <2>5. RegistryTypeOK'
      BY <2>2, <2>3, <2>4, Shapes DEF RegistryTypeOK
    <2> QED  BY <2>1, <2>2, <2>3, <2>4, <2>5, Shapes
             DEF DiskOK, Agreed, StoredLoadable, AuthorityIsRegistered,
                 EmptiedIsPending, Draining, MemberOf, At
  <1>4. CASE BootDies
    BY <1>4, Shapes DEF BootDies, RegistryTypeOK, DiskOK, Agreed, StoredLoadable,
            AuthorityIsRegistered, EmptiedIsPending, Draining, MemberOf, At
  <1>5. CASE Die
    BY <1>5, Shapes DEF Die, RegistryTypeOK, DiskOK, Agreed, StoredLoadable,
            AuthorityIsRegistered, EmptiedIsPending, Draining
  <1> QED  BY <1>1, <1>2, <1>3, <1>4, <1>5

(* The invariant is preserved on a machine where no process starts beside  *)
(* a gateway.                                                              *)
THEOREM RegistryInvariant ==
    ASSUME Rivals = FALSE
    PROVE  RegistrySpec => []IInv
  <1>1. IInv /\ [RegistryNext]_registryVars => IInv'
    <2> SUFFICES ASSUME IInv, [RegistryNext]_registryVars PROVE IInv'
      OBVIOUS
    <2>1. CASE UNCHANGED registryVars
      BY <2>1 DEF registryVars, IInv, RegistryTypeOK, DiskOK, Agreed, StoredLoadable,
                  AuthorityIsRegistered, EmptiedIsPending, Draining
    <2>2. CASE RegistryNext
      BY <2>2, OperationKeeps, DrainKeeps, UseKeeps, ProcessKeeps DEF RegistryNext
    <2> QED  BY <2>1, <2>2
  <1> QED  BY InvInit, <1>1, PTL DEF RegistrySpec

(* On that machine the registry's file can be loaded, its authority is of  *)
(* registered checkouts and what an emptied Project left is pending, in    *)
(* every state and whatever crashes or fails.                              *)
THEOREM RegistryTheorem ==
    ASSUME Rivals = FALSE
    PROVE  RegistrySpec => []RegistryInv
  <1>1. IInv => RegistryInv
    BY DEF IInv, RegistryInv
  <1> QED  BY RegistryInvariant, <1>1, PTL

(* Only a cleanup takes surface ownership away, and it finds the Project   *)
(* of a registered checkout among the members.                             *)
LEMMA RegisteredIsNotCleaned ==
    ASSUME IInv, [RegistryNext]_registryVars, NEW e \in entries, e.project \in surfaces
    PROVE  e.project \in surfaces'
  <1>1. CASE \E x \in work.left : Clean(x)
    <2>1. MemberOf(e) \in gateway.members /\ MemberOf(e).project = e.project
      BY DEF IInv, AuthorityIsRegistered, MemberOf, At
    <2>2. e.project \in ProjectsOf(gateway.members)
      BY <2>1 DEF ProjectsOf
    <2> QED  BY <1>1, <2>2 DEF Clean, Cleaned
  <1>2. CASE \E x \in boot.left : BootClean(x)
    BY <1>2 DEF BootClean, IInv, Agreed
  <1>3. CASE \E f \in entries : ClaimSurface(f)
    BY <1>3 DEF ClaimSurface
  <1>4. CASE \/ \E r \in Roots, unread \in SUBSET Roots : Register(r, unread)
             \/ \E f \in entries, unread \in SUBSET Roots :
                   LookupStale(f, unread) \/ Unregister(f, unread)
    <2>1. \A candidate, explicit, unread :
             Reconcile(candidate, explicit, unread) => UNCHANGED surfaces
      BY DEF Reconcile
    <2> QED  BY <1>4, <2>1 DEF Register, LookupStale, Unregister
  <1>5. CASE \/ \E f \in entries : IssueTurn(f)
             \/ \E r \in Roots : Change(r)
             \/ Finish \/ Fail \/ Start \/ Booted \/ BootDies \/ Die
             \/ UNCHANGED registryVars
    BY <1>5 DEF registryVars, IssueTurn, Change, Finish, Fail, Start, Booted, BootDies, Die
  <1> QED  BY <1>1, <1>2, <1>3, <1>4, <1>5 DEF RegistryNext

(* On that machine, a Project keeps its surface ownership while a checkout *)
(* of it is registered, whatever is removed, cleaned or started meanwhile. *)
THEOREM RemovalTheorem ==
    ASSUME Rivals = FALSE
    PROVE  RegistrySpec => RemovedOnlyWhenEmpty
  <1>1. IInv /\ [RegistryNext]_registryVars =>
           [\A e \in entries : e.project \in surfaces =>
               e.project \in surfaces' \/ e \notin entries']_registryVars
    BY RegisteredIsNotCleaned
  <1> QED  BY RegistryInvariant, <1>1, PTL DEF RegistrySpec, RemovedOnlyWhenEmpty
=============================================================================
