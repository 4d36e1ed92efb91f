----------------------- MODULE SurfaceOwnershipProofs -----------------------
(***************************************************************************)
(* For any number of projects, sessions, pages, chats and checkouts, and   *)
(* any capacity: what SurfaceOwnership keeps has its type, a generation is *)
(* given once, and the lease a session has is the newest it was given.     *)
(***************************************************************************)
EXTENDS SurfaceOwnership, FiniteSetTheorems, TLAPS

(* The index n is what is left of the index m                              *)
Remains(m, n) ==
    /\ n.leases \subseteq m.leases /\ n.bindings \subseteq m.bindings
    /\ n.next = m.next
    /\ \A s \in Sessions : n.generations[s] \in {0, m.generations[s]}

(* The lease of a session carries the generation that the index records    *)
Recorded(m) == \A l \in m.leases : l.generation = m.generations[Session(l)]

(* What the index and what callers were given have to do with each other   *)
Accounted(m, refs, bindings) ==
    /\ \A l \in m.leases : Ref(l) \in refs
    /\ m.bindings \subseteq bindings
    /\ \A b \in bindings : \E r \in refs : BindingMatchesRef(b, r)
    /\ \A r \in refs :
          /\ r.generation < m.next
          /\ m.generations[Session(r)] # 0 =>
                r.generation <= m.generations[Session(r)]

Accurate(m) == Recorded(m) /\ Accounted(m, granted, bound)

IInv ==
    /\ TypeOK
    /\ Accurate(machine)
    /\ todo.kind = "index" => Accurate(todo.value)
    /\ UniqueGenerations

-----------------------------------------------------------------------------
(* The entries of an index are of sessions.                                *)
LEMMA SessionTyped ==
    /\ \A e \in Lease \cup Binding \cup LeaseRef \cup Request : Session(e) \in Sessions
    /\ \A l \in Lease : Ref(l) \in LeaseRef /\ Session(Ref(l)) = Session(l)
BY DEF Lease, Binding, LeaseRef, Request, Session, Sessions, Ref

(* Pruning keeps everything but generations of sessions that are gone.     *)
LEMMA PrunedRemains ==
    ASSUME NEW m \in Machine
    PROVE  Pruned(m) \in Machine /\ Remains(m, Pruned(m))
BY DEF Pruned, Remains, Machine

(* Reaping keeps the leases that have not expired.                         *)
LEMMA ReapedRemains ==
    ASSUME NEW m \in Machine
    PROVE  Reaped(m) \in Machine /\ Remains(m, Reaped(m))
<1> DEFINE k == [m EXCEPT !.leases = {l \in m.leases : ~l.expired}]
<1>1. k \in Machine /\ Remains(m, k)
  BY DEF Machine, Remains
<1>2. Pruned(k) \in Machine /\ Remains(k, Pruned(k))
  BY <1>1, PrunedRemains
<1> QED BY <1>1, <1>2 DEF Reaped, Remains

(* Reading an index on behalf of a project keeps all that is in it.        *)
LEMMA SyncedRemains ==
    ASSUME NEW m \in Machine, NEW p \in Projects
    PROVE  /\ Synced(m, p) \in Machine /\ Remains(m, Synced(m, p))
           /\ SyncedForClaim(m, p) \in Machine /\ Remains(m, SyncedForClaim(m, p))
BY DEF Machine, Remains, Synced, SyncedForClaim

(* Remains composes.                                                       *)
LEMMA RemainsTransitive ==
    ASSUME NEW m, NEW n, NEW k, Remains(m, n), Remains(n, k)
    PROVE  Remains(m, k)
BY DEF Remains

(* Publishing typed entries leaves an index an index.                      *)
LEMMA PublishedTyped ==
    ASSUME NEW m \in Machine, NEW s \in Sessions,
           NEW L \in SUBSET Lease, NEW B \in SUBSET Binding
    PROVE  /\ Published(m, s, L, B) \in Machine
           /\ Published(m, s, L, B).leases \subseteq m.leases \cup L
           /\ Published(m, s, L, B).bindings \subseteq m.bindings \cup B
           /\ Published(m, s, L, B).next = m.next
           /\ \A t \in Sessions :
                 Published(m, s, L, B).generations[t] \in {0, m.generations[t]}
BY DEF Published, Pruned, Machine, Of

(* Publishing nothing for a session keeps the others.                      *)
LEMMA RemovedRemains ==
    ASSUME NEW m \in Machine, NEW s \in Sessions,
           NEW B \in SUBSET m.bindings
    PROVE  Published(m, s, {}, B) \in Machine /\ Remains(m, Published(m, s, {}, B))
BY DEF Published, Pruned, Machine, Of, Remains

(* A consistent index records the generation of every lease.               *)
LEMMA ConsistentRecorded ==
    ASSUME NEW m \in Machine, Consistent(m)
    PROVE  Recorded(m)
<1> SUFFICES ASSUME NEW l \in m.leases
             PROVE  l.generation = m.generations[Session(l)]
  BY DEF Recorded
<1> DEFINE s == Session(l)
           own == Of(s, Entries(m))
<1>1. l \in Lease /\ s \in Sessions /\ l \in own
  BY SessionTyped DEF Machine, Of, Entries
<1>2. PICK e \in own : e.generation = m.generations[s]
  BY <1>1 DEF Consistent, GenerationsConsistent
<1>3. l.generation <= m.generations[s]
  BY <1>1 DEF Consistent, GenerationsConsistent
<1>4. Session(e) = s /\ (e \in m.leases \/ e \in m.bindings)
  BY DEF Of, Entries
<1>5. e.generation <= l.generation
  <2>1. CASE e \in m.leases
    <3>1. e = l
      BY <1>4, <2>1 DEF Consistent, GenerationsConsistent
    <3> QED BY <3>1, <1>1 DEF Lease
  <2>2. CASE e \in m.bindings
    BY <1>4, <2>2 DEF Consistent, GenerationsConsistent
  <2> QED BY <1>4, <2>1, <2>2
<1> QED BY <1>1, <1>2, <1>3, <1>5 DEF Lease, Machine

(* What is left of an accounted index is accounted for.                    *)
LEMMA RemainsAccounted ==
    ASSUME NEW m \in Machine, NEW n \in Machine, Remains(m, n),
           NEW refs \in SUBSET LeaseRef, NEW bindings,
           Accounted(m, refs, bindings)
    PROVE  Accounted(n, refs, bindings)
<1>1. \A r \in refs : Session(r) \in Sessions /\ r.generation \in Nat
  BY SessionTyped DEF LeaseRef
<1> QED BY <1>1 DEF Accounted, Remains

-----------------------------------------------------------------------------
(* A step that saves what is left of the index, at once or after a route.  *)
LEMMA SavedRemains ==
    ASSUME IInv, NEW n \in Machine, Remains(machine, n), Consistent(n),
           UNCHANGED <<granted, bound>>,
           machine' = n, todo' \in Writes, todo'.kind # "index",
           route' \in [Checkouts -> Route \cup {NoRoute}]
    PROVE  IInv'
<1>1. Recorded(n) /\ Accounted(n, granted, bound)
  BY ConsistentRecorded, RemainsAccounted DEF IInv, Accurate, TypeOK
<1>2. Accurate(machine)'
  BY <1>1 DEF Accurate, Recorded, Accounted
<1>3. TypeOK' /\ UniqueGenerations'
  BY DEF IInv, TypeOK, UniqueGenerations
<1> QED BY <1>2, <1>3 DEF IInv

(* Save leaves the route and the pending write as they are.                *)
LEMMA SavePlain ==
    ASSUME IInv, NoOneHolds, NEW n, Save(n)
    PROVE  /\ machine' = n /\ Consistent(n)
           /\ todo' \in Writes /\ todo'.kind # "index"
           /\ route' \in [Checkouts -> Route \cup {NoRoute}]
BY DEF IInv, TypeOK, NoOneHolds, Save, NoWrite, Writes

(* SaveThenRoute has the write of a route to do.                           *)
LEMMA SaveRouted ==
    ASSUME IInv, NEW n, NEW at \in Checkouts, NEW r \in Route \cup {NoRoute},
           SaveThenRoute(n, at, r)
    PROVE  /\ machine' = n /\ Consistent(n)
           /\ todo' \in Writes /\ todo'.kind # "index"
           /\ route' \in [Checkouts -> Route \cup {NoRoute}]
BY DEF IInv, TypeOK, SaveThenRoute, RouteWrite, Writes

(* Initially nothing was given.                                            *)
LEMMA InitIInv == Init => IInv
BY SurfaceAssumption
DEF Init, IInv, TypeOK, Machine, Checkouts, Writes, NoWrite, NoRoute,
    Accurate, Recorded, Accounted, UniqueGenerations

-----------------------------------------------------------------------------
(* The handlers that only take entries out of the index                    *)

(* A reaped or unreaped index that was read for a project.                 *)
LEMMA ReadRemains ==
    ASSUME IInv, NEW p \in Projects
    PROVE  /\ Synced(machine, p) \in Machine /\ Remains(machine, Synced(machine, p))
           /\ Synced(Reaped(machine), p) \in Machine
           /\ Remains(machine, Synced(Reaped(machine), p))
           /\ SyncedForClaim(Reaped(machine), p) \in Machine
           /\ Remains(machine, SyncedForClaim(Reaped(machine), p))
<1>1. machine \in Machine
  BY DEF IInv, TypeOK
<1>2. Reaped(machine) \in Machine /\ Remains(machine, Reaped(machine))
  BY <1>1, ReapedRemains
<1>3. /\ Synced(Reaped(machine), p) \in Machine
      /\ Remains(Reaped(machine), Synced(Reaped(machine), p))
      /\ SyncedForClaim(Reaped(machine), p) \in Machine
      /\ Remains(Reaped(machine), SyncedForClaim(Reaped(machine), p))
  BY <1>2, SyncedRemains
<1> QED BY <1>1, <1>2, <1>3, SyncedRemains, RemainsTransitive

(* A claim that finds its page.                                            *)
LEMMA ClaimAgainStep ==
    ASSUME IInv, NEW q \in Request, ClaimAgain(q)
    PROVE  IInv'
<1> DEFINE n == SyncedForClaim(Reaped(machine), q.project)
<1>1. q.project \in Projects
  BY DEF Request
<1>2. n \in Machine /\ Remains(machine, n)
  BY <1>1, ReadRemains
<1>3. NoOneHolds /\ Save(n) /\ UNCHANGED <<granted, bound>>
  BY DEF ClaimAgain
<1> HIDE DEF n
<1> QED BY <1>2, <1>3, SavePlain, SavedRemains

(* What is done with a reference that a caller holds, except to commit it. *)
LEMMA RefStep ==
    ASSUME IInv, NEW r \in granted, TooLate(r) \/ Renew(r) \/ Release(r)
    PROVE  IInv'
<1>1. r \in LeaseRef /\ r.project \in Projects
  BY DEF IInv, TypeOK, LeaseRef
<1> DEFINE m == Synced(machine, r.project)
           n == Synced(Reaped(machine), r.project)
           k == Published(m, Session(r), {}, Of(Session(r), m.bindings))
<1>2. /\ m \in Machine /\ Remains(machine, m)
      /\ n \in Machine /\ Remains(machine, n)
  BY <1>1, ReadRemains
<1>3. Reaped(m) \in Machine /\ Remains(machine, Reaped(m))
  BY <1>2, ReapedRemains, RemainsTransitive
<1>4. k \in Machine /\ Remains(machine, k)
  <2>1. Session(r) \in Sessions /\ Of(Session(r), m.bindings) \in SUBSET m.bindings
    BY <1>1, SessionTyped DEF Of
  <2> HIDE DEF m
  <2>2. k \in Machine /\ Remains(m, k)
    BY <2>1, <1>2, RemovedRemains
  <2> QED BY <1>2, <2>2, RemainsTransitive
<1>5. /\ NoOneHolds /\ UNCHANGED <<granted, bound>>
      /\ Save(n) \/ Save(m) \/ Save(Reaped(m)) \/ Save(k)
  BY DEF TooLate, Renew, Release
<1> HIDE DEF m, n, k
<1> QED BY <1>2, <1>3, <1>4, <1>5, SavePlain, SavedRemains

(* Reading the index for a project, with or without reaping.               *)
LEMMA ReadStep ==
    ASSUME IInv, NEW p \in Projects, List(p) \/ Look(p)
    PROVE  IInv'
<1> DEFINE m == Synced(machine, p)
           n == Synced(Reaped(machine), p)
<1>1. /\ m \in Machine /\ Remains(machine, m)
      /\ n \in Machine /\ Remains(machine, n)
  BY ReadRemains
<1>2. NoOneHolds /\ UNCHANGED <<granted, bound>> /\ (Save(m) \/ Save(n))
  BY DEF List, Look
<1> HIDE DEF m, n
<1> QED BY <1>1, <1>2, SavePlain, SavedRemains

(* Unregistering a project.                                                *)
LEMMA UnregisterStep ==
    ASSUME IInv, NEW p \in Projects, Unregister(p)
    PROVE  IInv'
<1> DEFINE m == [machine EXCEPT
                   !.leases = {l \in machine.leases : l.project # p},
                   !.bindings = {b \in machine.bindings : b.project # p},
                   !.urls = [machine.urls EXCEPT ![p] = NoUrl],
                   !.initialized = machine.initialized \ {p},
                   !.absent = machine.absent \cup {p}]
<1>1. machine \in Machine
  BY DEF IInv, TypeOK
<1>2. m \in Machine /\ Remains(machine, m)
  BY <1>1 DEF Machine, Remains
<1>3. Pruned(m) \in Machine /\ Remains(machine, Pruned(m))
  BY <1>2, PrunedRemains, RemainsTransitive
<1>4. NoOneHolds /\ UNCHANGED <<granted, bound>> /\ Save(Pruned(m))
  BY DEF Unregister
<1> HIDE DEF m
<1> QED BY <1>3, <1>4, SavePlain, SavedRemains

(* Retiring a session.                                                     *)
LEMMA RetireStep ==
    ASSUME IInv, NEW w \in Workspaces, NEW local \in Locals, Retire(w, local)
    PROVE  IInv'
<1> DEFINE p == ProjectOf[w]
           m == Synced(machine, p)
           n == Published(m, <<p, local>>, {}, {})
<1>1. p \in Projects /\ <<p, local>> \in Sessions /\ <<w, local>> \in Checkouts
  BY SurfaceAssumption DEF Sessions, Checkouts
<1>2. m \in Machine /\ Remains(machine, m)
  BY <1>1, ReadRemains
<1>3. SaveThenRoute(n, <<w, local>>, NoRoute) /\ UNCHANGED <<granted, bound>>
  BY DEF Retire
<1> HIDE DEF m, p
<1>4. n \in Machine /\ Remains(machine, n)
  BY <1>1, <1>2, RemovedRemains, RemainsTransitive
<1> HIDE DEF n
<1> QED BY <1>1, <1>3, <1>4, SaveRouted, SavedRemains

(* Reconciling a route: the index is left for the second write.            *)
LEMMA ReconcileStep ==
    ASSUME IInv, NEW w \in Workspaces, NEW local \in Locals, Reconcile(w, local)
    PROVE  IInv'
<1> DEFINE p == ProjectOf[w]
           n == Synced(Reaped(machine), p)
<1>1. p \in Projects /\ <<w, local>> \in Checkouts
  BY SurfaceAssumption DEF Checkouts
<1>2. n \in Machine /\ Remains(machine, n)
  BY <1>1, ReadRemains
<1>3. /\ Consistent(n) /\ todo' = IndexWrite(n)
      /\ UNCHANGED <<machine, granted, bound>>
      /\ \/ route' = [route EXCEPT ![<<w, local>>] = NoRoute]
         \/ \E b \in n.bindings :
               route' = [route EXCEPT ![<<w, local>>] = RouteOf(b)]
  BY DEF Reconcile, Of
<1> HIDE DEF n
<1>4. Accurate(n)
  BY <1>2, <1>3, ConsistentRecorded, RemainsAccounted DEF IInv, Accurate, TypeOK
<1>5. \A b \in n.bindings : RouteOf(b) \in Route
  BY <1>2 DEF Machine, Binding, RouteOf, Route
<1>6. route' \in [Checkouts -> Route \cup {NoRoute}]
  BY <1>1, <1>3, <1>5 DEF IInv, TypeOK
<1>7. todo' \in Writes /\ todo'.value = n
  BY <1>2, <1>3 DEF IndexWrite, Writes
<1>8. Accurate(machine)' /\ Accurate(todo.value)'
  BY <1>3, <1>4, <1>7 DEF IInv, Accurate, Recorded, Accounted
<1> QED BY <1>3, <1>6, <1>7, <1>8 DEF IInv, TypeOK, UniqueGenerations

-----------------------------------------------------------------------------
(* The handlers that give a session a lease or a binding                   *)

(* A claim that is granted: its generation is above all that were given.   *)
LEMMA ClaimNewStep ==
    ASSUME IInv, NEW q \in Request, NEW replaces, ClaimNew(q, replaces)
    PROVE  IInv'
<1> DEFINE m == SyncedForClaim(Reaped(machine), q.project)
           s == Session(q)
           g == NewGeneration(m, s)
           l == NewLease(q, g)
           k == [m EXCEPT !.next = m.next + 1,
                          !.generations = [m.generations EXCEPT ![s] = g]]
           n == Published(k, s, {l}, Of(s, m.bindings))
<1>1. s \in Sessions /\ q.project \in Projects
  BY SessionTyped DEF Request
<1>2. m \in Machine /\ Remains(machine, m)
  BY <1>1, ReadRemains
<1>3. Accounted(m, granted, bound)
  BY <1>2, RemainsAccounted DEF IInv, Accurate, TypeOK
<1>4. /\ NoOneHolds /\ Save(n)
      /\ granted' = granted \cup {Ref(l)} /\ bound' = bound
  BY DEF ClaimNew
<1> HIDE DEF m
<1>5. g \in Nat \ {0} /\ g = m.next
  BY <1>2 DEF Machine, NewGeneration
<1>6. /\ l \in Lease /\ Ref(l) \in LeaseRef
      /\ Session(Ref(l)) = s /\ Ref(l).generation = g
  BY <1>5 DEF Request, NewLease, Lease, Ref, LeaseRef, Session
<1>7. /\ k \in Machine /\ k.next = g + 1 /\ k.leases = m.leases
      /\ k.bindings = m.bindings /\ k.generations[s] = g
      /\ \A t \in Sessions \ {s} : k.generations[t] = m.generations[t]
  <2> HIDE DEF s, g
  <2>1. m.next + 1 \in Nat \ {0} /\ g \in Nat /\ m.next + 1 = g + 1
    BY <1>5
  <2>2. [m.generations EXCEPT ![s] = g] \in [Sessions -> Nat]
    BY <1>1, <1>2, <2>1 DEF Machine
  <2> QED BY <1>1, <1>2, <2>1, <2>2 DEF Machine
<1>8. Of(s, m.bindings) \in SUBSET Binding /\ Of(s, m.bindings) \subseteq m.bindings
  BY <1>2 DEF Machine, Of
<1> HIDE DEF g, l, k, s
<1>9. /\ n \in Machine /\ n.leases \subseteq m.leases \cup {l}
      /\ n.bindings \subseteq m.bindings /\ n.next = g + 1
      /\ \A t \in Sessions : n.generations[t] \in {0, k.generations[t]}
  <2> DEFINE B == Of(s, m.bindings)
             L == {l}
  <2>1. n = Published(k, s, L, B)
    OBVIOUS
  <2>2. B \in SUBSET Binding /\ B \subseteq m.bindings /\ L \in SUBSET Lease
    BY <1>6, <1>8
  <2> HIDE DEF n, B, L
  <2>3. /\ n \in Machine /\ n.leases \subseteq k.leases \cup L
        /\ n.bindings \subseteq k.bindings \cup B /\ n.next = k.next
        /\ \A t \in Sessions : n.generations[t] \in {0, k.generations[t]}
    BY <1>1, <1>7, <2>1, <2>2, PublishedTyped
  <2> QED BY <1>7, <2>2, <2>3 DEF L
<1> HIDE DEF n
<1>10. /\ machine' = n /\ Consistent(n) /\ todo' \in Writes /\ todo'.kind # "index"
       /\ route' \in [Checkouts -> Route \cup {NoRoute}]
  BY <1>4, SavePlain
<1>11. \A r \in granted : /\ Session(r) \in Sessions /\ r.generation \in Nat
                           /\ r.generation < g
  BY <1>3, <1>5, SessionTyped DEF IInv, TypeOK, LeaseRef, Accounted
<1>12. Accounted(n, granted', bound')
  <2>1. /\ \A k1 \in n.leases : Ref(k1) \in granted'
        /\ n.bindings \subseteq bound'
        /\ \A b \in bound' : \E r \in granted' : BindingMatchesRef(b, r)
    BY <1>3, <1>4, <1>9 DEF Accounted
  <2>2. ASSUME NEW r \in granted'
        PROVE  /\ r.generation < n.next
               /\ n.generations[Session(r)] # 0 =>
                     r.generation <= n.generations[Session(r)]
    <3>1. CASE r = Ref(l)
      BY <3>1, <1>1, <1>5, <1>6, <1>7, <1>9
    <3>2. CASE r \in granted /\ Session(r) = s
      BY <3>2, <1>1, <1>5, <1>7, <1>9, <1>11
    <3>3. CASE r \in granted /\ Session(r) # s
      BY <3>3, <1>3, <1>5, <1>7, <1>9, <1>11 DEF Accounted
    <3> QED BY <3>1, <3>2, <3>3, <1>4
  <2> QED BY <2>1, <2>2 DEF Accounted
<1>13. Accurate(machine)'
  BY <1>9, <1>10, <1>12, ConsistentRecorded DEF Accurate, Recorded, Accounted
<1>14. UniqueGenerations'
  BY <1>4, <1>5, <1>6, <1>11 DEF IInv, UniqueGenerations
<1>15. TypeOK'
  BY <1>4, <1>6, <1>9, <1>10 DEF IInv, TypeOK
<1> QED BY <1>10, <1>13, <1>14, <1>15 DEF IInv

(* A commit binds the page of a lease that the index has.                  *)
LEMMA CommitStep ==
    ASSUME IInv, NEW r \in granted, NEW w \in Workspaces,
           NEW c \in Chats \cup {NoChat}, Commit(r, w, c)
    PROVE  IInv'
<1> DEFINE p == r.project
           s == Session(r)
           m == Synced(Reaped(machine), p)
<1>1. /\ r \in LeaseRef /\ s \in Sessions /\ p \in Projects
      /\ <<w, r.local>> \in Checkouts
  BY SessionTyped DEF IInv, TypeOK, LeaseRef, Checkouts
<1>2. m \in Machine /\ Remains(machine, m)
  BY <1>1, ReadRemains
<1>3. Accounted(m, granted, bound)
  BY <1>2, RemainsAccounted DEF IInv, Accurate, TypeOK
<1> DEFINE chatOf(l) == IF c # NoChat THEN c ELSE l.chat
           k(l) == [m EXCEPT !.urls = [m.urls EXCEPT ![p] = l.url]]
           n(l) == Published(k(l), s, {[l EXCEPT !.chat = chatOf(l)]},
                             {Bind(l, chatOf(l))})
<1>4. PICK l \in m.leases :
         /\ Ref(l) = r /\ Verified(l, chatOf(l))
         /\ SaveThenRoute(n(l), <<w, r.local>>, RouteOf(Bind(l, chatOf(l))))
         /\ bound' = bound \cup {Bind(l, chatOf(l))}
  BY DEF Commit
<1>5. granted' = granted
  BY DEF Commit
<1> HIDE DEF m
<1> DEFINE chat == chatOf(l)
           b == Bind(l, chat)
           j == [l EXCEPT !.chat = chat]
           i == k(l)
<1>6. l \in Lease
  BY <1>2, <1>4 DEF Machine
<1>7. chat \in Chats
  BY <1>4, <1>6 DEF Verified, Lease
<1>8. /\ j \in Lease /\ Ref(j) = Ref(l)
      /\ b \in Binding /\ RouteOf(b) \in Route /\ BindingMatchesRef(b, r)
  <2> HIDE DEF chat
  <2>1. b \in Binding /\ RouteOf(b) \in Route
    BY <1>6, <1>7 DEF Lease, Binding, Bind, RouteOf, Route
  <2>2. j \in Lease /\ Ref(j) = Ref(l)
    BY <1>6, <1>7 DEF Lease, Ref
  <2>3. BindingMatchesRef(b, r)
    BY <1>4, <1>6 DEF Bind, BindingMatchesRef, Ref, Session
  <2> QED BY <2>1, <2>2, <2>3
<1>9. /\ i \in Machine /\ i.leases = m.leases /\ i.bindings = m.bindings
      /\ i.next = m.next /\ i.generations = m.generations
  BY <1>1, <1>2, <1>6 DEF Machine, Lease
<1>10. n(l) = Published(i, s, {j}, {b})
  OBVIOUS
<1> DEFINE o == n(l)
<1> HIDE DEF i, j, b, chat
<1>11. {b} \in SUBSET Binding
  BY <1>8
<1>12. /\ o \in Machine /\ o.leases \subseteq m.leases \cup {j}
       /\ o.bindings \subseteq m.bindings \cup {b} /\ o.next = m.next
       /\ \A t \in Sessions : o.generations[t] \in {0, m.generations[t]}
  <2> DEFINE L == {j}
             B == {b}
  <2>1. o = Published(i, s, L, B)
    BY <1>10
  <2>2. L \in SUBSET Lease /\ B \in SUBSET Binding
    BY <1>8, <1>11
  <2> HIDE DEF o, L, B
  <2>3. /\ o \in Machine /\ o.leases \subseteq i.leases \cup L
        /\ o.bindings \subseteq i.bindings \cup B /\ o.next = i.next
        /\ \A t \in Sessions : o.generations[t] \in {0, i.generations[t]}
    BY <1>1, <1>9, <2>1, <2>2, PublishedTyped
  <2> QED BY <1>9, <2>3 DEF L, B
<1>13. SaveThenRoute(o, <<w, r.local>>, RouteOf(b)) /\ bound' = bound \cup {b}
  BY <1>4 DEF b, chat
<1> HIDE DEF o
<1>14. /\ machine' = o /\ Consistent(o) /\ todo' \in Writes /\ todo'.kind # "index"
       /\ route' \in [Checkouts -> Route \cup {NoRoute}]
  BY <1>1, <1>8, <1>13, SaveRouted
<1>15. \A q \in granted : Session(q) \in Sessions /\ q.generation \in Nat
  BY SessionTyped DEF IInv, TypeOK, LeaseRef
<1>16. Accounted(o, granted', bound')
  BY <1>3, <1>4, <1>5, <1>8, <1>12, <1>13, <1>15 DEF Accounted
<1>17. Accurate(machine)'
  BY <1>12, <1>14, <1>16, ConsistentRecorded DEF Accurate, Recorded, Accounted
<1>18. TypeOK' /\ UniqueGenerations'
  BY <1>5, <1>8, <1>12, <1>13, <1>14 DEF IInv, TypeOK, UniqueGenerations
<1> QED BY <1>14, <1>17, <1>18 DEF IInv

(* A recovery gives out a generation that the session has been given.      *)
LEMMA RecoverStep ==
    ASSUME IInv, NEW b \in bound, NEW e \in Epochs, Recover(b, e)
    PROVE  IInv'
<1> DEFINE s == Session(b)
           i == Reaped(Synced(machine, b.project))
           l == [project |-> b.project, local |-> b.local, tab |-> b.tab,
                 url |-> b.url, chat |-> b.chat, generation |-> b.generation,
                 epoch |-> e, expired |-> FALSE]
           n == Published(i, s, {l}, Of(s, i.bindings))
<1>1. b \in Binding /\ s \in Sessions /\ b.project \in Projects
  BY SessionTyped DEF IInv, TypeOK, Binding
<1>2. i \in Machine /\ Remains(machine, i)
  BY <1>1, ReadRemains, ReapedRemains, RemainsTransitive
<1>3. Accounted(i, granted, bound)
  BY <1>2, RemainsAccounted DEF IInv, Accurate, TypeOK
<1>4. /\ NoOneHolds /\ bound' = bound /\ granted' = granted \cup {Ref(l)}
      /\ Synced(machine, b.project).generations[s] = b.generation
      /\ Save(n) \/ RecoverOwned(b, i, l)
  BY DEF Recover, RecoverFresh, RecoverOwned
<1>5. /\ l \in Lease /\ Ref(l) \in LeaseRef /\ Session(Ref(l)) = s
      /\ Ref(l).generation = b.generation /\ Ref(l).tab = b.tab
  BY <1>1 DEF Binding, Lease, LeaseRef, Ref, Session
<1>6. i.generations[s] \in {0, b.generation}
  <2>1. Synced(machine, b.project) \in Machine
    BY <1>1, ReadRemains
  <2>2. Remains(Synced(machine, b.project), i)
    BY <2>1, ReapedRemains
  <2> QED BY <1>1, <1>4, <2>2 DEF Remains
<1>7. PICK r \in granted : BindingMatchesRef(b, r)
  BY <1>3 DEF Accounted
<1>8. /\ r \in LeaseRef /\ Session(r) = s /\ r.tab = b.tab
      /\ r.generation = b.generation /\ b.generation \in Nat
  BY <1>7, <1>1 DEF BindingMatchesRef, IInv, TypeOK, Binding
<1>9. CASE Save(n)
  <2> DEFINE L == {l}
             B == Of(s, i.bindings)
  <2>1. n = Published(i, s, L, B)
    OBVIOUS
  <2>2. L \in SUBSET Lease /\ B \in SUBSET Binding /\ B \subseteq i.bindings
    BY <1>2, <1>5 DEF Machine, Of
  <2> HIDE DEF i, n, l, s, L, B
  <2>3. /\ n \in Machine /\ n.leases \subseteq i.leases \cup L
        /\ n.bindings \subseteq i.bindings \cup B /\ n.next = i.next
        /\ \A t \in Sessions : n.generations[t] \in {0, i.generations[t]}
    <3>1. n.next = i.next
      BY <1>2, <2>1 DEF Published, Pruned, Machine
    <3>2. i \in Machine /\ s \in Sessions
      BY <1>1, <1>2
    <3> QED BY <2>1, <2>2, <3>1, <3>2, PublishedTyped
  <2>4. /\ machine' = n /\ Consistent(n)
        /\ todo' \in Writes /\ todo'.kind # "index"
        /\ route' \in [Checkouts -> Route \cup {NoRoute}]
    BY <1>4, <1>9, SavePlain
  <2>5. \A o \in granted : Session(o) \in Sessions /\ o.generation \in Nat
    BY SessionTyped DEF IInv, TypeOK, LeaseRef
  <2>6. Accounted(n, granted', bound')
    <3>1. /\ \A k \in n.leases : Ref(k) \in granted'
          /\ n.bindings \subseteq bound'
          /\ \A c \in bound' : \E o \in granted' : BindingMatchesRef(c, o)
      BY <1>3, <1>4, <2>2, <2>3 DEF Accounted, L
    <3>2. ASSUME NEW o \in granted'
          PROVE  /\ o.generation < n.next
                 /\ n.generations[Session(o)] # 0 =>
                       o.generation <= n.generations[Session(o)]
      <4>1. CASE o = Ref(l)
        BY <4>1, <1>1, <1>3, <1>5, <1>6, <1>7, <1>8, <2>3 DEF Accounted
      <4>2. CASE o \in granted
        BY <4>2, <1>3, <2>3, <2>5 DEF Accounted
      <4> QED BY <4>1, <4>2, <1>4
    <3> QED BY <3>1, <3>2 DEF Accounted
  <2>7. Accurate(machine)'
    BY <2>3, <2>4, <2>6, ConsistentRecorded DEF Accurate, Recorded, Accounted
  <2>8. UniqueGenerations'
    BY <1>4, <1>5, <1>7, <1>8 DEF IInv, UniqueGenerations
  <2>9. TypeOK'
    BY <1>4, <1>5, <2>3, <2>4 DEF IInv, TypeOK
  <2> QED BY <2>4, <2>7, <2>8, <2>9 DEF IInv
<1>10. CASE RecoverOwned(b, i, l)
  <2>1. PICK k \in i.leases : Ref(k) = Ref(l)
    BY <1>10 DEF RecoverOwned
  <2>2. Ref(l) \in granted
    BY <2>1, <1>3 DEF Accounted
  <2>3. UNCHANGED vars
    BY <1>4, <1>10, <2>2 DEF RecoverOwned, vars
  <2> QED BY <2>3 DEF vars, IInv, TypeOK, Accurate, Recorded, Accounted, UniqueGenerations
<1> QED BY <1>4, <1>9, <1>10

-----------------------------------------------------------------------------
(* The second write, its failure, and the passing of time                  *)

(* A pending index was accurate and is still when it is written.           *)
LEMMA WriteStep ==
    ASSUME IInv, FinishIndex \/ FinishRoute \/ Interrupted
    PROVE  IInv'
<1>1. NoWrite \in Writes /\ NoWrite.kind # "index"
  BY DEF Writes, NoWrite
<1>2. CASE FinishIndex
  <2>1. todo.value \in Machine
    BY <1>2 DEF FinishIndex, IInv, TypeOK, Writes, NoWrite
  <2> QED BY <1>1, <1>2, <2>1
          DEF FinishIndex, IInv, TypeOK, Accurate, Recorded, Accounted, UniqueGenerations
<1>3. CASE FinishRoute
  <2>1. todo.at \in Checkouts /\ todo.value \in Route \cup {NoRoute}
    BY <1>3 DEF FinishRoute, IInv, TypeOK, Writes, NoWrite
  <2> QED BY <1>1, <1>3, <2>1
          DEF FinishRoute, IInv, TypeOK, Accurate, Recorded, Accounted, UniqueGenerations
<1>4. CASE Interrupted
  BY <1>1, <1>4
  DEF Interrupted, IInv, TypeOK, Accurate, Recorded, Accounted, UniqueGenerations
<1> QED BY <1>2, <1>3, <1>4

(* An expired lease is the same lease.                                     *)
LEMMA ExpireStep ==
    ASSUME IInv, NEW l \in machine.leases, Expire(l)
    PROVE  IInv'
<1> DEFINE k == [l EXCEPT !.expired = TRUE]
<1>1. l \in Lease /\ machine \in Machine
  BY DEF IInv, TypeOK, Machine
<1>2. /\ k \in Lease /\ Ref(k) = Ref(l)
      /\ Session(k) = Session(l) /\ k.generation = l.generation
  BY <1>1 DEF Lease, Ref, Session
<1>3. /\ machine' = [machine EXCEPT !.leases = (machine.leases \ {l}) \cup {k}]
      /\ UNCHANGED <<route, todo, granted, bound>> /\ NoOneHolds
  BY DEF Expire
<1> HIDE DEF k
<1>4. /\ machine' \in Machine /\ machine'.leases \subseteq machine.leases \cup {k}
      /\ machine'.bindings = machine.bindings /\ machine'.next = machine.next
      /\ machine'.generations = machine.generations
  BY <1>1, <1>2, <1>3 DEF Machine
<1>5. Recorded(machine)'
  BY <1>2, <1>4 DEF IInv, Accurate, Recorded
<1>6. Accounted(machine, granted, bound)'
  BY <1>2, <1>3, <1>4 DEF IInv, Accurate, Accounted
<1>7. TypeOK' /\ UniqueGenerations' /\ todo'.kind # "index"
  BY <1>3, <1>4 DEF IInv, TypeOK, UniqueGenerations, NoOneHolds, NoWrite
<1> QED BY <1>5, <1>6, <1>7 DEF IInv, Accurate

(* Every step keeps the invariant.                                         *)
LEMMA NextIInv == IInv /\ [Next]_vars => IInv'
<1> SUFFICES ASSUME IInv, [Next]_vars PROVE IInv'
  OBVIOUS
<1>1. CASE UNCHANGED vars
  BY <1>1 DEF vars, IInv, TypeOK, Accurate, Recorded, Accounted, UniqueGenerations
<1>2. CASE \E q \in Request :
              ClaimAgain(q) \/ ClaimNew(q, {}) \/ \E r \in granted : ClaimNew(q, {r})
  BY <1>2, ClaimAgainStep, ClaimNewStep
<1>3. CASE \E r \in granted :
              \/ TooLate(r) \/ Renew(r) \/ Release(r)
              \/ \E w \in Workspaces, c \in Chats \cup {NoChat} : Commit(r, w, c)
  BY <1>3, RefStep, CommitStep
<1>4. CASE \E b \in bound, e \in Epochs : Recover(b, e)
  BY <1>4, RecoverStep
<1>5. CASE \E p \in Projects : List(p) \/ Look(p) \/ Unregister(p)
  BY <1>5, ReadStep, UnregisterStep
<1>6. CASE \E w \in Workspaces, l \in Locals : Reconcile(w, l) \/ Retire(w, l)
  BY <1>6, ReconcileStep, RetireStep
<1>7. CASE FinishIndex \/ FinishRoute \/ Interrupted
  BY <1>7, WriteStep
<1>8. CASE \E l \in machine.leases : Expire(l)
  BY <1>8, ExpireStep
<1> QED BY <1>1, <1>2, <1>3, <1>4, <1>5, <1>6, <1>7, <1>8 DEF Next

(* The invariant always holds.                                             *)
LEMMA Invariance == Spec => []IInv
BY InitIInv, NextIInv, PTL DEF Spec

-----------------------------------------------------------------------------
(* What the index, the routes and the callers hold always has its type: in *)
(* particular no page is ever bound without a chat (TypeOK).               *)
THEOREM Typed == Spec => []TypeOK
<1>1. IInv => TypeOK
  BY DEF IInv
<1> QED BY Invariance, <1>1, PTL

(* A generation is given to one session and one page only, through         *)
(* retirement, unregistration and recovery (UniqueGenerations).            *)
THEOREM GenerationsAreUnique == Spec => []UniqueGenerations
<1>1. IInv => UniqueGenerations
  BY DEF IInv
<1> QED BY Invariance, <1>1, PTL

(* The lease that a session has is the newest it was ever given            *)
(* (NewestGeneration).                                                     *)
THEOREM GenerationsAreNewest == Spec => []NewestGeneration
<1>1. IInv => NewestGeneration
  <2> SUFFICES ASSUME IInv, NEW l \in machine.leases, NEW r \in granted,
                      Session(r) = Session(l)
               PROVE  r.generation <= l.generation
    BY DEF NewestGeneration
  <2>1. l.generation = machine.generations[Session(l)]
    BY DEF IInv, Accurate, Recorded
  <2>2. l.generation # 0
    BY DEF IInv, TypeOK, Machine, Lease
  <2> QED BY <2>1, <2>2 DEF IInv, Accurate, Accounted
<1> QED BY Invariance, <1>1, PTL

-----------------------------------------------------------------------------
(* An index that is in the file, or is about to be, has passed the check   *)
(* for owners.                                                             *)
Owned ==
    /\ OneOwnerOf(machine)
    /\ todo.kind = "index" => OneOwnerOf(todo.value)

(* Time passes without changing an owner.                                  *)
LEMMA ExpireOwned ==
    ASSUME TypeOK, Owned, NEW l \in machine.leases, Expire(l)
    PROVE  Owned'
<1> DEFINE k == [l EXCEPT !.expired = TRUE]
<1>1. l \in Lease /\ machine \in Machine
  BY DEF TypeOK, Machine
<1>2. k.tab = l.tab /\ k.chat = l.chat /\ Session(k) = Session(l)
  BY <1>1 DEF Lease, Session
<1>3. /\ machine' = [machine EXCEPT !.leases = (machine.leases \ {l}) \cup {k}]
      /\ UNCHANGED todo
  BY DEF Expire
<1> HIDE DEF k
<1>4. Entries(machine)' \subseteq Entries(machine) \cup {k}
  BY <1>1, <1>3 DEF Machine, Entries
<1>5. l \in Entries(machine)
  BY DEF Entries
<1>6. OneOwnerOf(machine)'
  BY <1>2, <1>4, <1>5 DEF Owned, OneOwnerOf
<1> QED BY <1>3, <1>6 DEF Owned

(* Every handler checks what it writes, at once or later.                  *)
LEMMA NextOwned == TypeOK /\ Owned /\ [Next]_vars => Owned'
<1> SUFFICES ASSUME TypeOK, Owned, [Next]_vars PROVE Owned'
  OBVIOUS
<1>1. ASSUME NEW n, Save(n), NoOneHolds
      PROVE  Owned'
  BY <1>1 DEF Save, Consistent, NoOneHolds, NoWrite, Owned
<1>2. ASSUME NEW n, NEW at, NEW r, SaveThenRoute(n, at, r)
      PROVE  Owned'
  BY <1>2 DEF SaveThenRoute, Consistent, RouteWrite, Owned
<1>3. CASE UNCHANGED vars
  BY <1>3 DEF vars, Owned, OneOwnerOf, Entries
<1>4. CASE \E q \in Request :
              ClaimAgain(q) \/ ClaimNew(q, {}) \/ \E r \in granted : ClaimNew(q, {r})
  BY <1>1, <1>4 DEF ClaimAgain, ClaimNew
<1>5. ASSUME NEW r \in granted, NEW w \in Workspaces,
             NEW c \in Chats \cup {NoChat}, Commit(r, w, c)
      PROVE  Owned'
  BY <1>2, <1>5 DEF Commit
<1>6. ASSUME NEW r \in granted, TooLate(r) \/ Renew(r) \/ Release(r)
      PROVE  Owned'
  BY <1>1, <1>6 DEF TooLate, Renew, Release
<1>7. CASE \E b \in bound, e \in Epochs : Recover(b, e)
  <2>1. ASSUME NEW b, NEW i, NEW l, NoOneHolds, RecoverFresh(b, i, l)
        PROVE  Owned'
    BY <1>1, <2>1 DEF RecoverFresh
  <2>2. ASSUME NEW b, NEW i, NEW l, RecoverOwned(b, i, l)
        PROVE  Owned'
    BY <2>2 DEF RecoverOwned, Owned, OneOwnerOf, Entries
  <2> QED BY <1>7, <2>1, <2>2 DEF Recover
<1>8. CASE \E p \in Projects : List(p) \/ Look(p) \/ Unregister(p)
  BY <1>1, <1>8 DEF List, Look, Unregister
<1>9. ASSUME NEW w \in Workspaces, NEW l \in Locals, Reconcile(w, l)
      PROVE  Owned'
  <2>1. PICK n : Consistent(n) /\ todo' = IndexWrite(n) /\ UNCHANGED machine
    BY <1>9 DEF Reconcile
  <2> QED BY <2>1 DEF IndexWrite, Consistent, Owned
<1>10. ASSUME NEW w \in Workspaces, NEW l \in Locals, Retire(w, l)
       PROVE  Owned'
  BY <1>2, <1>10 DEF Retire
<1>11. CASE FinishIndex \/ FinishRoute \/ Interrupted
  BY <1>11 DEF FinishIndex, FinishRoute, Interrupted, NoWrite, Owned, OneOwnerOf, Entries
<1>12. CASE \E l \in machine.leases : Expire(l)
  BY <1>12, ExpireOwned
<1> QED BY <1>3, <1>4, <1>5, <1>6, <1>7, <1>8, <1>9, <1>10, <1>11, <1>12 DEF Next

(* A page and a chat belong to one session of the whole machine, whatever  *)
(* is interrupted and in whatever order the files are written (OneOwner).  *)
THEOREM OwnersAreUnique == Spec => []OneOwner
<1>1. Init => Owned
  BY DEF Init, Owned, OneOwnerOf, Entries, NoWrite
<1>2. Owned => OneOwner
  BY DEF Owned, OneOwnerOf, OneOwner, Entries
<1> QED BY <1>1, <1>2, NextOwned, Typed, PTL DEF Spec

-----------------------------------------------------------------------------
(* Capacity: every index has as many leases as the machine allows.         *)
Fits(m) == IsFiniteSet(m.leases) /\ Cardinality(m.leases) <= Limit

Capacity ==
    /\ Fits(machine)
    /\ todo.kind = "index" => Fits(todo.value)

(* Fewer leases fit, ...                                                   *)
LEMMA FewerFit ==
    ASSUME NEW m, NEW n, Fits(m), n.leases \subseteq m.leases
    PROVE  Fits(n)
<1>1. /\ IsFiniteSet(n.leases) /\ Cardinality(n.leases) <= Cardinality(m.leases)
      /\ Cardinality(n.leases) \in Nat /\ Cardinality(m.leases) \in Nat
  BY FS_Subset, FS_CardinalityType DEF Fits
<1> QED BY <1>1, SurfaceAssumption DEF Fits

(* ... one more fits where there is a slot, ...                            *)
LEMMA OneMoreFits ==
    ASSUME NEW S, NEW T, NEW x, IsFiniteSet(S), Cardinality(S) < Limit,
           T \subseteq S \cup {x}
    PROVE  IsFiniteSet(T) /\ Cardinality(T) <= Limit
<1>1. /\ IsFiniteSet(S \cup {x}) /\ Cardinality(S \cup {x}) <= Cardinality(S) + 1
      /\ Cardinality(S) \in Nat /\ Cardinality(S \cup {x}) \in Nat
  BY FS_AddElement, FS_CardinalityType
<1>2. IsFiniteSet(T) /\ Cardinality(T) <= Cardinality(S \cup {x}) /\ Cardinality(T) \in Nat
  BY <1>1, FS_Subset, FS_CardinalityType
<1> QED BY <1>1, <1>2, SurfaceAssumption

(* ... and one in the place of another fits where that one did.            *)
LEMMA AnotherFits ==
    ASSUME NEW S, NEW T, NEW x, NEW y, IsFiniteSet(S), Cardinality(S) <= Limit,
           y \in S, T \subseteq (S \ {y}) \cup {x}
    PROVE  IsFiniteSet(T) /\ Cardinality(T) <= Limit
<1>1. IsFiniteSet(S \ {y}) /\ Cardinality(S \ {y}) = Cardinality(S) - 1
  BY FS_RemoveElement
<1>2. Cardinality(S) \in Nat
  BY FS_CardinalityType
<1>3. Cardinality(S \ {y}) < Limit
  BY <1>1, <1>2, SurfaceAssumption
<1> QED BY <1>1, <1>3, OneMoreFits

(* What is published has the leases of the others and the new ones.        *)
LEMMA PublishedLeases ==
    ASSUME NEW m \in Machine, NEW s, NEW L, NEW B
    PROVE  /\ Published(m, s, L, B).leases = (m.leases \ Of(s, m.leases)) \cup L
           /\ Published(m, s, L, B).bindings = (m.bindings \ Of(s, m.bindings)) \cup B
BY DEF Published, Pruned, Machine

(* Reading does not add a lease, ...                                       *)
LEMMA ReadFits ==
    ASSUME IInv, Capacity, NEW p \in Projects
    PROVE  /\ Fits(Synced(machine, p)) /\ Fits(Synced(Reaped(machine), p))
           /\ Fits(SyncedForClaim(Reaped(machine), p))
BY ReadRemains, FewerFit DEF Remains, Capacity

(* ... a claim adds one in a slot or in the place of what it replaces, ... *)
LEMMA ClaimFits ==
    ASSUME IInv, Capacity, NEW q \in Request, NEW replaces, ClaimNew(q, replaces)
    PROVE  Capacity'
<1> DEFINE m == SyncedForClaim(Reaped(machine), q.project)
           s == Session(q)
           g == NewGeneration(m, s)
           l == NewLease(q, g)
           k == [m EXCEPT !.next = m.next + 1,
                          !.generations = [m.generations EXCEPT ![s] = g]]
           n == Published(k, s, {l}, Of(s, m.bindings))
<1>1. q.project \in Projects /\ s \in Sessions
  BY SessionTyped DEF Request
<1>2. m \in Machine /\ Fits(m)
  BY <1>1, ReadRemains, ReadFits
<1>3. /\ NoOneHolds /\ Save(n)
      /\ Of(s, m.leases) = {} => HasSlot(m)
  BY DEF ClaimNew
<1> HIDE DEF m, l, s
<1>4. k \in Machine /\ k.leases = m.leases
  <2>1. g \in Nat \ {0} /\ g = m.next
    BY <1>2 DEF Machine, NewGeneration
  <2> HIDE DEF g
  <2>2. m.next + 1 \in Nat \ {0} /\ g \in Nat
    BY <2>1
  <2>3. [m.generations EXCEPT ![s] = g] \in [Sessions -> Nat]
    BY <1>1, <1>2, <2>2 DEF Machine
  <2> QED BY <1>2, <2>2, <2>3 DEF Machine
<1> HIDE DEF k
<1>5. n.leases = (m.leases \ Of(s, m.leases)) \cup {l}
  BY <1>4, PublishedLeases
<1> HIDE DEF n
<1>6. Fits(n)
  <2>1. CASE Of(s, m.leases) = {}
    BY <1>2, <1>3, <1>5, <2>1, OneMoreFits DEF HasSlot, Fits
  <2>2. CASE Of(s, m.leases) # {}
    <3>1. PICK y \in Of(s, m.leases) : TRUE
      BY <2>2
    <3>2. y \in m.leases /\ n.leases \subseteq (m.leases \ {y}) \cup {l}
      BY <1>5 DEF Of
    <3> QED BY <1>2, <3>2, AnotherFits DEF Fits
  <2> QED BY <2>1, <2>2
<1> QED BY <1>3, <1>6 DEF Capacity, Save, NoOneHolds, NoWrite

(* ... a commit puts the chat in the lease that it finds, ...              *)
LEMMA CommitFits ==
    ASSUME IInv, Capacity, NEW r \in granted, NEW w \in Workspaces,
           NEW c \in Chats \cup {NoChat}, Commit(r, w, c)
    PROVE  Capacity'
<1> DEFINE p == r.project
           s == Session(r)
           m == Synced(Reaped(machine), p)
           chatOf(l) == IF c # NoChat THEN c ELSE l.chat
           k(l) == [m EXCEPT !.urls = [m.urls EXCEPT ![p] = l.url]]
           n(l) == Published(k(l), s, {[l EXCEPT !.chat = chatOf(l)]},
                             {Bind(l, chatOf(l))})
<1>1. p \in Projects
  BY DEF IInv, TypeOK, LeaseRef
<1>2. m \in Machine /\ Fits(m)
  BY <1>1, ReadRemains, ReadFits
<1>3. PICK l \in m.leases :
         /\ Ref(l) = r
         /\ SaveThenRoute(n(l), <<w, r.local>>, RouteOf(Bind(l, chatOf(l))))
  BY DEF Commit
<1> HIDE DEF m
<1>4. l \in Lease /\ Session(l) = s
  BY <1>2, <1>3, SessionTyped DEF Machine, Session, Ref, Lease
<1> DEFINE i == k(l)
           j == [l EXCEPT !.chat = chatOf(l)]
           b == Bind(l, chatOf(l))
           o == n(l)
<1>5. i \in Machine /\ i.leases = m.leases
  BY <1>1, <1>2, <1>4 DEF Machine, Lease
<1>6. o = Published(i, s, {j}, {b})
  OBVIOUS
<1> HIDE DEF i, j, b, s
<1>7. o.leases = (m.leases \ Of(s, m.leases)) \cup {j}
  <2> HIDE DEF o
  <2> QED BY <1>5, <1>6, PublishedLeases
<1>8. l \in Of(s, m.leases)
  BY <1>3, <1>4 DEF Of
<1>9. machine' = o /\ todo'.kind = "route"
  BY <1>3 DEF SaveThenRoute, RouteWrite
<1> HIDE DEF o
<1>10. Fits(o)
  <2>1. l \in m.leases /\ o.leases \subseteq (m.leases \ {l}) \cup {j}
    BY <1>3, <1>7, <1>8
  <2>2. IsFiniteSet(m.leases) /\ Cardinality(m.leases) <= Limit
    BY <1>2 DEF Fits
  <2>3. IsFiniteSet(o.leases) /\ Cardinality(o.leases) <= Limit
    BY <2>1, <2>2, AnotherFits
  <2> QED BY <2>3 DEF Fits
<1> QED BY <1>9, <1>10 DEF Capacity

(* ... and a recovery adds one in a slot.                                  *)
LEMMA RecoverFits ==
    ASSUME IInv, Capacity, NEW b \in bound, NEW e \in Epochs, Recover(b, e)
    PROVE  Capacity'
<1> DEFINE s == Session(b)
           i == Reaped(Synced(machine, b.project))
           l == [project |-> b.project, local |-> b.local, tab |-> b.tab,
                 url |-> b.url, chat |-> b.chat, generation |-> b.generation,
                 epoch |-> e, expired |-> FALSE]
           n == Published(i, s, {l}, Of(s, i.bindings))
<1>1. b.project \in Projects
  BY DEF IInv, TypeOK, Binding
<1>2. i \in Machine /\ Fits(i)
  BY <1>1, ReadRemains, ReadFits, ReapedRemains, FewerFit DEF Remains
<1>3. /\ NoOneHolds
      /\ (HasSlot(i) /\ Save(n)) \/ UNCHANGED <<machine, todo>>
  BY DEF Recover, RecoverFresh, RecoverOwned
<1> HIDE DEF i, l, s
<1>4. n.leases \subseteq i.leases \cup {l}
  BY <1>2, PublishedLeases
<1> HIDE DEF n
<1>5. HasSlot(i) => Fits(n)
  BY <1>2, <1>4, OneMoreFits DEF HasSlot, Fits
<1> QED BY <1>3, <1>5 DEF Capacity, Save, NoOneHolds, NoWrite

(* Every other step leaves the leases, or takes some away.                 *)
LEMMA NextFits == IInv /\ Capacity /\ [Next]_vars => Capacity'
<1> SUFFICES ASSUME IInv, Capacity, [Next]_vars PROVE Capacity'
  OBVIOUS
<1>0. machine \in Machine
  BY DEF IInv, TypeOK
<1>1. ASSUME NEW n, Save(n), NoOneHolds, Fits(n)
      PROVE  Capacity'
  BY <1>1 DEF Save, NoOneHolds, NoWrite, Capacity
<1>2. CASE UNCHANGED vars
  BY <1>2 DEF vars, Capacity, Fits
<1>3. ASSUME NEW q \in Request, ClaimAgain(q)
      PROVE  Capacity'
  <2>1. q.project \in Projects
    BY DEF Request
  <2> QED BY <1>1, <1>3, <2>1, ReadFits DEF ClaimAgain
<1>4. ASSUME NEW r \in granted, TooLate(r) \/ Renew(r) \/ Release(r)
      PROVE  Capacity'
  <2> DEFINE m == Synced(machine, r.project)
             k == Published(m, Session(r), {}, Of(Session(r), m.bindings))
  <2>1. r.project \in Projects
    BY DEF IInv, TypeOK, LeaseRef
  <2>2. m \in Machine /\ Fits(m) /\ Fits(Synced(Reaped(machine), r.project))
    BY <2>1, ReadRemains, ReadFits
  <2>3. Fits(Reaped(m))
    BY <2>2, ReapedRemains, FewerFit DEF Remains
  <2>4. /\ NoOneHolds
        /\ \/ Save(Synced(Reaped(machine), r.project)) \/ Save(m) \/ Save(Reaped(m))
           \/ Save(k)
    BY <1>4 DEF TooLate, Renew, Release
  <2> HIDE DEF m
  <2>5. k.leases \subseteq m.leases
    BY <2>2, PublishedLeases
  <2> HIDE DEF k
  <2>6. Fits(k)
    BY <2>2, <2>5, FewerFit
  <2> QED BY <1>1, <2>2, <2>3, <2>4, <2>6
<1>5. ASSUME NEW p \in Projects, List(p) \/ Look(p)
      PROVE  Capacity'
  BY <1>1, <1>5, ReadFits DEF List, Look
<1>6. ASSUME NEW p \in Projects, Unregister(p)
      PROVE  Capacity'
  <2> DEFINE m == [machine EXCEPT
                     !.leases = {l \in machine.leases : l.project # p},
                     !.bindings = {b \in machine.bindings : b.project # p},
                     !.urls = [machine.urls EXCEPT ![p] = NoUrl],
                     !.initialized = machine.initialized \ {p},
                     !.absent = machine.absent \cup {p}]
  <2>1. m \in Machine /\ m.leases \subseteq machine.leases
    BY <1>0 DEF Machine
  <2>2. NoOneHolds /\ Save(Pruned(m))
    BY <1>6 DEF Unregister
  <2> HIDE DEF m
  <2>3. Fits(Pruned(m))
    BY <2>1, PrunedRemains, FewerFit DEF Remains, Capacity
  <2> QED BY <1>1, <2>2, <2>3
<1>7. ASSUME NEW w \in Workspaces, NEW local \in Locals, Retire(w, local)
      PROVE  Capacity'
  <2> DEFINE p == ProjectOf[w]
             m == Synced(machine, p)
             n == Published(m, <<p, local>>, {}, {})
  <2>1. p \in Projects
    BY SurfaceAssumption
  <2>2. m \in Machine /\ Fits(m)
    BY <2>1, ReadRemains, ReadFits
  <2>3. SaveThenRoute(n, <<w, local>>, NoRoute)
    BY <1>7 DEF Retire
  <2> HIDE DEF m, p
  <2>4. n.leases \subseteq m.leases
    BY <2>2, PublishedLeases
  <2> HIDE DEF n
  <2>5. Fits(n)
    BY <2>2, <2>4, FewerFit
  <2> QED BY <2>3, <2>5 DEF SaveThenRoute, RouteWrite, Capacity
<1>8. ASSUME NEW w \in Workspaces, NEW local \in Locals, Reconcile(w, local)
      PROVE  Capacity'
  <2>1. ProjectOf[w] \in Projects
    BY SurfaceAssumption
  <2>2. /\ todo' = IndexWrite(Synced(Reaped(machine), ProjectOf[w]))
        /\ machine' = machine
    BY <1>8 DEF Reconcile
  <2> QED BY <2>1, <2>2, ReadFits DEF IndexWrite, Capacity, Fits
<1>9. CASE FinishIndex \/ FinishRoute \/ Interrupted
  BY <1>9 DEF FinishIndex, FinishRoute, Interrupted, NoWrite, Capacity, Fits
<1>10. ASSUME NEW l \in machine.leases, Expire(l)
       PROVE  Capacity'
  <2> DEFINE k == [l EXCEPT !.expired = TRUE]
  <2>1. /\ machine' = [machine EXCEPT !.leases = (machine.leases \ {l}) \cup {k}]
        /\ UNCHANGED todo /\ NoOneHolds
    BY <1>10 DEF Expire
  <2> HIDE DEF k
  <2>2. machine'.leases \subseteq (machine.leases \ {l}) \cup {k}
    BY <1>0, <2>1 DEF Machine
  <2>3. Fits(machine)'
    BY <2>2, AnotherFits DEF Capacity, Fits
  <2> QED BY <2>1, <2>3 DEF Capacity, NoOneHolds, NoWrite
<1> QED BY <1>2, <1>3, <1>4, <1>5, <1>6, <1>7, <1>8, <1>9, <1>10,
           ClaimFits, CommitFits, RecoverFits DEF Next

(* However sessions claim, replace, commit and recover their pages, and    *)
(* whatever is interrupted: no more pages are leased than the machine      *)
(* allows (WithinCapacity).                                                *)
THEOREM CapacityIsKept == Spec => []WithinCapacity
<1>1. Init => Capacity
  <2> SUFFICES ASSUME Init PROVE Capacity
    OBVIOUS
  <2>1. machine.leases = {} /\ todo.kind # "index"
    BY DEF Init, NoWrite
  <2> QED BY <2>1, FS_EmptySet, SurfaceAssumption DEF Capacity, Fits
<1>2. Capacity => WithinCapacity
  BY DEF Capacity, Fits, WithinCapacity
<1> QED BY <1>1, <1>2, NextFits, Invariance, PTL DEF Spec

-----------------------------------------------------------------------------
(* Routes: a route that is still to be written is of a binding that the    *)
(* index has by then, or none; nobody changes the index before it is       *)
(* written or given up.                                                    *)
Follows(w, l, r) ==
    \E b \in machine.bindings : Session(b) = <<ProjectOf[w], l>> /\ RouteOf(b) = r

PendingFollows ==
    todo.kind = "route" /\ todo.value # NoRoute =>
       \E w \in Workspaces, l \in Locals :
          todo.at = <<w, l>> /\ Follows(w, l, todo.value)

(* A commit leaves the route of the binding that it has written.           *)
LEMMA CommitFollows ==
    ASSUME IInv, NEW r \in granted, NEW w \in Workspaces,
           NEW c \in Chats \cup {NoChat}, Commit(r, w, c)
    PROVE  PendingFollows' /\ UNCHANGED route
<1> DEFINE p == r.project
           s == Session(r)
           m == Synced(Reaped(machine), p)
           chatOf(l) == IF c # NoChat THEN c ELSE l.chat
           k(l) == [m EXCEPT !.urls = [m.urls EXCEPT ![p] = l.url]]
           n(l) == Published(k(l), s, {[l EXCEPT !.chat = chatOf(l)]},
                             {Bind(l, chatOf(l))})
<1>1. p \in Projects /\ r.local \in Locals /\ s = <<p, r.local>>
  BY DEF IInv, TypeOK, LeaseRef, Session
<1>2. m \in Machine
  BY <1>1, ReadRemains
<1>3. PICK l \in m.leases :
         /\ Ref(l) = r
         /\ SaveThenRoute(n(l), <<w, r.local>>, RouteOf(Bind(l, chatOf(l))))
  BY DEF Commit
<1>4. ProjectOf[w] = p
  BY DEF Commit
<1> HIDE DEF m
<1>5. l \in Lease /\ Session(l) = s
  BY <1>2, <1>3, SessionTyped DEF Machine, Session, Ref, Lease
<1> DEFINE i == k(l)
           j == [l EXCEPT !.chat = chatOf(l)]
           b == Bind(l, chatOf(l))
           o == n(l)
<1>6. i \in Machine
  BY <1>1, <1>2, <1>5 DEF Machine, Lease
<1>7. Session(b) = s
  BY <1>5 DEF Bind, Session
<1>8. o = Published(i, s, {j}, {b})
  OBVIOUS
<1>9. machine' = o /\ todo' = RouteWrite(<<w, r.local>>, RouteOf(b)) /\ UNCHANGED route
  BY <1>3 DEF SaveThenRoute
<1> HIDE DEF i, j, b, s, o
<1>10. b \in machine'.bindings
  BY <1>6, <1>8, <1>9, PublishedLeases
<1>11. todo'.at = <<w, r.local>> /\ todo'.value = RouteOf(b)
  BY <1>9 DEF RouteWrite
<1>12. Follows(w, r.local, todo.value)'
  BY <1>1, <1>4, <1>7, <1>10, <1>11 DEF Follows
<1> QED BY <1>1, <1>9, <1>11, <1>12 DEF PendingFollows

(* What a step does to the routes.                                         *)
RoutesFollow ==
    \A w \in Workspaces, l \in Locals :
       route'[<<w, l>>] \notin {route[<<w, l>>], NoRoute} =>
          \E b \in machine'.bindings :
             Session(b) = <<ProjectOf[w], l>> /\ RouteOf(b) = route'[<<w, l>>]

LEMMA ReconcileFollows ==
    ASSUME IInv, NEW w \in Workspaces, NEW local \in Locals, Reconcile(w, local)
    PROVE  PendingFollows' /\ RoutesFollow
<1> DEFINE n == Synced(Reaped(machine), ProjectOf[w])
<1>1. ProjectOf[w] \in Projects
  BY SurfaceAssumption
<1>2. n.bindings \subseteq machine.bindings
  BY <1>1, ReadRemains DEF Remains
<1>3. /\ todo'.kind = "index" /\ machine' = machine
      /\ \/ route' = [route EXCEPT ![<<w, local>>] = NoRoute]
         \/ \E b \in Of(<<ProjectOf[w], local>>, n.bindings) :
               route' = [route EXCEPT ![<<w, local>>] = RouteOf(b)]
  BY DEF Reconcile, IndexWrite
<1> HIDE DEF n
<1>4. \A at \in Checkouts : at # <<w, local>> => route'[at] = route[at]
  BY <1>3 DEF IInv, TypeOK
<1>5. \/ route'[<<w, local>>] = NoRoute
      \/ \E b \in machine.bindings : /\ Session(b) = <<ProjectOf[w], local>>
                                     /\ route'[<<w, local>>] = RouteOf(b)
  BY <1>2, <1>3 DEF IInv, TypeOK, Of, Checkouts
<1>6. RoutesFollow
  BY <1>3, <1>4, <1>5 DEF RoutesFollow, Checkouts
<1> QED BY <1>3, <1>6 DEF PendingFollows

LEMMA NextFollows ==
    IInv /\ PendingFollows /\ [Next]_vars => PendingFollows' /\ RoutesFollow
<1> SUFFICES ASSUME IInv, PendingFollows, [Next]_vars
             PROVE  PendingFollows' /\ RoutesFollow
  OBVIOUS
<1>0. UNCHANGED route => RoutesFollow
  BY DEF RoutesFollow
<1>1. ASSUME NEW n, Save(n), NoOneHolds
      PROVE  PendingFollows' /\ RoutesFollow
  BY <1>0, <1>1 DEF Save, NoOneHolds, NoWrite, PendingFollows
<1>2. CASE UNCHANGED vars
  BY <1>0, <1>2 DEF vars, PendingFollows, Follows
<1>3. ASSUME NEW q \in Request, NEW replaces, ClaimAgain(q) \/ ClaimNew(q, replaces)
      PROVE  PendingFollows' /\ RoutesFollow
  BY <1>1, <1>3 DEF ClaimAgain, ClaimNew
<1>4. ASSUME NEW r \in granted, TooLate(r) \/ Renew(r) \/ Release(r)
      PROVE  PendingFollows' /\ RoutesFollow
  BY <1>1, <1>4 DEF TooLate, Renew, Release
<1>5. ASSUME NEW r \in granted, NEW w \in Workspaces,
             NEW c \in Chats \cup {NoChat}, Commit(r, w, c)
      PROVE  PendingFollows' /\ RoutesFollow
  BY <1>0, <1>5, CommitFollows
<1>6. CASE \E b \in bound, e \in Epochs : Recover(b, e)
  <2>1. ASSUME NEW b, NEW i, NEW l, NoOneHolds, RecoverFresh(b, i, l)
        PROVE  PendingFollows' /\ RoutesFollow
    BY <1>1, <2>1 DEF RecoverFresh
  <2>2. ASSUME NEW b, NEW i, NEW l, RecoverOwned(b, i, l)
        PROVE  PendingFollows' /\ RoutesFollow
    BY <1>0, <2>2 DEF RecoverOwned, PendingFollows, Follows
  <2> QED BY <1>6, <2>1, <2>2 DEF Recover
<1>7. CASE \E p \in Projects : List(p) \/ Look(p) \/ Unregister(p)
  BY <1>1, <1>7 DEF List, Look, Unregister
<1>8. ASSUME NEW w \in Workspaces, NEW l \in Locals, Reconcile(w, l)
      PROVE  PendingFollows' /\ RoutesFollow
  BY <1>8, ReconcileFollows
<1>9. ASSUME NEW w \in Workspaces, NEW l \in Locals, Retire(w, l)
      PROVE  PendingFollows' /\ RoutesFollow
  <2>1. PICK n : SaveThenRoute(n, <<w, l>>, NoRoute)
    BY <1>9 DEF Retire
  <2> QED BY <1>0, <2>1 DEF SaveThenRoute, RouteWrite, PendingFollows
<1>10. CASE FinishIndex \/ Interrupted
  BY <1>0, <1>10 DEF FinishIndex, Interrupted, NoWrite, PendingFollows
<1>11. CASE FinishRoute
  <2>1. /\ todo.kind = "route" /\ machine' = machine /\ todo' = NoWrite
        /\ route' = [route EXCEPT ![todo.at] = todo.value]
    BY <1>11 DEF FinishRoute
  <2>2. \A at \in Checkouts :
           route'[at] = route[at] \/ (at = todo.at /\ route'[at] = todo.value)
    BY <2>1 DEF IInv, TypeOK
  <2>3. RoutesFollow
    BY <2>1, <2>2 DEF RoutesFollow, PendingFollows, Follows, Checkouts
  <2> QED BY <2>1, <2>3 DEF PendingFollows, NoWrite
<1>12. CASE \E l \in machine.leases : Expire(l)
  BY <1>0, <1>12 DEF Expire, NoOneHolds, NoWrite, PendingFollows
<1> QED BY <1>2, <1>3, <1>4, <1>5, <1>6, <1>7, <1>8, <1>9, <1>10, <1>11, <1>12 DEF Next

(* A route that changes becomes that of the binding its session then has,  *)
(* or is cleared, also when the writer of the two files is interrupted     *)
(* between them (RouteFollowsIndex).                                       *)
THEOREM RoutesAreOfTheIndex == Spec => RouteFollowsIndex
<1>1. Init => PendingFollows
  BY DEF Init, NoWrite, PendingFollows
<1>2. IInv /\ PendingFollows /\ [Next]_vars =>
         [\A w \in Workspaces, l \in Locals :
             route'[<<w, l>>] \notin {route[<<w, l>>], NoRoute} =>
                \E b \in machine'.bindings :
                   Session(b) = <<ProjectOf[w], l>> /\ RouteOf(b) = route'[<<w, l>>]
         ]_vars
  BY NextFollows DEF RoutesFollow
<1> QED BY <1>1, <1>2, NextFollows, Invariance, PTL DEF Spec, RouteFollowsIndex
=============================================================================
