-------------------------- MODULE SurfaceOwnership --------------------------
(***************************************************************************)
(* Ownership of ChatGPT pages: session/surface-ownership.ts.               *)
(*                                                                         *)
(* A local session claims a page with a lease, of a generation that the    *)
(* machine gives, and once the page is verified commits it as its binding. *)
(* Leases and bindings are in the machine's index, one file under one      *)
(* lock.  Each checkout also has a route per session, in a file of its     *)
(* own, that follows the binding and is written after the index.           *)
(*                                                                         *)
(* Not modelled: the mirror of the index in the workspace, which is only   *)
(* written (syncProjectIntoMachineState replaces what was read from it),   *)
(* the evidence for a first Project selection, and the import of indexes   *)
(* of earlier versions.  The browser and the surface of a page are fixed   *)
(* (assertChatGPTSurfaceIdentity), so a page is a tab.                     *)
(*                                                                         *)
(* A time to live is any number of ticks: a lease may expire any time, and *)
(* "expired" says that leaseExpiresAt has passed.  A handler that throws   *)
(* writes nothing and is not a step.                                       *)
(***************************************************************************)
EXTENDS Naturals, FiniteSets

CONSTANTS
    Projects, Locals, Tabs, Urls, Chats, Epochs, Workspaces,
    HomeOf,         \* the Project URL a chat belongs to
    ProjectOf,      \* the project a checkout belongs to
    Limit,          \* MAX_ACTIVE_SURFACE_SESSIONS
    MaxGeneration   \* Number.MAX_SAFE_INTEGER

NoUrl == "no url"
NoChat == "no chat"

ASSUME SurfaceAssumption ==
    /\ HomeOf \in [Chats -> Urls] /\ ProjectOf \in [Workspaces -> Projects]
    /\ Limit \in Nat /\ MaxGeneration \in Nat
    /\ NoUrl \notin Urls /\ NoChat \notin Chats

VARIABLES
    machine,   \* the machine's index of leases and bindings
    route,     \* the route of each session in each checkout
    todo,      \* the write that the holder of the locks has still to do
    granted,   \* the leases that callers were given (history)
    bound      \* the bindings that callers may have read (history)

vars == <<machine, route, todo, granted, bound>>

Sessions == Projects \X Locals
Checkouts == Workspaces \X Locals

Lease == [project: Projects, local: Locals, tab: Tabs, url: Urls,
          chat: Chats \cup {NoChat}, generation: Nat \ {0}, epoch: Epochs,
          expired: BOOLEAN]
Binding == [project: Projects, local: Locals, tab: Tabs, url: Urls,
            chat: Chats, generation: Nat \ {0}]
LeaseRef == [project: Projects, local: Locals, tab: Tabs,
             generation: Nat \ {0}, epoch: Epochs]
Request == [project: Projects, local: Locals, tab: Tabs, url: Urls,
            chat: Chats \cup {NoChat}, epoch: Epochs]
Machine == [initialized: SUBSET Projects, absent: SUBSET Projects,
            urls: [Projects -> Urls \cup {NoUrl}],
            leases: SUBSET Lease, bindings: SUBSET Binding,
            next: Nat \ {0}, generations: [Sessions -> Nat]]
Route == [url: Urls, chat: Chats, generation: Nat \ {0}, tab: Tabs]

NoRoute == [generation |-> 0]
NoWrite == [kind |-> "none"]
IndexWrite(m) == [kind |-> "index", value |-> m]
RouteWrite(at, r) == [kind |-> "route", at |-> at, value |-> r]

Writes ==
    {NoWrite} \cup [kind: {"index"}, value: Machine]
    \cup [kind: {"route"}, at: Checkouts, value: Route \cup {NoRoute}]

TypeOK ==
    /\ machine \in Machine
    /\ route \in [Checkouts -> Route \cup {NoRoute}]
    /\ todo \in Writes
    /\ granted \subseteq LeaseRef
    /\ bound \subseteq Binding

-----------------------------------------------------------------------------
(* Leases, bindings and references                                         *)

Session(e) == <<e.project, e.local>>
Of(s, entries) == {e \in entries : Session(e) = s}
Entries(m) == m.leases \cup m.bindings

Ref(l) == [project |-> l.project, local |-> l.local, tab |-> l.tab,
           generation |-> l.generation, epoch |-> l.epoch]

BindingMatchesRef(b, r) ==
    Session(b) = Session(r) /\ b.tab = r.tab /\ b.generation = r.generation

Matches(e, q) ==
    /\ Session(e) = Session(q)
    /\ e.tab = q.tab /\ e.url = q.url /\ e.chat = q.chat

RouteOf(b) == [url |-> b.url, chat |-> b.chat,
               generation |-> b.generation, tab |-> b.tab]

-----------------------------------------------------------------------------
(* What every handler checks of the index, when it has read it and before  *)
(* it writes it                                                            *)

ProjectsConsistent(m) ==
    /\ m.absent \cap m.initialized = {}
    /\ \A p, q \in Projects :
          m.urls[p] # NoUrl =>
             p \in m.initialized /\ (m.urls[p] = m.urls[q] => p = q)
    /\ \A e \in Entries(m) :
          /\ e.project \in m.initialized
          /\ \A p \in Projects : m.urls[p] = e.url => p = e.project
          /\ \A f \in Entries(m) : e.project = f.project <=> e.url = f.url
    /\ \A l \in m.leases : m.urls[l.project] \in {NoUrl, l.url}
    /\ \A b \in m.bindings : m.urls[b.project] = b.url

(* Fault: chats are not compared                                           *)
OneOwnerOfPage(m) ==
    \A e, f \in Entries(m) : e.tab = f.tab => Session(e) = Session(f)

OneOwnerOf(m) ==
    \A e, f \in Entries(m) :
       e.tab = f.tab \/ (e.chat = f.chat /\ e.chat # NoChat)
          => Session(e) = Session(f)

GenerationsConsistent(m) ==
    /\ \A s \in Sessions :
          LET own == Of(s, Entries(m)) IN
          /\ own = {} => m.generations[s] = 0
          /\ own # {} => \E e \in own : e.generation = m.generations[s]
          /\ \A e \in own : e.generation <= m.generations[s]
    /\ \A l, k \in m.leases : Session(l) = Session(k) => l = k
    /\ \A b, c \in m.bindings : Session(b) = Session(c) => b = c
    /\ \A l \in m.leases, b \in m.bindings :
          Session(l) = Session(b) =>
             /\ b.generation <= l.generation
             /\ l.generation = b.generation => l.tab = b.tab /\ l.chat = b.chat
    /\ \A e \in Entries(m) : e.generation < m.next

Consistent(m) ==
    /\ ProjectsConsistent(m)
    /\ OneOwnerOf(m)
    /\ \A e \in Entries(m) : e.chat # NoChat => HomeOf[e.chat] = e.url
    /\ GenerationsConsistent(m)

-----------------------------------------------------------------------------
(* Changes of the index                                                    *)

(* Fault: a session falls back to the generation of what it still has      *)
PrunedToEntries(m) ==
    [m EXCEPT !.generations =
        [s \in Sessions |->
            IF \E b \in Of(s, m.bindings) : Of(s, m.leases) = {}
            THEN (CHOOSE b \in Of(s, m.bindings) : TRUE).generation
            ELSE IF Of(s, Entries(m)) = {} THEN 0 ELSE m.generations[s]]]

Pruned(m) ==
    [m EXCEPT !.generations =
        [s \in Sessions |->
            IF Of(s, Entries(m)) = {} THEN 0 ELSE m.generations[s]]]

Reaped(m) == Pruned([m EXCEPT !.leases = {l \in m.leases : ~l.expired}])

Synced(m, p) ==
    IF p \in m.absent THEN m
    ELSE [m EXCEPT !.initialized = @ \cup {p}]

SyncedForClaim(m, p) == Synced([m EXCEPT !.absent = @ \ {p}], p)

(* The lease and the binding of session s replaced by these sets           *)
Published(m, s, leases, bindings) ==
    Pruned([m EXCEPT !.leases = (@ \ Of(s, @)) \cup leases,
                     !.bindings = (@ \ Of(s, @)) \cup bindings])

(* A Project URL and a page are not those of another project               *)
Available(m, p, url, tab) ==
    /\ m.urls[p] \in {NoUrl, url}
    /\ \A q \in Projects \ {p} : m.urls[q] # url
    /\ \A e \in Entries(m) :
          IF e.project = p THEN e.url = url ELSE e.url # url /\ e.tab # tab

(* Fault: one more than the limit *)
HasSlotAtLimit(m) == Cardinality(m.leases) <= Limit

HasSlot(m) == Cardinality(m.leases) < Limit

-----------------------------------------------------------------------------
(* Both locks are free                                                     *)
NoOneHolds == todo = NoWrite

Save(m) ==
    /\ Consistent(m)
    /\ machine' = m
    /\ UNCHANGED <<route, todo>>

(* Fault: the route first, then the index *)
SaveAfterRoute(m, at, r) ==
    /\ Consistent(m)
    /\ route' = [route EXCEPT ![at] = r]
    /\ todo' = IndexWrite(m)
    /\ UNCHANGED machine

SaveThenRoute(m, at, r) ==
    /\ Consistent(m)
    /\ machine' = m
    /\ todo' = RouteWrite(at, r)
    /\ UNCHANGED route

Init ==
    /\ machine = [initialized |-> {}, absent |-> {},
                  urls |-> [p \in Projects |-> NoUrl],
                  leases |-> {}, bindings |-> {},
                  next |-> 1, generations |-> [s \in Sessions |-> 0]]
    /\ route = [c \in Checkouts |-> NoRoute]
    /\ todo = NoWrite
    /\ granted = {} /\ bound = {}

-----------------------------------------------------------------------------
(* claimSurface                                                            *)

Claimable(m, q) ==
    /\ q.chat # NoChat => HomeOf[q.chat] = q.url
    /\ Consistent(m)
    /\ Available(m, q.project, q.url, q.tab)
    /\ \A e \in Entries(m) :
          e.project = q.project /\ e.local # q.local =>
             e.tab # q.tab /\ (q.chat # NoChat => e.chat # q.chat)

(* Fault: each session counts its own generations *)
OwnGeneration(m, s) == m.generations[s] + 1

NewGeneration(m, s) == m.next

NewLease(q, g) ==
    [project |-> q.project, local |-> q.local, tab |-> q.tab, url |-> q.url,
     chat |-> q.chat, generation |-> g, epoch |-> q.epoch, expired |-> FALSE]

(* The same caller asks again for the page it has                          *)
ClaimAgain(q) ==
    LET m == SyncedForClaim(Reaped(machine), q.project) IN
    /\ NoOneHolds
    /\ Claimable(m, q)
    /\ \E l \in m.leases : Matches(l, q) /\ l.epoch = q.epoch
    /\ Save(m)
    /\ UNCHANGED <<granted, bound>>

(* May a claim take the place of what the session has?                     *)
Replaceable(m, q, replaces) ==
    LET s == Session(q) IN
    IF Of(s, m.leases) # {}
    THEN \A l \in Of(s, m.leases) :
            ~(Matches(l, q) /\ l.epoch = q.epoch) /\ Ref(l) \in replaces
    ELSE \A b \in Of(s, m.bindings) :
            Matches(b, q) \/ \E r \in replaces : BindingMatchesRef(b, r)

(* "replaces" has the reference to the lease that is replaced, or nothing  *)
ClaimNew(q, replaces) ==
    LET m == SyncedForClaim(Reaped(machine), q.project)
        s == Session(q)
        g == NewGeneration(m, s)
        l == NewLease(q, g)
    IN  /\ NoOneHolds
        /\ Claimable(m, q)
        /\ Replaceable(m, q, replaces)
        /\ Of(s, m.leases) = {} => HasSlot(m)
        /\ m.next < MaxGeneration
        /\ Save(Published([m EXCEPT !.next = m.next + 1,
                                    !.generations = [@ EXCEPT ![s] = g]],
                          s, {l}, Of(s, m.bindings)))
        /\ granted' = granted \cup {Ref(l)}
        /\ UNCHANGED bound

(* commitVerifiedSurfaceRoute                                              *)

(* Fault: a page whose chat is not known yet is committed *)
VerifiedOrUnknown(l, chat) ==
    /\ l.chat # NoChat => chat = l.chat
    /\ chat # NoChat => HomeOf[chat] = l.url

Verified(l, chat) ==
    /\ l.chat # NoChat => chat = l.chat
    /\ chat # NoChat
    /\ HomeOf[chat] = l.url

Bind(l, chat) ==
    [project |-> l.project, local |-> l.local, tab |-> l.tab, url |-> l.url,
     chat |-> chat, generation |-> l.generation]

Commit(r, w, observed) ==
    LET p == r.project
        s == Session(r)
        m == Synced(Reaped(machine), p)
    IN  /\ NoOneHolds
        /\ ProjectOf[w] = p
        /\ Consistent(m)
        /\ \E l \in m.leases :
              LET chat == IF observed # NoChat THEN observed ELSE l.chat
                  b == Bind(l, chat)
              IN  /\ Ref(l) = r
                  /\ Verified(l, chat)
                  /\ Available(m, p, l.url, l.tab)
                  /\ \A c \in m.bindings \ Of(s, m.bindings) :
                        c.tab # l.tab /\ c.chat # chat
                  /\ SaveThenRoute(
                        Published([m EXCEPT !.urls = [@ EXCEPT ![p] = l.url]],
                                  s, {[l EXCEPT !.chat = chat]}, {b}),
                        <<w, r.local>>, RouteOf(b))
                  /\ bound' = bound \cup {b}
        /\ UNCHANGED granted

(* A commit or a renewal that finds its lease gone saves what it reaped    *)
TooLate(r) ==
    LET m == Reaped(machine) IN
    /\ NoOneHolds
    /\ \A l \in m.leases : Ref(l) # r
    /\ m.leases # machine.leases
    /\ Save(Synced(m, r.project))
    /\ UNCHANGED <<granted, bound>>

Renew(r) ==
    LET m == Synced(Reaped(machine), r.project) IN
    /\ NoOneHolds
    /\ \E l \in m.leases : Ref(l) = r
    /\ Save(m)
    /\ UNCHANGED <<granted, bound>>

-----------------------------------------------------------------------------
(* recoverSurface: b was read from the index some time ago                 *)

RecoverFresh(b, m, l) ==
    /\ Of(Session(b), m.leases) = {}
    /\ HasSlot(m)
    /\ Save(Published(m, Session(b), {l}, Of(Session(b), m.bindings)))
    /\ granted' = granted \cup {Ref(l)}

(* The caller has the page already: its lease, and nothing is written      *)
RecoverOwned(b, m, l) ==
    /\ \E k \in m.leases : Ref(k) = Ref(l) /\ Matches(k, b)
    /\ granted' = granted \cup {Ref(l)}
    /\ UNCHANGED <<machine, route, todo>>

Recover(b, epoch) ==
    LET s == Session(b)
        m == Synced(machine, b.project)
        l == [project |-> b.project, local |-> b.local, tab |-> b.tab,
              url |-> b.url, chat |-> b.chat, generation |-> b.generation,
              epoch |-> epoch, expired |-> FALSE]
    IN  /\ NoOneHolds
        /\ Consistent(m)
        /\ b \in m.bindings
        /\ m.generations[s] = b.generation
        /\ Available(Reaped(m), b.project, b.url, b.tab)
        /\ RecoverFresh(b, Reaped(m), l) \/ RecoverOwned(b, Reaped(m), l)
        /\ UNCHANGED bound

(* releaseSurface: expired leases are reaped only with the one released    *)
Release(r) ==
    LET m == Synced(machine, r.project)
        own == {l \in m.leases : Ref(l) = r}
    IN  /\ NoOneHolds
        /\ Consistent(m)
        /\ \/ own = {} /\ Save(m)
           \/ \E l \in own : l.expired /\ Save(Reaped(m))
           \/ \E l \in own :
                 /\ ~l.expired
                 /\ Save(Published(m, Session(r), {}, Of(Session(r), m.bindings)))
        /\ UNCHANGED <<granted, bound>>

(* listSurfaceLeases, and what is made of it: currentSurfaceLease,         *)
(* requireSurfaceGeneration; reapExpiredSurfaceLeases                      *)
List(p) ==
    /\ NoOneHolds
    /\ Save(Synced(Reaped(machine), p))
    /\ UNCHANGED <<granted, bound>>

(* currentSurfaceBinding                                                   *)
Look(p) ==
    /\ NoOneHolds
    /\ Save(Synced(machine, p))
    /\ UNCHANGED <<granted, bound>>

-----------------------------------------------------------------------------
(* reconcileSurfaceSessionRoute                                            *)
Reconcile(w, local) ==
    LET p == ProjectOf[w]
        m == Synced(Reaped(machine), p)
        own == Of(<<p, local>>, m.bindings)
    IN  /\ NoOneHolds
        /\ Consistent(m)
        /\ \/ own = {} /\ route' = [route EXCEPT ![<<w, local>>] = NoRoute]
           \/ \E b \in own : route' = [route EXCEPT ![<<w, local>>] = RouteOf(b)]
        /\ todo' = IndexWrite(m)
        /\ UNCHANGED <<machine, granted, bound>>

(* retireSurfaceSession                                                    *)
Retire(w, local) ==
    LET p == ProjectOf[w]
        m == Synced(machine, p)
    IN  /\ NoOneHolds
        /\ Consistent(m)
        /\ SaveThenRoute(Published(m, <<p, local>>, {}, {}),
                         <<w, local>>, NoRoute)
        /\ UNCHANGED <<granted, bound>>

(* unregisterSurfaceOwnership                                              *)
Unregister(p) ==
    /\ NoOneHolds
    /\ Save(Pruned([machine EXCEPT
              !.leases = {l \in @ : l.project # p},
              !.bindings = {b \in @ : b.project # p},
              !.urls = [@ EXCEPT ![p] = NoUrl],
              !.initialized = @ \ {p},
              !.absent = @ \cup {p}]))
    /\ UNCHANGED <<granted, bound>>

-----------------------------------------------------------------------------
(* The second write of a handler that writes two files                     *)
FinishIndex ==
    /\ todo.kind = "index"
    /\ machine' = todo.value
    /\ todo' = NoWrite
    /\ UNCHANGED <<route, granted, bound>>

FinishRoute ==
    /\ todo.kind = "route"
    /\ route' = [route EXCEPT ![todo.at] = todo.value]
    /\ todo' = NoWrite
    /\ UNCHANGED <<machine, granted, bound>>

(* The second write fails, or its process dies and its locks are recovered *)
Interrupted ==
    /\ todo # NoWrite
    /\ todo' = NoWrite
    /\ UNCHANGED <<machine, route, granted, bound>>

(* Time passes.  A handler has looked at the clock before its first write  *)
Expire(l) ==
    /\ NoOneHolds
    /\ ~l.expired
    /\ machine' = [machine EXCEPT !.leases = (@ \ {l}) \cup {[l EXCEPT !.expired = TRUE]}]
    /\ UNCHANGED <<route, todo, granted, bound>>

Next ==
    \/ \E q \in Request :
          ClaimAgain(q) \/ ClaimNew(q, {}) \/ \E r \in granted : ClaimNew(q, {r})
    \/ \E r \in granted :
          \/ TooLate(r) \/ Renew(r) \/ Release(r)
          \/ \E w \in Workspaces, c \in Chats \cup {NoChat} : Commit(r, w, c)
    \/ \E b \in bound, e \in Epochs : Recover(b, e)
    \/ \E p \in Projects : List(p) \/ Look(p) \/ Unregister(p)
    \/ \E w \in Workspaces, l \in Locals : Reconcile(w, l) \/ Retire(w, l)
    \/ FinishIndex \/ FinishRoute \/ Interrupted
    \/ \E l \in machine.leases : Expire(l)

Spec == Init /\ [][Next]_vars

-----------------------------------------------------------------------------
(* A generation is given once: leases that carry the same one are of the   *)
(* same session and the same page, also after the session was retired or   *)
(* its project unregistered and claimed again (the comment at 2046-2051).  *)
UniqueGenerations ==
    \A r, o \in granted :
       r.generation = o.generation => Session(r) = Session(o) /\ r.tab = o.tab

(* A stale lease cannot come back: the lease a session has in the index is *)
(* of the newest generation it was ever given.  Recovery gives the         *)
(* generation of a binding again, so this is not the allocator's doing.    *)
NewestGeneration ==
    \A l \in machine.leases, r \in granted :
       Session(r) = Session(l) => r.generation <= l.generation

(* A page and a chat have one owner, whether they are leased or bound and  *)
(* whichever project it belongs to.                                        *)
OneOwner ==
    \A e, f \in machine.leases \cup machine.bindings :
       e.tab = f.tab \/ (e.chat = f.chat /\ e.chat # NoChat)
          => Session(e) = Session(f)

(* No more leases than the machine allows: claims, replacements and        *)
(* recoveries together.                                                    *)
WithinCapacity == Cardinality(machine.leases) <= Limit

(* A route that changes follows the index, also when its writer is         *)
(* interrupted between the files: it becomes the binding its session then  *)
(* has, or is cleared.                                                     *)
RouteFollowsIndex ==
    [][\A w \in Workspaces, l \in Locals :
          route'[<<w, l>>] \notin {route[<<w, l>>], NoRoute} =>
             \E b \in machine'.bindings :
                Session(b) = <<ProjectOf[w], l>> /\ RouteOf(b) = route'[<<w, l>>]
      ]_vars

(* The owner of a candidate can release it (docs/protocol.md, 523-524: "On *)
(* verification failure, cancel the BOOT context and release the candidate *)
(* instead."): the index without its lease passes the index's own checks.  *)
CandidateReleasable ==
    NoOneHolds =>
       \A l \in machine.leases :
          Consistent(Published(machine, Session(l), {},
                               Of(Session(l), machine.bindings)))
=============================================================================
