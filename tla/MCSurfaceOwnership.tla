------------------------- MODULE MCSurfaceOwnership -------------------------
(* SurfaceOwnership for TLC.  A machine is of one of three kinds: many      *)
(* sessions of one project that share a Project URL; one session in each of *)
(* two projects, one of which has two checkouts; or one session in the two  *)
(* checkouts of a project, called by two epochs of its caller.              *)
EXTENDS SurfaceOwnership, TLC

CONSTANTS u1, u2, c1, c2, c3, p1, p2, w1, w2, w3

Homes == c1 :> u1 @@ c2 :> u1 @@ c3 :> u2
Checkout == w1 :> p1 @@ w2 :> p1 @@ w3 :> p2

(* Who takes part, up to which generation                                  *)
VARIABLE cast

ManySessions ==
    [locals: {Locals}, tabs: {Tabs}, epochs: {{x} : x \in Epochs},
     chats: {{c1, c2}}, places: {{w1}}, last: {4}]

TwoProjects ==
    [locals: {{x} : x \in Locals}, epochs: {{x} : x \in Epochs},
     tabs: {Tabs \ {t} : t \in Tabs},
     chats: {{c1, c3}, {c2, c3}}, places: {{w1, w2, w3}}, last: {3}]

Restarts ==
    [locals: {{x} : x \in Locals}, epochs: {Epochs},
     tabs: {Tabs \ {t} : t \in Tabs},
     chats: {{c1}, {c2}}, places: {{w1, w2}}, last: {3}]

CastProjects == {ProjectOf[w] : w \in cast.places}
Cast == [project: CastProjects, local: cast.locals, tab: cast.tabs,
         url: {HomeOf[c] : c \in cast.chats},
         chat: cast.chats \cup {NoChat}, epoch: cast.epochs]

MCNext ==
    /\ \/ /\ machine.next < cast.last
          /\ \E q \in Cast :
                ClaimNew(q, {}) \/ \E r \in granted : ClaimNew(q, {r})
       \/ \E q \in Cast : ClaimAgain(q)
       \/ \E r \in granted :
             \/ TooLate(r) \/ Renew(r) \/ Release(r)
             \/ \E w \in cast.places, c \in cast.chats \cup {NoChat} :
                   Commit(r, w, c)
       \/ \E b \in bound, e \in cast.epochs : Recover(b, e)
       \/ \E p \in CastProjects : List(p) \/ Look(p) \/ Unregister(p)
       \/ \E w \in cast.places :
             \E l \in cast.locals : Reconcile(w, l) \/ Retire(w, l)
       \/ FinishIndex \/ FinishRoute \/ Interrupted
       \/ \E l \in machine.leases : Expire(l)
    /\ UNCHANGED cast

MCInit == Init /\ cast \in ManySessions \cup TwoProjects \cup Restarts

MCSpec == MCInit /\ [][MCNext]_<<vars, cast>>

Symmetric ==
    Permutations(Locals) \cup Permutations(Tabs) \cup Permutations({c1, c2})
    \cup Permutations(Epochs)
=============================================================================
