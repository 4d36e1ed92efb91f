-------------------------- MODULE ControlStoreProofs --------------------------
(***************************************************************************)
(* The request store, for any number of sessions, requests and payloads,   *)
(* any clock and every place where a handler can fail or die.              *)
(*                                                                         *)
(* A handler is the sequence of the changes it has still to make.  The     *)
(* invariant therefore says two things: what holds of the files now        *)
(* (Files, RevokeDue), and of every change to come (Ready), when it may be *)
(* made, which depends on the changes before it, all those of the handler, *)
(* and its last one, never on what the store will have become.  That a     *)
(* step preserves it is proved once for the nine kinds of change (StepGood)*)
(* and that a handler decides only changes that may be made, once for each *)
(* handler.                                                                *)
(*                                                                         *)
(* The invariant then gives the properties, and that each change is a step *)
(* of ControlOutcome.                                                      *)
(*                                                                         *)
(* The migration of the mailbox into the store is proved at the end, one   *)
(* lemma for each of its actions.                                          *)
(***************************************************************************)
EXTENDS ControlRequests, ControlStoreMigration, FiniteSetTheorems, SequenceTheorems, TLAPS

USE ObservationAssumption, RequestAssumption DEF ObservationAssumption, RequestAssumption

(* Every natural number is in a set that holds 0 and with n also n + 1.    *)
LEMMA SetInduction ==
    ASSUME NEW S, 0 \in S, \A n \in Nat : n \in S => n + 1 \in S
    PROVE  Nat \subseteq S
<1> SUFFICES ASSUME NEW b \in Nat, b \notin S PROVE FALSE
  OBVIOUS
<1> DEFINE Up(n) == 1..n
           F == FiniteSubsetsOf(Nat)
           R == StrictSubsetOrdering(Nat)
           T == {t \in F : \E n \in Nat \ S : t = Up(n)}
<1>1. \A n \in Nat : Up(n) \in F
  BY FS_Interval DEF FiniteSubsetsOf
<1>2. IsWellFoundedOn(R, F)
  BY FS_StrictSubsetOrderingWellFounded
<1>3. Up(b) \in T
  BY <1>1
<1> HIDE DEF R, F
<1>4. PICK x \in T : \A y \in T : ~ (<<y, x>> \in R)
  BY <1>2, <1>3, WFMin, Zenon
<1>5. PICK n \in Nat \ S : x = Up(n)
  BY <1>4
<1>6. n - 1 \in Nat \ S
  <2>1. n # 0
    OBVIOUS
  <2>2. n - 1 \in Nat /\ n - 1 + 1 = n
    BY <2>1
  <2> QED BY <2>2
<1>7. Up(n - 1) \in T
  BY <1>1, <1>6
<1>8. Up(n - 1) \subseteq Up(n) /\ Up(n - 1) # Up(n)
  BY <1>6
<1>9. Up(n - 1) \in SUBSET Nat /\ Up(n) \in SUBSET Nat
  OBVIOUS
<1>10. <<Up(n - 1), Up(n)>> \in R
  BY <1>8, <1>9 DEF R, StrictSubsetOrdering
<1> QED BY <1>4, <1>5, <1>7, <1>10

(* The recursive function that ForEach applies exists.                     *)
UpTo(c, f, m) == f = [n \in 0..m |-> IF n = 0 THEN <<>> ELSE f[n - 1] \o c[n]]

(* One value of that function.                                             *)
LEMMA UpToAt ==
    ASSUME NEW c, NEW f, NEW m, UpTo(c, f, m), NEW i \in 0..m
    PROVE  f[i] = IF i = 0 THEN <<>> ELSE f[i - 1] \o c[i]
BY Zenon DEF UpTo

(* It exists, whatever is put together.                                    *)
LEMMA UpToExists ==
    ASSUME NEW c, NEW m \in Nat
    PROVE  \E f : UpTo(c, f, m)
<1> DEFINE S == {n \in Nat : \E f : UpTo(c, f, n)}
<1>1. 0 \in S
  <2> DEFINE f == [n \in 0..0 |-> <<>>]
  <2>1. f = [n \in 0..0 |-> IF n = 0 THEN <<>> ELSE f[n - 1] \o c[n]]
    OBVIOUS
  <2> HIDE DEF f
  <2> QED BY <2>1 DEF UpTo
<1>2. ASSUME NEW n \in Nat, n \in S PROVE n + 1 \in S
  <2>1. PICK f : UpTo(c, f, n)
    BY <1>2
  <2> DEFINE g == [i \in 0..(n + 1) |-> IF i = n + 1 THEN f[n] \o c[n + 1] ELSE f[i]]
             h == [i \in 0..(n + 1) |-> IF i = 0 THEN <<>> ELSE g[i - 1] \o c[i]]
  <2>2. ASSUME NEW i \in 0..(n + 1) PROVE g[i] = h[i]
    <3>1. CASE i = n + 1
      <4>1. i - 1 = n /\ i # 0 /\ n \in 0..(n + 1) /\ n # n + 1
        BY <3>1
      <4>2. g[n] = f[n]
        BY <4>1
      <4>3. g[i] = f[n] \o c[n + 1]
        BY <3>1
      <4>4. h[i] = g[n] \o c[n + 1]
        BY <3>1, <4>1
      <4> QED BY <4>2, <4>3, <4>4
    <3>2. CASE i # n + 1
      <4>1. i \in 0..n
        BY <3>2
      <4>2. f[i] = IF i = 0 THEN <<>> ELSE f[i - 1] \o c[i]
        BY <2>1, <4>1, UpToAt
      <4>3. g[i] = f[i]
        BY <3>2
      <4>4. CASE i = 0
        BY <4>2, <4>3, <4>4
      <4>5. CASE i # 0
        <5>1. i - 1 \in 0..(n + 1) /\ i - 1 # n + 1
          BY <4>1, <4>5
        <5>2. g[i - 1] = f[i - 1]
          BY <5>1
        <5>3. h[i] = g[i - 1] \o c[i]
          BY <4>5
        <5> QED BY <4>2, <4>3, <4>5, <5>2, <5>3
      <4> QED BY <4>4, <4>5
    <3> QED BY <3>1, <3>2
  <2>3. g = h
    <3>1. DOMAIN g = DOMAIN h
      OBVIOUS
    <3> QED BY <2>2
  <2>4. UpTo(c, g, n + 1)
    <3> HIDE DEF g
    <3> QED BY <2>3 DEF UpTo
  <2> QED BY <2>4
<1>3. Nat \subseteq S
  <2> HIDE DEF S
  <2> QED BY <1>1, <1>2, SetInduction
<1> QED BY <1>3

(* ForEach is its last value.                                              *)
LEMMA ForEachUpTo ==
    ASSUME NEW c, MaxRequests \in Nat
    PROVE  \E f : UpTo(c, f, MaxRequests) /\ ForEach(c) = f[MaxRequests]
<1> DEFINE f == CHOOSE g : UpTo(c, g, MaxRequests)
<1>1. UpTo(c, f, MaxRequests)
  BY UpToExists
<1>2. ForEach(c) = f[MaxRequests]
  BY Zenon DEF ForEach, UpTo
<1> QED BY <1>1, <1>2

-----------------------------------------------------------------------------
(***************************************************************************)
(* The files and the changes that are still to be made.  S is a store, T a *)
(* sequence of changes, n the time and c the next request id.              *)
(***************************************************************************)
Write ==
    [file: {"active"}, key: Sessions, value: Request \cup {NoRequest}]
    \cup [file: {"request"}, key: Ids, value: Request \cup {NoRequest}]
    \cup [file: {"renewal"}, key: Ids, value: Nat]
    \cup [file: {"observation"}, key: Ids, value: ObservationState \cup {NoState}]
    \cup [file: {"marker"}, key: Ids, value: Marker \cup {NoMarker}]
    \cup [file: {"late"}, key: Ids, value: Observation \cup {Nothing}]
    \cup [file: {"live"}, key: Ids, value: {FALSE}]

Clears(w) == w.file = "active" /\ w.value = NoRequest
Claims(w) == w.file = "active" /\ w.value # NoRequest
Opens(w) == w.file = "request" /\ w.value # NoRequest
Removes(w) == w.file = "request" /\ w.value = NoRequest
Ends(w) == w.file = "marker" /\ w.value # NoMarker
Records(w) == w.file = "observation" /\ w.value # NoState
Renews(w) == w.file = "renewal" /\ w.value # 0
Cleans(w) == \/ w.file = "observation" /\ w.value = NoState
             \/ w.file = "marker" /\ w.value = NoMarker
             \/ w.file = "renewal" /\ w.value = 0

Done(S, w) == [S EXCEPT ![w.file][w.key] = w.value]

(* What is stored of a request.                                            *)
Has(S, r) == S.request[r] # NoRequest
Ended(S, r) == S.marker[r] # NoMarker
Live(S, r) == S.live[r] = TRUE
Until(S, r) == IF S.renewal[r] # 0 THEN S.renewal[r] ELSE S.request[r].expiresAt
Pending(S, n, r) == Has(S, r) /\ ~Ended(S, r) /\ ~(n > Until(S, r))
Untouched(S, r) ==
    /\ ~Ended(S, r) /\ S.renewal[r] = 0
    /\ S.observation[r] = NoState /\ ~Live(S, r)
Gone(S, c, r) == ~Has(S, r) /\ r < c /\ \A s \in Sessions : S.active[s].id # r

Shows(p, m) == p.definitive.state = "final" /\ Evidence(p.definitive) = m.evidence
Recoverable(S, n, r, m) ==
    LET p == S.observation[r]
    IN /\ p.definitive.state = "result_candidate"
       /\ p.definitive.payload = m.evidence.payload
       /\ p.definitive.at < m.evidence.at
       /\ n - p.definitiveAccepted >= Stability

(* When the change x may be made, B being the changes before it, p the one *)
(* right before it, A all the changes of the handler and e the last one.   *)
Positions(T) == 1..Len(T)
Earlier(T, k) == {T[j] : j \in 1..(k - 1)}
All(T) == {T[j] : j \in Positions(T)}
Last(T) == T[Len(T)]

Purging(A) ==
    \A x \in A : /\ ~Claims(x) /\ ~Opens(x) /\ ~Ends(x)
                 /\ ~Records(x) /\ ~Renews(x) /\ x.file # "live"

EndsIn(B, r) == \E b \in B : Ends(b) /\ b.key = r
OpensIn(B, r) == \E b \in B : Opens(b) /\ b.key = r

(* A session is given up only when its prompt is finished.                 *)
ReadyClear(S, x, B, n) == Clears(x) =>
    \A r \in Ids :
       (Pending(S, n, r) /\ S.request[r].session = x.key) \/ OpensIn(B, r)
       => EndsIn(B, r)

(* It is claimed for a prompt of which nothing is stored, ...              *)
ReadyClaim(S, x, B, n, c) == Claims(x) =>
    /\ x.value.session = x.key /\ x.value.id < c
    /\ ~Has(S, x.value.id) /\ Untouched(S, x.value.id)
    /\ \A s \in Sessions : S.active[s].id # x.value.id
    /\ \A r \in Ids : Pending(S, n, r) => S.request[r].session # x.key
    /\ \A b \in B : Clears(b)

(* ... and its file is written right after.                                *)
ReadyOpen(S, x, B, p, e, n, c) == Opens(x) =>
    /\ x.value.id = x.key /\ x.value.id < c
    /\ ~Has(S, x.key) /\ Untouched(S, x.key)
    /\ n <= x.value.expiresAt
    /\ IF B = {} THEN S.active[x.value.session] = x.value
       ELSE p.file = "active" /\ p.key = x.value.session /\ p.value = x.value
    /\ \A b \in B : b.file = "active"
    /\ e.file # "live"

(* Only a request that has ended is removed, when no pointer names it; ... *)
ReadyRemove(S, x, B, A, n) == Removes(x) =>
    /\ Has(S, x.key) /\ ~Pending(S, n, x.key) /\ Purging(A)
    /\ \A s \in Sessions : S.active[s].id = x.key =>
          \E b \in B : Clears(b) /\ b.key = s
    /\ \A b \in B : b.file \in {"request", "marker", "renewal"} => b.key # x.key

(* ... its other files follow.                                             *)
ReadyClean(S, x, B, A, c) == Cleans(x) =>
    /\ Purging(A)
    /\ Gone(S, c, x.key) \/ \E b \in B : Removes(b) /\ b.key = x.key

(* A request ends once, and its capability goes with it.                   *)
ReadyEnd(S, x, B, e, n) == Ends(x) =>
    /\ Pending(S, n, x.key) \/ OpensIn(B, x.key)
    /\ \A b \in B : b.file \in {"marker", "observation"} => b.key # x.key
    /\ x.value.outcome = "delivered" =>
          /\ x.value.evidence.payload \in Results
          /\ Recoverable(S, n, x.key, x.value)
    /\ Live(S, x.key) => e.file = "live" /\ e.key = x.key

(* A final is recorded for a marked result only, and it is that result's.  *)
ReadyRecord(S, x, B) == Records(x) =>
    /\ Has(S, x.key)
    /\ \A b \in B : Ends(b) /\ b.key = x.key /\ b.value.outcome = "delivered" =>
          Shows(x.value, b.value)
    /\ Ended(S, x.key) /\ S.marker[x.key].outcome = "delivered" =>
          Shows(x.value, S.marker[x.key])
    /\ Ended(S, x.key) \/ EndsIn(B, x.key) \/ x.value.definitive.state # "final"

ReadyRenew(S, x, B, n) == Renews(x) =>
    B = {} /\ Pending(S, n, x.key) /\ n <= x.value

ReadyAt(S, x, B, p, A, e, n, c) ==
    /\ ReadyClear(S, x, B, n) /\ ReadyClaim(S, x, B, n, c)
    /\ ReadyOpen(S, x, B, p, e, n, c) /\ ReadyRemove(S, x, B, A, n)
    /\ ReadyClean(S, x, B, A, c) /\ ReadyEnd(S, x, B, e, n)
    /\ ReadyRecord(S, x, B) /\ ReadyRenew(S, x, B, n)

Ready(S, T, n, c) ==
    \A k \in Positions(T) :
       ReadyAt(S, T[k], Earlier(T, k), T[k - 1], All(T), Last(T), n, c)

(* What holds of the files.                                                *)
ClaimsOwn(S, c) ==
    /\ \A s \in Sessions : S.active[s] # NoRequest =>
          /\ S.active[s].session = s /\ S.active[s].id < c
          /\ S.request[S.active[s].id] \in {NoRequest, S.active[s]}
          /\ ~Has(S, S.active[s].id) => Untouched(S, S.active[s].id)
    /\ \A s, t \in Sessions :
          S.active[s] # NoRequest /\ S.active[s].id = S.active[t].id => s = t

Unborn(S, c) == \A r \in Ids : r >= c => ~Has(S, r) /\ Untouched(S, r)

OutcomeOpen(S) ==
    \A r \in Ids : Has(S, r) /\ ~Ended(S, r) => S.observation[r].definitive.state # "final"

ResultMarked(S, n) ==
    \A r \in Ids : Has(S, r) /\ Ended(S, r) /\ S.marker[r].outcome = "delivered" =>
       /\ S.marker[r].evidence.payload \in Results
       /\ Shows(S.observation[r], S.marker[r]) \/ Recoverable(S, n, r, S.marker[r])

RevokeDue(S, T) ==
    \A r \in Ids : Has(S, r) /\ Ended(S, r) /\ Live(S, r) =>
       T # <<>> /\ Last(T).file = "live" /\ Last(T).key = r

PendingNamed(S, n) ==
    \A r \in Ids : Pending(S, n, r) => S.active[S.request[r].session].id = r

Named(S) == \A r \in Ids : Has(S, r) => S.request[r].id = r

Files(S, n, c) ==
    /\ ClaimsOwn(S, c) /\ Unborn(S, c) /\ OutcomeOpen(S)
    /\ ResultMarked(S, n) /\ PendingNamed(S, n)

Typed(S, T, n, c) ==
    S \in Store /\ T \in Seq(Write) /\ n \in Times /\ c \in 1..(MaxRequests + 1)

Good(S, T, n, c) ==
    /\ Typed(S, T, n, c) /\ Named(S) /\ Ready(S, T, n, c)
    /\ Files(S, n, c) /\ RevokeDue(S, T)

IInv == Good(store, todo, now, nextId)

(* What a change does to the files, by the file.                           *)
LEMMA WriteKinds ==
    ASSUME NEW w \in Write
    PROVE  /\ w.file \in {"active", "request", "renewal", "observation", "marker",
                          "late", "live"}
           /\ w.file = "active" => w.key \in Sessions /\ w.value \in Request \cup {NoRequest}
           /\ w.file = "request" => w.key \in Ids /\ w.value \in Request \cup {NoRequest}
           /\ w.file = "renewal" => w.key \in Ids /\ w.value \in Nat
           /\ w.file = "observation" =>
                 w.key \in Ids /\ w.value \in ObservationState \cup {NoState}
           /\ w.file = "marker" => w.key \in Ids /\ w.value \in Marker \cup {NoMarker}
           /\ w.file = "late" => w.key \in Ids /\ w.value \in Observation \cup {Nothing}
           /\ w.file = "live" => w.key \in Ids /\ w.value = FALSE
BY DEF Write

(* What one change leaves alone, file by file.                             *)
LEMMA DoneActive ==
    ASSUME NEW S \in Store, NEW w \in Write, w.file = "active", NEW Z, Z = Done(S, w)
    PROVE  /\ w.key \in Sessions /\ w.value \in Request \cup {NoRequest} /\ Z \in Store
           /\ Z.active[w.key] = w.value
           /\ \A s \in Sessions : s # w.key => Z.active[s] = S.active[s]
           /\ Z.request = S.request /\ Z.renewal = S.renewal /\ Z.marker = S.marker
           /\ Z.observation = S.observation /\ Z.live = S.live
<1>1. w.key \in Sessions /\ w.value \in Request \cup {NoRequest}
  BY WriteKinds
<1>2. Z = [S EXCEPT !.active = [S.active EXCEPT ![w.key] = w.value]]
  BY DEF Done
<1> QED BY <1>1, <1>2 DEF Store

(* A request file is written or removed.                                   *)
LEMMA DoneRequest ==
    ASSUME NEW S \in Store, NEW w \in Write, w.file = "request", NEW Z, Z = Done(S, w)
    PROVE  /\ w.key \in Ids /\ w.value \in Request \cup {NoRequest} /\ Z \in Store
           /\ Z.request[w.key] = w.value
           /\ \A r \in Ids : r # w.key => Z.request[r] = S.request[r]
           /\ Z.active = S.active /\ Z.renewal = S.renewal /\ Z.marker = S.marker
           /\ Z.observation = S.observation /\ Z.live = S.live
<1>1. w.key \in Ids /\ w.value \in Request \cup {NoRequest}
  BY WriteKinds
<1>2. Z = [S EXCEPT !.request = [S.request EXCEPT ![w.key] = w.value]]
  BY DEF Done
<1> QED BY <1>1, <1>2 DEF Store

(* A renewal is written or removed.                                        *)
LEMMA DoneRenewal ==
    ASSUME NEW S \in Store, NEW w \in Write, w.file = "renewal", NEW Z, Z = Done(S, w)
    PROVE  /\ w.key \in Ids /\ w.value \in Nat /\ Z \in Store
           /\ Z.renewal[w.key] = w.value
           /\ \A r \in Ids : r # w.key => Z.renewal[r] = S.renewal[r]
           /\ Z.active = S.active /\ Z.request = S.request /\ Z.marker = S.marker
           /\ Z.observation = S.observation /\ Z.live = S.live
<1>1. w.key \in Ids /\ w.value \in Nat
  BY WriteKinds
<1>2. Z = [S EXCEPT !.renewal = [S.renewal EXCEPT ![w.key] = w.value]]
  BY DEF Done
<1> QED BY <1>1, <1>2 DEF Store

(* An observation is written or removed.                                   *)
LEMMA DoneObservation ==
    ASSUME NEW S \in Store, NEW w \in Write, w.file = "observation", NEW Z, Z = Done(S, w)
    PROVE  /\ w.key \in Ids /\ w.value \in ObservationState \cup {NoState} /\ Z \in Store
           /\ Z.observation[w.key] = w.value
           /\ \A r \in Ids : r # w.key => Z.observation[r] = S.observation[r]
           /\ Z.active = S.active /\ Z.request = S.request /\ Z.marker = S.marker
           /\ Z.renewal = S.renewal /\ Z.live = S.live
<1>1. w.key \in Ids /\ w.value \in ObservationState \cup {NoState}
  BY WriteKinds
<1>2. Z = [S EXCEPT !.observation = [S.observation EXCEPT ![w.key] = w.value]]
  BY DEF Done
<1> QED BY <1>1, <1>2 DEF Store

(* A marker is written or removed.                                         *)
LEMMA DoneMarker ==
    ASSUME NEW S \in Store, NEW w \in Write, w.file = "marker", NEW Z, Z = Done(S, w)
    PROVE  /\ w.key \in Ids /\ w.value \in Marker \cup {NoMarker} /\ Z \in Store
           /\ Z.marker[w.key] = w.value
           /\ \A r \in Ids : r # w.key => Z.marker[r] = S.marker[r]
           /\ Z.active = S.active /\ Z.request = S.request /\ Z.renewal = S.renewal
           /\ Z.observation = S.observation /\ Z.live = S.live
<1>1. w.key \in Ids /\ w.value \in Marker \cup {NoMarker}
  BY WriteKinds
<1>2. Z = [S EXCEPT !.marker = [S.marker EXCEPT ![w.key] = w.value]]
  BY DEF Done
<1> QED BY <1>1, <1>2 DEF Store

(* Late evidence is no part of what the invariant speaks of.               *)
LEMMA DoneLate ==
    ASSUME NEW S \in Store, NEW w \in Write, w.file = "late", NEW Z, Z = Done(S, w)
    PROVE  /\ Z \in Store
           /\ Z.active = S.active /\ Z.request = S.request /\ Z.renewal = S.renewal
           /\ Z.observation = S.observation /\ Z.marker = S.marker /\ Z.live = S.live
<1>1. w.key \in Ids /\ w.value \in Observation \cup {Nothing}
  BY WriteKinds
<1>2. Z = [S EXCEPT !.late = [S.late EXCEPT ![w.key] = w.value]]
  BY DEF Done
<1> QED BY <1>1, <1>2 DEF Store

(* A capability is revoked, and no other is issued.                        *)
LEMMA DoneLive ==
    ASSUME NEW S \in Store, NEW w \in Write, w.file = "live", NEW Z, Z = Done(S, w)
    PROVE  /\ w.key \in Ids /\ Z \in Store
           /\ ~Live(Z, w.key) /\ \A r \in Ids : Live(Z, r) => Live(S, r)
           /\ Z.active = S.active /\ Z.request = S.request /\ Z.renewal = S.renewal
           /\ Z.observation = S.observation /\ Z.marker = S.marker
<1>1. w.key \in Ids /\ w.value = FALSE
  BY WriteKinds
<1>2. Z = [S EXCEPT !.live = [S.live EXCEPT ![w.key] = FALSE]]
  BY <1>1 DEF Done
<1> DEFINE L == [S.live EXCEPT ![w.key] = FALSE]
<1>3. L \in [Ids -> BOOLEAN] /\ L[w.key] = FALSE
  BY <1>1 DEF Store
<1>4. \A r \in Ids : L[r] = TRUE => S.live[r] = TRUE
  BY <1>1 DEF Store
<1> HIDE DEF L
<1>5. Z = [S EXCEPT !.live = L]
  BY <1>2 DEF L
<1>6. Z \in Store /\ Z.live = L
  BY <1>3, <1>5 DEF Store
<1>7. /\ Z.active = S.active /\ Z.request = S.request /\ Z.renewal = S.renewal
      /\ Z.observation = S.observation /\ Z.marker = S.marker
  BY <1>5 DEF Store
<1> QED BY <1>1, <1>3, <1>4, <1>6, <1>7 DEF Live

(* Only one of the files changes.                                          *)
LEMMA DoneElsewhere ==
    ASSUME NEW S \in Store, NEW w \in Write, NEW Z, Z = Done(S, w)
    PROVE  /\ w.file # "active" => Z.active = S.active
           /\ w.file # "request" => Z.request = S.request
           /\ w.file # "marker" => Z.marker = S.marker
           /\ w.file # "live" => Z.live = S.live
<1>1. CASE w.file = "active"
  BY <1>1, DoneActive
<1>2. CASE w.file = "request"
  BY <1>2, DoneRequest
<1>3. CASE w.file = "renewal"
  BY <1>3, DoneRenewal
<1>4. CASE w.file = "observation"
  BY <1>4, DoneObservation
<1>5. CASE w.file = "marker"
  BY <1>5, DoneMarker
<1>6. CASE w.file = "late"
  BY <1>6, DoneLate
<1>7. CASE w.file = "live"
  BY <1>7, DoneLive
<1> QED BY <1>1, <1>2, <1>3, <1>4, <1>5, <1>6, <1>7, WriteKinds

-----------------------------------------------------------------------------
(* The handler has made the change h, its first, and the change x is yet to *)
(* come: B were the changes before it, and D are those that remain.        *)
Comes(S, Z, h, x, B, D, p, q, A, E, e, n, c, p0) ==
    /\ S \in Store /\ h \in Write /\ Z = Done(S, h)
    /\ x \in Write /\ x \in A /\ B \subseteq Write
    /\ B = D \cup {h} /\ h \in A /\ E \subseteq A
    /\ (D = {} => p = h) /\ (D # {} => q = p)
    /\ ReadyAt(S, h, {}, p0, A, e, n, c) /\ ReadyAt(S, x, B, p, A, e, n, c)
    /\ (h.file # "active" => \A b \in D : ~Opens(b))
    /\ Unborn(S, c) /\ n \in Nat /\ c \in Nat

(* A change that may be made stays one when a session is given up before   *)
(* it.                                                                     *)
LEMMA AfterClear ==
    ASSUME NEW S, NEW Z, NEW h, NEW x, NEW B, NEW D, NEW p, NEW q, NEW A, NEW E,
           NEW e, NEW n, NEW c, NEW p0,
           Comes(S, Z, h, x, B, D, p, q, A, E, e, n, c, p0), Clears(h)
    PROVE  ReadyAt(Z, x, D, q, E, e, n, c)
<1>1. /\ S \in Store /\ h \in Write /\ Z = Done(S, h) /\ x \in Write
      /\ B = D \cup {h} /\ h \in A /\ E \subseteq A
      /\ (D = {} => p = h) /\ (D # {} => q = p)
      /\ h.file = "active" /\ h.value = NoRequest
  BY DEF Comes, Clears
<1>2. /\ ReadyClear(S, h, {}, n)
      /\ ReadyClear(S, x, B, n) /\ ReadyClaim(S, x, B, n, c)
      /\ ReadyOpen(S, x, B, p, e, n, c) /\ ReadyRemove(S, x, B, A, n)
      /\ ReadyClean(S, x, B, A, c) /\ ReadyEnd(S, x, B, e, n)
      /\ ReadyRecord(S, x, B) /\ ReadyRenew(S, x, B, n)
  BY DEF Comes, ReadyAt
<1>3. /\ h.key \in Sessions /\ Z \in Store
      /\ Z.active[h.key] = NoRequest
      /\ \A s \in Sessions : s # h.key => Z.active[s] = S.active[s]
      /\ Z.request = S.request /\ Z.renewal = S.renewal /\ Z.marker = S.marker
      /\ Z.observation = S.observation /\ Z.live = S.live
  BY <1>1, DoneActive
<1>4. \A s \in Sessions, r \in Ids : Z.active[s].id = r => S.active[s].id = r /\ s # h.key
  BY <1>3 DEF NoRequest, Ids
<1>5. \A r : /\ Has(Z, r) <=> Has(S, r)
             /\ Ended(Z, r) <=> Ended(S, r)
             /\ Pending(Z, n, r) <=> Pending(S, n, r)
             /\ Untouched(Z, r) <=> Untouched(S, r)
  BY <1>3 DEF Has, Ended, Until, Pending, Untouched, Live
<1>6. ~Claims(h) /\ ~Opens(h) /\ ~Removes(h) /\ ~Ends(h)
  BY <1>1 DEF Claims, Opens, Removes, Ends
<1>7. \A r : (EndsIn(B, r) <=> EndsIn(D, r)) /\ (OpensIn(B, r) <=> OpensIn(D, r))
  BY <1>1, <1>6 DEF EndsIn, OpensIn
<1>8. Purging(A) => Purging(E)
  BY <1>1 DEF Purging
<1>9. ReadyClear(Z, x, D, n)
  BY <1>2, <1>3, <1>5, <1>7 DEF ReadyClear
<1>10. ReadyClaim(Z, x, D, n, c)
  <2> SUFFICES ASSUME Claims(x) PROVE ReadyClaim(Z, x, D, n, c)
    BY DEF ReadyClaim
  <2>1. x.value.id \in Ids
    BY <1>1 DEF Claims, Write, Request, NoRequest
  <2> QED BY <2>1, <1>1, <1>2, <1>3, <1>4, <1>5 DEF ReadyClaim
<1>11. ReadyOpen(Z, x, D, q, e, n, c)
  <2> SUFFICES ASSUME Opens(x) PROVE ReadyOpen(Z, x, D, q, e, n, c)
    BY DEF ReadyOpen
  <2>1. B # {}
    BY <1>1
  <2>2. p.file = "active" /\ p.key = x.value.session /\ p.value = x.value
    BY <2>1, <1>2 DEF ReadyOpen
  <2>3. D # {}
    BY <2>2, <1>1 DEF Opens
  <2> QED BY <2>2, <2>3, <1>1, <1>2, <1>5 DEF ReadyOpen
<1>12. ReadyRemove(Z, x, D, E, n)
  <2> SUFFICES ASSUME Removes(x) PROVE ReadyRemove(Z, x, D, E, n)
    BY DEF ReadyRemove
  <2>1. x.key \in Ids
    BY <1>1 DEF Removes, Write
  <2> QED BY <2>1, <1>1, <1>2, <1>4, <1>5, <1>8 DEF ReadyRemove, Clears
<1>13. ReadyClean(Z, x, D, E, c)
  <2> SUFFICES ASSUME Cleans(x) PROVE ReadyClean(Z, x, D, E, c)
    BY DEF ReadyClean
  <2>1. x.key \in Ids
    BY <1>1 DEF Cleans, Write
  <2>2. Gone(S, c, x.key) => Gone(Z, c, x.key)
    BY <2>1, <1>4, <1>5 DEF Gone
  <2> QED BY <2>2, <1>1, <1>2, <1>6, <1>8 DEF ReadyClean
<1>14. ReadyEnd(Z, x, D, e, n)
  BY <1>1, <1>2, <1>3, <1>5, <1>7 DEF ReadyEnd, Recoverable, Live
<1>15. ReadyRecord(Z, x, D)
  BY <1>1, <1>2, <1>3, <1>5, <1>7 DEF ReadyRecord
<1>16. ReadyRenew(Z, x, D, n)
  BY <1>1, <1>2 DEF ReadyRenew
<1> QED BY <1>9, <1>10, <1>11, <1>12, <1>13, <1>14, <1>15, <1>16 DEF ReadyAt

(* The same when a session is claimed: its request file comes next.        *)
LEMMA AfterClaim ==
    ASSUME NEW S, NEW Z, NEW h, NEW x, NEW B, NEW D, NEW p, NEW q, NEW A, NEW E,
           NEW e, NEW n, NEW c, NEW p0,
           Comes(S, Z, h, x, B, D, p, q, A, E, e, n, c, p0), Claims(h)
    PROVE  ReadyAt(Z, x, D, q, E, e, n, c)
<1>1. /\ S \in Store /\ h \in Write /\ Z = Done(S, h) /\ x \in Write
      /\ B = D \cup {h} /\ h \in A /\ E \subseteq A /\ B \subseteq Write
      /\ (D = {} => p = h) /\ (D # {} => q = p)
      /\ h.file = "active" /\ h.value # NoRequest
  BY DEF Comes, Claims
<1>2. /\ ReadyClaim(S, h, {}, n, c)
      /\ ReadyClear(S, x, B, n) /\ ReadyClaim(S, x, B, n, c)
      /\ ReadyOpen(S, x, B, p, e, n, c) /\ ReadyRemove(S, x, B, A, n)
      /\ ReadyClean(S, x, B, A, c) /\ ReadyEnd(S, x, B, e, n)
      /\ ReadyRecord(S, x, B) /\ ReadyRenew(S, x, B, n)
  BY <1>1 DEF Comes, ReadyAt
<1>3. ~Renews(x)
  BY <1>1, <1>2 DEF ReadyRenew
<1>4. /\ h.key \in Sessions /\ Z \in Store
      /\ Z.active[h.key] = h.value
      /\ \A s \in Sessions : s # h.key => Z.active[s] = S.active[s]
      /\ Z.request = S.request /\ Z.renewal = S.renewal /\ Z.marker = S.marker
      /\ Z.observation = S.observation /\ Z.live = S.live
  BY <1>1, DoneActive
<1>5. \A r : /\ Has(Z, r) <=> Has(S, r)
             /\ Ended(Z, r) <=> Ended(S, r)
             /\ Pending(Z, n, r) <=> Pending(S, n, r)
             /\ Untouched(Z, r) <=> Untouched(S, r)
  BY <1>4 DEF Has, Ended, Until, Pending, Untouched, Live
<1>6. ~Clears(h) /\ ~Opens(h) /\ ~Removes(h) /\ ~Ends(h) /\ h.value.session = h.key
  BY <1>1, <1>2 DEF Clears, Opens, Removes, Ends, ReadyClaim, Claims
<1>7. \A r : (EndsIn(B, r) <=> EndsIn(D, r)) /\ (OpensIn(B, r) <=> OpensIn(D, r))
  BY <1>1, <1>6 DEF EndsIn, OpensIn
<1>8. ~Purging(A)
  BY <1>1 DEF Purging
<1>9. ~Claims(x)
  BY <1>1, <1>2, <1>6 DEF ReadyClaim
<1>10. ~Removes(x) /\ ~Cleans(x)
  BY <1>2, <1>8 DEF ReadyRemove, ReadyClean
<1>11. ReadyClear(Z, x, D, n)
  BY <1>2, <1>4, <1>5, <1>7 DEF ReadyClear
<1>12. ReadyOpen(Z, x, D, q, e, n, c)
  <2> SUFFICES ASSUME Opens(x) PROVE ReadyOpen(Z, x, D, q, e, n, c)
    BY DEF ReadyOpen
  <2>1. B # {}
    BY <1>1
  <2>2. p.file = "active" /\ p.key = x.value.session /\ p.value = x.value
    BY <2>1, <1>2 DEF ReadyOpen
  <2>3. D = {} => Z.active[x.value.session] = x.value
    BY <2>2, <1>1, <1>4
  <2> QED BY <2>2, <2>3, <1>1, <1>2, <1>5 DEF ReadyOpen
<1>13. ReadyEnd(Z, x, D, e, n)
  BY <1>1, <1>2, <1>4, <1>5, <1>7 DEF ReadyEnd, Recoverable, Live
<1>14. ReadyRecord(Z, x, D)
  BY <1>1, <1>2, <1>4, <1>5, <1>7 DEF ReadyRecord
<1> QED BY <1>3, <1>9, <1>10, <1>11, <1>12, <1>13, <1>14
        DEF ReadyAt, ReadyClaim, ReadyRemove, ReadyClean, ReadyRenew

(* The same when a request file is written: the request may end then.      *)
LEMMA AfterOpen ==
    ASSUME NEW S, NEW Z, NEW h, NEW x, NEW B, NEW D, NEW p, NEW q, NEW A, NEW E,
           NEW e, NEW n, NEW c, NEW p0,
           Comes(S, Z, h, x, B, D, p, q, A, E, e, n, c, p0), Opens(h)
    PROVE  ReadyAt(Z, x, D, q, E, e, n, c)
<1>1. /\ S \in Store /\ h \in Write /\ Z = Done(S, h) /\ x \in Write
      /\ B = D \cup {h} /\ h \in A /\ E \subseteq A /\ B \subseteq Write
      /\ (D = {} => p = h) /\ (D # {} => q = p)
      /\ h.file = "request" /\ h.value # NoRequest
  BY DEF Comes, Opens
<1>2. /\ ReadyOpen(S, h, {}, p0, e, n, c)
      /\ ReadyClear(S, x, B, n) /\ ReadyClaim(S, x, B, n, c)
      /\ ReadyOpen(S, x, B, p, e, n, c) /\ ReadyRemove(S, x, B, A, n)
      /\ ReadyClean(S, x, B, A, c) /\ ReadyEnd(S, x, B, e, n)
      /\ ReadyRecord(S, x, B) /\ ReadyRenew(S, x, B, n)
  BY <1>1 DEF Comes, ReadyAt
<1>3. ~Renews(x)
  BY <1>1, <1>2 DEF ReadyRenew
<1>4. /\ h.key \in Ids /\ Z \in Store
      /\ Z.request[h.key] = h.value
      /\ \A r \in Ids : r # h.key => Z.request[r] = S.request[r]
      /\ Z.active = S.active /\ Z.renewal = S.renewal /\ Z.marker = S.marker
      /\ Z.observation = S.observation /\ Z.live = S.live
  BY <1>1, DoneRequest
<1>5. ~Clears(h) /\ ~Removes(h) /\ ~Ends(h) /\ h.file # "active"
  BY <1>1 DEF Clears, Removes, Ends
<1>6. /\ \A r \in Ids : r # h.key =>
            /\ Has(Z, r) <=> Has(S, r)
            /\ Pending(Z, n, r) <=> Pending(S, n, r)
      /\ \A r : Ended(Z, r) <=> Ended(S, r)
      /\ Has(Z, h.key)
  BY <1>1, <1>4 DEF Has, Ended, Until, Pending
<1>7. Pending(Z, n, h.key)
  <2>1. n <= h.value.expiresAt /\ ~Ended(S, h.key) /\ S.renewal[h.key] = 0
    BY <1>2 DEF ReadyOpen, Untouched
  <2>2. h.value.expiresAt \in Nat
    BY <1>1 DEF Write, Request, NoRequest
  <2> QED BY <2>1, <2>2, <1>4, <1>6 DEF Pending, Until, Comes
<1>8. /\ \A r : EndsIn(B, r) <=> EndsIn(D, r)
      /\ \A r \in Ids : r # h.key => (OpensIn(B, r) <=> OpensIn(D, r))
      /\ OpensIn(B, h.key)
  BY <1>1, <1>5 DEF EndsIn, OpensIn
<1>9. ~Purging(A)
  BY <1>1 DEF Purging
<1>10. ~Claims(x) /\ ~Opens(x)
  BY <1>1, <1>2, <1>5 DEF ReadyClaim, ReadyOpen
<1>11. ~Removes(x) /\ ~Cleans(x)
  BY <1>2, <1>9 DEF ReadyRemove, ReadyClean
<1>12. ReadyClear(Z, x, D, n)
  <2> SUFFICES ASSUME Clears(x), NEW r \in Ids,
                      (Pending(Z, n, r) /\ Z.request[r].session = x.key) \/ OpensIn(D, r)
               PROVE  EndsIn(D, r)
    BY DEF ReadyClear
  <2>1. CASE r = h.key
    BY <2>1, <1>2, <1>8 DEF ReadyClear
  <2>2. CASE r # h.key
    BY <2>2, <1>2, <1>4, <1>6, <1>8 DEF ReadyClear
  <2> QED BY <2>1, <2>2
<1>13. ReadyEnd(Z, x, D, e, n)
  <2> SUFFICES ASSUME Ends(x) PROVE ReadyEnd(Z, x, D, e, n)
    BY DEF ReadyEnd
  <2>1. x.key \in Ids
    BY <1>1 DEF Ends, Write
  <2>2. Pending(Z, n, x.key) \/ OpensIn(D, x.key)
    BY <2>1, <1>2, <1>6, <1>7, <1>8 DEF ReadyEnd
  <2> QED BY <2>2, <1>1, <1>2, <1>4 DEF ReadyEnd, Recoverable, Live
<1>14. ReadyRecord(Z, x, D)
  <2> SUFFICES ASSUME Records(x) PROVE ReadyRecord(Z, x, D)
    BY DEF ReadyRecord
  <2>1. x.key \in Ids
    BY <1>1 DEF Records, Write
  <2> QED BY <2>1, <1>1, <1>2, <1>4, <1>6, <1>8 DEF ReadyRecord
<1> QED BY <1>3, <1>10, <1>11, <1>12, <1>13, <1>14
        DEF ReadyAt, ReadyClaim, ReadyOpen, ReadyRemove, ReadyClean, ReadyRenew

(* The same when a request file is removed: its other files may go then.   *)
LEMMA AfterRemove ==
    ASSUME NEW S, NEW Z, NEW h, NEW x, NEW B, NEW D, NEW p, NEW q, NEW A, NEW E,
           NEW e, NEW n, NEW c, NEW p0,
           Comes(S, Z, h, x, B, D, p, q, A, E, e, n, c, p0), Removes(h)
    PROVE  ReadyAt(Z, x, D, q, E, e, n, c)
<1>1. /\ S \in Store /\ h \in Write /\ Z = Done(S, h) /\ x \in Write
      /\ B = D \cup {h} /\ h \in A /\ E \subseteq A /\ B \subseteq Write
      /\ (D = {} => p = h) /\ (D # {} => q = p)
      /\ h.file = "request" /\ h.value = NoRequest
  BY DEF Comes, Removes
<1>2. /\ ReadyRemove(S, h, {}, A, n) /\ x \in A /\ Unborn(S, c) /\ c \in Nat
      /\ ReadyClear(S, x, B, n) /\ ReadyClaim(S, x, B, n, c)
      /\ ReadyOpen(S, x, B, p, e, n, c) /\ ReadyRemove(S, x, B, A, n)
      /\ ReadyClean(S, x, B, A, c) /\ ReadyEnd(S, x, B, e, n)
      /\ ReadyRecord(S, x, B) /\ ReadyRenew(S, x, B, n)
  BY <1>1 DEF Comes, ReadyAt
<1>3. ~Renews(x)
  BY <1>1, <1>2 DEF ReadyRenew
<1>4. /\ h.key \in Ids /\ Z \in Store
      /\ Z.request[h.key] = NoRequest
      /\ \A r \in Ids : r # h.key => Z.request[r] = S.request[r]
      /\ Z.active = S.active /\ Z.renewal = S.renewal /\ Z.marker = S.marker
      /\ Z.observation = S.observation /\ Z.live = S.live
  BY <1>1, DoneRequest
<1>5. ~Opens(h) /\ ~Ends(h) /\ ~Clears(h)
  BY <1>1 DEF Opens, Ends, Clears
<1>6. /\ \A r \in Ids : r # h.key =>
            /\ Has(Z, r) <=> Has(S, r)
            /\ Pending(Z, n, r) <=> Pending(S, n, r)
      /\ ~Has(Z, h.key) /\ ~Pending(Z, n, h.key)
  BY <1>1, <1>4 DEF Has, Ended, Until, Pending
<1>7. Purging(A) /\ Purging(E)
  BY <1>1, <1>2 DEF Purging, ReadyRemove
<1>8. ~Claims(x) /\ ~Opens(x) /\ ~Ends(x) /\ ~Records(x)
  BY <1>2, <1>7 DEF Purging
<1>9. \A r : (EndsIn(B, r) <=> EndsIn(D, r)) /\ (OpensIn(B, r) <=> OpensIn(D, r))
  BY <1>1, <1>5 DEF EndsIn, OpensIn
<1>10. ReadyClear(Z, x, D, n)
  BY <1>2, <1>4, <1>6, <1>9 DEF ReadyClear
<1>11. Gone(Z, c, h.key)
  <2>1. h.key < c
    BY <1>2, <1>4 DEF Unborn, ReadyRemove, Ids
  <2>2. \A s \in Sessions : S.active[s].id # h.key
    BY <1>2 DEF ReadyRemove
  <2> QED BY <2>1, <2>2, <1>4, <1>6 DEF Gone
<1>12. ReadyRemove(Z, x, D, E, n)
  <2> SUFFICES ASSUME Removes(x) PROVE ReadyRemove(Z, x, D, E, n)
    BY DEF ReadyRemove
  <2>1. x.key \in Ids /\ x.key # h.key
    BY <1>1, <1>2 DEF Removes, Write, ReadyRemove
  <2> QED BY <2>1, <1>1, <1>2, <1>4, <1>5, <1>6, <1>7 DEF ReadyRemove
<1>13. ReadyClean(Z, x, D, E, c)
  <2> SUFFICES ASSUME Cleans(x) PROVE ReadyClean(Z, x, D, E, c)
    BY DEF ReadyClean
  <2>1. x.key \in Ids
    BY <1>1 DEF Cleans, Write
  <2>2. CASE x.key = h.key
    BY <2>2, <1>7, <1>11 DEF ReadyClean
  <2>3. CASE x.key # h.key
    <3>1. Gone(S, c, x.key) => Gone(Z, c, x.key)
      BY <2>1, <2>3, <1>4, <1>6 DEF Gone
    <3> QED BY <3>1, <2>3, <1>1, <1>2, <1>7 DEF ReadyClean
  <2> QED BY <2>2, <2>3
<1> QED BY <1>3, <1>8, <1>10, <1>12, <1>13
        DEF ReadyAt, ReadyClaim, ReadyOpen, ReadyEnd, ReadyRecord, ReadyRenew

(* The same when another file of a removed request goes.                   *)
LEMMA AfterClean ==
    ASSUME NEW S, NEW Z, NEW h, NEW x, NEW B, NEW D, NEW p, NEW q, NEW A, NEW E,
           NEW e, NEW n, NEW c, NEW p0,
           Comes(S, Z, h, x, B, D, p, q, A, E, e, n, c, p0), Cleans(h)
    PROVE  ReadyAt(Z, x, D, q, E, e, n, c)
<1>1. /\ S \in Store /\ h \in Write /\ Z = Done(S, h) /\ x \in Write
      /\ B = D \cup {h} /\ h \in A /\ E \subseteq A /\ B \subseteq Write
      /\ (D = {} => p = h) /\ (D # {} => q = p)
      /\ h.file \in {"observation", "marker", "renewal"}
  BY DEF Comes, Cleans
<1>2. /\ ReadyClean(S, h, {}, A, c) /\ x \in A
      /\ ReadyClear(S, x, B, n) /\ ReadyClaim(S, x, B, n, c)
      /\ ReadyOpen(S, x, B, p, e, n, c) /\ ReadyRemove(S, x, B, A, n)
      /\ ReadyClean(S, x, B, A, c) /\ ReadyEnd(S, x, B, e, n)
      /\ ReadyRecord(S, x, B) /\ ReadyRenew(S, x, B, n)
  BY <1>1 DEF Comes, ReadyAt
<1>3. ~Renews(x)
  BY <1>1, <1>2 DEF ReadyRenew
<1>4. /\ h.key \in Ids /\ Z \in Store
      /\ \A r \in Ids : r # h.key => /\ Z.renewal[r] = S.renewal[r]
                                     /\ Z.marker[r] = S.marker[r]
      /\ Z.request = S.request /\ Z.active = S.active
  <2>1. CASE h.file = "observation"
    BY <2>1, <1>1, DoneObservation
  <2>2. CASE h.file = "marker"
    BY <2>2, <1>1, DoneMarker
  <2>3. CASE h.file = "renewal"
    BY <2>3, <1>1, DoneRenewal
  <2> QED BY <1>1, <2>1, <2>2, <2>3
<1>5. ~Opens(h) /\ ~Ends(h) /\ ~Clears(h) /\ ~Removes(h)
  BY <1>1 DEF Opens, Ends, Clears, Removes, Cleans
<1>6. Purging(A) /\ Purging(E) /\ Gone(S, c, h.key)
  BY <1>1, <1>2 DEF Purging, ReadyClean
<1>7. /\ \A r \in Ids : Has(Z, r) <=> Has(S, r)
      /\ \A r \in Ids : Pending(Z, n, r) <=> Pending(S, n, r)
      /\ ~Has(S, h.key)
  BY <1>4, <1>6 DEF Has, Ended, Until, Pending, Gone
<1>8. ~Claims(x) /\ ~Opens(x) /\ ~Ends(x) /\ ~Records(x)
  BY <1>2, <1>6 DEF Purging
<1>9. \A r : (EndsIn(B, r) <=> EndsIn(D, r)) /\ (OpensIn(B, r) <=> OpensIn(D, r))
  BY <1>1, <1>5 DEF EndsIn, OpensIn
<1>10. ReadyClear(Z, x, D, n)
  BY <1>2, <1>4, <1>7, <1>9 DEF ReadyClear
<1>11. ReadyRemove(Z, x, D, E, n)
  <2> SUFFICES ASSUME Removes(x) PROVE ReadyRemove(Z, x, D, E, n)
    BY DEF ReadyRemove
  <2>1. x.key \in Ids
    BY <1>1 DEF Removes, Write
  <2> QED BY <2>1, <1>1, <1>2, <1>4, <1>5, <1>6, <1>7 DEF ReadyRemove
<1>12. ReadyClean(Z, x, D, E, c)
  <2> SUFFICES ASSUME Cleans(x) PROVE ReadyClean(Z, x, D, E, c)
    BY DEF ReadyClean
  <2>1. x.key \in Ids
    BY <1>1 DEF Cleans, Write
  <2>2. Gone(S, c, x.key) => Gone(Z, c, x.key)
    BY <2>1, <1>4, <1>7 DEF Gone
  <2> QED BY <2>2, <1>1, <1>2, <1>5, <1>6 DEF ReadyClean
<1> QED BY <1>3, <1>8, <1>10, <1>11, <1>12
        DEF ReadyAt, ReadyClaim, ReadyOpen, ReadyEnd, ReadyRecord, ReadyRenew

(* The same when a request is marked: its final and the revocation follow. *)
LEMMA AfterEnd ==
    ASSUME NEW S, NEW Z, NEW h, NEW x, NEW B, NEW D, NEW p, NEW q, NEW A, NEW E,
           NEW e, NEW n, NEW c, NEW p0,
           Comes(S, Z, h, x, B, D, p, q, A, E, e, n, c, p0), Ends(h)
    PROVE  ReadyAt(Z, x, D, q, E, e, n, c)
<1>1. /\ S \in Store /\ h \in Write /\ Z = Done(S, h) /\ x \in Write
      /\ B = D \cup {h} /\ h \in A /\ E \subseteq A /\ B \subseteq Write
      /\ (D = {} => p = h) /\ (D # {} => q = p)
      /\ h.file = "marker" /\ h.value # NoMarker
  BY DEF Comes, Ends
<1>2. /\ ReadyEnd(S, h, {}, e, n) /\ \A b \in D : ~Opens(b)
      /\ ReadyClear(S, x, B, n) /\ ReadyClaim(S, x, B, n, c)
      /\ ReadyOpen(S, x, B, p, e, n, c) /\ ReadyRemove(S, x, B, A, n)
      /\ ReadyClean(S, x, B, A, c) /\ ReadyEnd(S, x, B, e, n)
      /\ ReadyRecord(S, x, B) /\ ReadyRenew(S, x, B, n)
  BY <1>1 DEF Comes, ReadyAt
<1>3. ~Renews(x)
  BY <1>1, <1>2 DEF ReadyRenew
<1>4. /\ h.key \in Ids /\ Z \in Store
      /\ Z.marker[h.key] = h.value
      /\ \A r \in Ids : r # h.key => Z.marker[r] = S.marker[r]
      /\ Z.request = S.request /\ Z.active = S.active /\ Z.renewal = S.renewal
      /\ Z.observation = S.observation /\ Z.live = S.live
  BY <1>1, DoneMarker
<1>5. ~Opens(h) /\ ~Clears(h) /\ ~Removes(h) /\ h.file # "active"
  BY <1>1 DEF Opens, Clears, Removes
<1>6. ~Purging(A)
  BY <1>1 DEF Purging
<1>7. ~Claims(x) /\ ~Opens(x)
  BY <1>1, <1>2, <1>5 DEF ReadyClaim, ReadyOpen
<1>8. ~Removes(x) /\ ~Cleans(x)
  BY <1>2, <1>6 DEF ReadyRemove, ReadyClean
<1>9. /\ \A r \in Ids : Has(Z, r) <=> Has(S, r)
      /\ \A r \in Ids : r # h.key => /\ Pending(Z, n, r) <=> Pending(S, n, r)
                                     /\ Ended(Z, r) <=> Ended(S, r)
      /\ Ended(Z, h.key) /\ ~Pending(Z, n, h.key)
  BY <1>1, <1>4 DEF Has, Ended, Until, Pending
<1>10. \A r : ~OpensIn(D, r) /\ ~OpensIn(B, r)
  BY <1>1, <1>2, <1>5 DEF OpensIn
<1>11. \A r : r # h.key => (EndsIn(B, r) <=> EndsIn(D, r))
  BY <1>1 DEF EndsIn
<1>12. ReadyClear(Z, x, D, n)
  BY <1>2, <1>4, <1>9, <1>10, <1>11 DEF ReadyClear
<1>13. ReadyEnd(Z, x, D, e, n)
  <2> SUFFICES ASSUME Ends(x) PROVE ReadyEnd(Z, x, D, e, n)
    BY DEF ReadyEnd
  <2>1. x.key \in Ids /\ x.key # h.key
    BY <1>1, <1>2 DEF Ends, Write, ReadyEnd
  <2> QED BY <2>1, <1>1, <1>2, <1>4, <1>9, <1>10 DEF ReadyEnd, Recoverable, Live
<1>14. ReadyRecord(Z, x, D)
  <2> SUFFICES ASSUME Records(x) PROVE ReadyRecord(Z, x, D)
    BY DEF ReadyRecord
  <2>1. x.key \in Ids
    BY <1>1 DEF Records, Write
  <2>2. CASE x.key = h.key
    BY <2>2, <1>1, <1>2, <1>4, <1>9 DEF ReadyRecord
  <2>3. CASE x.key # h.key
    BY <2>1, <2>3, <1>1, <1>2, <1>4, <1>9, <1>11 DEF ReadyRecord
  <2> QED BY <2>2, <2>3
<1> QED BY <1>3, <1>7, <1>8, <1>12, <1>13, <1>14
        DEF ReadyAt, ReadyClaim, ReadyOpen, ReadyRemove, ReadyClean, ReadyRenew

(* The same when an observation is recorded.                               *)
LEMMA AfterRecord ==
    ASSUME NEW S, NEW Z, NEW h, NEW x, NEW B, NEW D, NEW p, NEW q, NEW A, NEW E,
           NEW e, NEW n, NEW c, NEW p0,
           Comes(S, Z, h, x, B, D, p, q, A, E, e, n, c, p0), Records(h)
    PROVE  ReadyAt(Z, x, D, q, E, e, n, c)
<1>1. /\ S \in Store /\ h \in Write /\ Z = Done(S, h) /\ x \in Write
      /\ B = D \cup {h} /\ h \in A /\ E \subseteq A /\ B \subseteq Write
      /\ (D = {} => p = h) /\ (D # {} => q = p)
      /\ h.file = "observation" /\ h.value # NoState
  BY DEF Comes, Records
<1>2. /\ h \in A
      /\ ReadyClear(S, x, B, n) /\ ReadyClaim(S, x, B, n, c)
      /\ ReadyOpen(S, x, B, p, e, n, c) /\ ReadyRemove(S, x, B, A, n)
      /\ ReadyClean(S, x, B, A, c) /\ ReadyEnd(S, x, B, e, n)
      /\ ReadyRecord(S, x, B) /\ ReadyRenew(S, x, B, n)
  BY <1>1 DEF Comes, ReadyAt
<1>3. ~Renews(x)
  BY <1>1, <1>2 DEF ReadyRenew
<1>4. /\ h.key \in Ids /\ Z \in Store
      /\ \A r \in Ids : r # h.key => Z.observation[r] = S.observation[r]
      /\ Z.request = S.request /\ Z.active = S.active /\ Z.renewal = S.renewal
      /\ Z.marker = S.marker /\ Z.live = S.live
  BY <1>1, DoneObservation
<1>5. ~Opens(h) /\ ~Clears(h) /\ ~Removes(h) /\ ~Ends(h) /\ h.file # "active"
  BY <1>1 DEF Opens, Clears, Removes, Ends
<1>6. ~Purging(A)
  BY <1>1 DEF Purging
<1>7. ~Claims(x) /\ ~Opens(x)
  BY <1>1, <1>2, <1>5 DEF ReadyClaim, ReadyOpen
<1>8. ~Removes(x) /\ ~Cleans(x)
  BY <1>2, <1>6 DEF ReadyRemove, ReadyClean
<1>9. \A r : /\ Has(Z, r) <=> Has(S, r)
             /\ Ended(Z, r) <=> Ended(S, r)
             /\ Pending(Z, n, r) <=> Pending(S, n, r)
  BY <1>4 DEF Has, Ended, Until, Pending
<1>10. \A r : (EndsIn(B, r) <=> EndsIn(D, r)) /\ (OpensIn(B, r) <=> OpensIn(D, r))
  BY <1>1, <1>5 DEF EndsIn, OpensIn
<1>11. ReadyClear(Z, x, D, n)
  BY <1>2, <1>4, <1>9, <1>10 DEF ReadyClear
<1>12. ReadyEnd(Z, x, D, e, n)
  <2> SUFFICES ASSUME Ends(x) PROVE ReadyEnd(Z, x, D, e, n)
    BY DEF ReadyEnd
  <2>1. x.key \in Ids /\ x.key # h.key
    BY <1>1, <1>2 DEF Ends, Write, ReadyEnd
  <2> QED BY <2>1, <1>1, <1>2, <1>4, <1>9, <1>10 DEF ReadyEnd, Recoverable, Live
<1>13. ReadyRecord(Z, x, D)
  BY <1>1, <1>2, <1>4, <1>9, <1>10 DEF ReadyRecord
<1> QED BY <1>3, <1>7, <1>8, <1>11, <1>12, <1>13
        DEF ReadyAt, ReadyClaim, ReadyOpen, ReadyRemove, ReadyClean, ReadyRenew

(* The same when a request is renewed.                                     *)
LEMMA AfterRenew ==
    ASSUME NEW S, NEW Z, NEW h, NEW x, NEW B, NEW D, NEW p, NEW q, NEW A, NEW E,
           NEW e, NEW n, NEW c, NEW p0,
           Comes(S, Z, h, x, B, D, p, q, A, E, e, n, c, p0), Renews(h)
    PROVE  ReadyAt(Z, x, D, q, E, e, n, c)
<1>1. /\ S \in Store /\ h \in Write /\ Z = Done(S, h) /\ x \in Write
      /\ B = D \cup {h} /\ h \in A /\ E \subseteq A /\ B \subseteq Write
      /\ (D = {} => p = h) /\ (D # {} => q = p)
      /\ h.file = "renewal" /\ h.value # 0
  BY DEF Comes, Renews
<1>2. /\ ReadyRenew(S, h, {}, n) /\ n \in Nat
      /\ ReadyClear(S, x, B, n) /\ ReadyClaim(S, x, B, n, c)
      /\ ReadyOpen(S, x, B, p, e, n, c) /\ ReadyRemove(S, x, B, A, n)
      /\ ReadyClean(S, x, B, A, c) /\ ReadyEnd(S, x, B, e, n)
      /\ ReadyRecord(S, x, B) /\ ReadyRenew(S, x, B, n)
  BY <1>1 DEF Comes, ReadyAt
<1>3. ~Renews(x)
  BY <1>1, <1>2 DEF ReadyRenew
<1>4. /\ h.key \in Ids /\ Z \in Store /\ h.value \in Nat
      /\ Z.renewal[h.key] = h.value
      /\ \A r \in Ids : r # h.key => Z.renewal[r] = S.renewal[r]
      /\ Z.request = S.request /\ Z.active = S.active /\ Z.observation = S.observation
      /\ Z.marker = S.marker /\ Z.live = S.live
  BY <1>1, DoneRenewal
<1>5. ~Opens(h) /\ ~Clears(h) /\ ~Removes(h) /\ ~Ends(h) /\ h.file # "active"
  BY <1>1 DEF Opens, Clears, Removes, Ends
<1>6. ~Purging(A)
  BY <1>1 DEF Purging
<1>7. ~Claims(x) /\ ~Opens(x)
  BY <1>1, <1>2, <1>5 DEF ReadyClaim, ReadyOpen
<1>8. ~Removes(x) /\ ~Cleans(x)
  BY <1>2, <1>6 DEF ReadyRemove, ReadyClean
<1>9. /\ \A r : (Has(Z, r) <=> Has(S, r)) /\ (Ended(Z, r) <=> Ended(S, r))
      /\ Pending(S, n, h.key) /\ n <= h.value
  BY <1>1, <1>2, <1>4 DEF Has, Ended, ReadyRenew
<1>10. \A r \in Ids : Pending(Z, n, r) <=> Pending(S, n, r)
  <2> SUFFICES ASSUME NEW r \in Ids PROVE Pending(Z, n, r) <=> Pending(S, n, r)
    OBVIOUS
  <2>1. CASE r = h.key
    BY <2>1, <1>1, <1>2, <1>4, <1>9 DEF Pending, Until
  <2>2. CASE r # h.key
    BY <2>2, <1>4, <1>9 DEF Pending, Until
  <2> QED BY <2>1, <2>2
<1>11. \A r : (EndsIn(B, r) <=> EndsIn(D, r)) /\ (OpensIn(B, r) <=> OpensIn(D, r))
  BY <1>1, <1>5 DEF EndsIn, OpensIn
<1>12. ReadyClear(Z, x, D, n)
  BY <1>2, <1>4, <1>10, <1>11 DEF ReadyClear
<1>13. ReadyEnd(Z, x, D, e, n)
  <2> SUFFICES ASSUME Ends(x) PROVE ReadyEnd(Z, x, D, e, n)
    BY DEF ReadyEnd
  <2>1. x.key \in Ids
    BY <1>1 DEF Ends, Write
  <2> QED BY <2>1, <1>1, <1>2, <1>4, <1>10, <1>11 DEF ReadyEnd, Recoverable, Live
<1>14. ReadyRecord(Z, x, D)
  BY <1>1, <1>2, <1>4, <1>9, <1>11 DEF ReadyRecord
<1> QED BY <1>3, <1>7, <1>8, <1>12, <1>13, <1>14
        DEF ReadyAt, ReadyClaim, ReadyOpen, ReadyRemove, ReadyClean, ReadyRenew

(* The same for late evidence and a revocation.                            *)
LEMMA AfterOther ==
    ASSUME NEW S, NEW Z, NEW h, NEW x, NEW B, NEW D, NEW p, NEW q, NEW A, NEW E,
           NEW e, NEW n, NEW c, NEW p0,
           Comes(S, Z, h, x, B, D, p, q, A, E, e, n, c, p0), h.file \in {"late", "live"}
    PROVE  ReadyAt(Z, x, D, q, E, e, n, c)
<1>1. /\ S \in Store /\ h \in Write /\ Z = Done(S, h) /\ x \in Write
      /\ B = D \cup {h} /\ h \in A /\ E \subseteq A /\ B \subseteq Write
      /\ (D = {} => p = h) /\ (D # {} => q = p)
      /\ h.file \in {"late", "live"}
  BY DEF Comes
<1>2. /\ h \in A
      /\ ReadyClear(S, x, B, n) /\ ReadyClaim(S, x, B, n, c)
      /\ ReadyOpen(S, x, B, p, e, n, c) /\ ReadyRemove(S, x, B, A, n)
      /\ ReadyClean(S, x, B, A, c) /\ ReadyEnd(S, x, B, e, n)
      /\ ReadyRecord(S, x, B) /\ ReadyRenew(S, x, B, n)
  BY <1>1 DEF Comes, ReadyAt
<1>3. ~Renews(x)
  BY <1>1, <1>2 DEF ReadyRenew
<1>4. /\ Z \in Store
      /\ \A r \in Ids : Live(Z, r) => Live(S, r)
      /\ Z.request = S.request /\ Z.active = S.active /\ Z.renewal = S.renewal
      /\ Z.observation = S.observation /\ Z.marker = S.marker
  <2>1. CASE h.file = "late"
    <3>1. /\ Z \in Store
          /\ Z.active = S.active /\ Z.request = S.request /\ Z.renewal = S.renewal
          /\ Z.observation = S.observation /\ Z.marker = S.marker /\ Z.live = S.live
      BY <2>1, <1>1, DoneLate
    <3> QED BY <3>1 DEF Live
  <2>2. CASE h.file = "live"
    BY <2>2, <1>1, DoneLive
  <2> QED BY <1>1, <2>1, <2>2
<1>5. ~Opens(h) /\ ~Clears(h) /\ ~Removes(h) /\ ~Ends(h) /\ h.file # "active"
  BY <1>1 DEF Opens, Clears, Removes, Ends
<1>6. ~Claims(x) /\ ~Opens(x)
  BY <1>1, <1>2, <1>5 DEF ReadyClaim, ReadyOpen
<1>7. Purging(A) => Purging(E)
  BY <1>1 DEF Purging
<1>8. \A r : /\ Has(Z, r) <=> Has(S, r)
             /\ Ended(Z, r) <=> Ended(S, r)
             /\ Pending(Z, n, r) <=> Pending(S, n, r)
  BY <1>4 DEF Has, Ended, Until, Pending
<1>9. \A r : (EndsIn(B, r) <=> EndsIn(D, r)) /\ (OpensIn(B, r) <=> OpensIn(D, r))
  BY <1>1, <1>5 DEF EndsIn, OpensIn
<1>10. ReadyClear(Z, x, D, n)
  BY <1>2, <1>4, <1>8, <1>9 DEF ReadyClear
<1>11. ReadyRemove(Z, x, D, E, n)
  BY <1>1, <1>2, <1>4, <1>5, <1>7, <1>8 DEF ReadyRemove
<1>12. ReadyClean(Z, x, D, E, c)
  BY <1>1, <1>2, <1>4, <1>5, <1>7, <1>8 DEF ReadyClean, Gone
<1>13. ReadyEnd(Z, x, D, e, n)
  <2> SUFFICES ASSUME Ends(x) PROVE ReadyEnd(Z, x, D, e, n)
    BY DEF ReadyEnd
  <2>1. x.key \in Ids
    BY <1>1 DEF Ends, Write
  <2> QED BY <2>1, <1>1, <1>2, <1>4, <1>8, <1>9 DEF ReadyEnd, Recoverable
<1>14. ReadyRecord(Z, x, D)
  BY <1>1, <1>2, <1>4, <1>8, <1>9 DEF ReadyRecord
<1> QED BY <1>3, <1>6, <1>10, <1>11, <1>12, <1>13, <1>14
        DEF ReadyAt, ReadyClaim, ReadyOpen, ReadyRenew

(* Whatever is changed first, the later changes may still be made.         *)
LEMMA After ==
    ASSUME NEW S, NEW Z, NEW h, NEW x, NEW B, NEW D, NEW p, NEW q, NEW A, NEW E,
           NEW e, NEW n, NEW c, NEW p0,
           Comes(S, Z, h, x, B, D, p, q, A, E, e, n, c, p0)
    PROVE  ReadyAt(Z, x, D, q, E, e, n, c)
<1>1. \/ Clears(h) \/ Claims(h) \/ Opens(h) \/ Removes(h) \/ Cleans(h) \/ Ends(h)
      \/ Records(h) \/ Renews(h) \/ h.file \in {"late", "live"}
  BY WriteKinds DEF Comes, Clears, Claims, Opens, Removes, Cleans, Ends, Records, Renews
<1> QED BY <1>1, AfterClear, AfterClaim, AfterOpen, AfterRemove, AfterClean, AfterEnd,
           AfterRecord, AfterRenew, AfterOther

(* The changes that are left when the first one is made.                   *)
LEMMA Shift ==
    ASSUME NEW T \in Seq(Write), T # <<>>, NEW U, U = Tail(T)
    PROVE  /\ 1 \in Positions(T) /\ T[1] \in Write /\ T[1] \in All(T)
           /\ Earlier(T, 1) = {}
           /\ U \in Seq(Write) /\ All(U) \subseteq All(T)
           /\ U = <<>> => Last(T) = T[1]
<1>1. /\ Len(T) \in Nat \ {0} /\ U \in Seq(Write) /\ Len(U) = Len(T) - 1
      /\ \A k \in 1..Len(U) : U[k] = T[k + 1]
  OBVIOUS
<1>2. 1 \in Positions(T) /\ Earlier(T, 1) = {} /\ T[1] \in Write /\ T[1] \in All(T)
  BY <1>1 DEF Positions, Earlier, All
<1>3. \A k \in Positions(U) : k + 1 \in Positions(T) /\ U[k] = T[k + 1]
  BY <1>1 DEF Positions
<1>4. All(U) \subseteq All(T)
  BY <1>3 DEF All
<1>5. U = <<>> => Last(T) = T[1]
  <2> SUFFICES ASSUME U = <<>> PROVE Len(T) = 1
    BY DEF Last
  <2>1. Len(U) = 0
    BY <1>1, EmptySeq
  <2> QED BY <1>1, <2>1
<1> QED BY <1>1, <1>2, <1>4, <1>5

(* Their places, and what comes before each.                               *)
LEMMA ShiftAt ==
    ASSUME NEW T \in Seq(Write), T # <<>>, NEW U, U = Tail(T), NEW k \in Positions(U)
    PROVE  /\ k \in Nat /\ k + 1 \in Positions(T) /\ U[k] = T[k + 1]
           /\ U[k] \in Write /\ U[k] \in All(T)
           /\ Earlier(T, k + 1) \subseteq Write
           /\ Earlier(T, k + 1) = Earlier(U, k) \cup {T[1]}
           /\ Earlier(U, k) = {} => T[k] = T[1]
           /\ Earlier(U, k) # {} => U[k - 1] = T[k]
           /\ \A b \in Earlier(U, k) :
                 \E j \in Positions(T) : b = T[j] /\ T[1] \in Earlier(T, j)
           /\ Last(U) = Last(T)
<1>1. /\ Len(T) \in Nat \ {0} /\ Len(U) = Len(T) - 1
      /\ \A i \in 1..Len(U) : U[i] = T[i + 1]
  OBVIOUS
<1>2. \A i \in Positions(T) : T[i] \in Write /\ T[i] \in All(T)
  BY DEF Positions, All
<1>3. \A i \in Positions(U) : i + 1 \in Positions(T) /\ U[i] = T[i + 1]
  BY <1>1 DEF Positions
<1>4. k \in 1..Len(U) /\ k \in Nat
  BY <1>1 DEF Positions
<1>5. \A j \in 1..(k - 1) : /\ j \in Positions(U) /\ j + 1 \in 1..((k + 1) - 1)
                            /\ U[j] = T[j + 1]
  BY <1>1, <1>4 DEF Positions
<1>6. \A j \in 1..((k + 1) - 1) : /\ j \in Positions(T)
                                  /\ j = 1 \/ (j - 1 \in 1..(k - 1) /\ T[j] = U[j - 1])
  BY <1>1, <1>4 DEF Positions
<1>7. 1 \in 1..((k + 1) - 1)
  BY <1>4
<1>8. Earlier(T, k + 1) = Earlier(U, k) \cup {T[1]}
  <2>1. Earlier(U, k) \subseteq Earlier(T, k + 1)
    BY <1>5 DEF Earlier
  <2>2. T[1] \in Earlier(T, k + 1)
    BY <1>7 DEF Earlier
  <2>3. ASSUME NEW b \in Earlier(T, k + 1) PROVE b \in Earlier(U, k) \cup {T[1]}
    <3>1. PICK j \in 1..((k + 1) - 1) : b = T[j]
      BY DEF Earlier
    <3>2. CASE j = 1
      BY <3>1, <3>2
    <3>3. CASE j # 1
      BY <1>6, <3>1, <3>3 DEF Earlier
    <3> QED BY <3>2, <3>3
  <2> QED BY <2>1, <2>2, <2>3
<1>9. Earlier(T, k + 1) \subseteq Write
  BY <1>2, <1>6 DEF Earlier
<1>10. Last(U) = Last(T)
  <2>1. Len(U) + 1 = Len(T) /\ Len(U) \in 1..Len(U)
    BY <1>1, <1>4
  <2> QED BY <1>1, <2>1 DEF Last
<1>11. /\ Earlier(U, k) = {} => T[k] = T[1]
       /\ Earlier(U, k) # {} => U[k - 1] = T[k]
  <2>1. CASE k = 1
    BY <2>1 DEF Earlier
  <2>2. CASE k # 1
    <3>1. 1 \in 1..(k - 1) /\ k - 1 \in 1..Len(U) /\ k - 1 + 1 = k
      BY <1>1, <1>4, <2>2
    <3>2. Earlier(U, k) # {}
      BY <3>1 DEF Earlier
    <3>3. U[k - 1] = T[(k - 1) + 1]
      BY <1>1, <3>1
    <3> QED BY <3>1, <3>2, <3>3
  <2> QED BY <2>1, <2>2
<1>12. ASSUME NEW b \in Earlier(U, k)
       PROVE  \E j \in Positions(T) : b = T[j] /\ T[1] \in Earlier(T, j)
  <2>1. PICK i \in 1..(k - 1) : b = U[i]
    BY DEF Earlier
  <2>2. i + 1 \in Positions(T) /\ b = T[i + 1]
    BY <1>3, <1>5, <2>1
  <2>3. 1 \in 1..((i + 1) - 1)
    BY <1>4, <2>1
  <2>4. T[1] \in Earlier(T, i + 1)
    BY <2>3 DEF Earlier
  <2> QED BY <2>2, <2>4
<1>13. U[k] \in Write /\ U[k] \in All(T)
  BY <1>2, <1>3
<1> QED BY <1>3, <1>4, <1>8, <1>9, <1>10, <1>11, <1>12, <1>13

(* The changes that remain may still be made.                              *)
LEMMA StepReady ==
    ASSUME NEW S, NEW T, NEW n, NEW c, NEW Z, NEW U,
           Typed(S, T, n, c), Ready(S, T, n, c), Unborn(S, c),
           T # <<>>, Z = Done(S, T[1]), U = Tail(T)
    PROVE  Ready(Z, U, n, c)
<1>1. S \in Store /\ T \in Seq(Write) /\ n \in Nat /\ c \in Nat
  BY DEF Typed, Times
<1>2. /\ 1 \in Positions(T) /\ T[1] \in Write /\ T[1] \in All(T) /\ Earlier(T, 1) = {}
      /\ All(U) \subseteq All(T)
  BY <1>1, Shift
<1>3. ReadyAt(S, T[1], {}, T[1 - 1], All(T), Last(T), n, c)
  BY <1>2 DEF Ready
<1> SUFFICES ASSUME NEW k \in Positions(U)
             PROVE  ReadyAt(Z, U[k], Earlier(U, k), U[k - 1], All(U), Last(U), n, c)
  BY DEF Ready
<1>4. /\ k \in Nat /\ k + 1 \in Positions(T) /\ U[k] = T[k + 1]
      /\ U[k] \in Write /\ U[k] \in All(T)
      /\ Earlier(T, k + 1) \subseteq Write
      /\ Earlier(T, k + 1) = Earlier(U, k) \cup {T[1]}
      /\ Earlier(U, k) = {} => T[k] = T[1]
      /\ Earlier(U, k) # {} => U[k - 1] = T[k]
      /\ \A b \in Earlier(U, k) :
            \E j \in Positions(T) : b = T[j] /\ T[1] \in Earlier(T, j)
      /\ Last(U) = Last(T)
  <2>1. T \in Seq(Write) /\ T # <<>> /\ U = Tail(T)
    BY <1>1
  <2> QED BY <2>1, ShiftAt, Zenon
<1>5. ReadyAt(S, T[k + 1], Earlier(T, k + 1), T[(k + 1) - 1], All(T), Last(T), n, c)
  BY <1>4 DEF Ready
<1>6. (k + 1) - 1 = k
  BY <1>4
<1>7. ReadyAt(S, U[k], Earlier(T, k + 1), T[k], All(T), Last(T), n, c)
  BY <1>4, <1>5, <1>6
<1>8. ASSUME T[1].file # "active", NEW b \in Earlier(U, k) PROVE ~Opens(b)
  <2>1. PICK j \in Positions(T) : b = T[j] /\ T[1] \in Earlier(T, j)
    BY <1>4
  <2>2. ReadyOpen(S, T[j], Earlier(T, j), T[j - 1], Last(T), n, c)
    BY DEF Ready, ReadyAt
  <2> QED BY <1>8, <2>1, <2>2 DEF ReadyOpen
<1>9. Comes(S, Z, T[1], U[k], Earlier(T, k + 1), Earlier(U, k), T[k], U[k - 1],
            All(T), All(U), Last(T), n, c, T[1 - 1])
  BY <1>1, <1>2, <1>3, <1>4, <1>7, <1>8 DEF Comes
<1>10. ReadyAt(Z, U[k], Earlier(U, k), U[k - 1], All(U), Last(T), n, c)
  BY <1>9, After
<1> QED BY <1>4, <1>10

-----------------------------------------------------------------------------
(* The change h, the first of its handler, is made.                        *)
Starts(S, Z, h, A, e, n, c, p0) ==
    /\ S \in Store /\ h \in Write /\ Z = Done(S, h) /\ Named(S) /\ n \in Nat /\ c \in Nat
    /\ ReadyAt(S, h, {}, p0, A, e, n, c) /\ Files(S, n, c)

(* A request that is stored has the parts of one.                          *)
LEMMA RequestParts ==
    ASSUME NEW S \in Store, NEW r \in Ids, Has(S, r)
    PROVE  S.request[r] \in Request /\ S.request[r].session \in Sessions
BY DEF Has, Store, Request

(* Among no changes there is none.                                         *)
LEMMA NothingIn ==
    \A r : ~EndsIn({}, r) /\ ~OpensIn({}, r)
BY DEF EndsIn, OpensIn

(* A session is given up: its prompt is finished, so that no pending       *)
(* request loses its pointer.                                              *)
LEMMA ClearKeeps ==
    ASSUME NEW S, NEW Z, NEW h, NEW A, NEW e, NEW n, NEW c, NEW p0,
           Starts(S, Z, h, A, e, n, c, p0), Clears(h)
    PROVE  Files(Z, n, c) /\ Z \in Store /\ Named(Z)
<1>1. /\ S \in Store /\ h \in Write /\ Z = Done(S, h) /\ h.file = "active" /\ h.value = NoRequest
      /\ Named(S) /\ n \in Nat /\ c \in Nat
  BY DEF Starts, Clears
<1>2. ClaimsOwn(S, c) /\ Unborn(S, c) /\ OutcomeOpen(S) /\ ResultMarked(S, n) /\ PendingNamed(S, n)
  BY DEF Starts, Files
<1>3. \A r \in Ids : ~(Pending(S, n, r) /\ S.request[r].session = h.key)
  <2>1. ReadyClear(S, h, {}, n)
    BY DEF Starts, ReadyAt
  <2> QED BY <2>1, NothingIn DEF ReadyClear
<1>4. /\ h.key \in Sessions /\ Z \in Store
      /\ Z.active[h.key] = NoRequest
      /\ \A s \in Sessions : s # h.key => Z.active[s] = S.active[s]
      /\ Z.request = S.request /\ Z.renewal = S.renewal /\ Z.marker = S.marker
      /\ Z.observation = S.observation /\ Z.live = S.live
  BY <1>1, DoneActive
<1>5. \A s \in Sessions : Z.active[s] # NoRequest => s # h.key /\ Z.active[s] = S.active[s]
  BY <1>4
<1>6. \A r : /\ Has(Z, r) <=> Has(S, r)
             /\ Ended(Z, r) <=> Ended(S, r)
             /\ Pending(Z, n, r) <=> Pending(S, n, r)
             /\ Untouched(Z, r) <=> Untouched(S, r)
  BY <1>4 DEF Has, Ended, Until, Pending, Untouched, Live
<1>7. ClaimsOwn(Z, c)
  <2>1. \A s \in Sessions : Z.active[s] # NoRequest =>
          /\ Z.active[s].session = s /\ Z.active[s].id < c
          /\ Z.request[Z.active[s].id] \in {NoRequest, Z.active[s]}
          /\ ~Has(Z, Z.active[s].id) => Untouched(Z, Z.active[s].id)
    BY <1>2, <1>4, <1>5, <1>6 DEF ClaimsOwn
  <2>2. ASSUME NEW s \in Sessions, NEW t \in Sessions,
               Z.active[s] # NoRequest, Z.active[s].id = Z.active[t].id
        PROVE  s = t
    <3>1. Z.active[s].id # 0
      BY <1>1, <1>5, <2>2 DEF Store, Request, Ids
    <3>2. Z.active[t] # NoRequest
      BY <2>2, <3>1 DEF NoRequest
    <3> QED BY <1>2, <1>5, <2>2, <3>2 DEF ClaimsOwn
  <2> QED BY <2>1, <2>2 DEF ClaimsOwn
<1>8. Unborn(Z, c)
  BY <1>2, <1>6 DEF Unborn
<1>9. OutcomeOpen(Z) /\ ResultMarked(Z, n)
  BY <1>2, <1>4, <1>6 DEF OutcomeOpen, ResultMarked, Recoverable
<1>10. PendingNamed(Z, n)
  <2> SUFFICES ASSUME NEW r \in Ids, Pending(Z, n, r)
               PROVE  Z.active[Z.request[r].session].id = r
    BY DEF PendingNamed
  <2>1. Has(S, r) /\ Pending(S, n, r)
    BY <1>6 DEF Pending
  <2>2. S.request[r].session \in Sessions
    BY <2>1, <1>1, RequestParts
  <2> QED BY <2>1, <2>2, <1>2, <1>3, <1>4 DEF PendingNamed
<1>11. Named(Z)
  BY <1>1, <1>4, <1>6 DEF Named
<1> QED BY <1>4, <1>7, <1>8, <1>9, <1>10, <1>11 DEF Files

(* A session is claimed: nothing is stored of the new request yet.         *)
LEMMA ClaimKeeps ==
    ASSUME NEW S, NEW Z, NEW h, NEW A, NEW e, NEW n, NEW c, NEW p0,
           Starts(S, Z, h, A, e, n, c, p0), Claims(h)
    PROVE  Files(Z, n, c) /\ Z \in Store /\ Named(Z)
<1>1. /\ S \in Store /\ h \in Write /\ Z = Done(S, h) /\ h.file = "active" /\ h.value # NoRequest
      /\ Named(S) /\ n \in Nat /\ c \in Nat
  BY DEF Starts, Claims
<1>2. ClaimsOwn(S, c) /\ Unborn(S, c) /\ OutcomeOpen(S) /\ ResultMarked(S, n) /\ PendingNamed(S, n)
  BY DEF Starts, Files
<1>3. /\ h.value.session = h.key /\ h.value.id < c
      /\ ~Has(S, h.value.id) /\ Untouched(S, h.value.id)
      /\ \A s \in Sessions : S.active[s].id # h.value.id
      /\ \A r \in Ids : Pending(S, n, r) => S.request[r].session # h.key
  <2>1. ReadyClaim(S, h, {}, n, c)
    BY DEF Starts, ReadyAt
  <2> QED BY <2>1 DEF ReadyClaim
<1>4. /\ h.key \in Sessions /\ Z \in Store
      /\ Z.active[h.key] = h.value
      /\ \A s \in Sessions : s # h.key => Z.active[s] = S.active[s]
      /\ Z.request = S.request /\ Z.renewal = S.renewal /\ Z.marker = S.marker
      /\ Z.observation = S.observation /\ Z.live = S.live
  BY <1>1, DoneActive
<1>5. \A r : /\ Has(Z, r) <=> Has(S, r)
             /\ Ended(Z, r) <=> Ended(S, r)
             /\ Pending(Z, n, r) <=> Pending(S, n, r)
             /\ Untouched(Z, r) <=> Untouched(S, r)
  BY <1>4 DEF Has, Ended, Until, Pending, Untouched, Live
<1>6. ClaimsOwn(Z, c)
  <2>1. ASSUME NEW s \in Sessions, Z.active[s] # NoRequest
        PROVE  /\ Z.active[s].session = s /\ Z.active[s].id < c
               /\ Z.request[Z.active[s].id] \in {NoRequest, Z.active[s]}
               /\ ~Has(Z, Z.active[s].id) => Untouched(Z, Z.active[s].id)
    <3>1. CASE s = h.key
      BY <3>1, <1>3, <1>4, <1>5 DEF Has
    <3>2. CASE s # h.key
      BY <3>2, <2>1, <1>2, <1>4, <1>5 DEF ClaimsOwn
    <3> QED BY <3>1, <3>2
  <2>2. ASSUME NEW s \in Sessions, NEW t \in Sessions,
               Z.active[s] # NoRequest, Z.active[s].id = Z.active[t].id
        PROVE  s = t
    BY <2>2, <1>2, <1>3, <1>4 DEF ClaimsOwn
  <2> QED BY <2>1, <2>2 DEF ClaimsOwn
<1>7. Unborn(Z, c)
  BY <1>2, <1>5 DEF Unborn
<1>8. OutcomeOpen(Z) /\ ResultMarked(Z, n)
  BY <1>2, <1>4, <1>5 DEF OutcomeOpen, ResultMarked, Recoverable
<1>9. PendingNamed(Z, n)
  <2> SUFFICES ASSUME NEW r \in Ids, Pending(Z, n, r)
               PROVE  Z.active[Z.request[r].session].id = r
    BY DEF PendingNamed
  <2>1. Has(S, r) /\ Pending(S, n, r)
    BY <1>5 DEF Pending
  <2>2. S.request[r].session \in Sessions
    BY <2>1, <1>1, RequestParts
  <2> QED BY <2>1, <2>2, <1>2, <1>3, <1>4 DEF PendingNamed
<1>10. Named(Z)
  BY <1>1, <1>4, <1>5 DEF Named
<1> QED BY <1>4, <1>6, <1>7, <1>8, <1>9, <1>10 DEF Files

(* The request file follows: it is pending, and its session's.             *)
LEMMA OpenKeeps ==
    ASSUME NEW S, NEW Z, NEW h, NEW A, NEW e, NEW n, NEW c, NEW p0,
           Starts(S, Z, h, A, e, n, c, p0), Opens(h)
    PROVE  Files(Z, n, c) /\ Z \in Store /\ Named(Z)
<1>1. /\ S \in Store /\ h \in Write /\ Z = Done(S, h) /\ h.file = "request" /\ h.value # NoRequest
      /\ Named(S) /\ n \in Nat /\ c \in Nat
  BY DEF Starts, Opens
<1>2. ClaimsOwn(S, c) /\ Unborn(S, c) /\ OutcomeOpen(S) /\ ResultMarked(S, n) /\ PendingNamed(S, n)
  BY DEF Starts, Files
<1>3. /\ h.value.id = h.key /\ h.value.id < c
      /\ ~Has(S, h.key) /\ Untouched(S, h.key)
      /\ S.active[h.value.session] = h.value
  <2>1. ReadyOpen(S, h, {}, p0, e, n, c)
    BY DEF Starts, ReadyAt
  <2> QED BY <2>1 DEF ReadyOpen
<1>4. /\ h.key \in Ids /\ Z \in Store
      /\ Z.request[h.key] = h.value
      /\ \A r \in Ids : r # h.key => Z.request[r] = S.request[r]
      /\ Z.active = S.active /\ Z.renewal = S.renewal /\ Z.marker = S.marker
      /\ Z.observation = S.observation /\ Z.live = S.live
  BY <1>1, DoneRequest
<1>5. /\ \A r : Ended(Z, r) <=> Ended(S, r)
      /\ \A r : Untouched(Z, r) <=> Untouched(S, r)
      /\ \A r \in Ids : r # h.key => (Has(Z, r) <=> Has(S, r)) /\ (Pending(Z, n, r) <=> Pending(S, n, r))
      /\ h.value.session \in Sessions
  BY <1>1, <1>4 DEF Has, Ended, Until, Pending, Untouched, Live, Write, Request
<1>6. ClaimsOwn(Z, c)
  <2>1. ASSUME NEW s \in Sessions, Z.active[s] # NoRequest
        PROVE  /\ Z.active[s].session = s /\ Z.active[s].id < c
               /\ Z.request[Z.active[s].id] \in {NoRequest, Z.active[s]}
               /\ ~Has(Z, Z.active[s].id) => Untouched(Z, Z.active[s].id)
    <3>1. Z.active[s].id \in Ids
      BY <2>1, <1>4 DEF Store, Request
    <3>2. CASE Z.active[s].id = h.key
      <4>1. s = h.value.session
        BY <2>1, <3>2, <1>2, <1>3, <1>4, <1>5 DEF ClaimsOwn
      <4> QED BY <4>1, <1>2, <1>3, <1>4, <1>5, <2>1 DEF ClaimsOwn
    <3>3. CASE Z.active[s].id # h.key
      BY <3>1, <3>3, <2>1, <1>2, <1>4, <1>5 DEF ClaimsOwn
    <3> QED BY <3>2, <3>3
  <2>2. \A s, t \in Sessions :
          Z.active[s] # NoRequest /\ Z.active[s].id = Z.active[t].id => s = t
    BY <1>2, <1>4 DEF ClaimsOwn
  <2> QED BY <2>1, <2>2 DEF ClaimsOwn
<1>7. Unborn(Z, c)
  BY <1>1, <1>2, <1>3, <1>4, <1>5 DEF Unborn, Ids
<1>8. OutcomeOpen(Z)
  <2> SUFFICES ASSUME NEW r \in Ids, Has(Z, r), ~Ended(Z, r)
               PROVE  Z.observation[r].definitive.state # "final"
    BY DEF OutcomeOpen
  <2>1. CASE r = h.key
    BY <2>1, <1>3, <1>4 DEF Untouched, NoState, Nothing, None
  <2>2. CASE r # h.key
    BY <2>2, <1>2, <1>4, <1>5 DEF OutcomeOpen
  <2> QED BY <2>1, <2>2
<1>9. ResultMarked(Z, n)
  <2>1. ~Ended(Z, h.key)
    BY <1>3, <1>5 DEF Untouched
  <2> QED BY <2>1, <1>2, <1>4, <1>5 DEF ResultMarked, Recoverable
<1>10. PendingNamed(Z, n)
  <2> SUFFICES ASSUME NEW r \in Ids, Pending(Z, n, r)
               PROVE  Z.active[Z.request[r].session].id = r
    BY DEF PendingNamed
  <2>1. CASE r = h.key
    BY <2>1, <1>3, <1>4
  <2>2. CASE r # h.key
    BY <2>2, <1>2, <1>4, <1>5 DEF PendingNamed
  <2> QED BY <2>1, <2>2
<1>11. Named(Z)
  BY <1>1, <1>3, <1>4, <1>5 DEF Named
<1> QED BY <1>4, <1>6, <1>7, <1>8, <1>9, <1>10, <1>11 DEF Files

(* A request file is removed: no pointer names it, and it will never come  *)
(* back.                                                                   *)
LEMMA RemoveKeeps ==
    ASSUME NEW S, NEW Z, NEW h, NEW A, NEW e, NEW n, NEW c, NEW p0,
           Starts(S, Z, h, A, e, n, c, p0), Removes(h)
    PROVE  Files(Z, n, c) /\ Z \in Store /\ Named(Z)
<1>1. /\ S \in Store /\ h \in Write /\ Z = Done(S, h) /\ h.file = "request" /\ h.value = NoRequest
      /\ Named(S) /\ n \in Nat /\ c \in Nat
  BY DEF Starts, Removes
<1>2. ClaimsOwn(S, c) /\ Unborn(S, c) /\ OutcomeOpen(S) /\ ResultMarked(S, n) /\ PendingNamed(S, n)
  BY DEF Starts, Files
<1>3. Has(S, h.key) /\ \A s \in Sessions : S.active[s].id # h.key
  <2>1. ReadyRemove(S, h, {}, A, n)
    BY DEF Starts, ReadyAt
  <2> QED BY <2>1 DEF ReadyRemove
<1>4. /\ h.key \in Ids /\ Z \in Store
      /\ Z.request[h.key] = NoRequest
      /\ \A r \in Ids : r # h.key => Z.request[r] = S.request[r]
      /\ Z.active = S.active /\ Z.renewal = S.renewal /\ Z.marker = S.marker
      /\ Z.observation = S.observation /\ Z.live = S.live
  BY <1>1, DoneRequest
<1>5. /\ \A r : Ended(Z, r) <=> Ended(S, r)
      /\ \A r : Untouched(Z, r) <=> Untouched(S, r)
      /\ \A r \in Ids : r # h.key => (Has(Z, r) <=> Has(S, r)) /\ (Pending(Z, n, r) <=> Pending(S, n, r))
      /\ ~Has(Z, h.key) /\ ~Pending(Z, n, h.key)
  BY <1>1, <1>4 DEF Has, Ended, Until, Pending, Untouched, Live
<1>6. ClaimsOwn(Z, c)
  <2>1. ASSUME NEW s \in Sessions, Z.active[s] # NoRequest
        PROVE  /\ Z.active[s].session = s /\ Z.active[s].id < c
               /\ Z.request[Z.active[s].id] \in {NoRequest, Z.active[s]}
               /\ ~Has(Z, Z.active[s].id) => Untouched(Z, Z.active[s].id)
    <3>1. Z.active[s].id \in Ids /\ Z.active[s].id # h.key
      BY <2>1, <1>3, <1>4 DEF Store, Request
    <3> QED BY <3>1, <2>1, <1>2, <1>4, <1>5 DEF ClaimsOwn
  <2>2. \A s, t \in Sessions :
          Z.active[s] # NoRequest /\ Z.active[s].id = Z.active[t].id => s = t
    BY <1>2, <1>4 DEF ClaimsOwn
  <2> QED BY <2>1, <2>2 DEF ClaimsOwn
<1>7. Unborn(Z, c)
  BY <1>2, <1>5 DEF Unborn
<1>8. OutcomeOpen(Z) /\ ResultMarked(Z, n)
  BY <1>2, <1>4, <1>5 DEF OutcomeOpen, ResultMarked, Recoverable
<1>9. PendingNamed(Z, n)
  BY <1>2, <1>4, <1>5 DEF PendingNamed
<1>10. Named(Z)
  BY <1>1, <1>4, <1>5 DEF Named
<1> QED BY <1>4, <1>6, <1>7, <1>8, <1>9, <1>10 DEF Files

(* Another file of a request that is gone is removed.                      *)
LEMMA CleanKeeps ==
    ASSUME NEW S, NEW Z, NEW h, NEW A, NEW e, NEW n, NEW c, NEW p0,
           Starts(S, Z, h, A, e, n, c, p0), Cleans(h)
    PROVE  Files(Z, n, c) /\ Z \in Store /\ Named(Z)
<1>1. /\ S \in Store /\ h \in Write /\ Z = Done(S, h) /\ h.file \in {"observation", "marker", "renewal"}
      /\ Named(S) /\ n \in Nat /\ c \in Nat
  BY DEF Starts, Cleans
<1>2. ClaimsOwn(S, c) /\ Unborn(S, c) /\ OutcomeOpen(S) /\ ResultMarked(S, n) /\ PendingNamed(S, n)
  BY DEF Starts, Files
<1>3. ~Has(S, h.key) /\ h.key < c /\ \A s \in Sessions : S.active[s].id # h.key
  <2>1. ReadyClean(S, h, {}, A, c)
    BY DEF Starts, ReadyAt
  <2> QED BY <2>1 DEF ReadyClean, Gone
<1>4. /\ h.key \in Ids /\ Z \in Store
      /\ \A r \in Ids : r # h.key => /\ Z.renewal[r] = S.renewal[r]
                                     /\ Z.marker[r] = S.marker[r]
                                     /\ Z.observation[r] = S.observation[r]
      /\ Z.request = S.request /\ Z.active = S.active /\ Z.live = S.live
  <2>1. CASE h.file = "observation"
    BY <2>1, <1>1, DoneObservation
  <2>2. CASE h.file = "marker"
    BY <2>2, <1>1, DoneMarker
  <2>3. CASE h.file = "renewal"
    BY <2>3, <1>1, DoneRenewal
  <2> QED BY <1>1, <2>1, <2>2, <2>3
<1>5. /\ \A r : Has(Z, r) <=> Has(S, r)
      /\ \A r \in Ids : r # h.key => /\ Untouched(Z, r) <=> Untouched(S, r)
                                     /\ Ended(Z, r) <=> Ended(S, r)
      /\ \A r \in Ids : Pending(Z, n, r) <=> Pending(S, n, r)
  BY <1>3, <1>4 DEF Has, Ended, Until, Pending, Untouched, Live
<1>6. ClaimsOwn(Z, c)
  <2>1. ASSUME NEW s \in Sessions, Z.active[s] # NoRequest
        PROVE  /\ Z.active[s].session = s /\ Z.active[s].id < c
               /\ Z.request[Z.active[s].id] \in {NoRequest, Z.active[s]}
               /\ ~Has(Z, Z.active[s].id) => Untouched(Z, Z.active[s].id)
    <3>1. Z.active[s].id \in Ids /\ Z.active[s].id # h.key
      BY <2>1, <1>3, <1>4 DEF Store, Request
    <3> QED BY <3>1, <2>1, <1>2, <1>4, <1>5 DEF ClaimsOwn
  <2>2. \A s, t \in Sessions :
          Z.active[s] # NoRequest /\ Z.active[s].id = Z.active[t].id => s = t
    BY <1>2, <1>4 DEF ClaimsOwn
  <2> QED BY <2>1, <2>2 DEF ClaimsOwn
<1>7. Unborn(Z, c)
  BY <1>1, <1>2, <1>3, <1>4, <1>5 DEF Unborn, Ids
<1>8. OutcomeOpen(Z) /\ ResultMarked(Z, n)
  <2>1. \A r \in Ids : Has(Z, r) => /\ r # h.key /\ Has(S, r) /\ Z.marker[r] = S.marker[r]
                                    /\ Z.observation[r] = S.observation[r]
                                    /\ Ended(Z, r) <=> Ended(S, r)
    BY <1>3, <1>4, <1>5
  <2> QED BY <2>1, <1>2 DEF OutcomeOpen, ResultMarked, Recoverable
<1>9. PendingNamed(Z, n)
  BY <1>2, <1>4, <1>5 DEF PendingNamed
<1>10. Named(Z)
  BY <1>1, <1>4, <1>5 DEF Named
<1> QED BY <1>4, <1>6, <1>7, <1>8, <1>9, <1>10 DEF Files

(* A request is marked: with a result only if its candidate is stored.     *)
LEMMA EndKeeps ==
    ASSUME NEW S, NEW Z, NEW h, NEW A, NEW e, NEW n, NEW c, NEW p0,
           Starts(S, Z, h, A, e, n, c, p0), Ends(h)
    PROVE  Files(Z, n, c) /\ Z \in Store /\ Named(Z)
<1>1. /\ S \in Store /\ h \in Write /\ Z = Done(S, h) /\ h.file = "marker" /\ h.value # NoMarker
      /\ Named(S) /\ n \in Nat /\ c \in Nat
  BY DEF Starts, Ends
<1>2. ClaimsOwn(S, c) /\ Unborn(S, c) /\ OutcomeOpen(S) /\ ResultMarked(S, n) /\ PendingNamed(S, n)
  BY DEF Starts, Files
<1>3. /\ Has(S, h.key) /\ Pending(S, n, h.key)
      /\ h.value.outcome = "delivered" =>
            /\ h.value.evidence.payload \in Results
            /\ Recoverable(S, n, h.key, h.value)
  <2>1. ReadyEnd(S, h, {}, e, n)
    BY DEF Starts, ReadyAt
  <2> QED BY <2>1, <1>1, NothingIn DEF ReadyEnd, Ends, Pending
<1>4. /\ h.key \in Ids /\ Z \in Store
      /\ Z.marker[h.key] = h.value
      /\ \A r \in Ids : r # h.key => Z.marker[r] = S.marker[r]
      /\ Z.request = S.request /\ Z.active = S.active /\ Z.renewal = S.renewal
      /\ Z.observation = S.observation /\ Z.live = S.live
  BY <1>1, DoneMarker
<1>5. /\ \A r : Has(Z, r) <=> Has(S, r)
      /\ \A r \in Ids : r # h.key => /\ Untouched(Z, r) <=> Untouched(S, r)
                                     /\ Ended(Z, r) <=> Ended(S, r)
      /\ \A r \in Ids : Pending(Z, n, r) => Pending(S, n, r)
      /\ Ended(Z, h.key)
  BY <1>1, <1>4 DEF Has, Ended, Until, Pending, Untouched, Live
<1>6. ClaimsOwn(Z, c)
  <2>1. ASSUME NEW s \in Sessions, Z.active[s] # NoRequest
        PROVE  /\ Z.active[s].session = s /\ Z.active[s].id < c
               /\ Z.request[Z.active[s].id] \in {NoRequest, Z.active[s]}
               /\ ~Has(Z, Z.active[s].id) => Untouched(Z, Z.active[s].id)
    <3>1. Z.active[s].id \in Ids
      BY <2>1, <1>4 DEF Store, Request
    <3> QED BY <3>1, <2>1, <1>2, <1>3, <1>4, <1>5 DEF ClaimsOwn
  <2>2. \A s, t \in Sessions :
          Z.active[s] # NoRequest /\ Z.active[s].id = Z.active[t].id => s = t
    BY <1>2, <1>4 DEF ClaimsOwn
  <2> QED BY <2>1, <2>2 DEF ClaimsOwn
<1>7. Unborn(Z, c)
  BY <1>2, <1>3, <1>4, <1>5 DEF Unborn
<1>8. OutcomeOpen(Z)
  BY <1>2, <1>4, <1>5 DEF OutcomeOpen
<1>9. ResultMarked(Z, n)
  <2> SUFFICES ASSUME NEW r \in Ids, Has(Z, r), Ended(Z, r), Z.marker[r].outcome = "delivered"
               PROVE  /\ Z.marker[r].evidence.payload \in Results
                      /\ Shows(Z.observation[r], Z.marker[r]) \/ Recoverable(Z, n, r, Z.marker[r])
    BY DEF ResultMarked
  <2>1. CASE r = h.key
    BY <2>1, <1>3, <1>4 DEF Recoverable
  <2>2. CASE r # h.key
    BY <2>2, <1>2, <1>4, <1>5 DEF ResultMarked, Recoverable
  <2> QED BY <2>1, <2>2
<1>10. PendingNamed(Z, n)
  BY <1>2, <1>4, <1>5 DEF PendingNamed
<1>11. Named(Z)
  BY <1>1, <1>4, <1>5 DEF Named
<1> QED BY <1>4, <1>6, <1>7, <1>8, <1>9, <1>10, <1>11 DEF Files

(* An observation is recorded: over a marked result only its own final.    *)
LEMMA RecordKeeps ==
    ASSUME NEW S, NEW Z, NEW h, NEW A, NEW e, NEW n, NEW c, NEW p0,
           Starts(S, Z, h, A, e, n, c, p0), Records(h)
    PROVE  Files(Z, n, c) /\ Z \in Store /\ Named(Z)
<1>1. /\ S \in Store /\ h \in Write /\ Z = Done(S, h) /\ h.file = "observation" /\ h.value # NoState
      /\ Named(S) /\ n \in Nat /\ c \in Nat
  BY DEF Starts, Records
<1>2. ClaimsOwn(S, c) /\ Unborn(S, c) /\ OutcomeOpen(S) /\ ResultMarked(S, n) /\ PendingNamed(S, n)
  BY DEF Starts, Files
<1>3. /\ Has(S, h.key)
      /\ Ended(S, h.key) /\ S.marker[h.key].outcome = "delivered" =>
            Shows(h.value, S.marker[h.key])
      /\ Ended(S, h.key) \/ h.value.definitive.state # "final"
  <2>1. ReadyRecord(S, h, {})
    BY DEF Starts, ReadyAt
  <2> QED BY <2>1, NothingIn DEF ReadyRecord
<1>4. /\ h.key \in Ids /\ Z \in Store
      /\ Z.observation[h.key] = h.value
      /\ \A r \in Ids : r # h.key => Z.observation[r] = S.observation[r]
      /\ Z.request = S.request /\ Z.active = S.active /\ Z.renewal = S.renewal
      /\ Z.marker = S.marker /\ Z.live = S.live
  BY <1>1, DoneObservation
<1>5. /\ \A r : /\ Has(Z, r) <=> Has(S, r)
                /\ Ended(Z, r) <=> Ended(S, r)
                /\ Pending(Z, n, r) <=> Pending(S, n, r)
      /\ \A r \in Ids : r # h.key => (Untouched(Z, r) <=> Untouched(S, r))
  BY <1>4 DEF Has, Ended, Until, Pending, Untouched, Live
<1>6. ClaimsOwn(Z, c)
  <2>1. ASSUME NEW s \in Sessions, Z.active[s] # NoRequest
        PROVE  /\ Z.active[s].session = s /\ Z.active[s].id < c
               /\ Z.request[Z.active[s].id] \in {NoRequest, Z.active[s]}
               /\ ~Has(Z, Z.active[s].id) => Untouched(Z, Z.active[s].id)
    <3>1. Z.active[s].id \in Ids
      BY <2>1, <1>4 DEF Store, Request
    <3> QED BY <3>1, <2>1, <1>2, <1>3, <1>4, <1>5 DEF ClaimsOwn
  <2>2. \A s, t \in Sessions :
          Z.active[s] # NoRequest /\ Z.active[s].id = Z.active[t].id => s = t
    BY <1>2, <1>4 DEF ClaimsOwn
  <2> QED BY <2>1, <2>2 DEF ClaimsOwn
<1>7. Unborn(Z, c)
  BY <1>2, <1>3, <1>4, <1>5 DEF Unborn
<1>8. OutcomeOpen(Z)
  <2> SUFFICES ASSUME NEW r \in Ids, Has(Z, r), ~Ended(Z, r)
               PROVE  Z.observation[r].definitive.state # "final"
    BY DEF OutcomeOpen
  <2>1. CASE r = h.key
    BY <2>1, <1>3, <1>4, <1>5
  <2>2. CASE r # h.key
    BY <2>2, <1>2, <1>4, <1>5 DEF OutcomeOpen
  <2> QED BY <2>1, <2>2
<1>9. ResultMarked(Z, n)
  <2> SUFFICES ASSUME NEW r \in Ids, Has(Z, r), Ended(Z, r), Z.marker[r].outcome = "delivered"
               PROVE  /\ Z.marker[r].evidence.payload \in Results
                      /\ Shows(Z.observation[r], Z.marker[r]) \/ Recoverable(Z, n, r, Z.marker[r])
    BY DEF ResultMarked
  <2>1. Has(S, r) /\ Ended(S, r) /\ S.marker[r] = Z.marker[r]
    BY <1>4, <1>5
  <2>2. CASE r = h.key
    BY <2>1, <2>2, <1>2, <1>3, <1>4 DEF ResultMarked
  <2>3. CASE r # h.key
    BY <2>1, <2>3, <1>2, <1>4 DEF ResultMarked, Recoverable
  <2> QED BY <2>2, <2>3
<1>10. PendingNamed(Z, n)
  BY <1>2, <1>4, <1>5 DEF PendingNamed
<1>11. Named(Z)
  BY <1>1, <1>4, <1>5 DEF Named
<1> QED BY <1>4, <1>6, <1>7, <1>8, <1>9, <1>10, <1>11 DEF Files

(* A pending request is renewed.                                           *)
LEMMA RenewKeeps ==
    ASSUME NEW S, NEW Z, NEW h, NEW A, NEW e, NEW n, NEW c, NEW p0,
           Starts(S, Z, h, A, e, n, c, p0), Renews(h)
    PROVE  Files(Z, n, c) /\ Z \in Store /\ Named(Z)
<1>1. /\ S \in Store /\ h \in Write /\ Z = Done(S, h) /\ h.file = "renewal" /\ h.value # 0
      /\ Named(S) /\ n \in Nat /\ c \in Nat
  BY DEF Starts, Renews
<1>2. ClaimsOwn(S, c) /\ Unborn(S, c) /\ OutcomeOpen(S) /\ ResultMarked(S, n) /\ PendingNamed(S, n)
  BY DEF Starts, Files
<1>3. Has(S, h.key) /\ Pending(S, n, h.key)
  <2>1. ReadyRenew(S, h, {}, n)
    BY DEF Starts, ReadyAt
  <2> QED BY <2>1 DEF ReadyRenew, Renews, Pending
<1>4. /\ h.key \in Ids /\ Z \in Store
      /\ \A r \in Ids : r # h.key => Z.renewal[r] = S.renewal[r]
      /\ Z.request = S.request /\ Z.active = S.active /\ Z.observation = S.observation
      /\ Z.marker = S.marker /\ Z.live = S.live
  BY <1>1, DoneRenewal
<1>5. /\ \A r : /\ Has(Z, r) <=> Has(S, r)
                /\ Ended(Z, r) <=> Ended(S, r)
      /\ \A r \in Ids : r # h.key => (Untouched(Z, r) <=> Untouched(S, r))
      /\ \A r \in Ids : Pending(Z, n, r) => Pending(S, n, r)
  BY <1>3, <1>4 DEF Has, Ended, Until, Pending, Untouched, Live
<1>6. ClaimsOwn(Z, c)
  <2>1. ASSUME NEW s \in Sessions, Z.active[s] # NoRequest
        PROVE  /\ Z.active[s].session = s /\ Z.active[s].id < c
               /\ Z.request[Z.active[s].id] \in {NoRequest, Z.active[s]}
               /\ ~Has(Z, Z.active[s].id) => Untouched(Z, Z.active[s].id)
    <3>1. Z.active[s].id \in Ids
      BY <2>1, <1>4 DEF Store, Request
    <3> QED BY <3>1, <2>1, <1>2, <1>3, <1>4, <1>5 DEF ClaimsOwn
  <2>2. \A s, t \in Sessions :
          Z.active[s] # NoRequest /\ Z.active[s].id = Z.active[t].id => s = t
    BY <1>2, <1>4 DEF ClaimsOwn
  <2> QED BY <2>1, <2>2 DEF ClaimsOwn
<1>7. Unborn(Z, c)
  BY <1>2, <1>3, <1>4, <1>5 DEF Unborn
<1>8. OutcomeOpen(Z) /\ ResultMarked(Z, n)
  BY <1>2, <1>4, <1>5 DEF OutcomeOpen, ResultMarked, Recoverable
<1>9. PendingNamed(Z, n)
  BY <1>2, <1>4, <1>5 DEF PendingNamed
<1>10. Named(Z)
  BY <1>1, <1>4, <1>5 DEF Named
<1> QED BY <1>4, <1>6, <1>7, <1>8, <1>9, <1>10 DEF Files

(* Late evidence is kept, or a capability revoked.                         *)
LEMMA OtherKeeps ==
    ASSUME NEW S, NEW Z, NEW h, NEW A, NEW e, NEW n, NEW c, NEW p0,
           Starts(S, Z, h, A, e, n, c, p0), h.file \in {"late", "live"}
    PROVE  Files(Z, n, c) /\ Z \in Store /\ Named(Z)
<1>1. /\ S \in Store /\ h \in Write /\ Z = Done(S, h) /\ h.file \in {"late", "live"}
      /\ Named(S) /\ n \in Nat /\ c \in Nat
  BY DEF Starts
<1>2. ClaimsOwn(S, c) /\ Unborn(S, c) /\ OutcomeOpen(S) /\ ResultMarked(S, n) /\ PendingNamed(S, n)
  BY DEF Starts, Files
<1>4. /\ Z \in Store
      /\ \A r \in Ids : Live(Z, r) => Live(S, r)
      /\ Z.request = S.request /\ Z.active = S.active /\ Z.renewal = S.renewal
      /\ Z.observation = S.observation /\ Z.marker = S.marker
  <2>1. CASE h.file = "late"
    BY <2>1, <1>1, DoneLate DEF Live
  <2>2. CASE h.file = "live"
    BY <2>2, <1>1, DoneLive
  <2> QED BY <1>1, <2>1, <2>2
<1>5. /\ \A r : /\ Has(Z, r) <=> Has(S, r)
                /\ Ended(Z, r) <=> Ended(S, r)
                /\ Pending(Z, n, r) <=> Pending(S, n, r)
      /\ \A r \in Ids : Untouched(S, r) => Untouched(Z, r)
  BY <1>4 DEF Has, Ended, Until, Pending, Untouched
<1>6. ClaimsOwn(Z, c)
  <2>1. ASSUME NEW s \in Sessions, Z.active[s] # NoRequest
        PROVE  /\ Z.active[s].session = s /\ Z.active[s].id < c
               /\ Z.request[Z.active[s].id] \in {NoRequest, Z.active[s]}
               /\ ~Has(Z, Z.active[s].id) => Untouched(Z, Z.active[s].id)
    <3>1. Z.active[s].id \in Ids
      BY <2>1, <1>4 DEF Store, Request
    <3> QED BY <3>1, <2>1, <1>2, <1>4, <1>5 DEF ClaimsOwn
  <2>2. \A s, t \in Sessions :
          Z.active[s] # NoRequest /\ Z.active[s].id = Z.active[t].id => s = t
    BY <1>2, <1>4 DEF ClaimsOwn
  <2> QED BY <2>1, <2>2 DEF ClaimsOwn
<1>7. Unborn(Z, c)
  BY <1>2, <1>4, <1>5 DEF Unborn
<1>8. OutcomeOpen(Z) /\ ResultMarked(Z, n)
  BY <1>2, <1>4, <1>5 DEF OutcomeOpen, ResultMarked, Recoverable
<1>9. PendingNamed(Z, n)
  BY <1>2, <1>4, <1>5 DEF PendingNamed
<1>10. Named(Z)
  BY <1>1, <1>4, <1>5 DEF Named
<1> QED BY <1>4, <1>6, <1>7, <1>8, <1>9, <1>10 DEF Files

(* The files stay as they should be after every change that may be made.   *)
LEMMA Keeps ==
    ASSUME NEW S, NEW Z, NEW h, NEW A, NEW e, NEW n, NEW c, NEW p0,
           Starts(S, Z, h, A, e, n, c, p0)
    PROVE  Files(Z, n, c) /\ Z \in Store /\ Named(Z)
<1>1. \/ Clears(h) \/ Claims(h) \/ Opens(h) \/ Removes(h) \/ Cleans(h) \/ Ends(h)
      \/ Records(h) \/ Renews(h) \/ h.file \in {"late", "live"}
  BY WriteKinds DEF Starts, Clears, Claims, Opens, Removes, Cleans, Ends, Records, Renews
<1> QED BY <1>1, ClearKeeps, ClaimKeeps, OpenKeeps, RemoveKeeps, CleanKeeps, EndKeeps,
           RecordKeeps, RenewKeeps, OtherKeeps

(* A capability of an ended request is still to be revoked.                *)
LEMMA StepRevokes ==
    ASSUME NEW S, NEW T, NEW n, NEW c, NEW Z, NEW U, Good(S, T, n, c),
           T # <<>>, Z = Done(S, T[1]), U = Tail(T)
    PROVE  RevokeDue(Z, U)
<1> DEFINE h == T[1]
<1>1. S \in Store /\ T \in Seq(Write) /\ RevokeDue(S, T) /\ Ready(S, T, n, c)
  BY DEF Good, Typed
<1>2. /\ 1 \in Positions(T) /\ h \in Write /\ Earlier(T, 1) = {} /\ U \in Seq(Write)
      /\ U = <<>> => Last(T) = h
      /\ U # <<>> => Last(U) = Last(T)
  <2>1. U # <<>> => 1 \in Positions(U)
    BY <1>1, Shift, EmptySeq, LenProperties DEF Positions
  <2>2. U # <<>> => Last(U) = Last(T)
    BY <1>1, <2>1, ShiftAt
  <2> QED BY <1>1, <2>2, Shift
<1>3. /\ ReadyEnd(S, h, {}, Last(T), n) /\ ReadyOpen(S, h, {}, T[1 - 1], Last(T), n, c)
  BY <1>1, <1>2 DEF Ready, ReadyAt
<1> HIDE DEF h
<1>4. h \in Write /\ Z = Done(S, h)
  BY <1>2 DEF h
<1> SUFFICES ASSUME NEW r \in Ids, Has(Z, r), Ended(Z, r), Live(Z, r)
             PROVE  U # <<>> /\ Last(U).file = "live" /\ Last(U).key = r
  BY DEF RevokeDue
<1>5. /\ Live(S, r)
      /\ h.file = "live" => h.key # r
  <2>1. CASE h.file = "live"
    BY <1>1, <1>4, <2>1, DoneLive
  <2>2. CASE h.file # "live"
    <3>1. Z.live = S.live
      BY <1>1, <1>4, <2>2, DoneElsewhere
    <3> QED BY <2>2, <3>1 DEF Live
  <2> QED BY <2>1, <2>2
<1>6. Last(T).file = "live" /\ Last(T).key = r
  <2>1. CASE Has(S, r) /\ Ended(S, r)
    BY <1>1, <1>5, <2>1 DEF RevokeDue
  <2>2. CASE ~Ended(S, r)
    <3>1. h.file = "marker"
      BY <1>1, <1>4, <2>2, DoneElsewhere DEF Ended
    <3>2. h.key = r /\ h.value # NoMarker
      BY <1>1, <1>4, <2>2, <3>1, DoneMarker DEF Ended
    <3> QED BY <3>1, <3>2, <1>3, <1>5 DEF ReadyEnd, Ends
  <2>3. CASE ~Has(S, r) /\ Ended(S, r)
    <3>1. h.file = "request"
      BY <1>1, <1>4, <2>3, DoneElsewhere DEF Has
    <3>2. h.key = r /\ h.value # NoRequest
      BY <1>1, <1>4, <2>3, <3>1, DoneRequest DEF Has
    <3> QED BY <3>1, <3>2, <1>3, <2>3 DEF ReadyOpen, Untouched, Opens
  <2> QED BY <2>1, <2>2, <2>3
<1> QED BY <1>2, <1>5, <1>6

(* The running handler's next change preserves the invariant.              *)
LEMMA StepGood ==
    ASSUME NEW S, NEW T, NEW n, NEW c, Good(S, T, n, c), T # <<>>
    PROVE  Good(Done(S, T[1]), Tail(T), n, c)
<1> DEFINE Z == Done(S, T[1])
           U == Tail(T)
<1>1. /\ S \in Store /\ T \in Seq(Write) /\ n \in Nat /\ c \in Nat
      /\ n \in Times /\ c \in 1..(MaxRequests + 1)
  BY DEF Good, Typed, Times
<1>2. Ready(Z, U, n, c)
  BY StepReady DEF Good, Files
<1>3. RevokeDue(Z, U)
  BY StepRevokes
<1>4. 1 \in Positions(T) /\ T[1] \in Write /\ Earlier(T, 1) = {} /\ U \in Seq(Write)
  BY <1>1, Shift
<1>5. ReadyAt(S, T[1], {}, T[1 - 1], All(T), Last(T), n, c)
  BY <1>4 DEF Good, Ready
<1>6. Starts(S, Z, T[1], All(T), Last(T), n, c, T[1 - 1])
  BY <1>1, <1>4, <1>5 DEF Starts, Good
<1>7. Files(Z, n, c) /\ Z \in Store /\ Named(Z)
  BY <1>6, Keeps
<1> QED BY <1>1, <1>2, <1>3, <1>4, <1>7 DEF Good, Typed

-----------------------------------------------------------------------------
(* The parts of the changes of a handler: those of T may be made after B,  *)
(* the last of which is p.                                                 *)
ReadyFrom(S, T, B, p, A, e, n, c) ==
    \A k \in Positions(T) :
       ReadyAt(S, T[k], B \cup Earlier(T, k), IF k = 1 THEN p ELSE T[k - 1], A, e, n, c)

(* The last of the changes up to those of V.                               *)
Newest(V, p) == IF V = <<>> THEN p ELSE Last(V)

(* A handler that changes nothing may do so.                               *)
LEMMA ReadyNone ==
    ASSUME NEW S, NEW B, NEW p, NEW A, NEW e, NEW n, NEW c
    PROVE  ReadyFrom(S, <<>>, B, p, A, e, n, c) /\ All(<<>>) = {} /\ <<>> \in Seq(Write)
BY DEF ReadyFrom, Positions, All

(* A handler that makes one change.                                        *)
LEMMA ReadyOne ==
    ASSUME NEW S, NEW x, NEW B, NEW p, NEW A, NEW e, NEW n, NEW c,
           ReadyAt(S, x, B, p, A, e, n, c)
    PROVE  ReadyFrom(S, <<x>>, B, p, A, e, n, c)
<1>1. Positions(<<x>>) = {1} /\ <<x>>[1] = x /\ Earlier(<<x>>, 1) = {}
  BY DEF Positions, Earlier
<1> QED BY <1>1 DEF ReadyFrom

(* The changes of a handler that makes one.                                *)
LEMMA AllOne ==
    ASSUME NEW x
    PROVE  All(<<x>>) = {x} /\ Last(<<x>>) = x /\ <<x>> # <<>>
           /\ (x \in Write => <<x>> \in Seq(Write))
<1>1. Positions(<<x>>) = {1} /\ <<x>>[1] = x
  BY DEF Positions
<1> QED BY <1>1 DEF All, Last

(* The changes of a handler that puts two parts together.                  *)
LEMMA AllConcat ==
    ASSUME NEW V \in Seq(Write), NEW Y \in Seq(Write)
    PROVE  /\ V \o Y \in Seq(Write) /\ All(V \o Y) = All(V) \cup All(Y)
           /\ Y # <<>> => Last(V \o Y) = Last(Y) /\ V \o Y # <<>>
           /\ Y = <<>> => V \o Y = V
<1> DEFINE T == V \o Y
           l == Len(V)
<1>1. /\ T \in Seq(Write) /\ l \in Nat /\ Len(Y) \in Nat /\ Len(T) = l + Len(Y)
      /\ \A k \in 1..Len(T) : T[k] = IF k <= l THEN V[k] ELSE Y[k - l]
  BY ConcatProperties, LenProperties
<1>2. Y = <<>> => T = V
  BY ConcatEmptySeq
<1>0. Positions(V) = 1..l /\ Positions(T) = 1..Len(T) /\ Positions(Y) = 1..Len(Y)
  BY DEF Positions
<1> HIDE DEF T, l
<1>3. ASSUME NEW x \in All(V) PROVE x \in All(T)
  <2>1. PICK k \in 1..l : x = V[k]
    BY <1>0 DEF All
  <2>2. k \in 1..Len(T) /\ T[k] = V[k]
    BY <1>1, <2>1
  <2> QED BY <1>0, <2>1, <2>2 DEF All
<1>4. ASSUME NEW x \in All(Y) PROVE x \in All(T)
  <2>1. PICK k \in 1..Len(Y) : x = Y[k]
    BY <1>0 DEF All
  <2>2. l + k \in 1..Len(T) /\ ~(l + k <= l) /\ l + k - l = k
    BY <1>1, <2>1
  <2>3. T[l + k] = Y[k]
    BY <1>1, <2>2
  <2> QED BY <1>0, <2>1, <2>2, <2>3 DEF All
<1>5. ASSUME NEW x \in All(T) PROVE x \in All(V) \cup All(Y)
  <2>1. PICK k \in 1..Len(T) : x = T[k]
    BY <1>0 DEF All
  <2>2. CASE k <= l
    <3>1. k \in 1..l /\ x = V[k]
      BY <1>1, <2>1, <2>2
    <3> QED BY <1>0, <3>1 DEF All
  <2>3. CASE ~(k <= l)
    <3>1. k - l \in 1..Len(Y) /\ x = Y[k - l]
      BY <1>1, <2>1, <2>3
    <3> QED BY <1>0, <3>1 DEF All
  <2> QED BY <2>2, <2>3
<1>6. Y # <<>> => Last(T) = Last(Y) /\ T # <<>>
  <2> SUFFICES ASSUME Y # <<>> PROVE Last(T) = Last(Y) /\ T # <<>>
    OBVIOUS
  <2>1. Len(Y) # 0
    BY EmptySeq
  <2>2. Len(T) \in 1..Len(T) /\ ~(Len(T) <= l) /\ Len(T) - l = Len(Y) /\ Len(T) # 0
    BY <1>1, <2>1
  <2>3. T # <<>>
    BY <1>1, <2>2, EmptySeq
  <2> QED BY <1>1, <2>2, <2>3 DEF Last
<1> QED BY <1>1, <1>2, <1>3, <1>4, <1>5, <1>6 DEF T

(* If the first part may be made, and the second after it, so may the      *)
(* whole.                                                                  *)
LEMMA ReadyConcat ==
    ASSUME NEW S, NEW V \in Seq(Write), NEW Y \in Seq(Write), NEW B, NEW p, NEW q,
           NEW A, NEW e, NEW n, NEW c,
           q = Newest(V, p),
           ReadyFrom(S, V, B, p, A, e, n, c), ReadyFrom(S, Y, B \cup All(V), q, A, e, n, c)
    PROVE  ReadyFrom(S, V \o Y, B, p, A, e, n, c)
<1> DEFINE T == V \o Y
           l == Len(V)
<1>1. /\ T \in Seq(Write) /\ l \in Nat /\ Len(Y) \in Nat /\ Len(T) = l + Len(Y)
      /\ \A k \in 1..Len(T) : T[k] = IF k <= l THEN V[k] ELSE Y[k - l]
  BY ConcatProperties, LenProperties
<1>0. Positions(V) = 1..l /\ Positions(T) = 1..Len(T) /\ Positions(Y) = 1..Len(Y)
  BY DEF Positions
<1>4. l = 0 => q = p
  BY EmptySeq DEF Newest
<1>5. l # 0 => q = V[l]
  BY EmptySeq DEF Last, Newest
<1> HIDE DEF T, l
<1> SUFFICES ASSUME NEW k \in 1..Len(T)
             PROVE  ReadyAt(S, T[k], B \cup Earlier(T, k),
                            IF k = 1 THEN p ELSE T[k - 1], A, e, n, c)
  BY <1>0 DEF ReadyFrom, T
<1>6. k \in Nat /\ Len(T) \in Nat
  BY <1>1
<1>2. CASE k <= l
  <2>1. k \in Positions(V) /\ T[k] = V[k] /\ (k # 1 => T[k - 1] = V[k - 1])
    BY <1>0, <1>1, <1>2, <1>6
  <2>2. \A j \in 1..(k - 1) : T[j] = V[j]
    BY <1>1, <1>2, <1>6
  <2>3. Earlier(T, k) = Earlier(V, k)
    BY <2>2 DEF Earlier
  <2> QED BY <2>1, <2>3 DEF ReadyFrom
<1>3. CASE ~(k <= l)
  <2> DEFINE i == k - l
  <2>1. i \in Positions(Y) /\ T[k] = Y[i] /\ k = l + i /\ i \in Nat \ {0} /\ i = k - l
    BY <1>0, <1>1, <1>3, <1>6
  <2> HIDE DEF i
  <2>0. /\ k \in Nat /\ l \in Nat /\ i \in Nat /\ i >= 1 /\ k = l + i
        /\ Len(T) \in Nat /\ Len(Y) \in Nat /\ k <= Len(T) /\ Len(T) = l + Len(Y)
    BY <1>1, <1>6, <2>1
  <2>2. Earlier(T, k) = All(V) \cup Earlier(Y, i)
    <3>1. ASSUME NEW x \in Earlier(T, k) PROVE x \in All(V) \cup Earlier(Y, i)
      <4>1. PICK j \in 1..(k - 1) : x = T[j]
        BY DEF Earlier
      <4>2. CASE j <= l
        <5>1. j \in 1..Len(T) /\ j \in 1..l
          BY <2>0, <4>1, <4>2
        <5>2. x = V[j]
          BY <1>1, <4>1, <4>2, <5>1
        <5> QED BY <1>0, <5>1, <5>2 DEF All
      <4>3. CASE ~(j <= l)
        <5>1. j - l \in 1..(i - 1) /\ j \in 1..Len(T)
          BY <2>0, <4>1, <4>3
        <5>2. x = Y[j - l]
          BY <1>1, <4>1, <4>3, <5>1
        <5> QED BY <5>1, <5>2 DEF Earlier
      <4> QED BY <4>2, <4>3
    <3>2. ASSUME NEW x \in All(V) PROVE x \in Earlier(T, k)
      <4>1. PICK j \in 1..l : x = V[j]
        BY <1>0 DEF All
      <4>2. j \in 1..(k - 1) /\ T[j] = V[j]
        BY <1>1, <1>3, <1>6, <4>1
      <4> QED BY <4>1, <4>2 DEF Earlier
    <3>3. ASSUME NEW x \in Earlier(Y, i) PROVE x \in Earlier(T, k)
      <4>1. PICK j \in 1..(i - 1) : x = Y[j]
        BY DEF Earlier
      <4>2. l + j \in 1..(k - 1) /\ ~(l + j <= l) /\ l + j - l = j /\ l + j \in 1..Len(T)
        BY <2>0, <4>1
      <4>3. T[l + j] = Y[j]
        BY <1>1, <4>2
      <4> QED BY <4>1, <4>2, <4>3 DEF Earlier
    <3> QED BY <3>1, <3>2, <3>3
  <2>3. ReadyAt(S, Y[i], (B \cup All(V)) \cup Earlier(Y, i),
                IF i = 1 THEN q ELSE Y[i - 1], A, e, n, c)
    BY <2>1 DEF ReadyFrom
  <2>4. (IF i = 1 THEN q ELSE Y[i - 1]) = (IF k = 1 THEN p ELSE T[k - 1])
    <3>1. CASE i # 1
      <4>1. k # 1 /\ k - 1 \in 1..Len(T) /\ ~(k - 1 <= l) /\ k - 1 - l = i - 1
        BY <2>0, <3>1
      <4> QED BY <1>1, <3>1, <4>1
    <3>2. CASE i = 1 /\ l = 0
      <4>1. q = p /\ k = 1
        BY <1>4, <2>0, <3>2
      <4> QED BY <3>2, <4>1
    <3>3. CASE i = 1 /\ l # 0
      <4>1. q = V[l]
        BY <1>5, <3>3
      <4>2. k - 1 = l /\ k # 1 /\ l \in 1..Len(T) /\ l <= l
        BY <2>0, <3>3, <4>1
      <4>3. T[k - 1] = V[l]
        BY <1>1, <4>2
      <4> QED BY <3>3, <4>1, <4>2, <4>3
    <3> QED BY <3>1, <3>2, <3>3
  <2>5. (B \cup All(V)) \cup Earlier(Y, i) = B \cup Earlier(T, k)
    BY <2>2
  <2> QED BY <2>1, <2>3, <2>4, <2>5
<1> QED BY <1>2, <1>3

(* The parts make a handler.                                               *)
LEMMA ReadyAll ==
    ASSUME NEW S, NEW T, NEW p, NEW n, NEW c,
           ReadyFrom(S, T, {}, p, All(T), Last(T), n, c)
    PROVE  Ready(S, T, n, c)
<1> SUFFICES ASSUME NEW k \in Positions(T)
             PROVE  ReadyAt(S, T[k], Earlier(T, k), T[k - 1], All(T), Last(T), n, c)
  BY DEF Ready
<1>1. ReadyAt(S, T[k], Earlier(T, k), IF k = 1 THEN p ELSE T[k - 1], All(T), Last(T), n, c)
  BY DEF ReadyFrom
<1>2. CASE k = 1
  <2>1. Earlier(T, k) = {}
    BY <1>2 DEF Earlier
  <2> QED BY <1>1, <2>1 DEF ReadyAt, ReadyOpen
<1> QED BY <1>1, <1>2

(* The changes that a handler makes for each request in turn.              *)
AllOf(c, m) == UNION {All(c[i]) : i \in 1..m}

(* If each request's changes may be made after those of the requests       *)
(* before it, all may be made.                                             *)
LEMMA ForEachReady ==
    ASSUME NEW S, NEW f, NEW A, NEW e, NEW n, NEW c,
           \A r \in Ids : f[r] \in Seq(Write),
           \A r \in Ids : \A p : ReadyFrom(S, f[r], AllOf(f, r - 1), p, A, e, n, c)
    PROVE  /\ ForEach(f) \in Seq(Write) /\ All(ForEach(f)) = AllOf(f, MaxRequests)
           /\ \A p : ReadyFrom(S, ForEach(f), {}, p, A, e, n, c)
<1>1. PICK g : UpTo(f, g, MaxRequests) /\ ForEach(f) = g[MaxRequests]
  BY ForEachUpTo
<1> DEFINE H == {m \in Nat : m <= MaxRequests =>
                    /\ g[m] \in Seq(Write) /\ All(g[m]) = AllOf(f, m)
                    /\ \A p : ReadyFrom(S, g[m], {}, p, A, e, n, c)}
<1>2. 0 \in H
  <2>1. g[0] = <<>>
    BY <1>1 DEF UpTo
  <2>2. AllOf(f, 0) = {}
    BY DEF AllOf
  <2>3. /\ <<>> \in Seq(Write) /\ All(<<>>) = AllOf(f, 0)
        /\ \A p : ReadyFrom(S, <<>>, {}, p, A, e, n, c)
    BY <2>2, ReadyNone
  <2> QED BY <2>1, <2>3
<1>3. ASSUME NEW m \in Nat, m \in H PROVE m + 1 \in H
  <2> SUFFICES ASSUME m + 1 <= MaxRequests
               PROVE  /\ g[m + 1] \in Seq(Write) /\ All(g[m + 1]) = AllOf(f, m + 1)
                      /\ \A p : ReadyFrom(S, g[m + 1], {}, p, A, e, n, c)
    OBVIOUS
  <2>1. /\ g[m] \in Seq(Write) /\ All(g[m]) = AllOf(f, m)
        /\ \A p : ReadyFrom(S, g[m], {}, p, A, e, n, c)
    BY <1>3
  <2>2. m + 1 \in 0..MaxRequests /\ m + 1 \in Ids /\ m + 1 # 0 /\ m + 1 - 1 = m
    BY DEF Ids
  <2>3. g[m + 1] = g[m] \o f[m + 1]
    <3> DEFINE i == m + 1
    <3>1. i \in 0..MaxRequests /\ i # 0 /\ i - 1 = m
      BY <2>2
    <3> HIDE DEF i
    <3>2. g[i] = IF i = 0 THEN <<>> ELSE g[i - 1] \o f[i]
      BY <1>1, <3>1, UpToAt
    <3>3. g[i] = g[m] \o f[i]
      BY <3>1, <3>2
    <3> QED BY <3>3 DEF i
  <2>4. f[m + 1] \in Seq(Write)
    BY <2>2
  <2>5. AllOf(f, m + 1) = AllOf(f, m) \cup All(f[m + 1])
    <3>1. 1..(m + 1) = (1..m) \cup {m + 1}
      OBVIOUS
    <3> QED BY <3>1 DEF AllOf
  <2>6. g[m + 1] \in Seq(Write) /\ All(g[m + 1]) = AllOf(f, m + 1)
    <3>1. /\ g[m] \o f[m + 1] \in Seq(Write)
          /\ All(g[m] \o f[m + 1]) = All(g[m]) \cup All(f[m + 1])
      BY <2>1, <2>4, AllConcat
    <3> QED BY <2>1, <2>3, <2>5, <3>1
  <2>7. ASSUME NEW p PROVE ReadyFrom(S, g[m + 1], {}, p, A, e, n, c)
    <3> DEFINE q == Newest(g[m], p)
    <3>1. ReadyFrom(S, f[m + 1], AllOf(f, m), q, A, e, n, c)
      BY <2>2
    <3>2. AllOf(f, m) = {} \cup All(g[m])
      BY <2>1
    <3>3. ReadyFrom(S, f[m + 1], {} \cup All(g[m]), q, A, e, n, c)
      BY <3>1, <3>2
    <3> HIDE DEF q
    <3>4. ReadyFrom(S, g[m] \o f[m + 1], {}, p, A, e, n, c)
      BY <2>1, <2>4, <3>3, ReadyConcat DEF q
    <3> QED BY <2>3, <3>4
  <2> QED BY <2>6, <2>7
<1>4. MaxRequests \in H
  <2> HIDE DEF H
  <2> QED BY <1>2, <1>3, SetInduction
<1> QED BY <1>1, <1>4

-----------------------------------------------------------------------------
(* The decision of a handler, a failed operation, a crash and the time.    *)
LEMMA DecideGood ==
    ASSUME NEW S, NEW n, NEW c, NEW U, Good(S, <<>>, n, c),
           U \in Seq(Write), Ready(S, U, n, c)
    PROVE  Good(S, U, n, c)
BY DEF Good, Typed, RevokeDue

(* Nothing is left to be made.                                             *)
LEMMA ReadyEmpty ==
    ASSUME NEW S, NEW n, NEW c
    PROVE  Ready(S, <<>>, n, c) /\ <<>> \in Seq(Write)
BY DEF Ready, Positions

(* A change may be made if the condition on its kind holds.                *)
LEMMA ReadyKind ==
    ASSUME NEW S, NEW x, NEW B, NEW p, NEW A, NEW e, NEW n, NEW c,
           \/ x.file = "active" /\ ReadyClear(S, x, B, n) /\ ReadyClaim(S, x, B, n, c)
           \/ x.file = "request" /\ ReadyOpen(S, x, B, p, e, n, c)
                                 /\ ReadyRemove(S, x, B, A, n)
           \/ x.file = "marker" /\ ReadyEnd(S, x, B, e, n) /\ ReadyClean(S, x, B, A, c)
           \/ x.file = "observation" /\ ReadyRecord(S, x, B) /\ ReadyClean(S, x, B, A, c)
           \/ x.file = "renewal" /\ ReadyRenew(S, x, B, n) /\ ReadyClean(S, x, B, A, c)
           \/ x.file \in {"late", "live"}
    PROVE  ReadyAt(S, x, B, p, A, e, n, c)
BY DEF ReadyAt, ReadyClear, ReadyClaim, ReadyOpen, ReadyRemove, ReadyClean, ReadyEnd,
       ReadyRecord, ReadyRenew, Clears, Claims, Opens, Removes, Cleans, Ends, Records, Renews

(* The same for a handler's part, whatever came right before it.           *)
LEMMA KindReady ==
    ASSUME NEW S, NEW x \in Write, NEW B, NEW A, NEW e, NEW n, NEW c,
           \/ x.file = "active" /\ ReadyClear(S, x, B, n) /\ ReadyClaim(S, x, B, n, c)
           \/ x.file = "request" /\ ~Opens(x) /\ ReadyRemove(S, x, B, A, n)
           \/ x.file = "marker" /\ ReadyEnd(S, x, B, e, n) /\ ReadyClean(S, x, B, A, c)
           \/ x.file = "observation" /\ ReadyRecord(S, x, B) /\ ReadyClean(S, x, B, A, c)
           \/ x.file = "renewal" /\ ReadyRenew(S, x, B, n) /\ ReadyClean(S, x, B, A, c)
           \/ x.file \in {"late", "live"}
    PROVE  \A p : ReadyFrom(S, <<x>>, B, p, A, e, n, c)
<1> SUFFICES ASSUME NEW p PROVE ReadyFrom(S, <<x>>, B, p, A, e, n, c)
  OBVIOUS
<1>1. x.file = "request" /\ ~Opens(x) => ReadyOpen(S, x, B, p, e, n, c)
  BY DEF ReadyOpen
<1>2. ReadyAt(S, x, B, p, A, e, n, c)
  BY <1>1, ReadyKind
<1> QED BY <1>2, ReadyOne

(* Two parts, whatever came right before them.                             *)
LEMMA Join ==
    ASSUME NEW S, NEW V \in Seq(Write), NEW Y \in Seq(Write), NEW B,
           NEW A, NEW e, NEW n, NEW c,
           \A p : ReadyFrom(S, V, B, p, A, e, n, c),
           \A p : ReadyFrom(S, Y, B \cup All(V), p, A, e, n, c)
    PROVE  \A p : ReadyFrom(S, V \o Y, B, p, A, e, n, c)
<1> SUFFICES ASSUME NEW p PROVE ReadyFrom(S, V \o Y, B, p, A, e, n, c)
  OBVIOUS
<1> DEFINE q == Newest(V, p)
<1>1. ReadyFrom(S, V, B, p, A, e, n, c) /\ ReadyFrom(S, Y, B \cup All(V), q, A, e, n, c)
  OBVIOUS
<1> QED BY <1>1, ReadyConcat

(* One change that may be made is a handler.                               *)
LEMMA ReadySingle ==
    ASSUME NEW S, NEW x \in Write, NEW p, NEW n, NEW c, ReadyAt(S, x, {}, p, {x}, x, n, c)
    PROVE  Ready(S, <<x>>, n, c) /\ <<x>> \in Seq(Write)
<1>1. All(<<x>>) = {x} /\ Last(<<x>>) = x /\ <<x>> \in Seq(Write)
  BY AllOne
<1>2. ReadyFrom(S, <<x>>, {}, p, {x}, x, n, c)
  BY ReadyOne
<1>3. ReadyFrom(S, <<x>>, {}, p, All(<<x>>), Last(<<x>>), n, c)
  BY <1>1, <1>2
<1> QED BY <1>1, <1>3, ReadyAll

(* Capabilities are lost, or issued for a pending request.                 *)
LEMMA LiveGood ==
    ASSUME NEW S, NEW T, NEW n, NEW c, NEW L \in [Ids -> BOOLEAN], Good(S, T, n, c),
           \A r \in Ids : L[r] = TRUE => Live(S, r) \/ Pending(S, n, r),
           T = <<>> \/ \A r \in Ids : L[r] = FALSE
    PROVE  Good([S EXCEPT !.live = L], <<>>, n, c)
<1> DEFINE Z == [S EXCEPT !.live = L]
<1>1. S \in Store /\ Files(S, n, c) /\ Named(S) /\ n \in Nat /\ c \in Nat
  BY DEF Good, Typed, Times
<1>2. /\ Z \in Store /\ Z.live = L
      /\ Z.active = S.active /\ Z.request = S.request /\ Z.renewal = S.renewal
      /\ Z.observation = S.observation /\ Z.marker = S.marker
  BY <1>1 DEF Store
<1> HIDE DEF Z
<1>3. /\ \A r : /\ Has(Z, r) <=> Has(S, r)
                /\ Ended(Z, r) <=> Ended(S, r)
                /\ Pending(Z, n, r) <=> Pending(S, n, r)
      /\ \A r \in Ids : Live(Z, r) => Live(S, r) \/ Pending(S, n, r)
  BY <1>2 DEF Has, Ended, Until, Pending, Live
<1>4. \A r \in Ids : ~Has(S, r) /\ Untouched(S, r) => Untouched(Z, r)
  BY <1>2, <1>3 DEF Untouched, Pending
<1>5. ClaimsOwn(Z, c)
  <2>1. ASSUME NEW s \in Sessions, Z.active[s] # NoRequest
        PROVE  /\ Z.active[s].session = s /\ Z.active[s].id < c
               /\ Z.request[Z.active[s].id] \in {NoRequest, Z.active[s]}
               /\ ~Has(Z, Z.active[s].id) => Untouched(Z, Z.active[s].id)
    <3>1. Z.active[s].id \in Ids
      BY <2>1, <1>2 DEF Store, Request
    <3> QED BY <3>1, <2>1, <1>1, <1>2, <1>3, <1>4 DEF ClaimsOwn, Files
  <2>2. \A s, t \in Sessions :
          Z.active[s] # NoRequest /\ Z.active[s].id = Z.active[t].id => s = t
    BY <1>1, <1>2 DEF ClaimsOwn, Files
  <2> QED BY <2>1, <2>2 DEF ClaimsOwn
<1>6. Unborn(Z, c)
  BY <1>1, <1>3, <1>4 DEF Unborn, Files
<1>7. OutcomeOpen(Z) /\ ResultMarked(Z, n)
  BY <1>1, <1>2, <1>3 DEF OutcomeOpen, ResultMarked, Recoverable, Files
<1>8. PendingNamed(Z, n)
  BY <1>1, <1>2, <1>3 DEF PendingNamed, Files
<1>9. RevokeDue(Z, <<>>)
  <2> SUFFICES ASSUME NEW r \in Ids, Has(Z, r), Ended(Z, r), Live(Z, r) PROVE FALSE
    BY DEF RevokeDue
  <2>1. CASE T = <<>>
    BY <2>1, <1>3 DEF Good, RevokeDue, Pending
  <2>2. CASE \A i \in Ids : L[i] = FALSE
    BY <2>2, <1>2 DEF Live
  <2> QED BY <2>1, <2>2
<1>10. Named(Z)
  BY <1>1, <1>2, <1>3 DEF Named
<1> QED BY <1>2, <1>5, <1>6, <1>7, <1>8, <1>9, <1>10, ReadyEmpty
        DEF Good, Typed, Files, Z

(* The clock: a request may expire, and a candidate stands longer.         *)
LEMMA TickGood ==
    ASSUME NEW S, NEW n, NEW c, Good(S, <<>>, n, c), n < MaxTime
    PROVE  Good(S, <<>>, n + 1, c)
<1>1. S \in Store /\ Files(S, n, c) /\ Named(S) /\ n \in Nat /\ c \in Nat
  BY DEF Good, Typed, Times
<1>2. \A r \in Ids : Has(S, r) => Until(S, r) \in Nat
  BY <1>1 DEF Has, Until, Store, Request
<1>3. \A r \in Ids : Pending(S, n + 1, r) => Pending(S, n, r)
  BY <1>1, <1>2 DEF Pending
<1>4. \A m : \A r \in Ids : Recoverable(S, n, r, m) => Recoverable(S, n + 1, r, m)
  <2>1. \A r \in Ids : S.observation[r].definitiveAccepted \in Nat
    BY <1>1 DEF Store, ObservationState, NoState, Times
  <2> QED BY <2>1, <1>1 DEF Recoverable
<1>5. ResultMarked(S, n + 1) /\ PendingNamed(S, n + 1)
  BY <1>1, <1>3, <1>4 DEF ResultMarked, PendingNamed, Files
<1>6. n + 1 \in Times
  BY <1>1 DEF Times
<1> QED BY <1>1, <1>5, <1>6, ReadyEmpty DEF Good, Typed, Files

(* A file operation fails: what the handler still does may be done.        *)
LEMMA FailGood ==
    ASSUME Good(store, todo, now, nextId), todo # <<>>, Head(todo).file # "live"
    PROVE  Good(store, AfterFailure, now, nextId)
<1> DEFINE w == todo[1]
           end == todo[Len(todo)]
<1>1. store \in Store /\ todo \in Seq(Write) /\ Files(store, now, nextId) /\ Named(store)
  BY DEF Good, Typed
<1>2. Head(todo) = w /\ w \in Write /\ Earlier(todo, 1) = {} /\ 1 \in Positions(todo)
  <2>1. Head(todo) = todo[1]
    BY <1>1
  <2>2. todo[1] \in Write /\ Earlier(todo, 1) = {} /\ 1 \in Positions(todo)
    BY <1>1, Shift
  <2> QED BY <2>1, <2>2
<1>3. end \in Write /\ end = Last(todo)
  <2>1. Len(todo) \in 1..Len(todo)
    BY <1>1, EmptySeq, LenProperties
  <2> QED BY <1>1, <2>1 DEF Last
<1>4. AfterFailure = IF w.file = "request" /\ w.value # NoRequest
                     THEN <<W("active", w.value.session, NoRequest)>>
                     ELSE IF end.file = "live" /\ Marked(end.key) THEN <<end>> ELSE <<>>
  BY <1>2 DEF AfterFailure
<1>5. ReadyOpen(store, w, {}, todo[1 - 1], end, now, nextId)
  BY <1>2, <1>3 DEF Good, Ready, ReadyAt
<1> HIDE DEF w, end
<1>6. CASE w.file = "request" /\ w.value # NoRequest
  <2> DEFINE x == W("active", w.value.session, NoRequest)
  <2>1. /\ ~Has(store, w.key) /\ store.active[w.value.session] = w.value
        /\ w.value.id = w.key /\ end.file # "live"
    BY <1>5, <1>6 DEF ReadyOpen, Opens
  <2>2. w.value.session \in Sessions
    BY <1>2, <1>6 DEF Write, Request
  <2>3. x \in Write /\ Clears(x) /\ x.file = "active" /\ x.key = w.value.session
    BY <2>2 DEF W, Write, Clears
  <2> HIDE DEF x
  <2>4. \A r \in Ids : ~(Pending(store, now, r) /\ store.request[r].session = x.key)
    BY <1>1, <2>1, <2>3 DEF PendingNamed, Files, Pending
  <2>5. ReadyClear(store, x, {}, now) /\ ReadyClaim(store, x, {}, now, nextId)
    BY <2>3, <2>4, NothingIn DEF ReadyClear, ReadyClaim, Claims, Clears
  <2>6. Ready(store, <<x>>, now, nextId) /\ <<x>> \in Seq(Write)
    BY <2>3, <2>5, ReadyKind, ReadySingle
  <2>7. RevokeDue(store, <<x>>)
    BY <1>3, <2>1 DEF Good, RevokeDue
  <2> QED BY <1>4, <1>6, <2>6, <2>7 DEF Good, Typed, x
<1>7. CASE ~(w.file = "request" /\ w.value # NoRequest)
  <2>1. CASE end.file = "live" /\ Marked(end.key)
    <3>1. Ready(store, <<end>>, now, nextId) /\ <<end>> \in Seq(Write)
      BY <1>3, <2>1, ReadyKind, ReadySingle
    <3>2. Last(<<end>>) = end /\ <<end>> # <<>>
      BY AllOne
    <3>3. RevokeDue(store, <<end>>)
      BY <1>3, <3>2 DEF Good, RevokeDue
    <3> QED BY <1>4, <1>7, <2>1, <3>1, <3>3 DEF Good, Typed
  <2>2. CASE ~(end.file = "live" /\ Marked(end.key))
    <3>1. RevokeDue(store, <<>>)
      BY <1>3, <2>2 DEF Good, RevokeDue, Marked, Ended
    <3> QED BY <1>4, <1>7, <2>2, <3>1, ReadyEmpty DEF Good, Typed
  <2> QED BY <2>1, <2>2
<1> QED BY <1>6, <1>7

-----------------------------------------------------------------------------
(* What the handlers ask of the store, in the words of the invariant.      *)
Quiet == Good(store, <<>>, now, nextId)

(* What holds when no handler is running.                                  *)
LEMMA QuietFacts ==
    ASSUME Quiet
    PROVE  /\ store \in Store /\ Named(store) /\ Files(store, now, nextId)
           /\ now \in Nat /\ now \in Times /\ nextId \in Nat
           /\ \A r \in Ids : Has(store, r) /\ Ended(store, r) => ~Live(store, r)
BY DEF Quiet, Good, Typed, Times, RevokeDue

(* The status of a request, in the words of the invariant.                 *)
LEMMA StatusNamed ==
    ASSUME Named(store), NEW r \in Ids
    PROVE  /\ Status(r) = "pending" <=> Pending(store, now, r)
           /\ Status(r) = "cancelled" <=> Has(store, r) /\ Ended(store, r)
           /\ Status(r) = "not_found" <=> ~Has(store, r)
           /\ Status(r) = "expired" <=>
                 Has(store, r) /\ ~Ended(store, r) /\ ~Pending(store, now, r)
           /\ Marked(r) <=> Ended(store, r)
<1>1. Has(store, r) => store.request[r].id = r
  BY DEF Named
<1> QED BY <1>1 DEF Status, Has, Ended, Marked, Pending, Until, Expired, Expiry

(* The same when no handler is running.                                    *)
LEMMA StatusIs ==
    ASSUME Quiet, NEW r \in Ids
    PROVE  /\ Status(r) = "pending" <=> Pending(store, now, r)
           /\ Status(r) = "cancelled" <=> Has(store, r) /\ Ended(store, r)
           /\ Status(r) = "not_found" <=> ~Has(store, r)
           /\ Status(r) = "expired" <=>
                 Has(store, r) /\ ~Ended(store, r) /\ ~Pending(store, now, r)
           /\ Marked(r) <=> Ended(store, r)
BY QuietFacts, StatusNamed

(* What is stored of an observation is a stored observation.               *)
LEMMA AdvanceType ==
    ASSUME NEW p \in ObservationState \cup {NoState}, NEW o \in Observation,
           NEW n \in Times
    PROVE  Advance(p, o, n) \in ObservationState /\ Advance(p, o, n) # NoState
<1>1. o # Nothing
  BY DEF Observation, Nothing, Seqs
<1>2. p \in ObservationState
  BY DEF ObservationState, NoState, Nothing, Times
<1> QED BY <1>1, <1>2 DEF Advance, ObservationState, NoState

(* The change that marks, records or revokes.                              *)
LEMMA RecordWrite ==
    ASSUME Quiet, NEW r \in Ids, NEW o \in Observation
    PROVE  \E x \in Write : /\ Record(r, o) = <<x>> /\ Records(x) /\ x.key = r
                            /\ x.file = "observation"
                            /\ x.value = Advance(store.observation[r], o, now)
<1> DEFINE x == W("observation", r, Advance(store.observation[r], o, now))
<1>1. store.observation[r] \in ObservationState \cup {NoState}
  BY QuietFacts DEF Store
<1>2. /\ Advance(store.observation[r], o, now) \in ObservationState
      /\ Advance(store.observation[r], o, now) # NoState
  BY <1>1, QuietFacts, AdvanceType
<1>3. x \in Write
  BY <1>2 DEF W, Write
<1> QED BY <1>2, <1>3 DEF Record, Records, W

(* The change that ends a request.                                         *)
LEMMA MarkWrite ==
    ASSUME Quiet, NEW r \in Ids, NEW outcome, NEW evidence,
           [outcome |-> outcome, evidence |-> evidence, at |-> now] \in Marker
    PROVE  \E x \in Write : /\ Mark(r, outcome, evidence) = <<x>> /\ Ends(x) /\ x.key = r
                            /\ x.file = "marker" /\ x.value.outcome = outcome
                            /\ x.value.evidence = evidence
<1> DEFINE m == [outcome |-> outcome, evidence |-> evidence, at |-> now]
           x == W("marker", r, m)
<1>1. m # NoMarker
  BY DEF Marker, NoMarker, None
<1>2. x \in Write
  BY DEF W, Write
<1> QED BY <1>1, <1>2 DEF Mark, Ends, W

(* The change that revokes its capability.                                 *)
LEMMA RevokeWrite ==
    ASSUME NEW r \in Ids
    PROVE  \E x \in Write : Revoke(r) = <<x>> /\ x.file = "live" /\ x.key = r
<1>1. W("live", r, FALSE) \in Write
  BY DEF W, Write
<1> QED BY <1>1 DEF Revoke, W

(* A request's pointer is cleared when it has ended, or ends before.       *)
LEMMA ClearReady ==
    ASSUME Quiet, NEW r \in Ids, Has(store, r), NEW B, NEW A, NEW e,
           ~Pending(store, now, r) \/ EndsIn(B, r), \A i : ~OpensIn(B, i)
    PROVE  /\ ClearActive(SessionOf(r), r) \in Seq(Write)
           /\ \A x \in All(ClearActive(SessionOf(r), r)) :
                 Clears(x) /\ x.file = "active" /\ x.key = SessionOf(r)
           /\ store.active[SessionOf(r)].id = r =>
                 \E x \in All(ClearActive(SessionOf(r), r)) :
                    Clears(x) /\ x.key = SessionOf(r)
           /\ \A p : ReadyFrom(store, ClearActive(SessionOf(r), r), B, p, A, e, now, nextId)
<1> DEFINE s == SessionOf(r)
           x == W("active", s, NoRequest)
<1>1. s \in Sessions /\ s = store.request[r].session
  BY QuietFacts, RequestParts DEF SessionOf
<1>2. x \in Write /\ Clears(x) /\ x.file = "active" /\ x.key = s
  BY <1>1 DEF W, Write, Clears
<1> HIDE DEF x, s
<1>3. CASE store.active[s].id = r
  <2>1. ClearActive(s, r) = <<x>>
    BY <1>3 DEF ClearActive, x
  <2>2. ReadyClear(store, x, B, now)
    <3> SUFFICES ASSUME NEW i \in Ids, Pending(store, now, i), store.request[i].session = s
                 PROVE  EndsIn(B, i)
      BY <1>2 DEF ReadyClear
    <3>1. store.active[s].id = i
      BY QuietFacts DEF Files, PendingNamed
    <3> QED BY <3>1, <1>3
  <2>3. \A p : ReadyFrom(store, <<x>>, B, p, A, e, now, nextId)
    BY <1>2, <2>2, KindReady DEF ReadyClaim, Claims, Clears
  <2>4. All(<<x>>) = {x} /\ <<x>> \in Seq(Write)
    BY <1>2, AllOne
  <2> QED BY <1>2, <2>1, <2>3, <2>4 DEF s
<1>4. CASE store.active[s].id # r
  <2>1. ClearActive(s, r) = <<>>
    BY <1>4 DEF ClearActive
  <2> QED BY <1>4, <2>1, ReadyNone DEF s
<1> QED BY <1>3, <1>4

(* cancelControlRequest: marked, cleared and revoked, in this order.       *)
LEMMA CancelReady ==
    ASSUME Quiet, NEW r \in Ids, Status(r) \in {"pending", "cancelled"},
           NEW T, T = (IF Status(r) = "pending" THEN Mark(r, "cancelled", Nothing) ELSE <<>>)
                      \o ClearActive(SessionOf(r), r) \o Revoke(r)
    PROVE  T \in Seq(Write) /\ Ready(store, T, now, nextId)
<1> DEFINE V == IF Status(r) = "pending" THEN Mark(r, "cancelled", Nothing) ELSE <<>>
           Y == ClearActive(SessionOf(r), r)
           A == All(T)
           e == Last(T)
<1>0. T = (V \o Y) \o Revoke(r)
  OBVIOUS
<1> HIDE DEF A, e
<1>1. PICK l \in Write : Revoke(r) = <<l>> /\ l.file = "live" /\ l.key = r
  BY RevokeWrite
<1>2. PICK m \in Write : /\ Mark(r, "cancelled", Nothing) = <<m>> /\ Ends(m) /\ m.key = r
                         /\ m.file = "marker" /\ m.value.outcome = "cancelled"
  <2>1. [outcome |-> "cancelled", evidence |-> Nothing, at |-> now] \in Marker
    BY QuietFacts DEF Marker
  <2> QED BY <2>1, MarkWrite
<1>3. Has(store, r)
  BY StatusIs DEF Pending
<1>4. /\ V \in Seq(Write) /\ \A i : ~OpensIn({} \cup All(V), i)
      /\ Pending(store, now, r) => EndsIn({} \cup All(V), r)
      /\ V = <<>> \/ V = <<m>>
  <2>1. All(<<m>>) = {m} /\ <<m>> \in Seq(Write)
    BY AllOne
  <2>2. CASE Status(r) = "pending"
    BY <1>2, <2>1, <2>2 DEF OpensIn, EndsIn, Opens
  <2>3. CASE Status(r) # "pending"
    BY <2>3, StatusIs, ReadyNone DEF OpensIn
  <2> QED BY <2>2, <2>3
<1> HIDE DEF V
<1>5. Y \in Seq(Write) /\ \A p : ReadyFrom(store, Y, {} \cup All(V), p, A, e, now, nextId)
  BY <1>3, <1>4, ClearReady
<1> HIDE DEF Y
<1>6. /\ V \o Y \in Seq(Write) /\ <<l>> \in Seq(Write) /\ T = (V \o Y) \o <<l>>
      /\ T \in Seq(Write) /\ e = l
  <2>1. V \o Y \in Seq(Write) /\ <<l>> \in Seq(Write) /\ T = (V \o Y) \o <<l>>
    BY <1>0, <1>1, <1>4, <1>5, AllConcat, AllOne
  <2>2. Last(<<l>>) = l /\ <<l>> # <<>>
    BY AllOne
  <2>3. (V \o Y) \o <<l>> \in Seq(Write) /\ Last((V \o Y) \o <<l>>) = Last(<<l>>)
    BY <2>1, <2>2, AllConcat
  <2> QED BY <2>1, <2>2, <2>3 DEF e
<1>7. \A p : ReadyFrom(store, V, {}, p, A, e, now, nextId)
  <2>1. CASE V = <<>>
    BY <2>1, ReadyNone
  <2>2. CASE V = <<m>> /\ Status(r) = "pending"
    <3>1. ReadyEnd(store, m, {}, e, now)
      BY <1>1, <1>2, <1>6, <2>2, StatusIs DEF ReadyEnd
    <3> QED BY <1>2, <2>2, <3>1, KindReady DEF ReadyClean, Cleans, Ends
  <2>3. CASE Status(r) # "pending"
    BY <2>3, ReadyNone DEF V
  <2> QED BY <1>4, <2>1, <2>2, <2>3
<1>8. \A p : ReadyFrom(store, V \o Y, {}, p, A, e, now, nextId)
  BY <1>4, <1>5, <1>7, Join
<1>9. \A p : ReadyFrom(store, <<l>>, {} \cup All(V \o Y), p, A, e, now, nextId)
  BY <1>1, KindReady
<1>10. \A p : ReadyFrom(store, (V \o Y) \o <<l>>, {}, p, A, e, now, nextId)
  BY <1>6, <1>8, <1>9, Join
<1> QED BY <1>6, <1>10, ReadyAll DEF A, e

(* A request that is pending ends with an event, after at most a change of *)
(* the late evidence.                                                      *)
LEMMA FinishReady ==
    ASSUME Quiet, NEW r \in Ids, Pending(store, now, r), NEW o \in Observation, Terminal(o),
           o.payload \in Results =>
              /\ store.observation[r].definitive.state = "result_candidate"
              /\ Completes(store.observation[r], o, now),
           NEW B, \A b \in B : b.file = "late", NEW A, NEW e,
           Live(store, r) => e.file = "live" /\ e.key = r
    PROVE  /\ Finish(r, o) \in Seq(Write)
           /\ \A p : ReadyFrom(store, Finish(r, o), B, p, A, e, now, nextId)
<1> DEFINE Y == ClearActive(SessionOf(r), r)
<1>1. o.payload \in Results => o.state = "final"
  BY DEF Observation, Terminal, AbortStates, CompletionStates, PromptStates,
         ResponseStates, None
<1>2. o.state # "unknown" /\ (o.payload \notin Results => Outcome(o) = "failed")
      /\ (o.payload \in Results => Outcome(o) = "delivered" /\ Evidence(o).payload = o.payload
                                   /\ Evidence(o).at = o.at)
  BY DEF Terminal, AbortStates, Outcome, Evidence, Observation
<1>3. [outcome |-> Outcome(o), evidence |-> Evidence(o), at |-> now] \in Marker
  <2>1. CASE o.payload \in Results
    BY <2>1, <1>1, QuietFacts DEF Outcome, Evidence, Observation, Marker
  <2>2. CASE o.payload \notin Results
    BY <2>2, QuietFacts DEF Outcome, Evidence, Marker
  <2> QED BY <2>1, <2>2
<1>4. PICK m \in Write : /\ Mark(r, Outcome(o), Evidence(o)) = <<m>> /\ Ends(m)
                         /\ m.key = r /\ m.file = "marker" /\ m.value.outcome = Outcome(o)
                         /\ m.value.evidence = Evidence(o)
  BY <1>3, MarkWrite
<1>5. PICK x \in Write : /\ Record(r, o) = <<x>> /\ Records(x) /\ x.key = r
                         /\ x.file = "observation"
                         /\ x.value = Advance(store.observation[r], o, now)
  BY RecordWrite
<1>6. Has(store, r) /\ ~Ended(store, r)
  BY DEF Pending
<1>7. /\ All(<<m>>) = {m} /\ <<m>> \in Seq(Write)
      /\ All(<<x>>) = {x} /\ <<x>> \in Seq(Write)
      /\ <<m>> \o <<x>> \in Seq(Write) /\ All(<<m>> \o <<x>>) = {m} \cup {x}
  <2>1. /\ All(<<m>>) = {m} /\ <<m>> \in Seq(Write)
        /\ All(<<x>>) = {x} /\ <<x>> \in Seq(Write)
    BY AllOne
  <2>2. /\ <<m>> \o <<x>> \in Seq(Write)
        /\ All(<<m>> \o <<x>>) = All(<<m>>) \cup All(<<x>>)
    BY <2>1, AllConcat
  <2> QED BY <2>1, <2>2
<1>8. \A p : ReadyFrom(store, <<m>>, B, p, A, e, now, nextId)
  <2>1. m.value.outcome = "delivered" =>
          /\ m.value.evidence.payload \in Results
          /\ Recoverable(store, now, r, m.value)
    BY <1>2, <1>4 DEF Recoverable, Completes
  <2>2. ReadyEnd(store, m, B, e, now)
    BY <1>4, <2>1 DEF ReadyEnd
  <2> QED BY <1>4, <2>2, KindReady DEF ReadyClean, Cleans, Ends
<1>9. \A p : ReadyFrom(store, <<x>>, B \cup All(<<m>>), p, A, e, now, nextId)
  <2>1. x.value.definitive = o
    BY <1>2, <1>5 DEF Advance
  <2>2. \A b \in B \cup {m} : Ends(b) /\ b.key = r /\ b.value.outcome = "delivered" =>
          Shows(x.value, b.value)
    BY <1>1, <1>2, <1>4, <2>1 DEF Ends, Shows
  <2>3. EndsIn(B \cup {m}, r)
    BY <1>4 DEF EndsIn
  <2>4. ReadyRecord(store, x, B \cup {m})
    BY <1>5, <1>6, <2>2, <2>3 DEF ReadyRecord
  <2>5. ReadyClean(store, x, B \cup {m}, A, nextId)
    BY <1>5 DEF ReadyClean, Cleans, Records
  <2> QED BY <1>5, <1>7, <2>4, <2>5, KindReady
<1>10. \A p : ReadyFrom(store, <<m>> \o <<x>>, B, p, A, e, now, nextId)
  BY <1>7, <1>8, <1>9, Join
<1>11. /\ Y \in Seq(Write)
       /\ \A p : ReadyFrom(store, Y, B \cup All(<<m>> \o <<x>>), p, A, e, now, nextId)
  <2>1. EndsIn(B \cup All(<<m>> \o <<x>>), r)
    BY <1>4, <1>7 DEF EndsIn
  <2>2. \A i : ~OpensIn(B \cup All(<<m>> \o <<x>>), i)
    BY <1>4, <1>5, <1>7 DEF OpensIn, Opens
  <2> QED BY <1>6, <2>1, <2>2, ClearReady
<1>12. Finish(r, o) = (<<m>> \o <<x>>) \o Y
  BY <1>4, <1>5 DEF Finish
<1> HIDE DEF Y
<1>13. \A p : ReadyFrom(store, (<<m>> \o <<x>>) \o Y, B, p, A, e, now, nextId)
  BY <1>7, <1>10, <1>11, Join
<1> QED BY <1>7, <1>11, <1>12, <1>13, AllConcat

(* An event that is not final is recorded.                                 *)
LEMMA RecordReady ==
    ASSUME Quiet, NEW r \in Ids, Pending(store, now, r), NEW o \in Observation, ~Terminal(o),
           NEW B, \A b \in B : b.file = "renewal", NEW A, NEW e
    PROVE  /\ Record(r, o) \in Seq(Write)
           /\ \A p : ReadyFrom(store, Record(r, o), B, p, A, e, now, nextId)
<1>1. PICK x \in Write : /\ Record(r, o) = <<x>> /\ Records(x) /\ x.key = r
                         /\ x.file = "observation"
                         /\ x.value = Advance(store.observation[r], o, now)
  BY RecordWrite
<1>2. Has(store, r) /\ ~Ended(store, r)
  BY DEF Pending
<1>3. x.value.definitive.state # "final"
  <2>1. store.observation[r].definitive.state # "final"
    BY <1>2, QuietFacts DEF Files, OutcomeOpen
  <2>2. store.observation[r] \in ObservationState
    BY QuietFacts DEF Store, ObservationState, NoState, Nothing, Times
  <2> QED BY <1>1, <2>1, <2>2 DEF Advance, Terminal, ObservationState
<1>4. ReadyRecord(store, x, B)
  BY <1>1, <1>2, <1>3 DEF ReadyRecord, Ends
<1>5. ReadyClean(store, x, B, A, nextId)
  BY <1>1 DEF ReadyClean, Cleans, Records
<1>6. \A p : ReadyFrom(store, <<x>>, B, p, A, e, now, nextId)
  BY <1>1, <1>4, <1>5, KindReady
<1> QED BY <1>1, <1>6, AllOne

(* An observation with live authority: the host may end the request.       *)
LEMMA ObserveReady ==
    ASSUME Quiet, NEW r \in Ids, NEW o \in Observation, Status(r) = "pending",
           Follows(store.observation[r], o, now), o.state # "generating",
           NEW T, T = IF Terminal(o) THEN Finish(r, o) \o Revoke(r) ELSE Record(r, o)
    PROVE  T \in Seq(Write) /\ Ready(store, T, now, nextId)
<1> DEFINE A == All(T)
           e == Last(T)
<1>1. Pending(store, now, r)
  BY StatusIs
<1>2. CASE Terminal(o)
  <2>1. PICK l \in Write : Revoke(r) = <<l>> /\ l.file = "live" /\ l.key = r
    BY RevokeWrite
  <2>2. /\ <<l>> \in Seq(Write) /\ Last(<<l>>) = l /\ <<l>> # <<>>
    BY AllOne
  <2>3. T = Finish(r, o) \o <<l>>
    BY <1>2, <2>1
  <2>4. o.payload \in Results =>
          /\ store.observation[r].definitive.state = "result_candidate"
          /\ Completes(store.observation[r], o, now)
    <3>1. o.payload \in Results => o.state = "final"
      BY <1>2 DEF Observation, Terminal, AbortStates, CompletionStates, PromptStates,
                  ResponseStates, None
    <3> QED BY <3>1 DEF Follows, Predecessors
  <2> HIDE DEF A, e
  <2>5. Finish(r, o) \in Seq(Write)
    <3>1. \A b \in {} : b.file = "late"
      OBVIOUS
    <3> QED BY <1>1, <1>2, <2>1, <2>4, <3>1, FinishReady
  <2>6. T \in Seq(Write) /\ e = l
    <3>1. Finish(r, o) \o <<l>> \in Seq(Write) /\ Last(Finish(r, o) \o <<l>>) = Last(<<l>>)
      BY <2>2, <2>5, AllConcat
    <3> QED BY <2>2, <2>3, <3>1 DEF e
  <2>7. \A p : ReadyFrom(store, Finish(r, o), {}, p, A, e, now, nextId)
    <3>1. \A b \in {} : b.file = "late"
      OBVIOUS
    <3>2. Live(store, r) => e.file = "live" /\ e.key = r
      BY <2>1, <2>6
    <3> QED BY <1>1, <1>2, <2>4, <3>1, <3>2, FinishReady
  <2>8. \A p : ReadyFrom(store, <<l>>, {} \cup All(Finish(r, o)), p, A, e, now, nextId)
    BY <2>1, KindReady
  <2>9. \A p : ReadyFrom(store, Finish(r, o) \o <<l>>, {}, p, A, e, now, nextId)
    BY <2>2, <2>5, <2>7, <2>8, Join
  <2> QED BY <2>3, <2>6, <2>9, ReadyAll DEF A, e
<1>3. CASE ~Terminal(o)
  <2>1. T = Record(r, o)
    BY <1>3
  <2> HIDE DEF A, e
  <2>2. T \in Seq(Write) /\ \A p : ReadyFrom(store, T, {}, p, A, e, now, nextId)
    <3>1. \A b \in {} : b.file = "renewal"
      OBVIOUS
    <3>2. Record(r, o) \in Seq(Write)
          /\ \A p : ReadyFrom(store, Record(r, o), {}, p, A, e, now, nextId)
      BY <1>1, <1>3, <3>1, RecordReady
    <3> QED BY <2>1, <3>2
  <2> QED BY <2>2, ReadyAll DEF A, e
<1> QED BY <1>2, <1>3

(* A generating response renews the request and is recorded.               *)
LEMMA GenerateReady ==
    ASSUME Quiet, NEW r \in Ids, NEW o \in Observation, o.state = "generating",
           Status(r) = "pending", NEW expiry \in Nat, expiry > now, NEW T,
           T = (IF expiry > Expiry(store.request[r])
                THEN <<W("renewal", r, expiry)>> ELSE <<>>) \o Record(r, o)
    PROVE  T \in Seq(Write) /\ Ready(store, T, now, nextId)
<1> DEFINE x == W("renewal", r, expiry)
           V == IF expiry > Expiry(store.request[r]) THEN <<x>> ELSE <<>>
           A == All(T)
           e == Last(T)
<1>0. T = V \o Record(r, o) /\ (V = <<x>> \/ V = <<>>)
  OBVIOUS
<1>1. Pending(store, now, r) /\ ~Terminal(o)
  BY StatusIs DEF Terminal, AbortStates
<1>2. x \in Write /\ Renews(x) /\ x.file = "renewal" /\ x.key = r /\ x.value = expiry
  BY QuietFacts DEF W, Write, Renews
<1> HIDE DEF x, V, A, e
<1>3. ReadyRenew(store, x, {}, now) /\ ReadyClean(store, x, {}, A, nextId)
  BY <1>1, <1>2, QuietFacts DEF ReadyRenew, ReadyClean, Cleans, Renews
<1>4. V \in Seq(Write) /\ \A b \in {} \cup All(V) : b.file = "renewal"
  <2>1. CASE V = <<x>>
    BY <1>2, <2>1, AllOne
  <2>2. CASE V = <<>>
    BY <2>2, ReadyNone
  <2> QED BY <1>0, <2>1, <2>2
<1>5. \A p : ReadyFrom(store, V, {}, p, A, e, now, nextId)
  BY <1>0, <1>2, <1>3, KindReady, ReadyNone
<1>6. /\ Record(r, o) \in Seq(Write)
      /\ \A p : ReadyFrom(store, Record(r, o), {} \cup All(V), p, A, e, now, nextId)
  BY <1>1, <1>4, RecordReady
<1>7. \A p : ReadyFrom(store, V \o Record(r, o), {}, p, A, e, now, nextId)
  BY <1>4, <1>5, <1>6, Join
<1>8. V \o Record(r, o) \in Seq(Write)
  BY <1>4, <1>6, AllConcat
<1> QED BY <1>0, <1>7, <1>8, ReadyAll DEF A, e

(* Evidence is kept beside the request.                                    *)
LEMMA LateReady ==
    ASSUME NEW r \in Ids, NEW o \in Observation, NEW S, NEW A, NEW e, NEW n, NEW c
    PROVE  /\ KeepEvidence(r, o) \in Seq(Write)
           /\ \A b \in {} \cup All(KeepEvidence(r, o)) : b.file = "late"
           /\ \A p : ReadyFrom(S, KeepEvidence(r, o), {}, p, A, e, n, c)
<1> DEFINE x == W("late", r, o)
<1>1. x \in Write /\ x.file = "late"
  BY DEF W, Write
<1>2. KeepEvidence(r, o) = <<x>> \/ KeepEvidence(r, o) = <<>>
  BY DEF KeepEvidence
<1> HIDE DEF x
<1>3. CASE KeepEvidence(r, o) = <<x>>
  BY <1>1, <1>3, AllOne, KindReady
<1>4. CASE KeepEvidence(r, o) = <<>>
  BY <1>4, ReadyNone
<1> QED BY <1>2, <1>3, <1>4

(* A final without authority fails a request that is still pending.        *)
LEMMA WithoutAuthorityReady ==
    ASSUME Quiet, NEW r \in Ids, NEW o \in Observation,
           Status(r) = "pending" => ~Live(store, r), NEW T,
           T = KeepEvidence(r, o)
               \o (IF Status(r) = "pending" THEN Finish(r, AuthorityLost(o)) ELSE <<>>)
    PROVE  T \in Seq(Write) /\ Ready(store, T, now, nextId)
<1> DEFINE u == AuthorityLost(o)
           V == KeepEvidence(r, o)
           Y == IF Status(r) = "pending" THEN Finish(r, u) ELSE <<>>
           A == All(T)
           e == Last(T)
<1>0. T = V \o Y /\ (Status(r) = "pending" => Y = Finish(r, u))
      /\ (Status(r) # "pending" => Y = <<>>)
  OBVIOUS
<1>1. u \in Observation /\ Terminal(u) /\ u.payload \notin Results
  BY DEF AuthorityLost, Observation, Terminal, AbortStates, None
<1> HIDE DEF u, Y, A, e
<1>2. /\ V \in Seq(Write) /\ \A b \in {} \cup All(V) : b.file = "late"
      /\ \A p : ReadyFrom(store, V, {}, p, A, e, now, nextId)
  BY LateReady
<1> HIDE DEF V
<1>3. /\ Y \in Seq(Write)
      /\ \A p : ReadyFrom(store, Y, {} \cup All(V), p, A, e, now, nextId)
  <2>1. CASE Status(r) = "pending"
    <3>1. Pending(store, now, r) /\ ~Live(store, r)
      BY <2>1, StatusIs
    <3>2. /\ Finish(r, u) \in Seq(Write)
          /\ \A p : ReadyFrom(store, Finish(r, u), {} \cup All(V), p, A, e, now, nextId)
      BY <1>1, <1>2, <3>1, FinishReady
    <3> QED BY <1>0, <2>1, <3>2
  <2>2. CASE Status(r) # "pending"
    BY <1>0, <2>2, ReadyNone
  <2> QED BY <2>1, <2>2
<1>4. \A p : ReadyFrom(store, V \o Y, {}, p, A, e, now, nextId)
  BY <1>2, <1>3, Join
<1>5. V \o Y \in Seq(Write)
  BY <1>2, <1>3, AllConcat
<1> QED BY <1>0, <1>4, <1>5, ReadyAll DEF A, e

(* A final after a failure is kept.                                        *)
LEMMA AfterFailureReady ==
    ASSUME NEW r \in Ids, NEW o \in Observation
    PROVE  KeepEvidence(r, o) \in Seq(Write) /\ Ready(store, KeepEvidence(r, o), now, nextId)
<1>1. /\ KeepEvidence(r, o) \in Seq(Write)
      /\ \A p : ReadyFrom(store, KeepEvidence(r, o), {}, p, All(KeepEvidence(r, o)),
                          Last(KeepEvidence(r, o)), now, nextId)
  BY LateReady
<1> QED BY <1>1, ReadyAll

(* What a crash left undone of a request that has ended.                   *)
LEMMA CompletionReady ==
    ASSUME Quiet, NEW r \in Ids, NEW o \in Observation, Status(r) = "cancelled", NEW A, NEW e
    PROVE  /\ Completion(r, o) \in Seq(Write)
           /\ \A p : ReadyFrom(store, Completion(r, o), {}, p, A, e, now, nextId)
<1> DEFINE Y == ClearActive(SessionOf(r), r)
           plain == store.marker[r].outcome = "cancelled"
<1>1. Has(store, r) /\ Ended(store, r) /\ ~Pending(store, now, r)
  BY StatusIs DEF Pending
<1>2. Y \in Seq(Write)
  <2>1. \A i : ~OpensIn({}, i)
    BY NothingIn
  <2> QED BY <1>1, <2>1, ClearReady
<1>3. CASE plain /\ ObservedNow(r, o)
  <2>1. Completion(r, o) = Y
    BY <1>3 DEF Completion
  <2>2. \A p : ReadyFrom(store, Y, {}, p, A, e, now, nextId)
    BY <1>1, NothingIn, ClearReady
  <2> QED BY <1>2, <2>1, <2>2
<1>4. CASE ~plain /\ ExactTerminal(r, o)
  <2> DEFINE V == IF Replay(store.observation[r], o) THEN <<>> ELSE Record(r, o)
  <2>1. Completion(r, o) = V \o Y
    BY <1>4 DEF Completion
  <2>2. PICK x \in Write : /\ Record(r, o) = <<x>> /\ Records(x) /\ x.key = r
                           /\ x.file = "observation"
                           /\ x.value = Advance(store.observation[r], o, now)
    BY RecordWrite
  <2>3. V = <<>> \/ V = <<x>>
    BY <2>2
  <2> HIDE DEF V
  <2>4. ReadyRecord(store, x, {})
    <3>1. x.value.definitive = o
      BY <1>4, <2>2 DEF ExactTerminal, Terminal, AbortStates, Advance
    <3>2. store.marker[r].outcome = "delivered" => Shows(x.value, store.marker[r])
      <4>1. store.marker[r].outcome = "delivered" => o.payload \in Results
        BY <1>4 DEF ExactTerminal, Outcome
      <4>2. o.payload \in Results => o.state = "final"
        BY <1>4 DEF ExactTerminal, Observation, Terminal, AbortStates, CompletionStates,
                    PromptStates, ResponseStates, None
      <4> QED BY <1>4, <3>1, <4>1, <4>2 DEF Shows, ExactTerminal
    <3> QED BY <1>1, <2>2, <3>2 DEF ReadyRecord
  <2>5. ReadyClean(store, x, {}, A, nextId)
    BY <2>2 DEF ReadyClean, Cleans, Records
  <2>6. \A p : ReadyFrom(store, <<x>>, {}, p, A, e, now, nextId)
    BY <2>2, <2>4, <2>5, KindReady
  <2>7. /\ V \in Seq(Write) /\ \A i : ~OpensIn({} \cup All(V), i)
        /\ \A p : ReadyFrom(store, V, {}, p, A, e, now, nextId)
    <3>1. CASE V = <<>>
      BY <3>1, ReadyNone DEF OpensIn
    <3>2. CASE V = <<x>>
      BY <2>2, <2>6, <3>2, AllOne DEF OpensIn, Opens
    <3> QED BY <2>3, <3>1, <3>2
  <2>8. \A p : ReadyFrom(store, Y, {} \cup All(V), p, A, e, now, nextId)
    BY <1>1, <2>7, ClearReady
  <2> HIDE DEF Y
  <2>9. \A p : ReadyFrom(store, V \o Y, {}, p, A, e, now, nextId)
    BY <1>2, <2>7, <2>8, Join
  <2>10. V \o Y \in Seq(Write)
    BY <1>2, <2>7, AllConcat
  <2> QED BY <2>1, <2>9, <2>10
<1>5. CASE ~(plain /\ ObservedNow(r, o)) /\ ~(~plain /\ ExactTerminal(r, o))
  <2>1. Completion(r, o) = <<>>
    BY <1>5 DEF Completion
  <2> QED BY <2>1, ReadyNone
<1> QED BY <1>3, <1>4, <1>5

(* An event for a request that has ended.                                  *)
LEMMA EndedReady ==
    ASSUME Quiet, NEW r \in Ids, NEW o \in Observation, Status(r) = "cancelled",
           NEW T, T = Completion(r, o) \o Revoke(r)
    PROVE  T \in Seq(Write) /\ Ready(store, T, now, nextId)
<1> DEFINE A == All(T)
           e == Last(T)
           V == Completion(r, o)
<1> HIDE DEF A, e
<1>1. PICK l \in Write : Revoke(r) = <<l>> /\ l.file = "live" /\ l.key = r
  BY RevokeWrite
<1>2. V \in Seq(Write) /\ \A p : ReadyFrom(store, V, {}, p, A, e, now, nextId)
  BY CompletionReady
<1>3. T = V \o <<l>>
  BY <1>1
<1> HIDE DEF V
<1>4. \A p : ReadyFrom(store, <<l>>, {} \cup All(V), p, A, e, now, nextId)
  BY <1>1, KindReady
<1>5. <<l>> \in Seq(Write)
  BY AllOne
<1>6. \A p : ReadyFrom(store, V \o <<l>>, {}, p, A, e, now, nextId)
  BY <1>2, <1>4, <1>5, Join
<1>7. V \o <<l>> \in Seq(Write)
  BY <1>2, <1>5, AllConcat
<1> QED BY <1>3, <1>6, <1>7, ReadyAll DEF A, e

(* A new prompt.                                                           *)
LEMMA PairConcat ==
    ASSUME NEW x \in Write, NEW y \in Write
    PROVE  <<x>> \o <<y>> = <<x, y>>
<1>1. /\ <<x>> \in Seq(Write) /\ <<y>> \in Seq(Write) /\ <<x, y>> \in Seq(Write)
      /\ Len(<<x>>) = 1 /\ Len(<<y>>) = 1 /\ Len(<<x, y>>) = 2
      /\ <<x>>[1] = x /\ <<y>>[1] = y /\ <<x, y>>[1] = x /\ <<x, y>>[2] = y
  OBVIOUS
<1> DEFINE T == <<x>> \o <<y>>
           U == <<x, y>>
<1>2. /\ T \in Seq(Write) /\ Len(T) = 2
      /\ \A i \in 1..2 : T[i] = IF i <= 1 THEN <<x>>[i] ELSE <<y>>[i - 1]
  <2>1. /\ T \in Seq(Write) /\ Len(T) = Len(<<x>>) + Len(<<y>>)
        /\ \A i \in 1..Len(T) : T[i] = IF i <= Len(<<x>>) THEN <<x>>[i]
                                        ELSE <<y>>[i - Len(<<x>>)]
    BY <1>1, ConcatProperties
  <2> HIDE DEF T
  <2> QED BY <1>1, <2>1
<1> HIDE DEF T
<1>3. T[1] = x /\ T[2] = y
  BY <1>1, <1>2
<1>4. \A i \in 1..2 : i = 1 \/ i = 2
  OBVIOUS
<1> HIDE DEF U
<1>5. U \in Seq(Write) /\ Len(U) = 2 /\ U[1] = x /\ U[2] = y
  BY <1>1 DEF U
<1>6. T = U
  BY <1>2, <1>3, <1>4, <1>5, SeqEqual
<1> QED BY <1>6 DEF T, U

(* A session whose prompt is finished has no pending request.              *)
LEMMA FinishedClaim ==
    ASSUME Quiet, NEW s \in Sessions,
           store.active[s] # NoRequest =>
              Marked(store.active[s].id) \/ Expired(store.active[s])
    PROVE  \A r \in Ids : Pending(store, now, r) => store.request[r].session # s
<1> SUFFICES ASSUME NEW r \in Ids, Pending(store, now, r), store.request[r].session = s
             PROVE  FALSE
  OBVIOUS
<1> DEFINE a == store.active[s]
<1>1. a.id = r /\ Has(store, r) /\ ~Ended(store, r)
  BY QuietFacts DEF Files, PendingNamed, Pending
<1>2. a # NoRequest
  BY <1>1 DEF NoRequest, Ids
<1>3. store.request[r] = a
  BY <1>1, <1>2, QuietFacts DEF Files, ClaimsOwn, Has
<1>4. ~Marked(r)
  BY <1>1 DEF Ended, Marked
<1>5. ~Expired(a)
  BY <1>1, <1>3 DEF Expired, Expiry, Pending, Until
<1> QED BY <1>1, <1>2, <1>4, <1>5

(* A new prompt: the old one given up, the session claimed, the request    *)
(* written, and cancelled again if its page is lost.                       *)
LEMMA OpenReady ==
    ASSUME Quiet, nextId \in Ids, NEW s \in Sessions, NEW cor \in Correlations,
           NEW ttl \in Lifetimes, NEW lost \in BOOLEAN, NEW q, NEW T,
           store.active[s] # NoRequest =>
              Marked(store.active[s].id) \/ Expired(store.active[s]),
           q = [id |-> nextId, session |-> s, correlation |-> cor,
                createdAt |-> now, expiresAt |-> now + ttl],
           T = (IF store.active[s] # NoRequest THEN <<W("active", s, NoRequest)>> ELSE <<>>)
               \o <<W("active", s, q), W("request", nextId, q)>>
               \o (IF lost THEN Mark(nextId, "cancelled", Nothing)
                                \o <<W("active", s, NoRequest)>>
                   ELSE <<>>)
    PROVE  T \in Seq(Write) /\ Ready(store, T, now, nextId + 1)
<1> DEFINE x == W("active", s, NoRequest)
           cl == W("active", s, q)
           op == W("request", nextId, q)
           V == IF store.active[s] # NoRequest THEN <<x>> ELSE <<>>
           Y == IF lost THEN Mark(nextId, "cancelled", Nothing) \o <<x>> ELSE <<>>
           A == All(T)
           e == Last(T)
           k == nextId + 1
<1>0. T = (V \o <<cl, op>>) \o Y /\ (V = <<x>> \/ V = <<>>)
  OBVIOUS
<1>1. PICK m \in Write : /\ Mark(nextId, "cancelled", Nothing) = <<m>> /\ Ends(m)
                         /\ m.key = nextId /\ m.file = "marker"
                         /\ m.value.outcome = "cancelled"
  <2>1. [outcome |-> "cancelled", evidence |-> Nothing, at |-> now] \in Marker
    BY QuietFacts DEF Marker
  <2> QED BY <2>1, MarkWrite
<1>2. Y = <<m>> \o <<x>> \/ Y = <<>>
  BY <1>1
<1>3. q \in Request /\ q # NoRequest /\ q.id = nextId /\ q.session = s /\ now <= q.expiresAt
  <2>1. now + ttl \in Nat /\ now <= now + ttl
    BY QuietFacts
  <2> QED BY <2>1, QuietFacts DEF Request, NoRequest, Ids
<1>4. /\ x \in Write /\ x.file = "active" /\ Clears(x) /\ x.key = s
      /\ cl \in Write /\ cl.file = "active" /\ Claims(cl) /\ cl.key = s /\ cl.value = q
      /\ op \in Write /\ op.file = "request" /\ Opens(op) /\ op.key = nextId /\ op.value = q
  BY <1>3 DEF W, Write, Clears, Claims, Opens
<1>5. nextId \in Nat /\ nextId < k /\ k \in Nat
  BY QuietFacts
<1> HIDE DEF x, cl, op, V, Y, A, e, k
<1>6. \A r \in Ids : Pending(store, now, r) => store.request[r].session # s
  BY FinishedClaim
<1>7. ~Has(store, nextId) /\ Untouched(store, nextId)
  BY QuietFacts DEF Files, Unborn
<1>8. \A t \in Sessions : store.active[t].id # nextId
  BY <1>5, QuietFacts DEF Files, ClaimsOwn, NoRequest, Ids
<1>9. /\ <<x>> \in Seq(Write) /\ <<cl>> \in Seq(Write) /\ <<op>> \in Seq(Write)
      /\ <<m>> \in Seq(Write) /\ <<cl, op>> \in Seq(Write)
      /\ All(<<x>>) = {x} /\ All(<<cl>>) = {cl} /\ All(<<m>>) = {m}
      /\ <<cl>> \o <<op>> = <<cl, op>> /\ All(<<cl, op>>) = {cl, op}
  <2>1. /\ <<x>> \in Seq(Write) /\ <<cl>> \in Seq(Write) /\ <<op>> \in Seq(Write)
        /\ <<m>> \in Seq(Write) /\ All(<<x>>) = {x} /\ All(<<cl>>) = {cl}
        /\ All(<<m>>) = {m} /\ All(<<op>>) = {op}
    BY <1>4, AllOne
  <2>2. <<cl>> \o <<op>> = <<cl, op>>
    BY <1>4, PairConcat
  <2>3. <<cl>> \o <<op>> \in Seq(Write) /\ All(<<cl>> \o <<op>>) = All(<<cl>>) \cup All(<<op>>)
    BY <2>1, AllConcat
  <2> QED BY <2>1, <2>2, <2>3
<1>10. /\ V \in Seq(Write) /\ \A b \in All(V) : Clears(b)
       /\ \A p : ReadyFrom(store, V, {}, p, A, e, now, k)
  <2>1. CASE V = <<>>
    BY <2>1, ReadyNone
  <2>2. CASE V = <<x>>
    <3>1. ReadyClear(store, x, {}, now) /\ ReadyClaim(store, x, {}, now, k)
      BY <1>4, <1>6, NothingIn DEF ReadyClear, ReadyClaim, Clears, Claims
    <3>2. \A p : ReadyFrom(store, <<x>>, {}, p, A, e, now, k)
      BY <1>4, <3>1, KindReady
    <3> QED BY <1>4, <1>9, <2>2, <3>2
  <2> QED BY <1>0, <2>1, <2>2
<1>11. e.file # "live" /\ T \in Seq(Write) /\ Y \in Seq(Write)
       /\ (V \o <<cl, op>>) \in Seq(Write) /\ All(V \o <<cl, op>>) = All(V) \cup {cl, op}
  <2>1. V \o <<cl, op>> \in Seq(Write) /\ All(V \o <<cl, op>>) = All(V) \cup {cl, op}
    <3>1. /\ V \o <<cl, op>> \in Seq(Write)
          /\ All(V \o <<cl, op>>) = All(V) \cup All(<<cl, op>>)
      BY <1>9, <1>10, AllConcat
    <3> QED BY <1>9, <3>1
  <2>2. Last(V \o <<cl, op>>) = op
    <3>1. <<cl, op>> # <<>> /\ Last(<<cl, op>>) = op
      BY DEF Last
    <3> QED BY <1>9, <1>10, <3>1, AllConcat
  <2>3. CASE Y = <<>>
    <3>1. (V \o <<cl, op>>) \o <<>> = V \o <<cl, op>>
      BY <2>1, ConcatEmptySeq
    <3>2. T = V \o <<cl, op>>
      BY <1>0, <2>3, <3>1
    <3>3. e = op
      BY <2>2, <3>2 DEF e
    <3>4. Y \in Seq(Write)
      BY <2>3
    <3> QED BY <1>4, <2>1, <3>2, <3>3, <3>4
  <2>4. CASE Y = <<m>> \o <<x>>
    <3>1. Y \in Seq(Write) /\ Last(Y) = x /\ Y # <<>>
      BY <1>9, <2>4, AllConcat, AllOne
    <3>2. (V \o <<cl, op>>) \o Y \in Seq(Write) /\ Last((V \o <<cl, op>>) \o Y) = x
      BY <2>1, <3>1, AllConcat
    <3> QED BY <1>0, <1>4, <2>1, <3>1, <3>2 DEF e
  <2> QED BY <1>2, <2>3, <2>4
<1>12. \A p : ReadyFrom(store, <<cl, op>>, {} \cup All(V), p, A, e, now, k)
  <2> SUFFICES ASSUME NEW p
               PROVE  ReadyFrom(store, <<cl>> \o <<op>>, {} \cup All(V), p, A, e, now, k)
    BY <1>9
  <2> DEFINE B == {} \cup All(V)
  <2>1. ReadyClaim(store, cl, B, now, k)
    BY <1>3, <1>4, <1>5, <1>6, <1>7, <1>8, <1>10 DEF ReadyClaim
  <2>2. ReadyFrom(store, <<cl>>, B, p, A, e, now, k)
    BY <1>4, <2>1, KindReady DEF ReadyClear, Claims, Clears
  <2>3. Newest(<<cl>>, p) = cl
    BY AllOne DEF Newest
  <2>4. ReadyOpen(store, op, B \cup All(<<cl>>), cl, e, now, k)
    <3>1. \A b \in B \cup {cl} : b.file = "active"
      BY <1>4, <1>10 DEF Clears
    <3> QED BY <1>3, <1>4, <1>5, <1>7, <1>9, <1>11, <3>1 DEF ReadyOpen
  <2>5. ReadyAt(store, op, B \cup All(<<cl>>), cl, A, e, now, k)
    BY <1>4, <2>4, ReadyKind DEF ReadyRemove, Removes, Opens
  <2>6. ReadyFrom(store, <<op>>, B \cup All(<<cl>>), Newest(<<cl>>, p), A, e, now, k)
    BY <2>3, <2>5, ReadyOne
  <2> HIDE DEF B
  <2>7. ReadyFrom(store, <<cl>> \o <<op>>, B, p, A, e, now, k)
    BY <1>9, <2>2, <2>6, ReadyConcat
  <2> QED BY <2>7 DEF B
<1>13. \A p : ReadyFrom(store, V \o <<cl, op>>, {}, p, A, e, now, k)
  BY <1>9, <1>10, <1>12, Join
<1>14. \A p : ReadyFrom(store, Y, {} \cup All(V \o <<cl, op>>), p, A, e, now, k)
  <2> DEFINE B == {} \cup All(V \o <<cl, op>>)
  <2>1. B = All(V) \cup {cl, op}
    BY <1>11
  <2>2. \A b \in B : b.file \in {"active", "request"} /\ (Opens(b) => b.key = nextId)
    BY <1>4, <1>10, <2>1 DEF Clears, Opens
  <2>3. OpensIn(B, nextId)
    BY <1>4, <2>1 DEF OpensIn
  <2> HIDE DEF B
  <2>4. ASSUME Y = <<>>, NEW p PROVE ReadyFrom(store, Y, B, p, A, e, now, k)
    BY <2>4, ReadyNone
  <2>5. ASSUME Y = <<m>> \o <<x>>, NEW p PROVE ReadyFrom(store, Y, B, p, A, e, now, k)
    <3>1. ReadyEnd(store, m, B, e, now)
      BY <1>1, <1>7, <2>2, <2>3 DEF ReadyEnd, Untouched
    <3>2. \A i : ReadyFrom(store, <<m>>, B, i, A, e, now, k)
      BY <1>1, <3>1, KindReady DEF ReadyClean, Cleans, Ends
    <3>3. ReadyClear(store, x, B \cup {m}, now)
      BY <1>1, <1>4, <1>6, <2>2 DEF ReadyClear, OpensIn, EndsIn, Opens
    <3>4. \A i : ReadyFrom(store, <<x>>, B \cup All(<<m>>), i, A, e, now, k)
      BY <1>4, <1>9, <3>3, KindReady DEF ReadyClaim, Clears, Claims
    <3>5. \A i : ReadyFrom(store, <<m>> \o <<x>>, B, i, A, e, now, k)
      BY <1>9, <3>2, <3>4, Join
    <3>6. ReadyFrom(store, <<m>> \o <<x>>, B, p, A, e, now, k)
      BY <3>5
    <3> QED BY <2>5, <3>6
  <2>6. \A p : ReadyFrom(store, Y, B, p, A, e, now, k)
    BY <1>2, <2>4, <2>5
  <2> QED BY <2>6 DEF B
<1>15. \A p : ReadyFrom(store, (V \o <<cl, op>>) \o Y, {}, p, A, e, now, k)
  BY <1>11, <1>13, <1>14, Join
<1>16. Ready(store, T, now, k)
  BY <1>0, <1>15, ReadyAll DEF A, e
<1> QED BY <1>11, <1>16 DEF k

(* The store of an open prompt is as good for the next id.                 *)
LEMMA NextGood ==
    ASSUME NEW S, NEW n, NEW c, NEW T, Good(S, <<>>, n, c), c \in Ids,
           T \in Seq(Write), Ready(S, T, n, c + 1)
    PROVE  Good(S, T, n, c + 1)
<1>1. S \in Store /\ Files(S, n, c) /\ Named(S) /\ n \in Times /\ c \in Nat
  BY DEF Good, Typed
<1>2. ClaimsOwn(S, c + 1)
  <2>1. \A s \in Sessions : S.active[s] # NoRequest => S.active[s].id < c + 1
    BY <1>1 DEF Files, ClaimsOwn, Store, Request, Ids
  <2> QED BY <1>1, <2>1 DEF Files, ClaimsOwn
<1>3. Unborn(S, c + 1)
  BY <1>1 DEF Files, Unborn, Ids
<1>4. c + 1 \in 1..(MaxRequests + 1)
  BY <1>1 DEF Ids
<1> QED BY <1>1, <1>2, <1>3, <1>4 DEF Good, Typed, Files, RevokeDue

(* The prompt of a claim whose file a crash kept from being written.       *)
LEMMA ReopenGood ==
    ASSUME Quiet, NEW s \in Sessions, store.active[s] # NoRequest,
           ~Marked(store.active[s].id), ~Expired(store.active[s]),
           store.request[store.active[s].id] = NoRequest
    PROVE  Good([store EXCEPT !.request[store.active[s].id] = store.active[s]],
                <<>>, now, nextId)
<1> DEFINE a == store.active[s]
           x == W("request", a.id, a)
<1>1. a \in Request /\ a.id \in Ids
  BY QuietFacts DEF Store, Request
<1>2. x \in Write /\ x.file = "request" /\ x.key = a.id /\ x.value = a /\ Opens(x)
  BY <1>1 DEF W, Write, Opens
<1>3. a.session = s /\ a.id < nextId /\ ~Has(store, a.id) /\ Untouched(store, a.id)
  BY QuietFacts DEF Files, ClaimsOwn, Has
<1>4. now <= a.expiresAt
  <2>1. ~(now > a.expiresAt)
    BY <1>3 DEF Expired, Expiry, Untouched
  <2>2. a.expiresAt \in Nat
    BY <1>1 DEF Request
  <2> QED BY <2>1, <2>2, QuietFacts
<1>5. [store EXCEPT !.request[a.id] = a] = Done(store, x)
  BY <1>2 DEF Done, W
<1> HIDE DEF a, x
<1>6. ReadyOpen(store, x, {}, x, x, now, nextId)
  <2>1. store.active[a.session] = a
    BY <1>3 DEF a
  <2> QED BY <1>2, <1>3, <1>4, <2>1 DEF ReadyOpen
<1>7. Ready(store, <<x>>, now, nextId) /\ <<x>> \in Seq(Write)
  BY <1>2, <1>6, ReadyKind, ReadySingle DEF ReadyRemove, Removes, Opens
<1>8. Good(store, <<x>>, now, nextId)
  BY <1>7, DecideGood DEF Quiet
<1>9. <<x>> # <<>> /\ <<x>>[1] = x /\ Tail(<<x>>) = <<>>
  OBVIOUS
<1>10. Good(Done(store, x), <<>>, now, nextId)
  BY <1>8, <1>9, StepGood
<1> QED BY <1>5, <1>10 DEF a

(* The changes that go through all requests.                               *)
LEMMA InAllOf ==
    ASSUME NEW f, NEW m, NEW b \in AllOf(f, m)
    PROVE  \E i \in 1..m : b \in All(f[i])
BY DEF AllOf

(* Retiring a session: its capabilities, its pending requests and its      *)
(* pointer.                                                                *)
LEMMA RetireGood ==
    ASSUME Quiet, NEW s \in Sessions, NEW L, NEW f, NEW S, NEW T,
           L = [r \in Ids |-> store.live[r] /\ r \notin {i \in Ids : SessionOf(i) = s}],
           f = [r \in Ids |-> IF SessionOf(r) = s /\ Status(r) = "pending"
                              THEN Mark(r, "cancelled", Nothing) ELSE <<>>],
           S = [store EXCEPT !.live = L],
           T = ForEach(f) \o (IF store.active[s] # NoRequest
                              THEN <<W("active", s, NoRequest)>> ELSE <<>>)
    PROVE  Good(S, T, now, nextId)
<1> DEFINE x == W("active", s, NoRequest)
           Y == IF store.active[s] # NoRequest THEN <<x>> ELSE <<>>
           A == All(T)
           e == Last(T)
<1>0. T = ForEach(f) \o Y /\ (Y = <<x>> \/ Y = <<>>)
  OBVIOUS
<1>1. x \in Write /\ x.file = "active" /\ Clears(x) /\ x.key = s
  BY DEF W, Write, Clears
<1> HIDE DEF x, A, e
<1>2. L \in [Ids -> BOOLEAN] /\ \A r \in Ids : L[r] = TRUE => Live(store, r) /\ SessionOf(r) # s
  BY QuietFacts DEF Store, Live
<1>3. Good(S, <<>>, now, nextId)
  BY <1>2, LiveGood DEF Quiet
<1>4. /\ S.live = L /\ S.request = store.request /\ S.marker = store.marker
      /\ S.renewal = store.renewal
  BY QuietFacts DEF Store
<1>5. /\ \A r \in Ids : Pending(S, now, r) <=> Pending(store, now, r)
      /\ \A r \in Ids : Pending(S, now, r) <=> Status(r) = "pending"
      /\ \A r \in Ids : SessionOf(r) = s => ~Live(S, r)
      /\ \A r \in Ids : SessionOf(r) = S.request[r].session
  BY <1>2, <1>4, StatusIs DEF Pending, Has, Ended, Until, Live, SessionOf
<1>6. ASSUME NEW r \in Ids
      PROVE  \/ f[r] = <<>> /\ ~(SessionOf(r) = s /\ Pending(S, now, r))
             \/ /\ Pending(S, now, r) /\ SessionOf(r) = s
                /\ \E m \in Write : /\ f[r] = <<m>> /\ Ends(m) /\ m.key = r
                                    /\ m.file = "marker" /\ m.value.outcome = "cancelled"
  <2>1. [outcome |-> "cancelled", evidence |-> Nothing, at |-> now] \in Marker
    BY QuietFacts DEF Marker
  <2>2. PICK m \in Write : /\ Mark(r, "cancelled", Nothing) = <<m>> /\ Ends(m) /\ m.key = r
                           /\ m.file = "marker" /\ m.value.outcome = "cancelled"
    BY <2>1, MarkWrite
  <2>3. CASE SessionOf(r) = s /\ Status(r) = "pending"
    <3>1. f[r] = <<m>>
      BY <2>2, <2>3
    <3> QED BY <1>5, <2>2, <2>3, <3>1
  <2>4. CASE ~(SessionOf(r) = s /\ Status(r) = "pending")
    BY <1>5, <2>4
  <2> QED BY <2>3, <2>4
<1> DEFINE K(r) == \A b \in All(f[r]) : b.file = "marker" /\ b.key = r /\ Ends(b)
<1>7. ASSUME NEW r \in Ids PROVE f[r] \in Seq(Write) /\ K(r)
  <2>1. CASE f[r] = <<>>
    BY <2>1, ReadyNone
  <2>2. ASSUME NEW m \in Write, f[r] = <<m>>, Ends(m), m.key = r, m.file = "marker"
        PROVE  f[r] \in Seq(Write) /\ K(r)
    <3>1. All(<<m>>) = {m} /\ <<m>> \in Seq(Write)
      BY AllOne
    <3>2. All(f[r]) = {m} /\ f[r] \in Seq(Write)
      BY <2>2, <3>1
    <3> QED BY <2>2, <3>2
  <2> QED BY <1>6, <2>1, <2>2
<1> HIDE DEF K
<1>8. ASSUME NEW r \in Ids, NEW p
      PROVE  ReadyFrom(S, f[r], AllOf(f, r - 1), p, A, e, now, nextId)
  <2> DEFINE B == AllOf(f, r - 1)
  <2>1. \A b \in B : b.key # r
    <3> SUFFICES ASSUME NEW b \in B PROVE b.key # r
      OBVIOUS
    <3>1. PICK i \in 1..(r - 1) : b \in All(f[i])
      BY InAllOf
    <3>2. i \in Ids /\ i # r
      BY DEF Ids
    <3> QED BY <1>7, <3>1, <3>2 DEF K
  <2> HIDE DEF B
  <2>2. CASE f[r] = <<>>
    BY <2>2, ReadyNone
  <2>3. ASSUME Pending(S, now, r), SessionOf(r) = s, NEW m \in Write, f[r] = <<m>>, Ends(m),
               m.key = r, m.file = "marker", m.value.outcome = "cancelled"
        PROVE  ReadyFrom(S, f[r], B, p, A, e, now, nextId)
    <3>1. ReadyEnd(S, m, B, e, now)
      BY <1>5, <2>1, <2>3 DEF ReadyEnd
    <3>2. \A i : ReadyFrom(S, <<m>>, B, i, A, e, now, nextId)
      BY <2>3, <3>1, KindReady DEF ReadyClean, Cleans, Ends
    <3>3. ReadyFrom(S, <<m>>, B, p, A, e, now, nextId)
      BY <3>2
    <3> QED BY <2>3, <3>3
  <2> QED BY <1>6, <2>2, <2>3 DEF B
<1>9. /\ ForEach(f) \in Seq(Write) /\ All(ForEach(f)) = AllOf(f, MaxRequests)
      /\ \A p : ReadyFrom(S, ForEach(f), {}, p, A, e, now, nextId)
  BY <1>7, <1>8, ForEachReady
<1> DEFINE B == {} \cup All(ForEach(f))
<1>10. \A b \in B : b.file = "marker"
  <2> SUFFICES ASSUME NEW b \in AllOf(f, MaxRequests) PROVE b.file = "marker"
    BY <1>9
  <2>1. PICK i \in 1..MaxRequests : b \in All(f[i])
    BY InAllOf
  <2> QED BY <1>7, <2>1 DEF K, Ids
<1>11. ASSUME NEW r \in Ids, Pending(S, now, r), S.request[r].session = s
       PROVE  EndsIn(B, r)
  <2>1. PICK m \in Write : f[r] = <<m>> /\ Ends(m) /\ m.key = r
    BY <1>5, <1>6, <1>11
  <2>2. m \in All(f[r])
    BY <2>1, AllOne
  <2>3. m \in B
    BY <1>9, <2>2 DEF AllOf, Ids
  <2> QED BY <2>1, <2>3 DEF EndsIn
<1> HIDE DEF B
<1>12. Y \in Seq(Write) /\ \A p : ReadyFrom(S, Y, B, p, A, e, now, nextId)
  <2>1. CASE Y = <<>>
    BY <2>1, ReadyNone
  <2>2. CASE Y = <<x>>
    <3>1. ReadyClear(S, x, B, now)
      BY <1>1, <1>10, <1>11 DEF ReadyClear, OpensIn, Opens
    <3>2. \A i : ReadyFrom(S, <<x>>, B, i, A, e, now, nextId)
      BY <1>1, <3>1, KindReady DEF ReadyClaim, Clears, Claims
    <3>3. <<x>> \in Seq(Write)
      BY <1>1, AllOne
    <3> QED BY <2>2, <3>2, <3>3
  <2> QED BY <1>0, <2>1, <2>2
<1> HIDE DEF Y
<1>13. \A p : ReadyFrom(S, ForEach(f) \o Y, {}, p, A, e, now, nextId)
  BY <1>9, <1>12, Join DEF B
<1>14. T \in Seq(Write)
  <2>1. ForEach(f) \o Y \in Seq(Write)
    BY <1>9, <1>12, AllConcat
  <2> QED BY <1>0, <2>1
<1>15. ReadyFrom(S, T, {}, 0, A, e, now, nextId)
  BY <1>0, <1>13
<1>16. Ready(S, T, now, nextId)
  BY <1>15, ReadyAll DEF A, e
<1> QED BY <1>3, <1>14, <1>16, DecideGood

(* The five files of a request that is forgotten.                          *)
LEMMA RemoveParts ==
    ASSUME NEW r \in Ids
    PROVE  /\ Remove(r) \in Seq(Write) /\ Positions(Remove(r)) = 1..5
           /\ Remove(r)[1] = W("request", r, NoRequest)
           /\ Remove(r)[2] = W("observation", r, NoState)
           /\ Remove(r)[3] = W("late", r, Nothing)
           /\ Remove(r)[4] = W("marker", r, NoMarker)
           /\ Remove(r)[5] = W("renewal", r, 0)
<1>1. /\ W("request", r, NoRequest) \in Write /\ W("observation", r, NoState) \in Write
      /\ W("late", r, Nothing) \in Write /\ W("marker", r, NoMarker) \in Write
      /\ W("renewal", r, 0) \in Write
  BY DEF Write, W
<1> QED BY <1>1 DEF Remove, Positions

(* Removing them changes that request only, and ends or opens none.        *)
LEMMA RemoveShape ==
    ASSUME NEW r \in Ids, NEW x \in All(Remove(r))
    PROVE  /\ x.key = r /\ x.file # "active" /\ x.file # "live"
           /\ ~Claims(x) /\ ~Opens(x) /\ ~Ends(x) /\ ~Records(x) /\ ~Renews(x)
<1> DEFINE R == Remove(r)
<1>1. PICK k \in 1..5 : x = R[k]
  BY RemoveParts DEF All
<1>2. k = 1 \/ k = 2 \/ k = 3 \/ k = 4 \/ k = 5
  OBVIOUS
<1>3. /\ R[1] = W("request", r, NoRequest) /\ R[2] = W("observation", r, NoState)
      /\ R[3] = W("late", r, Nothing) /\ R[4] = W("marker", r, NoMarker)
      /\ R[5] = W("renewal", r, 0)
  BY RemoveParts
<1> HIDE DEF R
<1> QED BY <1>1, <1>2, <1>3 DEF W, Claims, Opens, Ends, Records, Renews

(* They may be removed when the request is finished and no pointer names   *)
(* it.                                                                     *)
LEMMA RemoveReady ==
    ASSUME Quiet, NEW r \in Ids, Has(store, r), ~Pending(store, now, r), NEW B, NEW A, NEW e,
           Purging(A),
           \A s \in Sessions : store.active[s].id = r => \E b \in B : Clears(b) /\ b.key = s,
           \A b \in B : b.file \in {"request", "marker", "renewal"} => b.key # r
    PROVE  \A p : ReadyFrom(store, Remove(r), B, p, A, e, now, nextId)
<1> DEFINE R == Remove(r)
<1>1. /\ R \in Seq(Write) /\ Positions(R) = 1..5
      /\ R[1] = W("request", r, NoRequest) /\ R[2] = W("observation", r, NoState)
      /\ R[3] = W("late", r, Nothing) /\ R[4] = W("marker", r, NoMarker)
      /\ R[5] = W("renewal", r, 0)
  BY RemoveParts
<1> HIDE DEF R
<1> SUFFICES ASSUME NEW p, NEW k \in 1..5
             PROVE  ReadyAt(store, R[k], B \cup Earlier(R, k),
                            IF k = 1 THEN p ELSE R[k - 1], A, e, now, nextId)
  BY <1>1 DEF ReadyFrom, R
<1> DEFINE q == IF k = 1 THEN p ELSE R[k - 1]
           C == B \cup Earlier(R, k)
<1>2. k = 1 \/ k = 2 \/ k = 3 \/ k = 4 \/ k = 5
  OBVIOUS
<1>3. k # 1 => R[1] \in C /\ Removes(R[1]) /\ R[1].key = r
  <2>1. k # 1 => 1 \in 1..(k - 1)
    OBVIOUS
  <2> QED BY <1>1, <2>1 DEF Earlier, Removes, W
<1>4. k = 1 => C = B
  BY DEF Earlier
<1> HIDE DEF q, C
<1>5. CASE k = 1
  <2>1. ReadyRemove(store, R[k], C, A, now) /\ ~Opens(R[k]) /\ R[k].file = "request"
    BY <1>1, <1>4, <1>5 DEF ReadyRemove, Removes, Opens, W
  <2>2. ReadyOpen(store, R[k], C, q, e, now, nextId)
    BY <2>1 DEF ReadyOpen
  <2> QED BY <2>1, <2>2, ReadyKind DEF q, C
<1>6. CASE k # 1
  <2>1. ReadyClean(store, R[k], C, A, nextId)
    <3>1. k # 1 /\ (k = 2 \/ k = 3 \/ k = 4 \/ k = 5) => R[k].key = r
      BY <1>1 DEF W
    <3> QED BY <1>2, <1>3, <1>6, <3>1 DEF ReadyClean
  <2>2. \/ R[k].file = "observation" /\ R[k].value = NoState
        \/ R[k].file = "late"
        \/ R[k].file = "marker" /\ R[k].value = NoMarker
        \/ R[k].file = "renewal" /\ R[k].value = 0
    BY <1>1, <1>2, <1>6 DEF W
  <2>3. ReadyEnd(store, R[k], C, e, now) /\ ReadyRecord(store, R[k], C)
        /\ ReadyRenew(store, R[k], C, now)
    BY <2>2 DEF ReadyEnd, ReadyRecord, ReadyRenew, Ends, Records, Renews
  <2> QED BY <2>1, <2>2, <2>3, ReadyKind DEF q, C
<1> QED BY <1>5, <1>6

(* Pruning: each forgotten request gives up its pointer, then its files    *)
(* go.                                                                     *)
LEMMA PruneReady ==
    ASSUME Quiet, NEW f, NEW T,
           f = [r \in Ids |-> IF Forgotten(r) THEN ClearActive(SessionOf(r), r) \o Remove(r)
                              ELSE <<>>],
           T = ForEach(f)
    PROVE  T \in Seq(Write) /\ Ready(store, T, now, nextId)
<1> DEFINE A == AllOf(f, MaxRequests)
           e == Last(T)
           Y(r) == ClearActive(SessionOf(r), r)
<1> HIDE DEF e
<1>1. ASSUME NEW r \in Ids, Forgotten(r)
      PROVE  f[r] = Y(r) \o Remove(r) /\ Has(store, r) /\ ~Pending(store, now, r)
  BY <1>1, StatusIs DEF Forgotten, Pending
<1>2. ASSUME NEW r \in Ids, Has(store, r), ~Pending(store, now, r), NEW B, \A i : ~OpensIn(B, i)
      PROVE  /\ Y(r) \in Seq(Write)
             /\ \A x \in All(Y(r)) : Clears(x) /\ x.file = "active" /\ x.key = SessionOf(r)
             /\ store.active[SessionOf(r)].id = r =>
                   \E x \in All(Y(r)) : Clears(x) /\ x.key = SessionOf(r)
             /\ \A p : ReadyFrom(store, Y(r), B, p, A, e, now, nextId)
  BY <1>2, ClearReady
<1> HIDE DEF Y
<1> DEFINE K(b, r) == /\ \/ Clears(b) /\ b.file = "active"
                         \/ b.file # "active" /\ b.key = r
                      /\ ~Claims(b) /\ ~Opens(b) /\ ~Ends(b) /\ ~Records(b) /\ ~Renews(b)
                      /\ b.file # "live"
<1>3. ASSUME NEW r \in Ids PROVE f[r] \in Seq(Write) /\ \A b \in All(f[r]) : K(b, r)
  <2>1. CASE ~Forgotten(r)
    <3>1. f[r] = <<>>
      BY <2>1
    <3> QED BY <3>1, ReadyNone
  <2>2. CASE Forgotten(r)
    <3>1. Y(r) \in Seq(Write) /\ \A b \in All(Y(r)) : Clears(b) /\ b.file = "active"
      <4>1. \A i : ~OpensIn({}, i)
        BY DEF OpensIn
      <4> QED BY <1>1, <1>2, <2>2, <4>1
    <3>2. Remove(r) \in Seq(Write)
      BY RemoveParts
    <3>3. Y(r) \o Remove(r) \in Seq(Write) /\ All(Y(r) \o Remove(r)) = All(Y(r)) \cup All(Remove(r))
      BY <3>1, <3>2, AllConcat
    <3>4. ASSUME NEW b \in All(Y(r)) PROVE K(b, r)
      <4>1. Clears(b) /\ b.file = "active" /\ b.value = NoRequest
        BY <3>1 DEF Clears
      <4>2. /\ ~Claims(b) /\ ~Opens(b) /\ ~Ends(b) /\ ~Records(b) /\ ~Renews(b)
            /\ b.file # "live"
        BY <4>1 DEF Claims, Opens, Ends, Records, Renews
      <4> QED BY <4>1, <4>2
    <3>5. \A b \in All(Remove(r)) : K(b, r)
      BY RemoveShape
    <3>6. f[r] = Y(r) \o Remove(r)
      BY <1>1, <2>2
    <3> HIDE DEF K
    <3> QED BY <3>3, <3>4, <3>5, <3>6
  <2> QED BY <2>1, <2>2
<1>4. ASSUME NEW m \in Nat, m <= MaxRequests, NEW b \in AllOf(f, m)
      PROVE  \E i \in Ids : i <= m /\ K(b, i)
  <2> HIDE DEF K
  <2>1. PICK i \in 1..m : b \in All(f[i])
    BY InAllOf
  <2>2. i \in Ids /\ i <= m
    BY <1>4 DEF Ids
  <2> QED BY <1>3, <2>1, <2>2
<1>5. Purging(A)
  <2>1. MaxRequests <= MaxRequests
    OBVIOUS
  <2> SUFFICES ASSUME NEW b \in A
               PROVE  /\ ~Claims(b) /\ ~Opens(b) /\ ~Ends(b)
                      /\ ~Records(b) /\ ~Renews(b) /\ b.file # "live"
    BY DEF Purging
  <2>2. PICK i \in Ids : K(b, i)
    BY <1>4, <2>1
  <2> QED BY <2>2
<1> HIDE DEF A
<1>6. ASSUME NEW r \in Ids, NEW p
      PROVE  ReadyFrom(store, f[r], AllOf(f, r - 1), p, A, e, now, nextId)
  <2> DEFINE B == AllOf(f, r - 1)
  <2>0. r - 1 \in Nat /\ r - 1 <= MaxRequests /\ \A i \in Ids : i <= r - 1 => i # r
    BY DEF Ids
  <2>1. \A b \in B : ~Opens(b) /\ (b.file \in {"request", "marker", "renewal"} => b.key # r)
    <3> SUFFICES ASSUME NEW b \in B
                 PROVE  ~Opens(b) /\ (b.file \in {"request", "marker", "renewal"} => b.key # r)
      OBVIOUS
    <3>1. PICK i \in Ids : i <= r - 1 /\ K(b, i)
      BY <1>4, <2>0
    <3> QED BY <2>0, <3>1
  <2> HIDE DEF B, K
  <2>2. CASE ~Forgotten(r)
    <3>1. f[r] = <<>>
      BY <2>2
    <3> QED BY <3>1, ReadyNone
  <2>3. CASE Forgotten(r)
    <3>0. f[r] = Y(r) \o Remove(r) /\ Has(store, r) /\ ~Pending(store, now, r)
      BY <1>1, <2>3
    <3>1. \A i : ~OpensIn(B, i)
      BY <2>1 DEF OpensIn
    <3>2. /\ Y(r) \in Seq(Write)
          /\ \A x \in All(Y(r)) : Clears(x) /\ x.file = "active" /\ x.key = SessionOf(r)
          /\ store.active[SessionOf(r)].id = r =>
                \E x \in All(Y(r)) : Clears(x) /\ x.key = SessionOf(r)
          /\ \A i : ReadyFrom(store, Y(r), B, i, A, e, now, nextId)
      BY <1>2, <3>0, <3>1
    <3>3. ASSUME NEW s \in Sessions, store.active[s].id = r PROVE s = SessionOf(r)
      <4>1. store.active[s] # NoRequest
        BY <3>3 DEF NoRequest, Ids
      <4>2. store.request[r] = store.active[s] /\ store.active[s].session = s
        BY <3>0, <3>3, <4>1, QuietFacts DEF Files, ClaimsOwn, Has
      <4> QED BY <4>2 DEF SessionOf
    <3>4. \A s \in Sessions : store.active[s].id = r =>
             \E b \in B \cup All(Y(r)) : Clears(b) /\ b.key = s
      BY <3>2, <3>3
    <3>5. \A b \in B \cup All(Y(r)) : b.file \in {"request", "marker", "renewal"} => b.key # r
      BY <2>1, <3>2
    <3>6. \A i : ReadyFrom(store, Remove(r), B \cup All(Y(r)), i, A, e, now, nextId)
      BY <1>5, <3>0, <3>4, <3>5, RemoveReady
    <3>7. Remove(r) \in Seq(Write)
      BY RemoveParts
    <3>8. \A i : ReadyFrom(store, Y(r) \o Remove(r), B, i, A, e, now, nextId)
      BY <3>2, <3>6, <3>7, Join
    <3> QED BY <3>0, <3>8 DEF B
  <2> QED BY <2>2, <2>3
<1>7. /\ ForEach(f) \in Seq(Write) /\ All(ForEach(f)) = A
      /\ \A p : ReadyFrom(store, ForEach(f), {}, p, A, e, now, nextId)
  BY <1>3, <1>6, ForEachReady DEF A
<1>8. T \in Seq(Write) /\ All(T) = A
  BY <1>7
<1>9. ReadyFrom(store, T, {}, 0, All(T), e, now, nextId)
  BY <1>7, <1>8
<1> QED BY <1>8, <1>9, ReadyAll DEF e

(* Nothing is stored at first.                                             *)
LEMMA InitGood == Init => IInv
<1> SUFFICES ASSUME Init PROVE Good(store, <<>>, now, nextId) /\ todo = <<>>
  BY DEF IInv
<1>1. /\ store.active = [s \in Sessions |-> NoRequest]
      /\ store.request = [r \in Ids |-> NoRequest]
      /\ store.renewal = [r \in Ids |-> 0]
      /\ store.observation = [r \in Ids |-> NoState]
      /\ store.marker = [r \in Ids |-> NoMarker]
      /\ store.late = [r \in Ids |-> Nothing]
      /\ store.live = [r \in Ids |-> FALSE]
      /\ todo = <<>> /\ now = 0 /\ nextId = 1
  BY DEF Init
<1>2. store \in Store
  BY DEF Init, Store
<1>3. now \in Times /\ nextId \in 1..(MaxRequests + 1)
  BY <1>1 DEF Times
<1>4. \A r \in Ids : ~Has(store, r) /\ Untouched(store, r)
  BY <1>1 DEF Has, Untouched, Ended, Live
<1>5. ClaimsOwn(store, nextId)
  BY <1>1 DEF ClaimsOwn
<1>6. Files(store, now, nextId) /\ Named(store) /\ RevokeDue(store, <<>>)
  BY <1>4, <1>5 DEF Files, Unborn, OutcomeOpen, ResultMarked, PendingNamed, Pending,
     Named,
                    RevokeDue
<1> QED BY <1>1, <1>2, <1>3, <1>6, ReadyEmpty DEF Good, Typed

(* Every step of the gateway preserves the invariant.                      *)
LEMMA NextGoodStep == IInv /\ [Next]_vars => IInv'
<1> SUFFICES ASSUME Good(store, todo, now, nextId), [Next]_vars
             PROVE  Good(store', todo', now', nextId')
  BY DEF IInv
<1>1. store \in Store /\ now \in Nat /\ now \in Times
  BY DEF Good, Typed, Times
<1>2. CASE Step
  <2>1. Head(todo) = todo[1] /\ todo # <<>>
    BY <1>2 DEF Step
  <2>2. store' = Done(store, todo[1]) /\ todo' = Tail(todo) /\ now' = now /\ nextId' = nextId
    BY <1>2, <2>1 DEF Step, Done
  <2>3. Good(Done(store, todo[1]), Tail(todo), now, nextId)
    BY <2>1, StepGood
  <2> QED BY <2>2, <2>3
<1>3. CASE Fail
  <2>1. Good(store, AfterFailure, now, nextId)
    BY <1>3, FailGood DEF Fail
  <2> QED BY <1>3, <2>1 DEF Fail
<1>4. CASE Crash
  <2> DEFINE L == [r \in Ids |-> FALSE]
  <2>1. Good([store EXCEPT !.live = L], <<>>, now, nextId)
    BY LiveGood
  <2> QED BY <1>4, <2>1 DEF Crash
<1>5. CASE Tick
  <2>1. Good(store, <<>>, now + 1, nextId)
    BY <1>5, TickGood DEF Tick
  <2> QED BY <1>5, <2>1 DEF Tick
<1>6. ASSUME todo = <<>>, NEW T, Decide(T), T \in Seq(Write), Ready(store, T, now, nextId)
      PROVE  Good(store', todo', now', nextId')
  <2>1. Good(store, T, now, nextId)
    BY <1>6, DecideGood
  <2> QED BY <1>6, <2>1 DEF Decide
<1>7. todo = <<>> => Quiet
  BY DEF Quiet
<1>8. CASE Prune
  <2> DEFINE f == [r \in Ids |-> IF Forgotten(r)
                                 THEN ClearActive(SessionOf(r), r) \o Remove(r) ELSE <<>>]
  <2>1. Decide(ForEach(f)) /\ todo = <<>>
    BY <1>8 DEF Prune, Decide
  <2>2. ForEach(f) \in Seq(Write) /\ Ready(store, ForEach(f), now, nextId)
    BY <1>7, <2>1, PruneReady
  <2> QED BY <1>6, <2>1, <2>2
<1>9. ASSUME NEW s \in Sessions, NEW c \in Correlations, Reopen(s, c)
      PROVE  Good(store', todo', now', nextId')
  <2>1. todo = <<>> /\ Quiet
    BY <1>7, <1>9 DEF Reopen
  <2>2. Good([store EXCEPT !.request[store.active[s].id] = store.active[s]],
             <<>>, now, nextId)
    BY <1>9, <2>1, ReopenGood DEF Reopen
  <2> QED BY <1>9, <2>1, <2>2 DEF Reopen
<1>10. ASSUME NEW s \in Sessions, NEW c \in Correlations, NEW ttl \in Lifetimes,
              NEW lost \in BOOLEAN, Open(s, c, ttl, lost)
       PROVE  Good(store', todo', now', nextId')
  <2> DEFINE q == [id |-> nextId, session |-> s, correlation |-> c,
                   createdAt |-> now, expiresAt |-> now + ttl]
             T == (IF store.active[s] # NoRequest THEN <<W("active", s, NoRequest)>>
                   ELSE <<>>)
                  \o <<W("active", s, q), W("request", nextId, q)>>
                  \o (IF lost THEN Mark(nextId, "cancelled", Nothing)
                                   \o <<W("active", s, NoRequest)>>
                      ELSE <<>>)
  <2>1. /\ todo = <<>> /\ nextId \in Ids /\ todo' = T /\ nextId' = nextId + 1
        /\ store' = store /\ now' = now
        /\ store.active[s] # NoRequest => Marked(store.active[s].id) \/ Expired(store.active[s])
    BY <1>10 DEF Open
  <2>2. Quiet
    BY <1>7, <2>1
  <2>3. T \in Seq(Write) /\ Ready(store, T, now, nextId + 1)
    BY <2>1, <2>2, OpenReady
  <2> HIDE DEF T
  <2>4. Good(store, T, now, nextId + 1)
    BY <2>1, <2>2, <2>3, NextGood DEF Quiet
  <2> QED BY <2>1, <2>4
<1>11. ASSUME NEW s \in Sessions, Retire(s) PROVE Good(store', todo', now', nextId')
  <2> DEFINE L == [r \in Ids |-> store.live[r] /\ r \notin {i \in Ids : SessionOf(i) = s}]
             f == [r \in Ids |-> IF SessionOf(r) = s /\ Status(r) = "pending"
                                 THEN Mark(r, "cancelled", Nothing) ELSE <<>>]
             g == [r \in Ids |-> IF r \in {i \in Ids : SessionOf(i) = s}
                                    /\ Status(r) = "pending"
                                 THEN Mark(r, "cancelled", Nothing) ELSE <<>>]
             Y == IF store.active[s] # NoRequest
                  THEN <<W("active", s, NoRequest)>> ELSE <<>>
  <2>1. /\ todo = <<>> /\ store' = [store EXCEPT !.live = L]
        /\ todo' = ForEach(g) \o Y /\ now' = now /\ nextId' = nextId
    BY <1>11 DEF Retire
  <2>2. f = g
    OBVIOUS
  <2>3. Quiet
    BY <1>7, <2>1
  <2>4. Good([store EXCEPT !.live = L], ForEach(f) \o Y, now, nextId)
    BY <2>3, RetireGood
  <2> HIDE DEF L, f, g, Y
  <2> QED BY <2>1, <2>2, <2>4
<1>12. ASSUME NEW r \in Ids, IssueTurn(r) PROVE Good(store', todo', now', nextId')
  <2> DEFINE L == [i \in Ids |-> IF i = r THEN TRUE
                                 ELSE store.live[i] /\ SessionOf(i) # SessionOf(r)]
  <2>1. /\ todo = <<>> /\ Status(r) = "pending" /\ store' = [store EXCEPT !.live = L]
        /\ todo' = <<>> /\ now' = now /\ nextId' = nextId
    BY <1>12 DEF IssueTurn
  <2>2. L \in [Ids -> BOOLEAN] /\ \A i \in Ids : L[i] = TRUE => Live(store, i) \/ i = r
    BY <1>1 DEF Live, Store
  <2>3. Pending(store, now, r)
    BY <1>7, <2>1, StatusIs
  <2> HIDE DEF L
  <2>4. Good([store EXCEPT !.live = L], <<>>, now, nextId)
    BY <2>1, <2>2, <2>3, LiveGood
  <2> QED BY <2>1, <2>4
<1>13. ASSUME NEW r \in Ids, LoseAuthority(r) PROVE Good(store', todo', now', nextId')
  <2> DEFINE L == [store.live EXCEPT ![r] = FALSE]
  <2>1. /\ todo = <<>> /\ store' = [store EXCEPT !.live = L]
        /\ todo' = <<>> /\ now' = now /\ nextId' = nextId
    BY <1>13 DEF LoseAuthority
  <2>2. L \in [Ids -> BOOLEAN] /\ \A i \in Ids : L[i] = TRUE => Live(store, i)
    BY <1>1 DEF Live, Store
  <2> HIDE DEF L
  <2>3. Good([store EXCEPT !.live = L], <<>>, now, nextId)
    BY <2>1, <2>2, LiveGood
  <2> QED BY <2>1, <2>3
<1>14. ASSUME NEW r \in Ids, Cancel(r) PROVE Good(store', todo', now', nextId')
  <2> DEFINE T == (IF Status(r) = "pending" THEN Mark(r, "cancelled", Nothing) ELSE <<>>)
                  \o ClearActive(SessionOf(r), r) \o Revoke(r)
  <2>1. todo = <<>> /\ Decide(T) /\ Status(r) \in {"pending", "cancelled"}
    BY <1>14 DEF Cancel, Decide
  <2>2. T \in Seq(Write) /\ Ready(store, T, now, nextId)
    BY <1>7, <2>1, CancelReady
  <2> HIDE DEF T
  <2> QED BY <1>6, <2>1, <2>2
<1>15. ASSUME NEW r \in Ids, NEW o \in Observation, ObservePending(r, o)
       PROVE  Good(store', todo', now', nextId')
  <2> DEFINE T == IF Terminal(o) THEN Finish(r, o) \o Revoke(r) ELSE Record(r, o)
  <2>1. /\ todo = <<>> /\ Decide(T) /\ Status(r) = "pending"
        /\ Follows(store.observation[r], o, now) /\ o.state # "generating"
    BY <1>15 DEF ObservePending, Decide
  <2>2. T \in Seq(Write) /\ Ready(store, T, now, nextId)
    BY <1>7, <2>1, ObserveReady
  <2> HIDE DEF T
  <2> QED BY <1>6, <2>1, <2>2
<1>16. ASSUME NEW r \in Ids, NEW o \in Observation, NEW ttl \in Lifetimes,
              Generate(r, o, now + ttl)
       PROVE  Good(store', todo', now', nextId')
  <2> DEFINE expiry == now + ttl
             T == (IF expiry > Expiry(store.request[r])
                   THEN <<W("renewal", r, expiry)>> ELSE <<>>) \o Record(r, o)
  <2>1. expiry \in Nat /\ expiry > now
    BY <1>1
  <2> HIDE DEF expiry
  <2>2. todo = <<>> /\ Decide(T) /\ Status(r) = "pending" /\ o.state = "generating"
    BY <1>16 DEF Generate, Decide, expiry
  <2>3. T \in Seq(Write) /\ Ready(store, T, now, nextId)
    BY <1>7, <2>1, <2>2, GenerateReady
  <2> HIDE DEF T
  <2> QED BY <1>6, <2>2, <2>3
<1>17. ASSUME NEW r \in Ids, NEW o \in Observation, ObserveWithoutAuthority(r, o)
       PROVE  Good(store', todo', now', nextId')
  <2> DEFINE T == KeepEvidence(r, o)
                  \o (IF Status(r) = "pending" THEN Finish(r, AuthorityLost(o)) ELSE <<>>)
  <2>1. todo = <<>> /\ Decide(T) /\ (Status(r) = "pending" => ~Live(store, r))
    BY <1>17 DEF ObserveWithoutAuthority, Decide, Live
  <2>2. T \in Seq(Write) /\ Ready(store, T, now, nextId)
    BY <1>7, <2>1, WithoutAuthorityReady
  <2> HIDE DEF T
  <2> QED BY <1>6, <2>1, <2>2
<1>18. ASSUME NEW r \in Ids, NEW o \in Observation, ObserveAfterFailure(r, o)
       PROVE  Good(store', todo', now', nextId')
  <2>1. todo = <<>> /\ Decide(KeepEvidence(r, o))
    BY <1>18 DEF ObserveAfterFailure, Decide
  <2>2. KeepEvidence(r, o) \in Seq(Write) /\ Ready(store, KeepEvidence(r, o), now, nextId)
    BY AfterFailureReady
  <2> QED BY <1>6, <2>1, <2>2
<1>19. ASSUME NEW r \in Ids, NEW o \in Observation, ObserveEnded(r, o)
       PROVE  Good(store', todo', now', nextId')
  <2> DEFINE T == Completion(r, o) \o Revoke(r)
  <2>1. todo = <<>> /\ Decide(T) /\ Status(r) = "cancelled"
    BY <1>19 DEF ObserveEnded, Decide
  <2>2. T \in Seq(Write) /\ Ready(store, T, now, nextId)
    BY <1>7, <2>1, EndedReady
  <2> HIDE DEF T
  <2> QED BY <1>6, <2>1, <2>2
<1>20. CASE UNCHANGED vars
  BY <1>20 DEF vars
<1> QED BY <1>2, <1>3, <1>4, <1>5, <1>8, <1>9, <1>10, <1>11, <1>12, <1>13, <1>14, <1>15,
           <1>16, <1>17, <1>18, <1>19, <1>20 DEF Next, Handlers

(* The invariant holds in every state: whatever the handlers decide, and   *)
(* wherever a crash or a failed file operation stops them.                 *)
THEOREM StoreInvariant == Spec => []IInv
BY InitGood, NextGoodStep, PTL DEF Spec

-----------------------------------------------------------------------------
(* The properties of the specification.                                    *)
LEMMA IInvParts ==
    ASSUME IInv
    PROVE  /\ store \in Store /\ Named(store) /\ Files(store, now, nextId)
           /\ now \in Nat /\ now \in Times /\ nextId \in 1..(MaxRequests + 1)
           /\ nextId \in Nat /\ todo \in Seq(Write)
           /\ Ready(store, todo, now, nextId) /\ RevokeDue(store, todo)
BY DEF IInv, Good, Typed, Times

(* The files of control/requests.ts hold what their parsers accept, and a  *)
(* request is stored under its own id.                                     *)
THEOREM TypeCorrect == Spec => []TypeOK
<1>1. IInv => TypeOK
  BY IInvParts DEF TypeOK, Named, Has
<1> QED BY <1>1, StoreInvariant, PTL

(* A session has at most one unfinished prompt, whatever a crash or a      *)
(* failed write left behind: openControlRequest never opens a second one   *)
(* beside it.                                                              *)
THEOREM OnlyOneUnfinished == Spec => []OneUnfinished
<1>1. IInv => OneUnfinished
  <2> SUFFICES ASSUME IInv, NEW r \in Ids, Status(r) = "pending"
               PROVE  store.active[SessionOf(r)].id = r
    BY DEF OneUnfinished
  <2>1. Pending(store, now, r)
    BY IInvParts, StatusNamed
  <2> QED BY <2>1, IInvParts DEF Files, PendingNamed, SessionOf
<1> QED BY <1>1, StoreInvariant, PTL

(* A result that was marked but not yet recorded can always still be       *)
(* delivered: observeControlPage writes the marker only from a candidate   *)
(* that stays stored until its final replaces it.                          *)
THEOREM ResultsRecoverable == Spec => []ResultRecoverable
<1>1. IInv => ResultRecoverable
  <2> SUFFICES ASSUME IInv, NEW r \in Ids, Status(r) = "cancelled",
                      store.marker[r].outcome = "delivered", ~ResultShown(r)
               PROVE  Recoverable(store, now, r, store.marker[r])
    BY DEF ResultRecoverable, Recoverable
  <2>1. Has(store, r) /\ Ended(store, r)
    BY IInvParts, StatusNamed
  <2>2. ~Shows(store.observation[r], store.marker[r])
    BY DEF ResultShown, Shows
  <2> QED BY <2>1, <2>2, IInvParts DEF Files, ResultMarked
<1> QED BY <1>1, StoreInvariant, PTL

(* No capability of a request that was cancelled, failed or delivered is   *)
(* live when no handler is running, also when the handler that ended the   *)
(* request failed or died.                                                 *)
THEOREM AuthorityEnds == Spec => []AuthorityEndsWithOutcome
<1>1. IInv => AuthorityEndsWithOutcome
  <2> SUFFICES ASSUME IInv, todo = <<>>, NEW r \in Ids, Status(r) = "cancelled"
               PROVE  ~store.live[r]
    BY DEF AuthorityEndsWithOutcome
  <2>1. Has(store, r) /\ Ended(store, r)
    BY IInvParts, StatusNamed
  <2>2. ~Live(store, r)
    BY <2>1, IInvParts DEF RevokeDue
  <2> QED BY <2>2, IInvParts DEF Live, Store
<1> QED BY <1>1, StoreInvariant, PTL

-----------------------------------------------------------------------------
(* What the host is told of the requests, as a function of the files and   *)
(* the time.                                                               *)
ShownIn(S, n, r) ==
    IF ~Has(S, r) THEN "absent"
    ELSE IF Ended(S, r)
         THEN IF S.marker[r].outcome = "failed" THEN "failed"
              ELSE IF S.marker[r].outcome = "delivered" /\ Shows(S.observation[r], S.marker[r])
                   THEN "delivered" ELSE "cancelled"
         ELSE IF Pending(S, n, r) THEN "pending" ELSE "expired"

CommittedIn(S, r) ==
    IF ~Has(S, r) THEN None
    ELSE IF S.marker[r].outcome = "delivered" THEN S.marker[r].evidence.payload
    ELSE S.marker[r].outcome

(* It is what Shown and Committed say.                                     *)
LEMMA ShownIs ==
    ASSUME IInv, NEW r \in Ids
    PROVE  Shown(r) = ShownIn(store, now, r) /\ Committed(r) = CommittedIn(store, r)
<1>1. Committed(r) = CommittedIn(store, r)
  BY DEF Committed, CommittedIn, Has
<1>2. /\ Status(r) = "pending" <=> Pending(store, now, r)
      /\ Status(r) = "cancelled" <=> Has(store, r) /\ Ended(store, r)
      /\ Status(r) = "not_found" <=> ~Has(store, r)
      /\ Status(r) = "expired" <=>
            Has(store, r) /\ ~Ended(store, r) /\ ~Pending(store, now, r)
  BY IInvParts, StatusNamed
<1>3. CASE ~Has(store, r)
  <2>1. Status(r) = "not_found"
    BY <1>2, <1>3
  <2> QED BY <1>1, <1>3, <2>1 DEF Shown, ShownIn
<1>4. CASE Has(store, r) /\ ~Ended(store, r) /\ Pending(store, now, r)
  <2>1. Status(r) = "pending"
    BY <1>2, <1>4
  <2> QED BY <1>1, <1>4, <2>1 DEF Shown, ShownIn
<1>5. CASE Has(store, r) /\ ~Ended(store, r) /\ ~Pending(store, now, r)
  <2>1. Status(r) = "expired"
    BY <1>2, <1>5
  <2> QED BY <1>1, <1>5, <2>1 DEF Shown, ShownIn
<1>6. CASE Has(store, r) /\ Ended(store, r)
  <2>1. Status(r) = "cancelled"
    BY <1>2, <1>6
  <2>2. ResultShown(r) <=> /\ store.marker[r].outcome = "delivered"
                           /\ Shows(store.observation[r], store.marker[r])
    BY DEF ResultShown, Shows
  <2> QED BY <1>1, <1>6, <2>1, <2>2 DEF Shown, ShownIn
<1> QED BY <1>3, <1>4, <1>5, <1>6

(* The steps of ControlOutcome, for the outcomes before and after.         *)
Moves(s, c, t, d) ==
    \/ s = t /\ c = d
    \/ \E r \in Ids : /\ s[r] = "absent" /\ c = d
                      /\ t = [s EXCEPT ![r] = "pending"]
    \/ \E r \in Ids, outcome \in {"cancelled", "failed"} \cup Results :
          /\ s[r] = "pending" /\ d = [c EXCEPT ![r] = outcome]
          /\ t = [s EXCEPT ![r] = IF outcome = "failed" THEN "failed" ELSE "cancelled"]
    \/ \E r \in Ids : /\ s[r] = "cancelled" /\ c[r] \in Results /\ c = d
                      /\ t = [s EXCEPT ![r] = "delivered"]
    \/ \E R \in SUBSET Ids : /\ R # {} /\ \A r \in R : s[r] = "pending"
                             /\ t = [r \in Ids |-> IF r \in R THEN "expired" ELSE s[r]]
                             /\ c = d
    \/ \E r \in Ids : /\ s[r] \in {"expired", "cancelled", "failed", "delivered"}
                      /\ t = [s EXCEPT ![r] = "absent"] /\ d = [c EXCEPT ![r] = "none"]

Tells(S, n) == [r \in Ids |-> ShownIn(S, n, r)]
Commits(S) == [r \in Ids |-> CommittedIn(S, r)]

(* A change of the files of one request concerns that request only.        *)
SameBut(S, Z, k) ==
    \A r \in Ids : r # k => /\ Z.request[r] = S.request[r]
                            /\ Z.renewal[r] = S.renewal[r]
                            /\ Z.marker[r] = S.marker[r]
                            /\ Z.observation[r] = S.observation[r]

(* The outcomes of the other requests stay.                                *)
LEMMA ElsewhereSame ==
    ASSUME NEW S, NEW Z, NEW n, NEW k, SameBut(S, Z, k)
    PROVE  /\ Tells(Z, n) = [Tells(S, n) EXCEPT ![k] = ShownIn(Z, n, k)]
           /\ Commits(Z) = [Commits(S) EXCEPT ![k] = CommittedIn(Z, k)]
<1>1. \A r \in Ids : r # k => ShownIn(Z, n, r) = ShownIn(S, n, r)
                              /\ CommittedIn(Z, r) = CommittedIn(S, r)
  BY DEF SameBut, ShownIn, CommittedIn, Has, Ended, Pending, Until
<1> QED BY <1>1 DEF Tells, Commits

(* A change that alters no outcome is a stutter.                           *)
LEMMA FrameMoves ==
    ASSUME NEW S, NEW Z, NEW n,
           \A r \in Ids : /\ ShownIn(Z, n, r) = ShownIn(S, n, r)
                          /\ CommittedIn(Z, r) = CommittedIn(S, r)
    PROVE  Moves(Tells(S, n), Commits(S), Tells(Z, n), Commits(Z))
BY DEF Moves, Tells, Commits

(* What changes at one request decides the step.                           *)
LEMMA AtMoves ==
    ASSUME NEW S, NEW Z, NEW n, NEW k \in Ids, SameBut(S, Z, k), NEW v, NEW u,
           ShownIn(Z, n, k) = v, CommittedIn(Z, k) = u
    PROVE  /\ Tells(Z, n) = [Tells(S, n) EXCEPT ![k] = v]
           /\ Commits(Z) = [Commits(S) EXCEPT ![k] = u]
           /\ Tells(S, n)[k] = ShownIn(S, n, k) /\ Commits(S)[k] = CommittedIn(S, k)
           /\ u = CommittedIn(S, k) => Commits(Z) = Commits(S)
<1>1. /\ Tells(Z, n) = [Tells(S, n) EXCEPT ![k] = ShownIn(Z, n, k)]
      /\ Commits(Z) = [Commits(S) EXCEPT ![k] = CommittedIn(Z, k)]
  BY ElsewhereSame
<1>2. Tells(S, n)[k] = ShownIn(S, n, k) /\ Commits(S)[k] = CommittedIn(S, k)
  BY DEF Tells, Commits
<1>3. Commits(S) = [r \in Ids |-> Commits(S)[r]]
  BY DEF Commits
<1> DEFINE C == Commits(S)
<1> HIDE DEF C
<1>4. C = [r \in Ids |-> C[r]] /\ C[k] = CommittedIn(S, k)
  BY <1>2, <1>3 DEF C
<1>5. u = CommittedIn(S, k) => [C EXCEPT ![k] = u] = C
  BY <1>4
<1> QED BY <1>1, <1>2, <1>5 DEF C

(* A request file is written: Open.                                        *)
LEMMA OpensMoves ==
    ASSUME NEW S \in Store, NEW n, NEW h \in Write, Opens(h), ~Has(S, h.key),
           Untouched(S, h.key), ~(n > h.value.expiresAt), NEW Z, Z = Done(S, h)
    PROVE  Moves(Tells(S, n), Commits(S), Tells(Z, n), Commits(Z))
<1> DEFINE k == h.key
<1>1. /\ k \in Ids /\ Z.request[k] = h.value /\ h.value # NoRequest
      /\ \A r \in Ids : r # k => Z.request[r] = S.request[r]
      /\ Z.renewal = S.renewal /\ Z.marker = S.marker /\ Z.observation = S.observation
  BY DoneRequest DEF Opens
<1>2. ShownIn(S, n, k) = "absent" /\ CommittedIn(S, k) = None
  BY DEF ShownIn, CommittedIn
<1>3. ShownIn(Z, n, k) = "pending" /\ CommittedIn(Z, k) = None
  <2>1. Has(Z, k) /\ ~Ended(Z, k) /\ Z.marker[k] = NoMarker
    BY <1>1 DEF Has, Ended, Untouched
  <2>2. Until(Z, k) = h.value.expiresAt
    BY <1>1 DEF Until, Untouched
  <2>3. Z.marker[k].outcome = None /\ None # "delivered"
    BY <2>1 DEF NoMarker, None
  <2> QED BY <2>1, <2>2, <2>3 DEF ShownIn, CommittedIn, Pending
<1>4. SameBut(S, Z, k)
  BY <1>1 DEF SameBut
<1> HIDE DEF k
<1>5. /\ Tells(Z, n) = [Tells(S, n) EXCEPT ![k] = "pending"]
      /\ Commits(Z) = Commits(S) /\ Tells(S, n)[k] = "absent"
  BY <1>1, <1>2, <1>3, <1>4, AtMoves
<1> QED BY <1>1, <1>5 DEF Moves

(* A marker is written: Commit.                                            *)
LEMMA EndsMoves ==
    ASSUME NEW S \in Store, NEW n, NEW h \in Write, Ends(h), Pending(S, n, h.key),
           S.observation[h.key].definitive.state # "final",
           h.value.outcome = "delivered" => h.value.evidence.payload \in Results,
           NEW Z, Z = Done(S, h)
    PROVE  Moves(Tells(S, n), Commits(S), Tells(Z, n), Commits(Z))
<1> DEFINE k == h.key
           m == h.value
           u == IF m.outcome = "delivered" THEN m.evidence.payload ELSE m.outcome
           v == IF u = "failed" THEN "failed" ELSE "cancelled"
<1>1. /\ k \in Ids /\ Z.marker[k] = m /\ m \in Marker /\ m # NoMarker
      /\ \A r \in Ids : r # k => Z.marker[r] = S.marker[r]
      /\ Z.request = S.request /\ Z.renewal = S.renewal /\ Z.observation = S.observation
  BY DoneMarker DEF Ends
<1>2. S.observation[k].definitive.state # "final" /\ Pending(S, n, k)
      /\ (m.outcome = "delivered" => m.evidence.payload \in Results)
  OBVIOUS
<1> HIDE DEF k, m
<1>3. m.outcome \in {"cancelled", "failed", "delivered"}
  BY <1>1 DEF Marker
<1>4. Has(S, k) /\ Has(Z, k) /\ Ended(Z, k) /\ ~Ended(S, k)
  BY <1>1, <1>2 DEF Has, Ended, Pending
<1>5. ~Shows(Z.observation[k], Z.marker[k])
  BY <1>1, <1>2 DEF Shows
<1>6. u \in {"cancelled", "failed"} \cup Results /\ CommittedIn(Z, k) = u
  BY <1>1, <1>2, <1>3, <1>4 DEF CommittedIn
<1>7. ShownIn(Z, n, k) = v
  BY <1>1, <1>2, <1>3, <1>4, <1>5 DEF ShownIn
<1>8. ShownIn(S, n, k) = "pending"
  BY <1>2, <1>4 DEF ShownIn
<1> HIDE DEF u
<1>9. SameBut(S, Z, k)
  BY <1>1 DEF SameBut
<1>10. /\ Tells(Z, n) = [Tells(S, n) EXCEPT ![k] = v]
       /\ Commits(Z) = [Commits(S) EXCEPT ![k] = u] /\ Tells(S, n)[k] = "pending"
  BY <1>1, <1>6, <1>7, <1>8, <1>9, AtMoves
<1> QED BY <1>1, <1>6, <1>10 DEF Moves

(* A request file is removed: Forget.                                      *)
LEMMA RemovesMoves ==
    ASSUME NEW S \in Store, NEW n, NEW h \in Write, Removes(h), Has(S, h.key),
           ~Pending(S, n, h.key), NEW Z, Z = Done(S, h)
    PROVE  Moves(Tells(S, n), Commits(S), Tells(Z, n), Commits(Z))
<1> DEFINE k == h.key
<1>1. /\ k \in Ids /\ Z.request[k] = NoRequest
      /\ \A r \in Ids : r # k => Z.request[r] = S.request[r]
      /\ Z.renewal = S.renewal /\ Z.marker = S.marker /\ Z.observation = S.observation
  BY DoneRequest DEF Removes
<1>2. ShownIn(S, n, k) \in {"expired", "cancelled", "failed", "delivered"}
  BY DEF ShownIn
<1>3. ShownIn(Z, n, k) = "absent" /\ CommittedIn(Z, k) = "none"
  BY <1>1 DEF ShownIn, CommittedIn, Has, None
<1>4. SameBut(S, Z, k)
  BY <1>1 DEF SameBut
<1> HIDE DEF k
<1>5. /\ Tells(Z, n) = [Tells(S, n) EXCEPT ![k] = "absent"]
      /\ Commits(Z) = [Commits(S) EXCEPT ![k] = "none"]
      /\ Tells(S, n)[k] = ShownIn(S, n, k)
  BY <1>1, <1>3, <1>4, AtMoves
<1> QED BY <1>1, <1>2, <1>5 DEF Moves

(* The final of a marked result is recorded: Publish; no other observation *)
(* shows.                                                                  *)
LEMMA RecordsMoves ==
    ASSUME NEW S \in Store, NEW n, NEW h \in Write, Records(h), Has(S, h.key),
           Ended(S, h.key) /\ S.marker[h.key].outcome = "delivered" =>
              /\ Shows(h.value, S.marker[h.key])
              /\ S.marker[h.key].evidence.payload \in Results,
           NEW Z, Z = Done(S, h)
    PROVE  Moves(Tells(S, n), Commits(S), Tells(Z, n), Commits(Z))
<1> DEFINE k == h.key
           m == S.marker[k]
<1>1. /\ k \in Ids /\ Z.observation[k] = h.value
      /\ \A r \in Ids : r # k => Z.observation[r] = S.observation[r]
      /\ Z.renewal = S.renewal /\ Z.marker = S.marker /\ Z.request = S.request
  BY DoneObservation DEF Records
<1>2. Has(S, k) /\ (Ended(S, k) /\ m.outcome = "delivered" =>
                       Shows(h.value, m) /\ m.evidence.payload \in Results)
  OBVIOUS
<1>3. SameBut(S, Z, k)
  BY <1>1 DEF SameBut
<1>4. /\ Has(Z, k) /\ (Ended(Z, k) <=> Ended(S, k))
      /\ Pending(Z, n, k) <=> Pending(S, n, k)
  BY <1>1, <1>2 DEF Has, Ended, Pending, Until
<1>5. CommittedIn(Z, k) = CommittedIn(S, k)
  BY <1>1, <1>2, <1>4 DEF CommittedIn
<1> HIDE DEF k
<1>6. CASE ~(Ended(S, k) /\ m.outcome = "delivered" /\ ~Shows(S.observation[k], m))
  <2>1. ShownIn(Z, n, k) = ShownIn(S, n, k)
    BY <1>1, <1>2, <1>4, <1>6 DEF ShownIn
  <2>2. \A r \in Ids : r # k => ShownIn(Z, n, r) = ShownIn(S, n, r)
                               /\ CommittedIn(Z, r) = CommittedIn(S, r)
    BY <1>3 DEF SameBut, ShownIn, CommittedIn, Has, Ended, Pending, Until
  <2> QED BY <1>5, <2>1, <2>2, FrameMoves
<1>7. CASE Ended(S, k) /\ m.outcome = "delivered" /\ ~Shows(S.observation[k], m)
  <2>1. ShownIn(S, n, k) = "cancelled" /\ CommittedIn(S, k) \in Results
    BY <1>2, <1>7 DEF ShownIn, CommittedIn
  <2>2. ShownIn(Z, n, k) = "delivered"
    BY <1>1, <1>2, <1>4, <1>7 DEF ShownIn
  <2>3. /\ Tells(Z, n) = [Tells(S, n) EXCEPT ![k] = "delivered"]
        /\ Commits(Z) = Commits(S)
        /\ Tells(S, n)[k] = "cancelled" /\ Commits(S)[k] = CommittedIn(S, k)
    BY <1>1, <1>3, <1>5, <2>1, <2>2, AtMoves
  <2> QED BY <1>1, <2>1, <2>3 DEF Moves
<1> QED BY <1>6, <1>7

(* A change of the running handler is a step of ControlOutcome.            *)
LEMMA StepMoves ==
    ASSUME NEW S, NEW T, NEW n, NEW c, Good(S, T, n, c), T # <<>>, NEW Z,
           Z = Done(S, T[1])
    PROVE  Moves(Tells(S, n), Commits(S), Tells(Z, n), Commits(Z))
<1> DEFINE h == T[1]
           A == All(T)
           e == Last(T)
<1>1. /\ S \in Store /\ T \in Seq(Write) /\ Files(S, n, c) /\ Named(S)
      /\ Ready(S, T, n, c) /\ n \in Nat /\ c \in Nat
  BY DEF Good, Typed, Times
<1>2. 1 \in Positions(T) /\ h \in Write /\ Earlier(T, 1) = {}
  BY <1>1, Shift
<1>3. ReadyAt(S, h, {}, T[1 - 1], A, e, n, c)
  BY <1>1, <1>2 DEF Ready
<1>4. Z = Done(S, h)
  OBVIOUS
<1> HIDE DEF h, A, e
<1>5. CASE h.file \in {"active", "late", "live"}
  <2>1. Z.request = S.request /\ Z.renewal = S.renewal /\ Z.marker = S.marker
        /\ Z.observation = S.observation
    BY <1>1, <1>2, <1>4, <1>5, DoneActive, DoneLate, DoneLive
  <2>2. \A r \in Ids : ShownIn(Z, n, r) = ShownIn(S, n, r)
                       /\ CommittedIn(Z, r) = CommittedIn(S, r)
    BY <2>1 DEF ShownIn, CommittedIn, Has, Ended, Pending, Until
  <2> QED BY <2>2, FrameMoves
<1>6. CASE Opens(h)
  <2>1. ~Has(S, h.key) /\ Untouched(S, h.key) /\ n <= h.value.expiresAt
    BY <1>3, <1>6 DEF ReadyAt, ReadyOpen
  <2>2. h.value.expiresAt \in Nat
    BY <1>2, <1>6, WriteKinds DEF Opens, Request
  <2>3. ~(n > h.value.expiresAt)
    BY <1>1, <2>1, <2>2
  <2> QED BY <1>1, <1>2, <1>4, <1>6, <2>1, <2>3, OpensMoves
<1>7. CASE Removes(h)
  <2>1. Has(S, h.key) /\ ~Pending(S, n, h.key)
    BY <1>3, <1>7 DEF ReadyAt, ReadyRemove
  <2> QED BY <1>1, <1>2, <1>4, <1>7, <2>1, RemovesMoves
<1>8. CASE Ends(h)
  <2>1. /\ Pending(S, n, h.key)
        /\ h.value.outcome = "delivered" => h.value.evidence.payload \in Results
    BY <1>3, <1>8, NothingIn DEF ReadyAt, ReadyEnd
  <2>2. h.key \in Ids
    BY <1>2, <1>8, WriteKinds DEF Ends
  <2>3. S.observation[h.key].definitive.state # "final"
    BY <1>1, <2>1, <2>2 DEF Files, OutcomeOpen, Pending
  <2> QED BY <1>1, <1>2, <1>4, <1>8, <2>1, <2>3, EndsMoves
<1>9. CASE Records(h)
  <2>1. /\ Has(S, h.key)
        /\ Ended(S, h.key) /\ S.marker[h.key].outcome = "delivered" =>
              Shows(h.value, S.marker[h.key])
    BY <1>3, <1>9 DEF ReadyAt, ReadyRecord
  <2>2. h.key \in Ids
    BY <1>2, <1>9, WriteKinds DEF Records
  <2>3. Ended(S, h.key) /\ S.marker[h.key].outcome = "delivered" =>
           S.marker[h.key].evidence.payload \in Results
    BY <1>1, <2>1, <2>2 DEF Files, ResultMarked
  <2> QED BY <1>1, <1>2, <1>4, <1>9, <2>1, <2>3, RecordsMoves
<1>10. CASE Renews(h)
  <2>1. Pending(S, n, h.key) /\ n <= h.value
    BY <1>3, <1>10 DEF ReadyAt, ReadyRenew
  <2>2. /\ h.key \in Ids /\ h.value \in Nat /\ Z.renewal[h.key] = h.value /\ h.value # 0
        /\ \A r \in Ids : r # h.key => Z.renewal[r] = S.renewal[r]
        /\ Z.request = S.request /\ Z.marker = S.marker /\ Z.observation = S.observation
    BY <1>1, <1>2, <1>4, <1>10, DoneRenewal DEF Renews
  <2>3. Pending(Z, n, h.key)
    BY <1>1, <2>1, <2>2 DEF Pending, Has, Ended, Until
  <2>4. ASSUME NEW r \in Ids
        PROVE  ShownIn(Z, n, r) = ShownIn(S, n, r) /\ CommittedIn(Z, r) = CommittedIn(S, r)
    <3>1. (Has(Z, r) <=> Has(S, r)) /\ (Ended(Z, r) <=> Ended(S, r))
      BY <2>2 DEF Has, Ended
    <3>2. Pending(Z, n, r) <=> Pending(S, n, r)
      <4>1. CASE r = h.key
        BY <2>1, <2>3, <4>1
      <4>2. CASE r # h.key
        BY <2>2, <4>2 DEF Pending, Has, Ended, Until
      <4> QED BY <4>1, <4>2
    <3> QED BY <2>2, <3>1, <3>2 DEF ShownIn, CommittedIn
  <2> QED BY <2>4, FrameMoves
<1>11. CASE Cleans(h)
  <2>1. ~Has(S, h.key) /\ h.key \in Ids
    <3>1. Gone(S, c, h.key)
      BY <1>3, <1>11 DEF ReadyAt, ReadyClean
    <3> QED BY <1>2, <1>11, <3>1, WriteKinds DEF Gone, Cleans
  <2>2. Z.request = S.request /\ SameBut(S, Z, h.key)
    <3>1. CASE h.file = "observation"
      BY <1>1, <1>2, <1>4, <3>1, DoneObservation DEF SameBut
    <3>2. CASE h.file = "marker"
      BY <1>1, <1>2, <1>4, <3>2, DoneMarker DEF SameBut
    <3>3. CASE h.file = "renewal"
      BY <1>1, <1>2, <1>4, <3>3, DoneRenewal DEF SameBut
    <3> QED BY <1>11, <3>1, <3>2, <3>3 DEF Cleans
  <2>3. ASSUME NEW r \in Ids
        PROVE  ShownIn(Z, n, r) = ShownIn(S, n, r) /\ CommittedIn(Z, r) = CommittedIn(S, r)
    <3>1. CASE r = h.key
      BY <2>1, <2>2, <3>1 DEF ShownIn, CommittedIn, Has
    <3>2. CASE r # h.key
      BY <2>2, <3>2 DEF SameBut, ShownIn, CommittedIn, Has, Ended, Pending, Until
    <3> QED BY <3>1, <3>2
  <2> QED BY <2>3, FrameMoves
<1> QED BY <1>2, <1>5, <1>6, <1>7, <1>8, <1>9, <1>10, <1>11, WriteKinds
        DEF Opens, Removes, Ends, Records, Renews, Cleans

(* The clock: Expire, of all the requests whose time is over.              *)
LEMMA TickMoves ==
    ASSUME NEW S \in Store, NEW n \in Nat
    PROVE  Moves(Tells(S, n), Commits(S), Tells(S, n + 1), Commits(S))
<1> DEFINE R == {r \in Ids : Pending(S, n, r) /\ ~Pending(S, n + 1, r)}
<1>1. ASSUME NEW r \in Ids, Pending(S, n + 1, r) PROVE Pending(S, n, r)
  <2>1. Until(S, r) \in Nat
    BY <1>1 DEF Pending, Has, Until, Store, Request
  <2> QED BY <1>1, <2>1 DEF Pending
<1>2. ASSUME NEW r \in Ids
      PROVE  ShownIn(S, n + 1, r) = IF r \in R THEN "expired" ELSE ShownIn(S, n, r)
  BY <1>1 DEF ShownIn, Pending
<1>3. ASSUME NEW r \in R PROVE ShownIn(S, n, r) = "pending"
  BY DEF ShownIn, Pending
<1> HIDE DEF R
<1>4. CASE R = {}
  <2>1. Tells(S, n + 1) = Tells(S, n)
    BY <1>2, <1>4 DEF Tells
  <2> QED BY <2>1 DEF Moves
<1>5. CASE R # {}
  <2>1. R \in SUBSET Ids
    BY DEF R
  <2>2. \A r \in R : Tells(S, n)[r] = "pending"
    BY <1>3, <2>1 DEF Tells
  <2>3. Tells(S, n + 1) = [r \in Ids |-> IF r \in R THEN "expired" ELSE Tells(S, n)[r]]
    BY <1>2 DEF Tells
  <2> QED BY <1>5, <2>1, <2>2, <2>3 DEF Moves
<1> QED BY <1>4, <1>5

(* Nothing of this is changed, or the capabilities only.                   *)
LEMMA SameMoves ==
    ASSUME NEW S, NEW n, NEW L
    PROVE  /\ Moves(Tells(S, n), Commits(S), Tells(S, n), Commits(S))
           /\ S \in Store => Moves(Tells(S, n), Commits(S),
                                   Tells([S EXCEPT !.live = L], n),
                                   Commits([S EXCEPT !.live = L]))
<1>1. Moves(Tells(S, n), Commits(S), Tells(S, n), Commits(S))
  BY DEF Moves
<1> SUFFICES ASSUME S \in Store
             PROVE  Moves(Tells(S, n), Commits(S), Tells([S EXCEPT !.live = L], n),
                          Commits([S EXCEPT !.live = L]))
  BY <1>1
<1> DEFINE Z == [S EXCEPT !.live = L]
<1>2. /\ Z.request = S.request /\ Z.renewal = S.renewal /\ Z.marker = S.marker
      /\ Z.observation = S.observation
  BY DEF Store
<1> HIDE DEF Z
<1>3. \A r \in Ids : /\ ShownIn(Z, n, r) = ShownIn(S, n, r)
                     /\ CommittedIn(Z, r) = CommittedIn(S, r)
  BY <1>2 DEF ShownIn, CommittedIn, Has, Ended, Pending, Until
<1> QED BY <1>3, FrameMoves DEF Z

(* Every step of the gateway is a step of ControlOutcome, or a stutter.    *)
LEMMA NextMoves ==
    ASSUME IInv, [Next]_vars
    PROVE  Moves(Tells(store, now), Commits(store), Tells(store', now'), Commits(store'))
<1>1. store \in Store /\ now \in Nat /\ Good(store, todo, now, nextId)
  BY IInvParts DEF IInv
<1>2. CASE Step
  <2>1. Head(todo) = todo[1] /\ todo # <<>>
    BY <1>2 DEF Step
  <2>2. store' = Done(store, todo[1]) /\ now' = now
    BY <1>2, <2>1 DEF Step, Done
  <2>3. Moves(Tells(store, now), Commits(store), Tells(Done(store, todo[1]), now),
              Commits(Done(store, todo[1])))
    BY <1>1, <2>1, StepMoves
  <2> QED BY <2>2, <2>3
<1>3. CASE Tick
  <2>1. store' = store /\ now' = now + 1
    BY <1>3 DEF Tick
  <2> QED BY <1>1, <2>1, TickMoves
<1>4. ASSUME NEW s \in Sessions, NEW c \in Correlations, Reopen(s, c)
      PROVE  Moves(Tells(store, now), Commits(store), Tells(store', now'), Commits(store'))
  <2> DEFINE a == store.active[s]
             x == W("request", a.id, a)
  <2>1. /\ a # NoRequest /\ store.request[a.id] = NoRequest /\ ~Expired(a)
        /\ store' = [store EXCEPT !.request[a.id] = a] /\ now' = now
    BY <1>4 DEF Reopen
  <2>2. a \in Request /\ a.id \in Ids /\ a.expiresAt \in Nat
    BY <1>1, <2>1 DEF Store, Request
  <2>3. ~Has(store, a.id) /\ Untouched(store, a.id)
    BY <2>1, IInvParts DEF Files, ClaimsOwn, Has
  <2>4. ~(now > a.expiresAt)
    BY <2>1, <2>3 DEF Expired, Expiry, Untouched
  <2>5. x \in Write /\ Opens(x) /\ x.key = a.id /\ x.value = a
    BY <2>1, <2>2 DEF W, Write, Opens
  <2>6. store' = Done(store, x)
    BY <2>1 DEF Done, W
  <2> HIDE DEF a, x
  <2>7. Moves(Tells(store, now), Commits(store), Tells(Done(store, x), now),
              Commits(Done(store, x)))
    BY <1>1, <2>3, <2>4, <2>5, OpensMoves
  <2> QED BY <2>1, <2>6, <2>7
<1>5. CASE store' = store /\ now' = now
  BY <1>5, SameMoves
<1>6. ASSUME NEW L, store' = [store EXCEPT !.live = L], now' = now
      PROVE  Moves(Tells(store, now), Commits(store), Tells(store', now'), Commits(store'))
  BY <1>1, <1>6, SameMoves
<1>7. CASE Crash
  <2> DEFINE L == [r \in Ids |-> FALSE]
  <2>1. store' = [store EXCEPT !.live = L] /\ now' = now
    BY <1>7 DEF Crash
  <2> HIDE DEF L
  <2> QED BY <1>6, <2>1
<1>8. ASSUME NEW s \in Sessions, Retire(s)
      PROVE  Moves(Tells(store, now), Commits(store), Tells(store', now'), Commits(store'))
  <2> DEFINE L == [r \in Ids |-> store.live[r] /\ r \notin {i \in Ids : SessionOf(i) = s}]
  <2>1. store' = [store EXCEPT !.live = L] /\ now' = now
    BY <1>8 DEF Retire
  <2> HIDE DEF L
  <2> QED BY <1>6, <2>1
<1>9. ASSUME NEW r \in Ids, IssueTurn(r) \/ LoseAuthority(r)
      PROVE  Moves(Tells(store, now), Commits(store), Tells(store', now'), Commits(store'))
  <2> DEFINE L == [i \in Ids |-> IF i = r THEN TRUE
                                 ELSE store.live[i] /\ SessionOf(i) # SessionOf(r)]
             M == [store.live EXCEPT ![r] = FALSE]
  <2>1. /\ \/ store' = [store EXCEPT !.live = L]
           \/ store' = [store EXCEPT !.live = M]
        /\ now' = now
    BY <1>9 DEF IssueTurn, LoseAuthority
  <2> HIDE DEF L, M
  <2> QED BY <1>6, <2>1
<1>10. Fail \/ Prune => store' = store /\ now' = now
  BY DEF Fail, Prune, Decide
<1>11. ASSUME NEW s \in Sessions, NEW c \in Correlations, NEW ttl \in Lifetimes,
              NEW lost \in BOOLEAN, Open(s, c, ttl, lost)
       PROVE  store' = store /\ now' = now
  BY <1>11 DEF Open
<1>12. ASSUME NEW r \in Ids, Cancel(r) PROVE store' = store /\ now' = now
  BY <1>12 DEF Cancel, Decide
<1>13. ASSUME NEW r \in Ids, NEW o \in Observation,
              \/ ObservePending(r, o)
              \/ \E ttl \in Lifetimes : Generate(r, o, now + ttl)
              \/ ObserveWithoutAuthority(r, o)
              \/ ObserveAfterFailure(r, o)
              \/ ObserveEnded(r, o)
       PROVE  store' = store /\ now' = now
  BY <1>13 DEF ObservePending, Generate, ObserveWithoutAuthority, ObserveAfterFailure,
               ObserveEnded, Decide
<1>14. CASE UNCHANGED vars
  BY <1>5, <1>14 DEF vars
<1> QED BY <1>2, <1>3, <1>4, <1>5, <1>7, <1>8, <1>9, <1>10, <1>11, <1>12, <1>13, <1>14
        DEF Next, Handlers

(* The request store keeps its promise to the host that waits              *)
(* (ControlOutcome): one outcome at most, which never changes, an expired  *)
(* request has none, and a result once shown stays shown until the request *)
(* is forgotten.                                                           *)
THEOREM OutcomeTheorem == Spec => OutcomeSpec
<1>1. ASSUME IInv
      PROVE  /\ [r \in Ids |-> Shown(r)] = Tells(store, now)
             /\ [r \in Ids |-> Committed(r)] = Commits(store)
  BY <1>1, ShownIs DEF Tells, Commits
<1>2. Init => Outcomes!Init
  <2> SUFFICES ASSUME Init PROVE Outcomes!Init
    OBVIOUS
  <2>1. IInv
    BY InitGood
  <2>2. \A r \in Ids : ~Has(store, r)
    BY DEF Init, Has
  <2>3. Tells(store, now) = [r \in Ids |-> "absent"] /\ Commits(store) = [r \in Ids |-> "none"]
    BY <2>2 DEF Tells, Commits, ShownIn, CommittedIn, None
  <2> QED BY <1>1, <2>1, <2>3 DEF Outcomes!Init
<1>3. IInv /\ IInv' /\ [Next]_vars => [Outcomes!Next]_(Outcomes!vars)
  <2> SUFFICES ASSUME IInv, IInv', [Next]_vars
               PROVE  [Outcomes!Next]_(Outcomes!vars)
    OBVIOUS
  <2> DEFINE s == [r \in Ids |-> Shown(r)]
             c == [r \in Ids |-> Committed(r)]
             t == [r \in Ids |-> Shown(r)']
             d == [r \in Ids |-> Committed(r)']
  <2>1. s = Tells(store, now) /\ c = Commits(store)
    BY <1>1
  <2>2. t = Tells(store', now') /\ d = Commits(store')
    <3>1. (IInv => [r \in Ids |-> Shown(r)] = Tells(store, now)
                   /\ [r \in Ids |-> Committed(r)] = Commits(store))'
      BY <1>1, PTL
    <3> QED BY <3>1 DEF Tells, Commits
  <2>3. Moves(s, c, t, d)
    BY <2>1, <2>2, NextMoves
  <2> QED BY <2>3 DEF Moves, Outcomes!Next, Outcomes!vars, Outcomes!Open,
             Outcomes!Publish,
                      Outcomes!Forget, Outcomes!Commit, Outcomes!Expire
<1> QED BY <1>2, <1>3, StoreInvariant, PTL DEF Spec, OutcomeSpec, Outcomes!Spec

-----------------------------------------------------------------------------
(* The migration of the mailbox                                            *)

(* Where the process may be, and what the record of it holds.              *)
Places == {"idle", "scan", "stage", "prune", "authorize", "retire", "rename",
           "confirm", "delete", "references"}
Building == {"scan", "stage"}

Work == [at: Places, manifest: Trees \cup {NoTree},
         scan: [Requests -> States \cup Kinds] \cup {NoTree}, root: BOOLEAN]

(* What migration-v1.json may hold.                                        *)
Marks == [published: BOOLEAN, manifest: Trees \cup {NoTree},
          files: SUBSET Requests, cleared: BOOLEAN,
          phase: {"none", "reserved", "deleting"}, inode: 0..(1 + MaxDrifts)]

(* Every part has its shape, those that are not in the checked type as     *)
(* well.                                                                   *)
Shaped ==
    /\ MigrationTypeOK
    /\ work \in Work
    /\ drifts \in 0..MaxDrifts /\ refused \in BOOLEAN
    /\ mailbox.tree = NoTree => mailbox = NoDirectory

(* Before the store is published there is nothing in it; afterwards none   *)
(* is built.                                                               *)
Beginning ==
    /\ ~marker.published =>
          /\ marker = Unpublished /\ source = EmptyTree /\ entries = EmptyTree
          /\ work.at \in Building \cup {"idle"}
    /\ marker.published => work.at \notin Building

(* A migration under way has copied what it scanned. Two writes of an      *)
(* earlier version are needed for the scan to differ from a mailbox that   *)
(* is found unchanged.                                                     *)
Scanned ==
    work.at \in Building =>
       /\ drifts = 0 => mailbox.tree = work.manifest
       /\ work.manifest # NoTree => mailbox.tree # NoTree
       /\ work.at = "stage" =>
             /\ work.scan \in Trees /\ stage \in Trees
             /\ \A r \in Requests : \/ stage[r] = "absent"
                                    \/ r \in Taken(work.scan) /\ stage[r] = work.scan[r]
             /\ work.manifest = NoTree => work.scan = EmptyTree
             /\ work.manifest # NoTree =>
                   /\ drifts < 2 => work.scan \in {work.manifest, mailbox.tree}
                   /\ drifts = 0 => Readable(work.manifest)

(* The store has what the manifest says, all of it in Whole.               *)
Faithful == \A r \in marker.files : source[r] = marker.manifest[r]
Whole == marker.files = Taken(marker.manifest) /\ Faithful

(* What validateMigratedFiles and the check for live requests found, and   *)
(* the one reason for it to fail that the store itself can give.           *)
Finished == StoreRetains /\ \A r \in marker.files : ~IsLive(entries[r], r)
LostAtWork == \E r \in marker.files : source[r] = "generating" /\ entries[r] = "lost"

(* The published store. What has been authorized once stays as it was      *)
(* found, because nothing that is finished moves, and what is kept for a   *)
(* clearing is not pruned.                                                 *)
Held ==
    /\ PublishedIsWhole
    /\ marker.files \subseteq Taken(source)
    /\ marker.manifest = NoTree => marker.files = {} /\ ~marker.cleared
    /\ marker.phase # "none" => marker.cleared /\ Whole /\ Readable(marker.manifest)
    /\ marker.cleared => Finished
    /\ \A r \in Requests :
          reference[r] \in {"mailbox", "paired"} /\ entries[r] # "absent" =>
             source[r] # "absent"

(* Where a pruning or a clearing has come to, and what it has found out.   *)
Retiring ==
    /\ work.at = "prune" => \A r \in Requests : work.scan[r] # "absent" => r \notin marker.files
    /\ work.at = "authorize" =>
          /\ Finished
          /\ work.root => Whole /\ marker.manifest # NoTree /\ Readable(marker.manifest)
    /\ work.at = "retire" => marker.phase # "none"
    /\ work.at \in {"rename", "confirm"} => marker.phase = "reserved"
    /\ work.at = "rename" => retired = NoDirectory /\ mailbox # NoDirectory
    /\ work.at = "delete" => marker.phase = "deleting"
    /\ marker.phase = "none" => retired = NoDirectory
    /\ marker.phase = "deleting" /\ retired # NoDirectory =>
          \A r \in Requests : retired.tree[r] \in {marker.manifest[r], "absent"}

(* As long as no earlier version writes, the mailbox is what was taken.    *)
Undisturbed ==
    drifts = 0 =>
       /\ marker.published /\ mailbox # NoDirectory =>
             mailbox.tree = marker.manifest /\ Readable(marker.manifest) /\ Whole
       /\ marker.published /\ mailbox = NoDirectory =>
             marker.manifest = NoTree \/ marker.cleared
       /\ marker.phase = "reserved" =>
             \/ mailbox # NoDirectory /\ retired = NoDirectory /\ mailbox.inode = marker.inode
             \/ /\ mailbox = NoDirectory /\ retired # NoDirectory
                /\ retired.inode = marker.inode /\ retired.tree = marker.manifest
       /\ marker.phase = "deleting" => mailbox = NoDirectory
       /\ work.at \in {"authorize", "retire"} => work.root = (mailbox # NoDirectory)
       /\ work.at = "confirm" => mailbox = NoDirectory

(* A refusal has its cause.                                                *)
Caused ==
    refused =>
       \/ drifts > 0 \/ ~Readable(mailbox.tree)
       \/ LostAtWork

(* The invariant of the migration.                                         *)
MigrationIInv ==
    /\ Shaped /\ Beginning /\ Scanned /\ Held /\ Retiring /\ Undisturbed /\ Caused
    /\ KeptReferenceWasTaken

HIDE DEF ObservationAssumption, RequestAssumption
USE MigrationAssumption DEF MigrationAssumption

(* What a missing and an empty directory are.                              *)
LEMMA TreeFacts ==
    /\ NoTree \notin Trees /\ EmptyTree \in Trees /\ NoTree # EmptyTree
    /\ \A r \in Requests : EmptyTree[r] = "absent" /\ NoTree[r] = "none"
    /\ Taken(NoTree) = {} /\ Taken(EmptyTree) = {}
    /\ Readable(NoTree) /\ Readable(EmptyTree)
    /\ Trees \subseteq [Requests -> States \cup Kinds]
    /\ NoDirectory \in Directories /\ NoDirectory.tree = NoTree /\ NoDirectory.inode = 0
BY DEF NoDirectory, Directories, States, NoTree, Trees, EmptyTree, Taken, Readable,
   Kinds, Became

(* What becomes of a request goes one way.                                 *)
LEMMA BecameFacts ==
    /\ DOMAIN Became = {"waiting", "generating", "failed", "result"}
    /\ \A k \in DOMAIN Became : k \in Became[k] /\ Became[k] \subseteq States \ {"absent"}
    /\ \A k \in DOMAIN Became : \A s \in Became[k] \cap Unfinished :
          s \in DOMAIN Became /\ Became[s] \subseteq Became[k]
BY DEF Became, States, Unfinished

(* What scanLegacyStore reads.                                             *)
Scanning == IF work.manifest = NoTree THEN EmptyTree ELSE mailbox.tree

(* What becomes of the process when it goes on, and when it refuses.       *)
LEMMA Going ==
    ASSUME work \in Work, NEW p \in Places, Goes(p)
    PROVE  /\ work' \in Work /\ work'.at = p /\ work'.manifest = work.manifest
           /\ work'.scan = work.scan /\ work'.root = work.root /\ refused' = refused
BY DEF Work, Goes

(* A process that does nothing.                                            *)
LEMMA Resting ==
    /\ Idle \in Work /\ Idle.at = "idle"
BY TreeFacts DEF Idle, Work, Places

(* A refusal ends the work.                                                *)
LEMMA Refusing ==
    ASSUME Refuse
    PROVE  work' \in Work /\ work'.at = "idle" /\ refused' = TRUE
BY Resting DEF Refuse

(* The marker before it is written.                                        *)
LEMMA UnpublishedIs ==
    /\ ~Unpublished.published /\ Unpublished.files = {} /\ ~Unpublished.cleared
    /\ Unpublished.phase = "none" /\ Unpublished.manifest = NoTree
    /\ Unpublished \in Marks
BY DEF Unpublished, Marks

(* What depends on the store alone is the same while that is.              *)
LEMMA SameStore ==
    ASSUME marker'.files = marker.files, marker'.manifest = marker.manifest,
           UNCHANGED <<entries, source, expired>>
    PROVE  /\ Whole' <=> Whole
           /\ Finished' <=> Finished
           /\ LostAtWork' <=> LostAtWork
BY DEF Whole, Faithful, Finished, LostAtWork, StoreRetains, IsLive

(* What is known of the parts before a step.                               *)
LEMMA Parts ==
    ASSUME Shaped
    PROVE  /\ work \in Work /\ work.at \in Places /\ mailbox \in Directories
           /\ retired \in Directories /\ marker \in Marks
           /\ marker.published \in BOOLEAN /\ marker.cleared \in BOOLEAN
           /\ marker.files \subseteq Requests
BY DEF Shaped, MigrationTypeOK, Work, Marks

(* A survey records what it finds and removes the stage of another.        *)
LEMMA SurveyKeeps ==
    ASSUME MigrationIInv, Survey PROVE MigrationIInv'
<1>0. /\ Shaped /\ Beginning /\ Scanned /\ Held /\ Retiring /\ Undisturbed /\ Caused
      /\ KeptReferenceWasTaken
  BY DEF MigrationIInv
<1>1. /\ ~marker.published /\ stage' = NoTree
      /\ work' \in Work /\ work'.at = "scan" /\ work'.manifest = mailbox.tree
      /\ UNCHANGED <<mailbox, retired, drifts, marker, entries, source, reference,
                     expired, refused>>
  BY <1>0, Parts, TreeFacts DEF Survey, legacyVars, storeVars, Idle, Work, Places,
     Directories
<1>2. (Whole' <=> Whole) /\ (Finished' <=> Finished) /\ (LostAtWork' <=> LostAtWork)
  BY <1>1, SameStore
<1>11. Shaped'
  BY <1>0, <1>1, Parts, TreeFacts DEF Shaped, MigrationTypeOK
<1>12. Beginning'
  BY <1>0, <1>1 DEF Beginning, Building
<1>13. Scanned'
  BY <1>0, <1>1 DEF Scanned, Building, Shaped, Directories
<1>14. Held'
  BY <1>0, <1>1, <1>2 DEF Held, PublishedIsWhole
<1>15. Retiring'
  BY <1>0, <1>1, <1>2 DEF Retiring
<1>16. Undisturbed'
  BY <1>0, <1>1, <1>2 DEF Undisturbed
<1>17. Caused'
  BY <1>0, <1>1, <1>2 DEF Caused
<1>18. KeptReferenceWasTaken'
  BY <1>0, <1>1, <1>2 DEF KeptReferenceWasTaken
<1> QED BY <1>11, <1>12, <1>13, <1>14, <1>15, <1>16, <1>17, <1>18 DEF MigrationIInv

(* The scan is of the mailbox as it is now, or refused.                    *)
LEMMA ScanLegacyStoreKeeps ==
    ASSUME MigrationIInv, ScanLegacyStore PROVE MigrationIInv'
<1>0. /\ Shaped /\ Beginning /\ Scanned /\ Held /\ Retiring /\ Undisturbed /\ Caused
      /\ KeptReferenceWasTaken
  BY DEF MigrationIInv
<1>9. work.at = "scan" /\ Scanning \in Trees /\ ~marker.published
  BY <1>0, Parts, TreeFacts DEF ScanLegacyStore, Scanning, Scanned, Building,
     Directories, Beginning
<1>1. /\ work.at = "scan" /\ work' \in Work
      /\ UNCHANGED <<mailbox, retired, drifts, marker, entries, source, reference, expired>>
      /\ \/ /\ Readable(Scanning) /\ work'.at = "stage" /\ work'.manifest = work.manifest
            /\ work'.scan = Scanning /\ stage' = EmptyTree /\ refused' = refused
         \/ /\ ~Readable(Scanning) /\ work'.at = "idle" /\ refused' = TRUE
            /\ stage' = stage
  <2>1. CASE Readable(Scanning)
    <3>1. work' = [work EXCEPT !.at = "stage", !.scan = Scanning]
      BY <2>1 DEF ScanLegacyStore, Scanning
    <3>2. work' \in Work /\ work'.at = "stage" /\ work'.manifest = work.manifest
          /\ work'.scan = Scanning
      BY <1>0, <1>9, <3>1, Parts, TreeFacts DEF Work, Places
    <3> QED BY <1>9, <2>1, <3>2 DEF ScanLegacyStore, Scanning, legacyVars, storeVars
  <2>2. CASE ~Readable(Scanning)
    <3>1. Refuse /\ UNCHANGED stage
      BY <2>2 DEF ScanLegacyStore, Scanning
    <3> QED BY <1>9, <2>2, <3>1, Refusing DEF ScanLegacyStore, legacyVars, storeVars
  <2> QED BY <2>1, <2>2
<1>2. (Whole' <=> Whole) /\ (Finished' <=> Finished) /\ (LostAtWork' <=> LostAtWork)
  BY <1>1, SameStore
<1>11. Shaped'
  BY <1>0, <1>1, <1>9, TreeFacts DEF Shaped, MigrationTypeOK
<1>12. Beginning'
  BY <1>0, <1>1, <1>9 DEF Beginning, Building
<1>13. Scanned'
  <2>1. CASE work'.at = "stage"
    BY <1>0, <1>1, <1>9, <2>1, TreeFacts DEF Scanned, Building, Scanning
  <2>2. CASE work'.at = "idle"
    BY <2>2 DEF Scanned, Building
  <2> QED BY <1>1, <2>1, <2>2
<1>14. Held'
  BY <1>0, <1>1, <1>2 DEF Held, PublishedIsWhole
<1>15. Retiring'
  BY <1>0, <1>1, <1>2 DEF Retiring
<1>16. Undisturbed'
  BY <1>0, <1>1, <1>2 DEF Undisturbed
<1>17. Caused'
  BY <1>0, <1>1, <1>2, TreeFacts DEF Caused, Scanning
<1>18. KeptReferenceWasTaken'
  BY <1>0, <1>1 DEF KeptReferenceWasTaken
<1> QED BY <1>11, <1>12, <1>13, <1>14, <1>15, <1>16, <1>17, <1>18 DEF MigrationIInv

(* A file is staged as it was scanned.                                     *)
LEMMA StageFilesKeeps ==
    ASSUME MigrationIInv, NEW q \in Requests, StageFiles(q) PROVE MigrationIInv'
<1>0. /\ Shaped /\ Beginning /\ Scanned /\ Held /\ Retiring /\ Undisturbed /\ Caused
      /\ KeptReferenceWasTaken
  BY DEF MigrationIInv
<1>1. /\ work.at = "stage" /\ q \in Taken(work.scan) /\ stage[q] = "absent"
      /\ stage' = [stage EXCEPT ![q] = work.scan[q]]
      /\ UNCHANGED <<mailbox, retired, drifts, marker, entries, source, reference, expired,
                     work, refused>>
  BY <1>0 DEF StageFiles, legacyVars, storeVars
<1>2. (Whole' <=> Whole) /\ (Finished' <=> Finished) /\ (LostAtWork' <=> LostAtWork)
  BY <1>1, SameStore
<1>3. ~marker.published /\ stage \in Trees /\ work.scan \in Trees
  BY <1>0, <1>1 DEF Beginning, Scanned, Building
<1>4. /\ stage' \in Trees /\ stage'[q] = work.scan[q]
      /\ \A r \in Requests : r # q => stage'[r] = stage[r]
  BY <1>1, <1>3 DEF Trees
<1>11. Shaped'
  BY <1>0, <1>1, <1>3, <1>4 DEF Shaped, MigrationTypeOK
<1>12. Beginning'
  BY <1>0, <1>1 DEF Beginning
<1>13. Scanned'
  BY <1>0, <1>1, <1>4 DEF Scanned, Building
<1>14. Held'
  BY <1>0, <1>1, <1>2 DEF Held, PublishedIsWhole
<1>15. Retiring'
  BY <1>0, <1>1, <1>2 DEF Retiring
<1>16. Undisturbed'
  BY <1>0, <1>1, <1>2 DEF Undisturbed
<1>17. Caused'
  BY <1>0, <1>1, <1>2 DEF Caused
<1>18. KeptReferenceWasTaken'
  BY <1>0, <1>1 DEF KeptReferenceWasTaken
<1> QED BY <1>11, <1>12, <1>13, <1>14, <1>15, <1>16, <1>17, <1>18 DEF MigrationIInv

(* Publishing makes the stage the store, when the mailbox is still the one *)
(* surveyed.                                                               *)
LEMMA PublishStoreKeeps ==
    ASSUME MigrationIInv, PublishStore PROVE MigrationIInv'
<1>0. /\ Shaped /\ Beginning /\ Scanned /\ Held /\ Retiring /\ Undisturbed /\ Caused
      /\ KeptReferenceWasTaken
  BY DEF MigrationIInv
<1>1. /\ work.at = "stage" /\ Staged /\ stage' = NoTree
      /\ UNCHANGED <<mailbox, retired, drifts, reference, expired>>
      /\ ~marker.published /\ stage \in Trees /\ work.scan \in Trees
      /\ marker = Unpublished /\ source = EmptyTree /\ entries = EmptyTree
  BY <1>0 DEF PublishStore, legacyVars, Beginning, Scanned, Building
<1>2. \A r \in Requests : stage[r] = IF r \in Taken(work.scan) THEN work.scan[r] ELSE "absent"
  BY <1>0, <1>1 DEF Scanned, Building, Staged
<1>3. CASE ~SourceUnchanged
  <2>1. /\ UNCHANGED <<marker, entries, source>>
        /\ work' \in Work /\ work'.at = "idle" /\ refused' = TRUE
    BY <1>3, Refusing DEF PublishStore, storeVars
  <2>2. (Whole' <=> Whole) /\ (Finished' <=> Finished) /\ (LostAtWork' <=> LostAtWork)
    BY <1>1, <2>1, SameStore
  <2>3. drifts > 0
    BY <1>0, <1>1, <1>3 DEF SourceUnchanged, Scanned, Building, Shaped
  <2>11. Shaped'
    BY <1>0, <1>1, <2>1 DEF Shaped, MigrationTypeOK
  <2>12. Beginning' /\ Scanned'
    BY <1>0, <1>1, <2>1 DEF Beginning, Scanned, Building
  <2>13. Held'
    BY <1>0, <1>1, <2>1, <2>2 DEF Held, PublishedIsWhole
  <2>14. Retiring'
    BY <1>0, <1>1, <2>1, <2>2 DEF Retiring
  <2>15. Undisturbed' /\ Caused'
    BY <1>1, <2>1, <2>3 DEF Undisturbed, Caused
  <2>16. KeptReferenceWasTaken'
    BY <1>0, <1>1, <2>1 DEF KeptReferenceWasTaken
  <2> QED BY <2>11, <2>12, <2>13, <2>14, <2>15, <2>16 DEF MigrationIInv
<1>4. CASE SourceUnchanged
  <2>1. /\ marker' = [Unpublished EXCEPT !.published = TRUE, !.manifest = work.manifest,
                                         !.files = Taken(work.scan)]
        /\ entries' = stage /\ source' = stage /\ refused' = refused
        /\ work' \in Work /\ work'.at = "idle"
    BY <1>4, Resting DEF PublishStore
  <2>2. work.manifest \in Trees \cup {NoTree} /\ Taken(work.scan) \subseteq Requests
    BY <1>0, Parts DEF Work, Taken
  <2>3. /\ marker' \in Marks /\ marker'.published /\ ~marker'.cleared
        /\ marker'.manifest = work.manifest /\ marker'.files = Taken(work.scan)
        /\ marker'.phase = "none"
    BY <2>1, <2>2, UnpublishedIs DEF Marks
  <2>4. /\ entries' \in [Requests -> States]
        /\ \A r \in marker'.files : entries'[r] = work.scan[r] /\ source'[r] = work.scan[r]
        /\ \A r \in Requests : r \notin marker'.files => source'[r] = "absent"
    BY <1>1, <1>2, <2>1, <2>3, BecameFacts DEF Taken, Trees, States
  <2>5. marker'.files \subseteq Taken(source')
    BY <2>3, <2>4, <2>2 DEF Taken
  <2>6. /\ work.manifest = NoTree => Taken(work.scan) = {}
        /\ work.manifest # NoTree => mailbox.tree = work.manifest
        /\ drifts < 2 => Taken(work.scan) = Taken(work.manifest)
        /\ drifts < 2 => \A r \in Taken(work.scan) : work.scan[r] = work.manifest[r]
    BY <1>0, <1>1, <1>4, TreeFacts DEF Scanned, Building, SourceUnchanged
  <2>7. ~refused \/ drifts > 0 \/ ~Readable(mailbox.tree)
    BY <1>0, <1>1, UnpublishedIs DEF Caused, LostAtWork
  <2>8. retired = NoDirectory
    BY <1>0, <1>1, UnpublishedIs DEF Retiring
  <2>11. Shaped'
    BY <1>0, <1>1, <2>1, <2>3, <2>4 DEF Shaped, MigrationTypeOK, Marks
  <2>12. Beginning' /\ Scanned'
    BY <2>1, <2>3 DEF Beginning, Scanned, Building
  <2>13. Held'
    <3>1. \A r \in marker'.files : entries'[r] \in Became[source'[r]]
      BY <2>3, <2>4, BecameFacts DEF Taken
    <3>2. PublishedIsWhole'
      BY <1>1, <2>3, <2>4, <2>6, <3>1 DEF PublishedIsWhole
    <3>3. \A r \in Requests : entries'[r] # "absent" => source'[r] # "absent"
      BY <2>1
    <3> QED BY <2>3, <2>5, <2>6, <3>2, <3>3 DEF Held
  <2>14. Retiring'
    BY <1>1, <2>1, <2>3, <2>8 DEF Retiring
  <2>15. Undisturbed'
    <3>1. ASSUME drifts = 0, mailbox # NoDirectory
          PROVE  work.manifest # NoTree /\ Readable(work.manifest)
      BY <3>1, <1>0, <1>1 DEF Scanned, Building, Shaped
    <3>2. ASSUME drifts = 0, mailbox = NoDirectory
          PROVE  work.manifest = NoTree
      BY <3>2, <1>0, <1>1, TreeFacts DEF Scanned, Building
    <3>3. drifts = 0 /\ mailbox # NoDirectory => Whole'
      BY <2>3, <2>4, <2>6 DEF Whole, Faithful
    <3> QED BY <1>1, <2>1, <2>3, <2>6, <3>1, <3>2, <3>3 DEF Undisturbed
  <2>16. Caused'
    BY <1>1, <2>1, <2>7 DEF Caused
  <2>17. KeptReferenceWasTaken'
    BY <1>0, <1>1, TreeFacts DEF KeptReferenceWasTaken
  <2> QED BY <2>11, <2>12, <2>13, <2>14, <2>15, <2>16, <2>17 DEF MigrationIInv
<1> QED BY <1>3, <1>4

(* A new request is none of those that were taken.                         *)
LEMMA OpenRequestKeeps ==
    ASSUME MigrationIInv, NEW q \in Requests, OpenRequest(q) PROVE MigrationIInv'
<1>0. /\ Shaped /\ Beginning /\ Scanned /\ Held /\ Retiring /\ Undisturbed /\ Caused
      /\ KeptReferenceWasTaken
  BY DEF MigrationIInv
<1>1. /\ work.at = "idle" /\ marker.published
      /\ entries[q] = "absent" /\ source[q] = "absent" /\ reference[q] = "none"
      /\ entries' = [entries EXCEPT ![q] = "waiting"]
      /\ UNCHANGED <<mailbox, retired, drifts, marker, stage, source, reference, expired,
                     work, refused>>
  BY <1>0, Parts DEF OpenRequest, InUse, legacyVars
<1>3. q \notin marker.files /\ marker.files \subseteq Requests
  BY <1>0, <1>1, Parts, BecameFacts DEF Held, Taken
<1>4. /\ entries' \in [Requests -> States]
      /\ \A r \in Requests : r # q => entries'[r] = entries[r]
  BY <1>0, <1>1 DEF Shaped, MigrationTypeOK, States
<1>2. (Whole' <=> Whole) /\ (Finished' <=> Finished) /\ (LostAtWork' <=> LostAtWork)
  BY <1>1, <1>3, <1>4 DEF Whole, Faithful, Finished, LostAtWork, StoreRetains, IsLive
<1>11. Shaped'
  BY <1>0, <1>1, <1>4 DEF Shaped, MigrationTypeOK
<1>12. Beginning'
  BY <1>0, <1>1 DEF Beginning, Building
<1>13. Scanned'
  BY <1>0, <1>1 DEF Scanned, Building
<1>14. Held'
  <2>1. PublishedIsWhole'
    BY <1>0, <1>1, <1>3, <1>4 DEF Held, PublishedIsWhole
  <2> QED BY <1>0, <1>1, <1>2, <1>4, <2>1 DEF Held
<1>15. Retiring'
  BY <1>0, <1>1, <1>2 DEF Retiring
<1>16. Undisturbed'
  BY <1>0, <1>1, <1>2 DEF Undisturbed
<1>17. Caused'
  BY <1>0, <1>1, <1>2 DEF Caused
<1>18. KeptReferenceWasTaken'
  BY <1>0, <1>1 DEF KeptReferenceWasTaken
<1> QED BY <1>11, <1>12, <1>13, <1>14, <1>15, <1>16, <1>17, <1>18 DEF MigrationIInv

(* A request moves on only while it lives, hence none that a clearing      *)
(* found finished.                                                         *)
LEMMA RequestMovesKeeps ==
    ASSUME MigrationIInv, NEW q \in Requests, RequestMoves(q) PROVE MigrationIInv'
<1>0. /\ Shaped /\ Beginning /\ Scanned /\ Held /\ Retiring /\ Undisturbed /\ Caused
      /\ KeptReferenceWasTaken
  BY DEF MigrationIInv
<1>1. /\ work.at = "idle" /\ marker.published /\ IsLive(entries[q], q)
      /\ \E s \in Became[entries[q]] \ {entries[q]} : entries' = [entries EXCEPT ![q] = s]
      /\ UNCHANGED <<mailbox, retired, drifts, marker, stage, source, reference, expired,
                     work, refused>>
  BY <1>0, Parts DEF RequestMoves, InUse, legacyVars
<1>2. entries[q] \in Unfinished /\ q \notin expired
  BY <1>1 DEF IsLive
<1>3. PICK s \in Became[entries[q]] : entries' = [entries EXCEPT ![q] = s]
  BY <1>1
<1>4. entries[q] \in DOMAIN Became /\ s \in States /\ s # "absent"
  BY <1>2, <1>3, BecameFacts DEF Unfinished
<1>5. /\ entries' \in [Requests -> States] /\ entries'[q] = s
      /\ \A r \in Requests : r # q => entries'[r] = entries[r]
  BY <1>0, <1>3, <1>4 DEF Shaped, MigrationTypeOK
<1>6. marker.cleared => q \notin marker.files
  BY <1>0, <1>1 DEF Held, Finished
<1>7. marker.files \subseteq Requests
  BY <1>0, Parts
<1>8. Whole' <=> Whole
  BY <1>1 DEF Whole, Faithful
<1>11. Shaped'
  BY <1>0, <1>1, <1>5 DEF Shaped, MigrationTypeOK
<1>12. Beginning'
  BY <1>0, <1>1 DEF Beginning, Building
<1>13. Scanned'
  BY <1>0, <1>1 DEF Scanned, Building
<1>14. Held'
  <2>1. marker.cleared => Finished'
    BY <1>0, <1>1, <1>5, <1>6, <1>7 DEF Held, Finished, StoreRetains, IsLive
  <2>2. \A r \in marker.files : entries'[r] \in Became[source[r]]
    <3> SUFFICES ASSUME NEW r \in marker.files PROVE entries'[r] \in Became[source[r]]
      OBVIOUS
    <3>1. entries[r] \in Became[source[r]] /\ source[r] \in DOMAIN Became
      BY <1>0, <1>1 DEF Held, PublishedIsWhole, Taken
    <3>2. CASE r = q
      BY <3>1, <3>2, <1>2, <1>3, <1>5, BecameFacts
    <3>3. CASE r # q
      BY <3>1, <3>3, <1>5, <1>7
    <3> QED BY <3>2, <3>3
  <2>3. PublishedIsWhole'
    BY <1>0, <1>1, <2>2 DEF Held, PublishedIsWhole
  <2>4. entries[q] # "absent"
    BY <1>2 DEF Unfinished
  <2> QED BY <1>0, <1>1, <1>5, <1>8, <2>1, <2>3, <2>4 DEF Held
<1>15. Retiring'
  BY <1>0, <1>1 DEF Retiring
<1>16. Undisturbed'
  BY <1>0, <1>1, <1>8 DEF Undisturbed
<1>17. Caused'
  <2>1. LostAtWork => LostAtWork'
    BY <1>1, <1>2, <1>5, <1>7 DEF LostAtWork, Unfinished
  <2> QED BY <1>0, <1>1, <2>1 DEF Caused
<1>18. KeptReferenceWasTaken'
  BY <1>0, <1>1 DEF KeptReferenceWasTaken
<1> QED BY <1>11, <1>12, <1>13, <1>14, <1>15, <1>16, <1>17, <1>18 DEF MigrationIInv

(* A request that expires only becomes more finished.                      *)
LEMMA ExpireKeeps ==
    ASSUME MigrationIInv, NEW q \in Requests, Expire(q) PROVE MigrationIInv'
<1>0. /\ Shaped /\ Beginning /\ Scanned /\ Held /\ Retiring /\ Undisturbed /\ Caused
      /\ KeptReferenceWasTaken
  BY DEF MigrationIInv
<1>1. /\ expired' = expired \cup {q}
      /\ UNCHANGED <<mailbox, retired, drifts, marker, stage, entries, source, reference,
                     work, refused>>
  BY <1>0, Parts DEF Expire, legacyVars, storeVars
<1>2. (Whole' <=> Whole) /\ (Finished => Finished') /\ (LostAtWork' <=> LostAtWork)
  BY <1>1 DEF Whole, Faithful, Finished, LostAtWork, StoreRetains, IsLive
<1>11. Shaped'
  BY <1>0, <1>1 DEF Shaped, MigrationTypeOK
<1>12. Beginning'
  BY <1>0, <1>1 DEF Beginning, Building
<1>13. Scanned'
  BY <1>0, <1>1 DEF Scanned, Building
<1>14. Held'
  <2>1. PublishedIsWhole'
    BY <1>0, <1>1 DEF Held, PublishedIsWhole
  <2> QED BY <1>0, <1>1, <1>2, <2>1 DEF Held
<1>15. Retiring'
  BY <1>0, <1>1, <1>2 DEF Retiring
<1>16. Undisturbed'
  BY <1>0, <1>1, <1>2 DEF Undisturbed
<1>17. Caused'
  BY <1>0, <1>1, <1>2 DEF Caused
<1>18. KeptReferenceWasTaken'
  BY <1>0, <1>1 DEF KeptReferenceWasTaken
<1> QED BY <1>11, <1>12, <1>13, <1>14, <1>15, <1>16, <1>17, <1>18 DEF MigrationIInv

(* Retention takes out of the marker only what no clearing will be         *)
(* compared with.                                                          *)
LEMMA PruneRecordedKeeps ==
    ASSUME MigrationIInv, NEW q \in Requests, PruneRecorded(q) PROVE MigrationIInv'
<1>0. /\ Shaped /\ Beginning /\ Scanned /\ Held /\ Retiring /\ Undisturbed /\ Caused
      /\ KeptReferenceWasTaken
  BY DEF MigrationIInv
<1>1. /\ work.at = "idle" /\ marker.published /\ q \notin ProtectedRequests
      /\ marker' \in Marks /\ marker'.published /\ marker'.manifest = marker.manifest
      /\ marker'.cleared = marker.cleared /\ marker'.phase = marker.phase
      /\ marker'.inode = marker.inode
      /\ marker'.files = IF marker.cleared /\ ~CleanupPending
                         THEN marker.files \ {q} ELSE marker.files
      /\ work' \in Work /\ work'.at = "prune"
      /\ \A r \in Requests \ {q} : work'.scan[r] = "absent"
      /\ UNCHANGED <<mailbox, retired, drifts, stage, entries, source, reference, expired,
                     refused>>
  BY <1>0, Parts, TreeFacts DEF PruneRecorded, InUse, legacyVars, storeVars, Work, Marks,
     Places, Idle, EmptyTree, Shaped, MigrationTypeOK, Trees
<1>2. /\ marker'.files \subseteq marker.files /\ q \notin marker'.files
      /\ \/ marker'.files = marker.files
         \/ /\ marker.cleared /\ marker.phase = "none" /\ mailbox = NoDirectory
            /\ marker.manifest # NoTree
  <2>1. marker.manifest = NoTree => marker.files = {} /\ ~marker.cleared
    BY <1>0 DEF Held
  <2>2. CASE CleanupPending
    BY <1>1, <2>2 DEF ProtectedRequests
  <2>3. CASE ~CleanupPending
    BY <1>1, <2>1, <2>3 DEF CleanupPending
  <2> QED BY <2>2, <2>3
<1>3. marker'.files = marker.files => (Whole' <=> Whole)
  BY <1>1 DEF Whole, Faithful
<1>4. Finished => Finished'
  BY <1>1, <1>2 DEF Finished, StoreRetains, IsLive
<1>5. LostAtWork => LostAtWork'
  <2>1. marker.cleared => ~LostAtWork
    BY <1>0 DEF Held, Finished, StoreRetains, Retains, LostAtWork
  <2> QED BY <1>1, <1>2, <2>1 DEF LostAtWork
<1>11. Shaped'
  BY <1>0, <1>1, Parts DEF Shaped, MigrationTypeOK, Marks
<1>12. Beginning'
  BY <1>0, <1>1 DEF Beginning, Building
<1>13. Scanned'
  BY <1>0, <1>1 DEF Scanned, Building
<1>14. Held'
  <2>1. PublishedIsWhole'
    BY <1>0, <1>1, <1>2 DEF Held, PublishedIsWhole
  <2> QED BY <1>0, <1>1, <1>2, <1>3, <1>4, <2>1 DEF Held
<1>15. Retiring'
  <2>1. \A r \in Requests : work'.scan[r] # "absent" => r \notin marker'.files
    BY <1>1, <1>2
  <2> QED BY <1>0, <1>1, <2>1 DEF Retiring
<1>16. Undisturbed'
  BY <1>0, <1>1, <1>2, <1>3 DEF Undisturbed
<1>17. Caused'
  BY <1>0, <1>1, <1>5 DEF Caused
<1>18. KeptReferenceWasTaken'
  BY <1>0, <1>1 DEF KeptReferenceWasTaken
<1> QED BY <1>11, <1>12, <1>13, <1>14, <1>15, <1>16, <1>17, <1>18 DEF MigrationIInv

(* It removes what the marker does not name any more.                      *)
LEMMA PruneRemovesKeeps ==
    ASSUME MigrationIInv, PruneRemoves PROVE MigrationIInv'
<1>0. /\ Shaped /\ Beginning /\ Scanned /\ Held /\ Retiring /\ Undisturbed /\ Caused
      /\ KeptReferenceWasTaken
  BY DEF MigrationIInv
<1>1. /\ work.at = "prune" /\ work' \in Work /\ work'.at = "idle"
      /\ entries' \in [Requests -> States]
      /\ \A r \in Requests : entries'[r] = IF work.scan[r] = "absent" THEN entries[r]
                                           ELSE "absent"
      /\ UNCHANGED <<mailbox, retired, drifts, marker, stage, source, reference, expired,
                     refused>>
  BY <1>0, Parts, Resting DEF PruneRemoves, legacyVars, Shaped, MigrationTypeOK, States
<1>3. marker.files \subseteq Requests /\ \A r \in marker.files : entries'[r] = entries[r]
  BY <1>0, <1>1, Parts DEF Retiring
<1>2. (Whole' <=> Whole) /\ (Finished' <=> Finished) /\ (LostAtWork' <=> LostAtWork)
  BY <1>1, <1>3 DEF Whole, Faithful, Finished, LostAtWork, StoreRetains, IsLive
<1>11. Shaped'
  BY <1>0, <1>1 DEF Shaped, MigrationTypeOK
<1>12. Beginning'
  <2>1. marker.published
    BY <1>0, <1>1 DEF Beginning, Building
  <2> QED BY <1>1, <2>1 DEF Beginning, Building
<1>13. Scanned'
  BY <1>0, <1>1 DEF Scanned, Building
<1>14. Held'
  <2>1. PublishedIsWhole'
    BY <1>0, <1>1, <1>3 DEF Held, PublishedIsWhole
  <2> QED BY <1>0, <1>1, <1>2, <2>1 DEF Held
<1>15. Retiring'
  BY <1>0, <1>1 DEF Retiring
<1>16. Undisturbed'
  BY <1>0, <1>1, <1>2 DEF Undisturbed
<1>17. Caused'
  BY <1>0, <1>1, <1>2 DEF Caused
<1>18. KeptReferenceWasTaken'
  BY <1>0, <1>1 DEF KeptReferenceWasTaken
<1> QED BY <1>11, <1>12, <1>13, <1>14, <1>15, <1>16, <1>17, <1>18 DEF MigrationIInv

(* The first comparison; it fails only for a cause.                        *)
LEMMA CheckCleanupKeeps ==
    ASSUME MigrationIInv, CheckCleanup PROVE MigrationIInv'
<1>0. /\ Shaped /\ Beginning /\ Scanned /\ Held /\ Retiring /\ Undisturbed /\ Caused
      /\ KeptReferenceWasTaken
  BY DEF MigrationIInv
<1>1. /\ work.at = "idle" /\ marker.published /\ work' \in Work
      /\ UNCHANGED <<mailbox, retired, drifts, marker, stage, entries, source, reference,
                     expired>>
      /\ IF SourceMatchesMigration
         THEN /\ NoneIsLive /\ work'.at = "authorize" /\ work'.root = (mailbox # NoDirectory)
              /\ refused' = refused
         ELSE work'.at = "idle" /\ refused' = TRUE
  <2>1. CASE ~SourceMatchesMigration
    BY <2>1, Refusing DEF CheckCleanup, InUse, legacyVars, storeVars
  <2>2. CASE SourceMatchesMigration
    <3>1. /\ NoneIsLive /\ refused' = refused
          /\ work' = [Idle EXCEPT !.at = "authorize", !.root = mailbox # NoDirectory]
      BY <2>2 DEF CheckCleanup
    <3>2. work' \in Work /\ work'.at = "authorize" /\ work'.root = (mailbox # NoDirectory)
      BY <3>1, TreeFacts DEF Idle, Work, Places
    <3> QED BY <2>2, <3>1, <3>2 DEF CheckCleanup, InUse, legacyVars, storeVars
  <2> QED BY <2>1, <2>2
<1>2. (Whole' <=> Whole) /\ (Finished' <=> Finished) /\ (LostAtWork' <=> LostAtWork)
  BY <1>1, SameStore
<1>3. SourceMatchesMigration => Finished'
  BY <1>0, <1>1, <1>2, Parts DEF SourceMatchesMigration, NoneIsLive, Finished
<1>11. Shaped'
  BY <1>0, <1>1, <1>2 DEF Shaped, MigrationTypeOK
<1>12. Beginning'
  BY <1>0, <1>1, <1>2 DEF Beginning, Building
<1>13. Scanned'
  BY <1>0, <1>1, <1>2 DEF Scanned, Building
<1>14. Held'
  BY <1>0, <1>1, <1>2 DEF Held, PublishedIsWhole
<1>15. Retiring'
  <2>1. CASE ~SourceMatchesMigration
    BY <1>0, <1>1, <2>1 DEF Retiring
  <2>2. CASE SourceMatchesMigration
    <3>1. mailbox # NoDirectory => Whole /\ marker.manifest # NoTree /\ Readable(marker.manifest)
      BY <1>0, <2>2 DEF SourceMatchesMigration, Whole, Faithful, Shaped
    <3> QED BY <1>0, <1>1, <1>2, <1>3, <2>2, <3>1 DEF Retiring
  <2> QED BY <2>1, <2>2
<1>16. Undisturbed'
  BY <1>0, <1>1, <1>2 DEF Undisturbed
<1>17. Caused'
  <2>1. CASE SourceMatchesMigration
    BY <1>0, <1>1, <1>2, <2>1 DEF Caused
  <2>2. ASSUME ~SourceMatchesMigration, drifts = 0 PROVE LostAtWork
    <3>1. /\ mailbox = NoDirectory => marker.manifest = NoTree \/ marker.cleared
          /\ mailbox # NoDirectory => mailbox.tree = marker.manifest
                                      /\ Readable(marker.manifest) /\ Whole
      BY <1>0, <1>1, <2>2 DEF Undisturbed
    <3>2. mailbox # NoDirectory =>
             /\ Readable(mailbox.tree) /\ Taken(mailbox.tree) = marker.files
             /\ \A r \in marker.files : source[r] = mailbox.tree[r]
      BY <3>1 DEF Whole, Faithful
    <3>3. ~StoreRetains
      BY <2>2, <3>1, <3>2 DEF SourceMatchesMigration
    <3> QED BY <1>0, <1>1, <3>3 DEF StoreRetains, Retains, LostAtWork, Held,
               PublishedIsWhole
  <2>3. drifts \in Nat
    BY <1>0 DEF Shaped
  <2> QED BY <1>0, <1>1, <1>2, <2>1, <2>2, <2>3 DEF Caused
<1>18. KeptReferenceWasTaken'
  BY <1>0, <1>1, <1>2 DEF KeptReferenceWasTaken
<1> QED BY <1>11, <1>12, <1>13, <1>14, <1>15, <1>16, <1>17, <1>18 DEF MigrationIInv

(* The authorization is written for a store that was found whole.          *)
LEMMA AuthorizeCleanupKeeps ==
    ASSUME MigrationIInv, AuthorizeCleanup PROVE MigrationIInv'
<1>0. /\ Shaped /\ Beginning /\ Scanned /\ Held /\ Retiring /\ Undisturbed /\ Caused
      /\ KeptReferenceWasTaken
  BY DEF MigrationIInv
<1>1. /\ work.at = "authorize" /\ work' \in Work
      /\ UNCHANGED <<mailbox, retired, drifts, stage, entries, source, reference, expired>>
      /\ \/ /\ work.root /\ mailbox.tree = marker.manifest
            /\ work'.at = "retire" /\ work'.root = work.root /\ refused' = refused
            /\ IF marker.phase # "none" THEN marker' = marker
               ELSE /\ marker' \in Marks /\ marker'.published = marker.published
                    /\ marker'.manifest = marker.manifest /\ marker'.files = marker.files
                    /\ marker'.cleared /\ marker'.phase = "reserved"
                    /\ marker'.inode = mailbox.inode
         \/ /\ work.root /\ mailbox.tree # marker.manifest
            /\ work'.at = "idle" /\ refused' = TRUE /\ marker' = marker
         \/ /\ ~work.root /\ marker' = marker /\ refused' = refused
            /\ work'.root = work.root
            /\ work'.at = IF marker.phase = "none" THEN "references" ELSE "retire"
  <2>1. marker \in Marks /\ work \in Work /\ mailbox.inode \in 0..(1 + MaxDrifts)
    BY <1>0, Parts DEF Directories
  <2>2. CASE work.root /\ mailbox.tree = marker.manifest
    <3>1. Goes("retire") /\ marker' = IF marker.phase # "none" THEN marker
                ELSE [marker EXCEPT !.cleared = TRUE, !.phase = "reserved",
                                    !.inode = mailbox.inode]
      BY <2>2 DEF AuthorizeCleanup
    <3>2. marker.phase = "none" =>
             /\ marker' \in Marks /\ marker'.published = marker.published
             /\ marker'.manifest = marker.manifest /\ marker'.files = marker.files
             /\ marker'.cleared /\ marker'.phase = "reserved"
             /\ marker'.inode = mailbox.inode
      BY <2>1, <3>1 DEF Marks
    <3>3. /\ work' \in Work /\ work'.at = "retire" /\ work'.root = work.root
          /\ refused' = refused
      BY <2>1, <3>1, Going DEF Places
    <3> QED BY <2>2, <3>1, <3>2, <3>3 DEF AuthorizeCleanup, legacyVars, storeVars
  <2>3. CASE work.root /\ mailbox.tree # marker.manifest
    BY <2>3, Refusing DEF AuthorizeCleanup, legacyVars, storeVars
  <2>4. CASE ~work.root
    <3>1. Goes(IF marker.phase = "none" THEN "references" ELSE "retire")
          /\ UNCHANGED marker
      BY <2>4 DEF AuthorizeCleanup
    <3>2. /\ work' \in Work /\ work'.root = work.root /\ refused' = refused
          /\ work'.at = IF marker.phase = "none" THEN "references" ELSE "retire"
      BY <2>1, <3>1, Going DEF Places
    <3> QED BY <2>4, <3>1, <3>2 DEF AuthorizeCleanup, legacyVars, storeVars
  <2> QED BY <2>2, <2>3, <2>4
<1>2. (Whole' <=> Whole) /\ (Finished' <=> Finished) /\ (LostAtWork' <=> LostAtWork)
  BY <1>1, SameStore
<1>3. /\ marker.published /\ Finished /\ drifts \in Nat
      /\ work.root => Whole /\ marker.manifest # NoTree /\ Readable(marker.manifest)
  BY <1>0, <1>1 DEF Beginning, Building, Retiring, Shaped
<1>11. Shaped'
  BY <1>0, <1>1, Parts DEF Shaped, MigrationTypeOK, Marks
<1>12. Beginning'
  BY <1>0, <1>1, <1>3 DEF Beginning, Building
<1>13. Scanned'
  BY <1>0, <1>1, <1>2 DEF Scanned, Building
<1>14. Held'
  <2>1. CASE marker' = marker
    BY <1>0, <1>1, <1>2, <2>1 DEF Held, PublishedIsWhole
  <2>2. CASE marker' # marker
    <3>1. /\ marker'.published /\ marker'.manifest = marker.manifest
          /\ marker'.files = marker.files /\ marker'.cleared /\ work.root
      BY <1>1, <1>3, <2>2
    <3>2. PublishedIsWhole'
      BY <1>0, <1>1, <1>3, <3>1 DEF Held, PublishedIsWhole, Whole, Faithful
    <3> QED BY <1>0, <1>1, <1>2, <1>3, <3>1, <3>2 DEF Held
  <2> QED BY <2>1, <2>2
<1>15. Retiring'
  BY <1>0, <1>1, <1>2 DEF Retiring
<1>16. Undisturbed'
  <2>1. drifts = 0 => (work.root <=> mailbox # NoDirectory)
    BY <1>0, <1>1, Parts DEF Undisturbed, Work
  <2>2. marker.phase = "none" => retired = NoDirectory
    BY <1>0 DEF Retiring
  <2>3. CASE marker' = marker
    BY <1>0, <1>1, <1>2, <2>3 DEF Undisturbed
  <2>4. CASE marker' # marker
    BY <1>0, <1>1, <1>2, <1>3, <2>1, <2>2, <2>4 DEF Undisturbed
  <2> QED BY <2>3, <2>4
<1>17. Caused'
  <2>1. work.root /\ mailbox.tree # marker.manifest => drifts > 0
    <3>1. drifts = 0 => (work.root <=> mailbox # NoDirectory)
      BY <1>0, <1>1, Parts DEF Undisturbed, Work
    <3>2. work.root /\ mailbox.tree # marker.manifest => drifts # 0
      BY <1>0, <1>3, <3>1 DEF Undisturbed
    <3> QED BY <1>3, <3>2
  <2> QED BY <1>0, <1>1, <1>2, <2>1 DEF Caused
<1>18. KeptReferenceWasTaken'
  BY <1>0, <1>1, <1>2 DEF KeptReferenceWasTaken
<1> QED BY <1>11, <1>12, <1>13, <1>14, <1>15, <1>16, <1>17, <1>18 DEF MigrationIInv

(* A clearing resumes where the marker says it was.                        *)
LEMMA ResumeRetirementKeeps ==
    ASSUME MigrationIInv, ResumeRetirement PROVE MigrationIInv'
<1>0. /\ Shaped /\ Beginning /\ Scanned /\ Held /\ Retiring /\ Undisturbed /\ Caused
      /\ KeptReferenceWasTaken
  BY DEF MigrationIInv
<1>1. /\ work.at = "retire" /\ work' \in Work
      /\ UNCHANGED <<mailbox, retired, drifts, marker, stage, entries, source, reference,
                     expired>>
      /\ \/ /\ marker.phase = "reserved" /\ MayRename /\ refused' = refused
            /\ work'.at = IF RootSeen THEN "rename" ELSE "confirm"
         \/ MayDelete /\ work'.at = "delete" /\ refused' = refused
         \/ /\ ~(marker.phase = "reserved" /\ MayRename) /\ ~MayDelete
            /\ work'.at = "idle" /\ refused' = TRUE
  BY <1>0, Parts, Refusing, Going DEF ResumeRetirement, legacyVars, storeVars, Places
<1>2. (Whole' <=> Whole) /\ (Finished' <=> Finished) /\ (LostAtWork' <=> LostAtWork)
  BY <1>1, SameStore
<1>3. /\ marker.published /\ marker.phase \in {"reserved", "deleting"} /\ drifts \in Nat
  BY <1>0, <1>1, Parts DEF Beginning, Building, Retiring, Shaped, Marks
<1>11. Shaped'
  BY <1>0, <1>1, <1>2 DEF Shaped, MigrationTypeOK
<1>12. Beginning'
  BY <1>0, <1>1, <1>3 DEF Beginning, Building
<1>13. Scanned'
  BY <1>0, <1>1, <1>2 DEF Scanned, Building
<1>14. Held'
  BY <1>0, <1>1, <1>2 DEF Held, PublishedIsWhole
<1>15. Retiring'
  <2>1. RootSeen /\ MayRename => retired = NoDirectory /\ mailbox # NoDirectory
    BY DEF RootSeen, MayRename
  <2>2. MayDelete => marker.phase = "deleting"
    BY DEF MayDelete
  <2> QED BY <1>0, <1>1, <1>2, <2>1, <2>2 DEF Retiring
<1>16. Undisturbed'
  <2>1. drifts = 0 => (RootSeen <=> mailbox # NoDirectory)
    BY <1>0, <1>1 DEF Undisturbed, RootSeen
  <2> QED BY <1>0, <1>1, <1>2, <2>1 DEF Undisturbed
<1>17. Caused'
  <2>1. drifts = 0 => (RootSeen <=> mailbox # NoDirectory)
    BY <1>0, <1>1 DEF Undisturbed, RootSeen
  <2>2. drifts = 0 => \/ marker.phase = "reserved" /\ MayRename
                      \/ MayDelete
    BY <1>0, <1>3, <2>1 DEF Undisturbed, MayRename, MayDelete
  <2>3. CASE refused' = refused
    BY <1>0, <1>1, <1>2, <2>3 DEF Caused
  <2>4. CASE refused' # refused
    <3>1. drifts # 0
      BY <1>1, <2>2, <2>4
    <3>2. drifts' > 0
      BY <1>1, <1>3, <3>1
    <3> QED BY <3>2 DEF Caused
  <2> QED BY <2>3, <2>4
<1>18. KeptReferenceWasTaken'
  BY <1>0, <1>1, <1>2 DEF KeptReferenceWasTaken
<1> QED BY <1>11, <1>12, <1>13, <1>14, <1>15, <1>16, <1>17, <1>18 DEF MigrationIInv

(* The root that is renamed is the one that was seen.                      *)
LEMMA RenameRootKeeps ==
    ASSUME MigrationIInv, RenameRoot PROVE MigrationIInv'
<1>0. /\ Shaped /\ Beginning /\ Scanned /\ Held /\ Retiring /\ Undisturbed /\ Caused
      /\ KeptReferenceWasTaken
  BY DEF MigrationIInv
<1>1. /\ work.at = "rename" /\ work' \in Work /\ work'.at = "confirm"
      /\ retired' = mailbox /\ mailbox' = NoDirectory
      /\ UNCHANGED <<drifts, marker, stage, entries, source, reference, expired, refused>>
  BY <1>0, Parts, Going DEF RenameRoot, storeVars, Places
<1>2. (Whole' <=> Whole) /\ (Finished' <=> Finished) /\ (LostAtWork' <=> LostAtWork)
  BY <1>1, SameStore
<1>3. /\ marker.published /\ marker.phase = "reserved" /\ marker.cleared
      /\ retired = NoDirectory /\ mailbox # NoDirectory /\ drifts \in Nat
  BY <1>0, <1>1, Parts DEF Beginning, Building, Retiring, Shaped, Marks, Held
<1>4. drifts = 0 => /\ mailbox.inode = marker.inode /\ mailbox.tree = marker.manifest
                    /\ Readable(mailbox.tree)
  BY <1>0, <1>3 DEF Undisturbed
<1>11. Shaped'
  BY <1>0, <1>1, TreeFacts DEF Shaped, MigrationTypeOK
<1>12. Beginning'
  BY <1>0, <1>1, <1>3 DEF Beginning, Building
<1>13. Scanned'
  BY <1>1 DEF Scanned, Building
<1>14. Held'
  BY <1>0, <1>1, <1>2 DEF Held, PublishedIsWhole
<1>15. Retiring'
  BY <1>0, <1>1, <1>2, <1>3 DEF Retiring
<1>16. Undisturbed'
  BY <1>1, <1>3, <1>4 DEF Undisturbed
<1>17. Caused'
  BY <1>0, <1>1, <1>2, <1>3, <1>4 DEF Caused
<1>18. KeptReferenceWasTaken'
  BY <1>0, <1>1, <1>2 DEF KeptReferenceWasTaken
<1> QED BY <1>11, <1>12, <1>13, <1>14, <1>15, <1>16, <1>17, <1>18 DEF MigrationIInv

(* The retired root is compared before its deletion is authorized.         *)
LEMMA ConfirmRetiredKeeps ==
    ASSUME MigrationIInv, ConfirmRetired PROVE MigrationIInv'
<1>0. /\ Shaped /\ Beginning /\ Scanned /\ Held /\ Retiring /\ Undisturbed /\ Caused
      /\ KeptReferenceWasTaken
  BY DEF MigrationIInv
<1>1. /\ work.at = "confirm" /\ work' \in Work
      /\ UNCHANGED <<mailbox, retired, drifts, stage, entries, source, reference, expired>>
      /\ \/ /\ Confirmed /\ work'.at = "delete" /\ refused' = refused
            /\ marker' \in Marks /\ marker'.published = marker.published
            /\ marker'.manifest = marker.manifest /\ marker'.files = marker.files
            /\ marker'.cleared = marker.cleared /\ marker'.phase = "deleting"
         \/ ~Confirmed /\ work'.at = "idle" /\ refused' = TRUE /\ marker' = marker
  BY <1>0, Parts, Refusing, Going DEF ConfirmRetired, legacyVars, storeVars, Marks, Places
<1>2. (Whole' <=> Whole) /\ (Finished' <=> Finished) /\ (LostAtWork' <=> LostAtWork)
  BY <1>1, SameStore
<1>3. /\ marker.published /\ marker.phase = "reserved" /\ marker.cleared
      /\ Whole /\ Readable(marker.manifest) /\ drifts \in Nat
  BY <1>0, <1>1, Parts DEF Beginning, Building, Retiring, Shaped, Marks, Held
<1>4. drifts = 0 => mailbox = NoDirectory /\ Confirmed
  BY <1>0, <1>1, <1>3 DEF Undisturbed, Confirmed
<1>11. Shaped'
  BY <1>0, <1>1, Parts DEF Shaped, MigrationTypeOK, Marks
<1>12. Beginning'
  BY <1>1, <1>3 DEF Beginning, Building
<1>13. Scanned'
  BY <1>0, <1>1, <1>2 DEF Scanned, Building
<1>14. Held'
  <2>1. PublishedIsWhole'
    BY <1>0, <1>1 DEF Held, PublishedIsWhole
  <2> QED BY <1>0, <1>1, <1>2, <1>3, <2>1 DEF Held
<1>15. Retiring'
  <2>1. Confirmed => retired.tree = marker.manifest
    BY DEF Confirmed
  <2> QED BY <1>0, <1>1, <1>2, <1>3, <2>1 DEF Retiring
<1>16. Undisturbed'
  BY <1>0, <1>1, <1>2, <1>3, <1>4 DEF Undisturbed
<1>17. Caused'
  <2>1. CASE Confirmed
    BY <1>0, <1>1, <1>2, <2>1 DEF Caused
  <2>2. CASE ~Confirmed
    <3>1. drifts' > 0
      BY <1>1, <1>3, <1>4, <2>2
    <3> QED BY <3>1 DEF Caused
  <2> QED BY <2>1, <2>2
<1>18. KeptReferenceWasTaken'
  BY <1>0, <1>1, <1>2 DEF KeptReferenceWasTaken
<1> QED BY <1>11, <1>12, <1>13, <1>14, <1>15, <1>16, <1>17, <1>18 DEF MigrationIInv

(* What is deleted is of the tree that was confirmed.                      *)
LEMMA DeleteEntryKeeps ==
    ASSUME MigrationIInv, NEW q \in Requests, DeleteEntry(q) PROVE MigrationIInv'
<1>0. /\ Shaped /\ Beginning /\ Scanned /\ Held /\ Retiring /\ Undisturbed /\ Caused
      /\ KeptReferenceWasTaken
  BY DEF MigrationIInv
<1>1. /\ work.at = "delete" /\ retired # NoDirectory /\ retired.tree[q] # "absent"
      /\ marker.phase = "deleting" /\ retired.tree \in Trees
      /\ UNCHANGED <<mailbox, drifts, marker, stage, entries, source, reference, expired,
                     work, refused>>
  <2>1. marker.phase = "deleting" /\ marker.manifest \in Trees
    BY <1>0, Parts DEF DeleteEntry, Retiring, Held, Marks
  <2>2. retired.tree[q] = marker.manifest[q]
    BY <1>0, <2>1 DEF DeleteEntry, Retiring
  <2>3. retired.tree # NoTree
    BY <2>1, <2>2, TreeFacts DEF Trees, Kinds
  <2> QED BY <1>0, <2>1, <2>3, Parts DEF DeleteEntry, storeVars, Directories
<1>2. (Whole' <=> Whole) /\ (Finished' <=> Finished) /\ (LostAtWork' <=> LostAtWork)
  BY <1>1, SameStore
<1>3. /\ retired' \in Directories /\ retired'.tree[q] = "absent"
      /\ \A r \in Requests : r # q => retired'.tree[r] = retired.tree[r]
  <2>1. retired \in Directories /\ retired.tree \in Trees
    BY <1>0, <1>1, Parts DEF Directories
  <2>2. retired' = [retired EXCEPT !.tree = [retired.tree EXCEPT ![q] = "absent"]]
    BY DEF DeleteEntry
  <2>3. [retired.tree EXCEPT ![q] = "absent"] \in Trees
    BY <2>1 DEF Trees, Kinds
  <2> QED BY <2>1, <2>2, <2>3 DEF Directories, Trees
<1>11. Shaped'
  BY <1>0, <1>1, <1>3 DEF Shaped, MigrationTypeOK
<1>12. Beginning'
  BY <1>0, <1>1 DEF Beginning, Building
<1>13. Scanned'
  BY <1>0, <1>1 DEF Scanned, Building
<1>14. Held'
  BY <1>0, <1>1, <1>2 DEF Held, PublishedIsWhole
<1>15. Retiring'
  BY <1>0, <1>1, <1>2, <1>3 DEF Retiring
<1>16. Undisturbed'
  BY <1>0, <1>1, <1>2 DEF Undisturbed
<1>17. Caused'
  BY <1>0, <1>1, <1>2 DEF Caused
<1>18. KeptReferenceWasTaken'
  BY <1>0, <1>1 DEF KeptReferenceWasTaken
<1> QED BY <1>11, <1>12, <1>13, <1>14, <1>15, <1>16, <1>17, <1>18 DEF MigrationIInv

(* The empty root goes.                                                    *)
LEMMA DeleteRetiredKeeps ==
    ASSUME MigrationIInv, DeleteRetired PROVE MigrationIInv'
<1>0. /\ Shaped /\ Beginning /\ Scanned /\ Held /\ Retiring /\ Undisturbed /\ Caused
      /\ KeptReferenceWasTaken
  BY DEF MigrationIInv
<1>1. /\ work.at = "delete" /\ retired' = NoDirectory
      /\ UNCHANGED <<mailbox, drifts, marker, stage, entries, source, reference, expired,
                     work, refused>>
  BY <1>0, Parts DEF DeleteRetired, storeVars
<1>2. (Whole' <=> Whole) /\ (Finished' <=> Finished) /\ (LostAtWork' <=> LostAtWork)
  BY <1>1, SameStore
<1>3. marker.phase = "deleting"
  BY <1>0, <1>1 DEF Retiring
<1>11. Shaped'
  BY <1>0, <1>1, TreeFacts DEF Shaped, MigrationTypeOK
<1>12. Beginning'
  BY <1>0, <1>1, <1>2 DEF Beginning, Building
<1>13. Scanned'
  BY <1>0, <1>1, <1>2 DEF Scanned, Building
<1>14. Held'
  BY <1>0, <1>1, <1>2 DEF Held, PublishedIsWhole
<1>15. Retiring'
  BY <1>0, <1>1, <1>2 DEF Retiring
<1>16. Undisturbed'
  BY <1>0, <1>1, <1>2, <1>3 DEF Undisturbed
<1>17. Caused'
  BY <1>0, <1>1, <1>2 DEF Caused
<1>18. KeptReferenceWasTaken'
  BY <1>0, <1>1, <1>2 DEF KeptReferenceWasTaken
<1> QED BY <1>11, <1>12, <1>13, <1>14, <1>15, <1>16, <1>17, <1>18 DEF MigrationIInv

(* The clearing is recorded as done.                                       *)
LEMMA FinishRetirementKeeps ==
    ASSUME MigrationIInv, FinishRetirement PROVE MigrationIInv'
<1>0. /\ Shaped /\ Beginning /\ Scanned /\ Held /\ Retiring /\ Undisturbed /\ Caused
      /\ KeptReferenceWasTaken
  BY DEF MigrationIInv
<1>1. /\ work.at = "delete" /\ retired = NoDirectory
      /\ work' \in Work /\ work'.at = "references" /\ refused' = refused
      /\ marker' \in Marks /\ marker'.published = marker.published
      /\ marker'.manifest = marker.manifest /\ marker'.files = marker.files
      /\ marker'.cleared = marker.cleared /\ marker'.phase = "none"
      /\ UNCHANGED <<mailbox, retired, drifts, stage, entries, source, reference, expired>>
  <2>1. marker \in Marks /\ work \in Work
    BY <1>0, Parts
  <2>2. marker' = [marker EXCEPT !.phase = "none", !.inode = 0] /\ Goes("references")
    BY DEF FinishRetirement
  <2>3. work' \in Work /\ work'.at = "references" /\ refused' = refused
    BY <2>1, <2>2, Going DEF Places
  <2>5. 0 \in 0..(1 + MaxDrifts)
    OBVIOUS
  <2>4. /\ marker' \in Marks /\ marker'.published = marker.published
        /\ marker'.manifest = marker.manifest /\ marker'.files = marker.files
        /\ marker'.cleared = marker.cleared /\ marker'.phase = "none"
    BY <2>1, <2>2, <2>5 DEF Marks
  <2> QED BY <2>3, <2>4 DEF FinishRetirement, legacyVars, storeVars
<1>2. (Whole' <=> Whole) /\ (Finished' <=> Finished) /\ (LostAtWork' <=> LostAtWork)
  BY <1>1, SameStore
<1>3. marker.published /\ marker.phase = "deleting" /\ marker.cleared
  BY <1>0, <1>1 DEF Beginning, Building, Retiring, Held
<1>11. Shaped'
  BY <1>0, <1>1, Parts DEF Shaped, MigrationTypeOK, Marks
<1>12. Beginning'
  BY <1>1, <1>3 DEF Beginning, Building
<1>13. Scanned'
  BY <1>0, <1>1, <1>2 DEF Scanned, Building
<1>14. Held'
  BY <1>0, <1>1, <1>2 DEF Held, PublishedIsWhole
<1>15. Retiring'
  BY <1>0, <1>1, <1>2 DEF Retiring
<1>16. Undisturbed'
  BY <1>0, <1>1, <1>2 DEF Undisturbed
<1>17. Caused'
  BY <1>0, <1>1, <1>2 DEF Caused
<1>18. KeptReferenceWasTaken'
  BY <1>0, <1>1, <1>2 DEF KeptReferenceWasTaken
<1> QED BY <1>11, <1>12, <1>13, <1>14, <1>15, <1>16, <1>17, <1>18 DEF MigrationIInv

(* A reference of the mailbox is kept only to a request that was taken.    *)
LEMMA ClearReferenceKeeps ==
    ASSUME MigrationIInv, NEW q \in Requests, ClearReference(q) PROVE MigrationIInv'
<1>0. /\ Shaped /\ Beginning /\ Scanned /\ Held /\ Retiring /\ Undisturbed /\ Caused
      /\ KeptReferenceWasTaken
  BY DEF MigrationIInv
<1>1. /\ work.at = "references" /\ reference[q] \in {"mailbox", "paired"}
      /\ reference' \in [Requests -> {"none", "mailbox", "paired", "kept", "current"}]
      /\ \A r \in Requests \ {q} : reference'[r] = reference[r]
      /\ reference'[q] \in {"none", "kept", "current"}
      /\ reference'[q] = "kept" => entries[q] # "absent"
      /\ UNCHANGED <<mailbox, retired, drifts, marker, stage, entries, source, expired,
                     work, refused>>
  BY <1>0, Parts DEF ClearReference, Migrated, legacyVars, storeVars, Shaped,
     MigrationTypeOK
<1>2. (Whole' <=> Whole) /\ (Finished' <=> Finished) /\ (LostAtWork' <=> LostAtWork)
  BY <1>1, SameStore
<1>11. Shaped'
  BY <1>0, <1>1, Parts DEF Shaped, MigrationTypeOK
<1>12. Beginning'
  BY <1>0, <1>1, <1>2 DEF Beginning, Building
<1>13. Scanned'
  BY <1>0, <1>1, <1>2 DEF Scanned, Building
<1>14. Held'
  BY <1>0, <1>1, <1>2 DEF Held, PublishedIsWhole
<1>15. Retiring'
  BY <1>0, <1>1, <1>2 DEF Retiring
<1>16. Undisturbed'
  BY <1>0, <1>1, <1>2 DEF Undisturbed
<1>17. Caused'
  BY <1>0, <1>1, <1>2 DEF Caused
<1>18. KeptReferenceWasTaken'
  BY <1>0, <1>1 DEF KeptReferenceWasTaken, Held
<1> QED BY <1>11, <1>12, <1>13, <1>14, <1>15, <1>16, <1>17, <1>18 DEF MigrationIInv

(* The last reference is done.                                             *)
LEMMA ReferencesClearedKeeps ==
    ASSUME MigrationIInv, ReferencesCleared PROVE MigrationIInv'
<1>0. /\ Shaped /\ Beginning /\ Scanned /\ Held /\ Retiring /\ Undisturbed /\ Caused
      /\ KeptReferenceWasTaken
  BY DEF MigrationIInv
<1>1. /\ work.at = "references" /\ work' \in Work /\ work'.at = "idle"
      /\ UNCHANGED <<mailbox, retired, drifts, marker, stage, entries, source, reference,
                     expired, refused>>
  BY <1>0, Parts, Going DEF ReferencesCleared, legacyVars, storeVars, Places
<1>2. (Whole' <=> Whole) /\ (Finished' <=> Finished) /\ (LostAtWork' <=> LostAtWork)
  BY <1>1, SameStore
<1>11. Shaped'
  BY <1>0, <1>1, Parts, TreeFacts DEF Shaped, MigrationTypeOK
<1>12. Beginning'
  BY <1>0, <1>1 DEF Beginning, Building
<1>13. Scanned'
  BY <1>0, <1>1, <1>2 DEF Scanned, Building
<1>14. Held'
  BY <1>0, <1>1, <1>2 DEF Held, PublishedIsWhole
<1>15. Retiring'
  BY <1>0, <1>1, <1>2 DEF Retiring
<1>16. Undisturbed'
  BY <1>0, <1>1, <1>2 DEF Undisturbed
<1>17. Caused'
  BY <1>0, <1>1, <1>2 DEF Caused
<1>18. KeptReferenceWasTaken'
  BY <1>0, <1>1, <1>2 DEF KeptReferenceWasTaken
<1> QED BY <1>11, <1>12, <1>13, <1>14, <1>15, <1>16, <1>17, <1>18 DEF MigrationIInv

(* A death leaves what was written.                                        *)
LEMMA WorkCrashesKeeps ==
    ASSUME MigrationIInv, WorkCrashes PROVE MigrationIInv'
<1>0. /\ Shaped /\ Beginning /\ Scanned /\ Held /\ Retiring /\ Undisturbed /\ Caused
      /\ KeptReferenceWasTaken
  BY DEF MigrationIInv
<1>1. /\ work' \in Work /\ work'.at = "idle"
      /\ UNCHANGED <<mailbox, retired, drifts, marker, stage, entries, source, reference,
                     expired, refused>>
  BY <1>0, Resting DEF WorkCrashes, legacyVars, storeVars
<1>2. (Whole' <=> Whole) /\ (Finished' <=> Finished) /\ (LostAtWork' <=> LostAtWork)
  BY <1>1, SameStore
<1>11. Shaped'
  BY <1>0, <1>1, Parts, TreeFacts DEF Shaped, MigrationTypeOK
<1>12. Beginning'
  BY <1>0, <1>1 DEF Beginning, Building
<1>13. Scanned'
  BY <1>0, <1>1, <1>2 DEF Scanned, Building
<1>14. Held'
  BY <1>0, <1>1, <1>2 DEF Held, PublishedIsWhole
<1>15. Retiring'
  BY <1>0, <1>1, <1>2 DEF Retiring
<1>16. Undisturbed'
  BY <1>0, <1>1, <1>2 DEF Undisturbed
<1>17. Caused'
  BY <1>0, <1>1, <1>2 DEF Caused
<1>18. KeptReferenceWasTaken'
  BY <1>0, <1>1, <1>2 DEF KeptReferenceWasTaken
<1> QED BY <1>11, <1>12, <1>13, <1>14, <1>15, <1>16, <1>17, <1>18 DEF MigrationIInv

(* An earlier version writes its mailbox at any time.                      *)
LEMMA EarlierVersionWritesKeeps ==
    ASSUME MigrationIInv, NEW q \in Requests, EarlierVersionWrites(q) PROVE MigrationIInv'
<1>0. /\ Shaped /\ Beginning /\ Scanned /\ Held /\ Retiring /\ Undisturbed /\ Caused
      /\ KeptReferenceWasTaken
  BY DEF MigrationIInv
<1>1. /\ drifts' = drifts + 1 /\ drifts' \in 1..MaxDrifts
      /\ mailbox' \in Directories /\ mailbox'.tree \in Trees
      /\ mailbox # NoDirectory => mailbox'.inode = mailbox.inode
      /\ UNCHANGED <<retired, marker, stage, entries, source, reference, expired, work,
                     refused>>
  BY <1>0, Parts, TreeFacts DEF EarlierVersionWrites, storeVars, Directories, Shaped,
     Trees
<1>2. (Whole' <=> Whole) /\ (Finished' <=> Finished) /\ (LostAtWork' <=> LostAtWork)
  BY <1>1, SameStore
<1>3. drifts \in Nat /\ drifts' > 0 /\ drifts' # 0 /\ (drifts' < 2 => drifts < 2 /\ drifts = 0)
  BY <1>0, <1>1 DEF Shaped
<1>4. work.at # "stage" \/ drifts # 0 \/ work.manifest = NoTree \/ work.scan = work.manifest
  BY <1>0 DEF Scanned, Building
<1>5. mailbox'.tree # NoTree /\ mailbox' # NoDirectory
  BY <1>1, TreeFacts
<1>11. Shaped'
  BY <1>0, <1>1, Parts, TreeFacts DEF Shaped, MigrationTypeOK
<1>12. Beginning'
  BY <1>0, <1>1, <1>2 DEF Beginning, Building
<1>13. Scanned'
  BY <1>0, <1>1, <1>3, <1>4, <1>5 DEF Scanned, Building
<1>14. Held'
  <2>1. PublishedIsWhole'
    BY <1>0, <1>1, <1>3 DEF Held, PublishedIsWhole
  <2> QED BY <1>0, <1>1, <1>2, <2>1 DEF Held
<1>15. Retiring'
  BY <1>0, <1>1, <1>2, <1>5 DEF Retiring
<1>16. Undisturbed'
  BY <1>3 DEF Undisturbed
<1>17. Caused'
  BY <1>3 DEF Caused
<1>18. KeptReferenceWasTaken'
  BY <1>0, <1>1, <1>2 DEF KeptReferenceWasTaken
<1> QED BY <1>11, <1>12, <1>13, <1>14, <1>15, <1>16, <1>17, <1>18 DEF MigrationIInv

(* At the beginning nothing has been taken, and nothing is at work.        *)
LEMMA MigrationInitIInv == MigrationInit => MigrationIInv
<1> SUFFICES ASSUME MigrationInit PROVE MigrationIInv
  OBVIOUS
<1>1. PICK tree \in [Requests -> Found] \cup {NoTree} :
         mailbox = [inode |-> IF tree = NoTree THEN 0 ELSE 1, tree |-> tree]
  BY DEF MigrationInit
<1>2. /\ retired = NoDirectory /\ stage = NoTree /\ marker = Unpublished
      /\ entries = EmptyTree /\ source = EmptyTree
      /\ reference \in [Requests -> {"none", "mailbox", "paired"}]
      /\ expired = {} /\ work = Idle /\ drifts = 0 /\ refused = FALSE
  BY DEF MigrationInit
<1>3. tree \in Trees \cup {NoTree}
  BY DEF Trees
<1>4. mailbox \in Directories /\ (mailbox.tree = NoTree => mailbox = NoDirectory)
  BY <1>1, <1>3 DEF Directories, NoDirectory
<1>5. EmptyTree \in [Requests -> States]
  BY DEF EmptyTree, States
<1>6. Shaped
  <2>1. marker \in Marks /\ work \in Work
    BY <1>2, Resting, UnpublishedIs
  <2>2. drifts \in 0..MaxDrifts /\ refused \in BOOLEAN /\ expired \subseteq Requests
    <3>1. refused \in BOOLEAN
      BY <1>2, Zenon
    <3>2. 0 \in 0..MaxDrifts
      OBVIOUS
    <3> QED BY <1>2, <3>1, <3>2
  <2>3. entries \in [Requests -> States] /\ source \in Trees
    BY <1>2, <1>5, TreeFacts
  <2>4. reference \in [Requests -> {"none", "mailbox", "paired", "kept", "current"}]
    BY <1>2
  <2>5. MigrationTypeOK
    BY <1>2, <1>4, <2>1, <2>2, <2>3, <2>4, TreeFacts DEF MigrationTypeOK, Marks
  <2> QED BY <1>4, <2>1, <2>2, <2>5 DEF Shaped
<1>7. Beginning /\ Scanned /\ Retiring /\ Undisturbed /\ Caused
  BY <1>2, Resting, UnpublishedIs DEF Beginning, Scanned, Building, Retiring,
     Undisturbed, Caused
<1>8. Held /\ KeptReferenceWasTaken
  BY <1>2, TreeFacts, UnpublishedIs DEF Held, PublishedIsWhole, KeptReferenceWasTaken
<1> QED BY <1>6, <1>7, <1>8 DEF MigrationIInv

(* Every step preserves the invariant.                                     *)
LEMMA MigrationNextIInv == MigrationIInv /\ [MigrationNext]_migrationVars => MigrationIInv'
<1> SUFFICES ASSUME MigrationIInv, [MigrationNext]_migrationVars PROVE MigrationIInv'
  OBVIOUS
<1>1. CASE \/ Survey \/ ScanLegacyStore \/ PublishStore
           \/ PruneRemoves \/ CheckCleanup \/ AuthorizeCleanup \/ ResumeRetirement
           \/ RenameRoot \/ ConfirmRetired \/ DeleteRetired \/ FinishRetirement
           \/ ReferencesCleared \/ WorkCrashes
  BY <1>1, SurveyKeeps, ScanLegacyStoreKeeps, PublishStoreKeeps, PruneRemovesKeeps,
     CheckCleanupKeeps, AuthorizeCleanupKeeps, ResumeRetirementKeeps, RenameRootKeeps,
     ConfirmRetiredKeeps, DeleteRetiredKeeps, FinishRetirementKeeps, ReferencesClearedKeeps,
     WorkCrashesKeeps
<1>2. ASSUME NEW r \in Requests,
             \/ StageFiles(r) \/ OpenRequest(r) \/ RequestMoves(r) \/ Expire(r)
             \/ PruneRecorded(r) \/ DeleteEntry(r) \/ ClearReference(r)
             \/ EarlierVersionWrites(r)
      PROVE  MigrationIInv'
  BY <1>2, StageFilesKeeps, OpenRequestKeeps, RequestMovesKeeps, ExpireKeeps,
     PruneRecordedKeeps, DeleteEntryKeeps, ClearReferenceKeeps, EarlierVersionWritesKeeps
<1>3. CASE UNCHANGED migrationVars
  BY <1>3 DEF migrationVars, MigrationIInv, Shaped, MigrationTypeOK, Beginning, Scanned,
     Held,
     Retiring, Undisturbed, Caused, KeptReferenceWasTaken, PublishedIsWhole, Finished, LostAtWork,
     StoreRetains, IsLive, Whole, Faithful
<1> QED BY <1>1, <1>2, <1>3 DEF MigrationNext

(* Whatever dies, is repeated or is written by an earlier version          *)
(* meanwhile: what is published stays whole, what is being deleted is      *)
(* finished, a clearing is refused only for cause, and a reference is kept *)
(* only to what was taken (MigrationInv).                                  *)
THEOREM MigrationTheorem == MigrationSpec => []MigrationInv
<1>1. MigrationIInv => MigrationInv
  <2> SUFFICES ASSUME MigrationIInv PROVE MigrationInv
    OBVIOUS
  <2>1. Shaped /\ Held /\ Caused /\ KeptReferenceWasTaken
    BY DEF MigrationIInv
  <2>2. RetiredIsFinished
    BY <2>1 DEF Held, Finished, RetiredIsFinished
  <2>3. RefusedForCause
    BY <2>1, Parts DEF Caused, RefusedForCause, LostAtWork
  <2> QED BY <2>1, <2>2, <2>3 DEF MigrationInv, Shaped, Held
<1> QED BY <1>1, MigrationInitIInv, MigrationNextIInv, PTL DEF MigrationSpec

(* What is deleted of the mailbox for good is in the store                 *)
(* (DeletedIsTaken): it was compared under a name that no earlier version  *)
(* writes to.                                                              *)
THEOREM DeletionTheorem == MigrationSpec => DeletedIsTaken
<1> DEFINE Given == \A r \in Taken(retired.tree) :
                      retired'.tree[r] # retired.tree[r] =>
                         /\ r \in marker.files /\ source[r] = retired.tree[r]
                         /\ entries[r] \in Became[source[r]]
<1>1. MigrationIInv /\ [MigrationNext]_migrationVars => [Given]_migrationVars
  <2> SUFFICES ASSUME MigrationIInv, MigrationNext, NEW r \in Taken(retired.tree),
                      retired'.tree[r] # retired.tree[r]
               PROVE  /\ r \in marker.files /\ source[r] = retired.tree[r]
                      /\ entries[r] \in Became[source[r]]
    OBVIOUS
  <2>0. Retiring /\ Held /\ Shaped
    BY DEF MigrationIInv
  <2>1. retired' # retired
    OBVIOUS
  <2>2. RenameRoot \/ DeleteRetired \/ \E q \in Requests : DeleteEntry(q)
    BY <2>1 DEF MigrationNext, Survey, ScanLegacyStore, PublishStore, PruneRemoves,
       CheckCleanup,
       AuthorizeCleanup, ResumeRetirement, ConfirmRetired, FinishRetirement, ReferencesCleared,
       WorkCrashes, StageFiles, OpenRequest, RequestMoves, Expire, PruneRecorded,
       ClearReference, EarlierVersionWrites, legacyVars
  <2>3. retired # NoDirectory
    BY TreeFacts
  <2>4. work.at = "delete"
    BY <2>0, <2>2, <2>3 DEF RenameRoot, DeleteRetired, DeleteEntry, Retiring
  <2>5. /\ marker.phase = "deleting" /\ r \in Requests
        /\ retired.tree[r] \in {marker.manifest[r], "absent"}
        /\ retired.tree[r] # "absent"
    BY <2>0, <2>3, <2>4, BecameFacts DEF Retiring, Taken
  <2>6. r \in Taken(marker.manifest) /\ Whole /\ marker.published
    BY <2>0, <2>5, UnpublishedIs DEF Held, Taken, MigrationIInv, Beginning
  <2> QED BY <2>0, <2>5, <2>6 DEF Held, PublishedIsWhole, Whole, Faithful
<1> QED BY <1>1, MigrationInitIInv, MigrationNextIInv, PTL DEF MigrationSpec,
           DeletedIsTaken

=============================================================================
