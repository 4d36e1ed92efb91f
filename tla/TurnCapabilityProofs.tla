------------------------ MODULE TurnCapabilityProofs ------------------------
(***************************************************************************)
(* The safety invariants of the turn capability broker, and what no step   *)
(* of it may do, for every value of the constants.  Each handler composes  *)
(* a few operators on the broker, so the argument is about those: each     *)
(* lemma shows that one of them maps a good broker to a good broker, or    *)
(* that it seals: lets no work into a turn that it did not have.           *)
(***************************************************************************)
EXTENDS TurnCapability, TLAPS

(* The inductive invariant of a broker value *)
Good(b) ==
    /\ b \in Broker
    /\ LeasesWithin(b)
    /\ FencesCurrent(b)
    /\ OneHolder(b)
    /\ EpochsCarried(b)

(* Secrets not drawn yet name nothing *)
Unused(b, tok, f) ==
    /\ \A t \in Tokens : t >= tok => b.records[t] = Absent
    /\ \A g \in Fences : g >= f => b.fenceOwner[g] = NoToken

(* No live capability reaches further than one lifetime from n *)
Lifetimes(b, n) ==
    \A t \in Tokens : Live(b, t) => b.records[t].expiresAt <= n + b.records[t].ttl

(* What every helper leaves of the records: the live ones are unchanged, no *)
(* record appears, no fence is added.                                      *)
Shrinks(b, c) ==
    /\ \A t \in Tokens : Live(c, t) => c.records[t] = b.records[t]
    /\ \A t \in Tokens : b.records[t] = Absent => c.records[t] = Absent
    /\ \A f \in Fences : c.fenceOwner[f] \in {NoToken, b.fenceOwner[f]}
    /\ c.epochs = b.epochs

(* A turn that is not a tombstone has a record, whose state is live. *)
LEMMA LiveRecord ==
    ASSUME NEW b \in Broker, NEW t \in Tokens, Live(b, t)
    PROVE  b.records[t] \in Record
BY DEF Broker, Live, Absent, LiveStates

(***************************************************************************)
(* terminate keeps a good broker good: it may only end live capabilities,  *)
(* and the consumed fences leave the completionFences map with them.       *)
(***************************************************************************)
LEMMA TerminateGood ==
    ASSUME NEW b, Good(b), NEW T \in SUBSET Tokens, \A t \in T : Live(b, t),
           NEW state \in TombstoneStates, NEW at \in Nat
    PROVE  /\ Good(Terminate(b, T, state, at))
           /\ Shrinks(b, Terminate(b, T, state, at))
           /\ \A t \in T : ~Live(Terminate(b, T, state, at), t)
<1> DEFINE c == Terminate(b, T, state, at)
<1>1. c \in Broker
  <2>1. ASSUME NEW t \in T
        PROVE  [b.records[t] EXCEPT !.state = state, !.terminalAt = at,
                                    !.fence = NoFence] \in Record
    <3>1. b.records[t] \in Record
      BY DEF Good, Broker, Live, Absent, LiveStates
    <3> QED
      BY <3>1 DEF Record
  <2>2. c.records \in [Tokens -> Record \cup {Absent}]
    BY <2>1 DEF Good, Broker, Terminate
  <2>3. c.fenceOwner \in [Fences -> Tokens \cup {NoToken}]
    BY DEF Good, Broker, Terminate
  <2> QED
    BY <2>2, <2>3 DEF Good, Broker, Terminate
<1>2. \A t \in Tokens : HeldBy(c, t) = HeldBy(b, t)
  BY DEF HeldBy, Terminate, Good, Broker
<1>3. \A t \in Tokens :
        c.records[t] = IF t \in T
                       THEN [b.records[t] EXCEPT !.state = state,
                               !.terminalAt = at, !.fence = NoFence]
                       ELSE b.records[t]
  BY DEF Terminate, Good, Broker
<1>4. \A t \in T : b.records[t] \in Record
  BY DEF Good, Broker, Live, Absent, LiveStates
<1>5. \A t \in Tokens :
        /\ Session(c, t) = Session(b, t)
        /\ c.records[t].expiresAt = b.records[t].expiresAt
        /\ Live(c, t) <=> Live(b, t) /\ t \notin T
  BY <1>3, <1>4 DEF Session, Live, Record, LiveStates, TombstoneStates
<1>6. c.leases = b.leases /\ c.epochs = b.epochs
  BY DEF Terminate, Good, Broker
<1>7. LeasesWithin(c)
  <2> SUFFICES ASSUME NEW t \in Tokens, NEW l \in HeldBy(c, t)
               PROVE  /\ c.records[t] # Absent
                      /\ c.leases[l].deadline <= c.records[t].expiresAt
    BY DEF LeasesWithin
  <2>1. /\ b.records[t] # Absent
        /\ b.leases[l].deadline <= b.records[t].expiresAt
    BY <1>2 DEF Good, LeasesWithin
  <2>2. CASE t \in T
    <3>1. c.records[t].state = state
      BY <2>2, <1>3, <1>4 DEF Record
    <3> QED
      BY <3>1, <2>1, <1>5, <1>6 DEF Absent, TombstoneStates
  <2>3. CASE t \notin T
    BY <2>3, <2>1, <1>3, <1>6
  <2> QED
    BY <2>2, <2>3
<1>8. FencesCurrent(c)
  <2> SUFFICES ASSUME NEW f \in Fences, NEW t \in Tokens
               PROVE  c.fenceOwner[f] = t <=>
                        c.records[t].state = "completing" /\ c.records[t].fence = f
    BY DEF FencesCurrent
  <2>1. c.fenceOwner[f] = IF b.fenceOwner[f] \in T THEN NoToken ELSE b.fenceOwner[f]
    BY DEF Terminate, Good, Broker
  <2>2. b.fenceOwner[f] = t <=>
          b.records[t].state = "completing" /\ b.records[t].fence = f
    BY DEF Good, FencesCurrent
  <2>3. CASE t \in T
    <3>1. c.records[t].state = state
      BY <2>3, <1>3, <1>4 DEF Record
    <3> QED
      BY <2>1, <2>3, <3>1 DEF Tokens, NoToken, TombstoneStates
  <2>4. CASE t \notin T
    <3>1. c.records[t] = b.records[t]
      BY <2>4, <1>3
    <3>2. c.fenceOwner[f] = t <=> b.fenceOwner[f] = t
      BY <2>1, <2>4 DEF Tokens, NoToken
    <3> QED
      BY <3>1, <3>2, <2>2
  <2> QED
    BY <2>3, <2>4
<1>9. OneHolder(c)
  BY <1>2, <1>5 DEF Good, OneHolder, Occupies
<1>10. EpochsCarried(c)
  BY <1>3, <1>5, <1>6 DEF Good, EpochsCarried
<1>11. Shrinks(b, c)
  <2>1. ASSUME NEW t \in Tokens, b.records[t] = Absent
        PROVE  c.records[t] = Absent
    <3>1. ~Live(b, t)
      BY <2>1 DEF Absent, Live, LiveStates
    <3>2. t \notin T
      BY <3>1
    <3> QED
      BY <3>2, <2>1, <1>3
  <2>2. \A f \in Fences : c.fenceOwner[f] \in {NoToken, b.fenceOwner[f]}
    BY DEF Terminate, Good, Broker
  <2> QED
    BY <2>1, <2>2, <1>3, <1>5, <1>6 DEF Shrinks
<1> QED
  BY <1>1, <1>7, <1>8, <1>9, <1>10, <1>11, <1>5 DEF Good

(***************************************************************************)
(* Dropping leases keeps a good broker good.                               *)
(***************************************************************************)
LEMMA FewerLeasesGood ==
    ASSUME NEW b, Good(b), NEW c \in Broker,
           c.records = b.records, c.fenceOwner = b.fenceOwner,
           c.epochs = b.epochs,
           \A l \in Leases : c.leases[l] = b.leases[l] \/ c.leases[l] = NoLease
    PROVE  Good(c) /\ Shrinks(b, c)
<1>1. \A t \in Tokens : HeldBy(c, t) \subseteq HeldBy(b, t)
  BY DEF HeldBy, NoLease, NoToken, Tokens
<1>2. LeasesWithin(c)
  <2> SUFFICES ASSUME NEW t \in Tokens, NEW l \in HeldBy(c, t)
               PROVE  /\ c.records[t] # Absent
                      /\ c.leases[l].deadline <= c.records[t].expiresAt
    BY DEF LeasesWithin
  <2>1. c.leases[l] = b.leases[l]
    BY DEF HeldBy, NoLease, NoToken, Tokens
  <2> QED
    BY <2>1, <1>1 DEF Good, LeasesWithin
<1>3. FencesCurrent(c)
  BY DEF Good, FencesCurrent
<1>4. OneHolder(c)
  <2>1. \A t \in Tokens : Occupies(c, t) => Occupies(b, t)
    BY <1>1 DEF Occupies, Live
  <2> QED
    BY <2>1 DEF Good, OneHolder, Session
<1>5. EpochsCarried(c)
  BY DEF Good, EpochsCarried, Live, Session
<1>6. Shrinks(b, c)
  BY DEF Shrinks
<1> QED
  BY <1>2, <1>3, <1>4, <1>5, <1>6 DEF Good

(* clearExpiredLeases only drops leases.                                   *)
LEMMA ClearExpiredLeasesGood ==
    ASSUME NEW b, Good(b), NEW T, NEW at \in Nat
    PROVE  /\ Good(ClearExpiredLeases(b, T, at))
           /\ Shrinks(b, ClearExpiredLeases(b, T, at))
           /\ ClearExpiredLeases(b, T, at).records = b.records
           /\ ClearExpiredLeases(b, T, at).fenceOwner = b.fenceOwner
<1> DEFINE c == ClearExpiredLeases(b, T, at)
<1>1. c \in Broker
  BY DEF Good, Broker, ClearExpiredLeases, LeaseEntry, NoLease, NoToken
<1>2. \A l \in Leases : c.leases[l] = b.leases[l] \/ c.leases[l] = NoLease
  BY DEF ClearExpiredLeases, Good, Broker
<1>3. /\ c.records = b.records
      /\ c.fenceOwner = b.fenceOwner
      /\ c.epochs = b.epochs
  BY DEF ClearExpiredLeases, Good, Broker
<1> HIDE DEF c
<1>4. Good(c) /\ Shrinks(b, c)
  BY <1>1, <1>2, <1>3, FewerLeasesGood
<1> QED
  BY <1>3, <1>4 DEF c

(***************************************************************************)
(* Forgetting drained tombstones loses no lease and no fence.              *)
(***************************************************************************)
LEMMA ForgetGood ==
    ASSUME NEW b, Good(b), NEW E \in SUBSET Drained(b)
    PROVE  Good(Forget(b, E)) /\ Shrinks(b, Forget(b, E))
<1> DEFINE c == Forget(b, E)
<1>1. c \in Broker
  BY DEF Good, Broker, Forget
<1>2. \A t \in Tokens : c.records[t] = IF t \in E THEN Absent ELSE b.records[t]
  BY DEF Forget, Good, Broker
<1>3. /\ c.leases = b.leases
      /\ c.fenceOwner = b.fenceOwner
      /\ c.epochs = b.epochs
  BY DEF Forget, Good, Broker
<1>4. \A t \in Tokens : HeldBy(c, t) = HeldBy(b, t)
  BY <1>3 DEF HeldBy
<1>5. \A t \in E : Tombstone(b, t) /\ HeldBy(b, t) = {} /\ t \in Tokens
  BY DEF Drained
<1>6. \A t \in E : ~Live(c, t)
  BY <1>2, <1>5 DEF Live, Absent, LiveStates
<1>7. LeasesWithin(c)
  BY <1>2, <1>3, <1>4, <1>5 DEF Good, LeasesWithin
<1>8. FencesCurrent(c)
  <2> SUFFICES ASSUME NEW f \in Fences, NEW t \in Tokens
               PROVE  c.fenceOwner[f] = t <=>
                        c.records[t].state = "completing" /\ c.records[t].fence = f
    BY DEF FencesCurrent
  <2>1. b.fenceOwner[f] = t <=>
          b.records[t].state = "completing" /\ b.records[t].fence = f
    BY DEF Good, FencesCurrent
  <2>2. CASE t \in E
    BY <2>1, <2>2, <1>2, <1>3, <1>5 DEF Tombstone, TombstoneStates, Absent
  <2> QED
    BY <2>1, <2>2, <1>2, <1>3
<1>9. OneHolder(c)
  <2>1. \A t \in Tokens : Occupies(c, t) => Occupies(b, t) /\ t \notin E
    BY <1>2, <1>4, <1>5, <1>6 DEF Occupies, Live
  <2> QED
    BY <2>1, <1>2 DEF Good, OneHolder, Session
<1>10. EpochsCarried(c)
  BY <1>2, <1>3, <1>6 DEF Good, EpochsCarried, Live, Session
<1>11. Shrinks(b, c)
  BY <1>2, <1>3, <1>6 DEF Shrinks
<1> QED
  BY <1>1, <1>7, <1>8, <1>9, <1>10, <1>11 DEF Good

(* Evicting drained tombstones beyond the limit keeps the broker good. *)
LEMMA TrimTombstonesGood ==
    ASSUME NEW b, Good(b)
    PROVE  Good(TrimTombstones(b)) /\ Shrinks(b, TrimTombstones(b))
BY ForgetGood DEF TrimTombstones, Evicted

(* Shrinking composes. *)
LEMMA ShrinksTransitive ==
    ASSUME NEW b, NEW c, NEW d, Shrinks(b, c), Shrinks(c, d)
    PROVE  Shrinks(b, d)
BY DEF Shrinks, Live

(***************************************************************************)
(* The prune with which every handler begins.                              *)
(***************************************************************************)
LEMMA PruneGood ==
    ASSUME NEW b, Good(b), NEW at \in Nat
    PROVE  Good(Prune(b, at)) /\ Shrinks(b, Prune(b, at))
<1> DEFINE c == Terminate(b, Overdue(b, at), "expired", at)
           d == ClearExpiredLeases(c, Tokens, at)
<1>1. Good(c) /\ Shrinks(b, c)
  <2>1. Overdue(b, at) \in SUBSET Tokens /\ \A t \in Overdue(b, at) : Live(b, t)
    BY DEF Overdue
  <2> QED
    BY <2>1, TerminateGood DEF TombstoneStates
<1>2. Good(d) /\ Shrinks(c, d)
  BY <1>1, ClearExpiredLeasesGood
<1>3. Good(TrimTombstones(d)) /\ Shrinks(d, TrimTombstones(d))
  BY <1>2, TrimTombstonesGood
<1>4. Prune(b, at) = TrimTombstones(d)
  BY DEF Prune
<1> HIDE DEF c, d
<1> QED
  BY <1>1, <1>2, <1>3, <1>4, ShrinksTransitive

(***************************************************************************)
(* The inductive invariant of the specification.                           *)
(***************************************************************************)
IInv ==
    /\ Good(broker)
    /\ Unused(broker, nextToken, nextFence)
    /\ Lifetimes(broker, now)
    /\ now \in Nat
    /\ nextToken \in 1..(MaxTokens + 1)
    /\ nextLease \in 1..(MaxLeases + 1)
    /\ nextFence \in 1..(MaxFences + 1)

(* The broker of a gateway that just started is good. *)
LEMMA EmptyGood ==
    /\ Good(EmptyBroker)
    /\ \A tok, f : Unused(EmptyBroker, tok, f)
    /\ \A n : Lifetimes(EmptyBroker, n)
<1>1. \A t \in Tokens : ~Live(EmptyBroker, t) /\ HeldBy(EmptyBroker, t) = {}
  BY DEF EmptyBroker, Live, LiveStates, Absent, HeldBy, NoLease, NoToken, Tokens
<1>2. EmptyBroker \in Broker
  BY DEF EmptyBroker, Broker, NoLease, LeaseEntry
<1>3. LeasesWithin(EmptyBroker) /\ OneHolder(EmptyBroker) /\ EpochsCarried(EmptyBroker)
  BY <1>1 DEF LeasesWithin, OneHolder, Occupies, EpochsCarried
<1>4. FencesCurrent(EmptyBroker)
  BY DEF FencesCurrent, EmptyBroker, Absent, NoToken, Tokens
<1>5. \A tok, f : Unused(EmptyBroker, tok, f)
  BY DEF Unused, EmptyBroker
<1>6. \A n : Lifetimes(EmptyBroker, n)
  BY <1>1 DEF Lifetimes
<1> QED
  BY <1>2, <1>3, <1>4, <1>5, <1>6 DEF Good

(* What shrinks keeps its unused secrets and its lifetimes.                *)
LEMMA ShrinksKeeps ==
    ASSUME NEW b, NEW c, Shrinks(b, c), NEW tok, NEW f, NEW n \in Nat,
           NEW m \in Nat, n <= m, b \in Broker,
           Unused(b, tok, f), Lifetimes(b, n)
    PROVE  Unused(c, tok, f) /\ Lifetimes(c, m)
<1>1. Unused(c, tok, f)
  BY DEF Unused, Shrinks
<1>2. Lifetimes(c, m)
  <2> SUFFICES ASSUME NEW t \in Tokens, Live(c, t)
               PROVE  c.records[t].expiresAt <= m + c.records[t].ttl
    BY DEF Lifetimes
  <2>1. c.records[t] = b.records[t] /\ Live(b, t)
    BY DEF Shrinks, Live
  <2>2. b.records[t].expiresAt <= n + b.records[t].ttl
    BY <2>1 DEF Lifetimes
  <2>3. b.records[t].expiresAt \in Nat /\ b.records[t].ttl \in Nat
    BY <2>1, LiveRecord, BrokerAssumption DEF Record
  <2> QED
    BY <2>1, <2>2, <2>3
<1> QED
  BY <1>1, <1>2

(* The prune at the head of every handler keeps the broker good. *)
LEMMA PrunedGood ==
    ASSUME IInv
    PROVE  /\ Good(Pruned) /\ Shrinks(broker, Pruned)
           /\ Unused(Pruned, nextToken, nextFence)
           /\ Lifetimes(Pruned, now)
<1>1. Good(Pruned) /\ Shrinks(broker, Pruned)
  BY PruneGood DEF IInv, Pruned
<1>2. Unused(Pruned, nextToken, nextFence) /\ Lifetimes(Pruned, now)
  BY <1>1, ShrinksKeeps DEF IInv, Good
<1> QED
  BY <1>1, <1>2

(* Revoking any set of live turns keeps the broker good. *)
LEMMA RevokeAllGood ==
    ASSUME NEW b, Good(b), NEW T \in SUBSET Tokens, \A t \in T : Live(b, t),
           NEW state \in TombstoneStates, NEW at \in Nat
    PROVE  /\ Good(TrimTombstones(Terminate(b, T, state, at)))
           /\ Shrinks(b, TrimTombstones(Terminate(b, T, state, at)))
           /\ \A t \in T : ~Live(TrimTombstones(Terminate(b, T, state, at)), t)
<1> DEFINE c == Terminate(b, T, state, at)
<1>1. Good(c) /\ Shrinks(b, c) /\ \A t \in T : ~Live(c, t)
  BY TerminateGood
<1>2. Good(TrimTombstones(c)) /\ Shrinks(c, TrimTombstones(c))
  BY <1>1, TrimTombstonesGood
<1> HIDE DEF c
<1>3. \A t \in T : ~Live(TrimTombstones(c), t)
  BY <1>1, <1>2 DEF Shrinks, Live
<1>4. Shrinks(b, TrimTombstones(c))
  BY <1>1, <1>2, ShrinksTransitive
<1> QED
  BY <1>2, <1>3, <1>4 DEF c

(* A turn that still drains after a revocation drained before, and in the   *)
(* same session.                                                           *)
LEMMA HeldAfterRevoke ==
    ASSUME NEW b, Good(b), NEW T \in SUBSET Tokens, \A t \in T : Live(b, t),
           NEW t \in Tokens, HeldBy(RevokeAll(b, T), t) # {}, now \in Nat
    PROVE  HeldBy(b, t) # {} /\ Session(b, t) = Session(RevokeAll(b, T), t)
<1> DEFINE c == Terminate(b, T, "revoked", now)
           d == RevokeAll(b, T)
<1>1. HeldBy(d, t) = HeldBy(b, t)
  BY DEF RevokeAll, TrimTombstones, Forget, Terminate, HeldBy, Good, Broker
<1>2. Good(c)
  BY TerminateGood DEF TombstoneStates
<1>3. HeldBy(c, t) = HeldBy(b, t)
  BY DEF Terminate, HeldBy, Good, Broker
<1>4. t \notin Evicted(c)
  BY <1>1, <1>3 DEF Evicted, Drained
<1>5. d.records[t] = c.records[t]
  BY <1>2, <1>4 DEF RevokeAll, TrimTombstones, Forget, Good, Broker
<1>6. c.records[t].binding = b.records[t].binding
  <2>1. c.records[t] = IF t \in T
                       THEN [b.records[t] EXCEPT !.state = "revoked",
                               !.terminalAt = now, !.fence = NoFence]
                       ELSE b.records[t]
    BY DEF Terminate, Good, Broker
  <2>2. CASE t \in T
    BY <2>1, <2>2, LiveRecord DEF Record, Good
  <2> QED
    BY <2>1, <2>2
<1> QED
  BY <1>1, <1>5, <1>6 DEF Session

(* A step that only shrinks the broker preserves the invariant.            *)
LEMMA ShrinkStep ==
    ASSUME IInv, Good(broker'), Shrinks(Pruned, broker'),
           now' \in Nat, now' >= now,
           nextToken' = nextToken, nextFence' = nextFence,
           nextLease' \in 1..(MaxLeases + 1)
    PROVE  IInv'
<1>1. /\ Good(Pruned)
      /\ Unused(Pruned, nextToken, nextFence)
      /\ Lifetimes(Pruned, now)
  BY PrunedGood
<1>2. Unused(broker', nextToken, nextFence) /\ Lifetimes(broker', now')
  BY <1>1, ShrinksKeeps DEF IInv, Good
<1> QED
  BY <1>2 DEF IInv

(***************************************************************************)
(* Issuing a turn for a session in which nothing is live and nothing       *)
(* drains.                                                                 *)
(***************************************************************************)
LEMMA IssueReplacingSessionInv ==
    ASSUME IInv, NEW s \in Sessions, NEW q \in Requests, NEW e \in Epochs,
           NEW ttl \in CapabilityTtls, IssueReplacingSession(s, q, e, ttl)
    PROVE  IInv'
<1> DEFINE b == Pruned
           T == LiveInSession(b, s)
           c == RevokeAll(b, T)
           bind == [session |-> s, request |-> q, epoch |-> e]
           new == [state |-> "issued", binding |-> bind, ttl |-> ttl,
                   expiresAt |-> now + ttl, terminalAt |-> 0, fence |-> NoFence]
           d == broker'
<1>1. /\ Good(b) /\ Unused(b, nextToken, nextFence) /\ Lifetimes(b, now)
  BY PrunedGood
<1>a. T \in SUBSET Tokens /\ (\A t \in T : Live(b, t)) /\ now \in Nat
  BY DEF LiveInSession, IInv
<1>2. Good(c) /\ Shrinks(b, c) /\ \A t \in T : ~Live(c, t)
  BY <1>1, <1>a, RevokeAllGood DEF RevokeAll, TombstoneStates
<1>3. Unused(c, nextToken, nextFence) /\ Lifetimes(c, now)
  BY <1>1, <1>2, ShrinksKeeps DEF IInv, Good
<1>4. /\ nextToken \in Tokens /\ nextToken' = nextToken + 1
      /\ now' = now /\ nextLease' = nextLease /\ nextFence' = nextFence
      /\ NoActiveSessionLeases(b, s)
      /\ d = [AddRecord(c, bind, ttl) EXCEPT !.epochs[s] = e]
  BY DEF IssueReplacingSession
<1> HIDE DEF b, c, T
<1>5. /\ d.records = [c.records EXCEPT ![nextToken] = new]
      /\ d.leases = c.leases /\ d.fenceOwner = c.fenceOwner
      /\ d.epochs = [c.epochs EXCEPT ![s] = e]
      /\ d = [c EXCEPT !.records = [c.records EXCEPT ![nextToken] = new],
                       !.epochs = [c.epochs EXCEPT ![s] = e]]
  BY <1>2, <1>4 DEF AddRecord, Good, Broker
<1>6. new \in Record /\ new.state = "issued"
  BY BrokerAssumption DEF Record, Binding, LiveStates, IInv
<1>7. d \in Broker
  BY <1>2, <1>4, <1>5, <1>6 DEF Good, Broker
<1>8. /\ d.records[nextToken] = new
      /\ \A t \in Tokens \ {nextToken} : d.records[t] = c.records[t]
      /\ c.records[nextToken] = Absent
      /\ \A t \in Tokens : HeldBy(d, t) = HeldBy(c, t)
  <2>1. c.records \in [Tokens -> Record \cup {Absent}]
    BY <1>2 DEF Good, Broker
  <2>2. /\ d.records[nextToken] = new
        /\ \A t \in Tokens \ {nextToken} : d.records[t] = c.records[t]
    BY <2>1, <1>4, <1>5
  <2>3. c.records[nextToken] = Absent
    BY <1>3, <1>4 DEF Unused, Tokens
  <2>4. \A t \in Tokens : HeldBy(d, t) = HeldBy(c, t)
    BY <1>5 DEF HeldBy
  <2> QED
    BY <2>2, <2>3, <2>4
<1>9. HeldBy(c, nextToken) = {}
  BY <1>2, <1>4, <1>8 DEF Good, LeasesWithin
<1>10. LeasesWithin(d)
  BY <1>2, <1>5, <1>8, <1>9 DEF Good, LeasesWithin
<1>11. FencesCurrent(d)
  <2> SUFFICES ASSUME NEW f \in Fences, NEW t \in Tokens
               PROVE  d.fenceOwner[f] = t <=>
                        d.records[t].state = "completing" /\ d.records[t].fence = f
    BY DEF FencesCurrent
  <2>1. c.fenceOwner[f] = t <=>
          c.records[t].state = "completing" /\ c.records[t].fence = f
    BY <1>2 DEF Good, FencesCurrent
  <2>2. CASE t = nextToken
    BY <2>1, <2>2, <1>5, <1>6, <1>8 DEF Absent
  <2> QED
    BY <2>1, <2>2, <1>5, <1>8
(* Nothing else of the session is live or holds a lease                    *)
<1>12. \A t \in Tokens \ {nextToken} : Occupies(c, t) => Session(c, t) # s
  <2> SUFFICES ASSUME NEW t \in Tokens \ {nextToken}, Occupies(c, t),
                      Session(c, t) = s
               PROVE  FALSE
    OBVIOUS
  <2>1. CASE Live(c, t)
    <3>1. c.records[t] = b.records[t]
      BY <2>1, <1>2 DEF Shrinks
    <3>2. t \in T
      BY <2>1, <3>1 DEF T, LiveInSession, Live, Session
    <3> QED
      BY <2>1, <3>2, <1>2
  <2>2. CASE HeldBy(c, t) # {}
    <3>1. HeldBy(b, t) # {} /\ Session(b, t) = Session(c, t)
      BY <2>2, <1>1, <1>2, <1>a, HeldAfterRevoke DEF c
    <3> QED
      BY <3>1, <1>4 DEF NoActiveSessionLeases
  <2> QED
    BY <2>1, <2>2 DEF Occupies
<1>13. OneHolder(d)
  <2>1. \A t \in Tokens \ {nextToken} :
          /\ Occupies(d, t) <=> Occupies(c, t)
          /\ Session(d, t) = Session(c, t)
    BY <1>8 DEF Occupies, Live, Session
  <2>2. Session(d, nextToken) = s
    BY <1>8 DEF Session
  <2> QED
    BY <2>1, <2>2, <1>12, <1>2 DEF Good, OneHolder
<1>14. EpochsCarried(d)
  <2> SUFFICES ASSUME NEW t \in Tokens, Live(d, t)
               PROVE  d.epochs[Session(d, t)] = d.records[t].binding.epoch
    BY DEF EpochsCarried
  <2>1. CASE t = nextToken
    BY <2>1, <1>2, <1>5, <1>8 DEF Session, Good, Broker
  <2>2. CASE t # nextToken
    <3>1. Live(c, t) /\ d.records[t] = c.records[t]
      BY <2>2, <1>8 DEF Live
    <3>2. Session(c, t) # s
      BY <3>1, <2>2, <1>12 DEF Occupies
    <3>3. Session(c, t) \in Sessions
      BY <3>1, <1>2, LiveRecord DEF Good, Session, Record, Binding
    <3> QED
      BY <3>1, <3>2, <3>3, <1>2, <1>5 DEF Good, EpochsCarried, Session, Broker
  <2> QED
    BY <2>1, <2>2
<1>15. Unused(d, nextToken', nextFence')
  BY <1>3, <1>4, <1>5, <1>8 DEF Unused, Tokens, IInv
<1>16. Lifetimes(d, now')
  <2> SUFFICES ASSUME NEW t \in Tokens, Live(d, t)
               PROVE  d.records[t].expiresAt <= now + d.records[t].ttl
    BY <1>4 DEF Lifetimes
  <2>1. CASE t = nextToken
    BY <2>1, <1>8, BrokerAssumption DEF IInv
  <2>2. CASE t # nextToken
    BY <2>2, <1>8, <1>3 DEF Lifetimes, Live
  <2> QED
    BY <2>1, <2>2
<1>17. Good(d)
  BY <1>7, <1>10, <1>11, <1>13, <1>14 DEF Good
<1>18. /\ nextToken' \in 1..(MaxTokens + 1)
       /\ nextLease' \in 1..(MaxLeases + 1)
       /\ nextFence' \in 1..(MaxFences + 1)
       /\ now' \in Nat
  BY <1>4, BrokerAssumption DEF IInv, Tokens
<1> QED
  BY <1>15, <1>16, <1>17, <1>18 DEF IInv

(***************************************************************************)
(* A handler that works on one live turn: it may rewrite the record of the *)
(* turn but for its binding, and grant, extend or drop leases of that turn *)
(* up to the deadline of the capability.                                   *)
(***************************************************************************)
SameTurn(b, d, t) ==
    /\ d \in Broker
    /\ \A u \in Tokens \ {t} : d.records[u] = b.records[u]
    /\ d.records[t] \in Record
    /\ d.records[t].binding = b.records[t].binding
    /\ d.records[t].expiresAt >= b.records[t].expiresAt
    /\ d.epochs = b.epochs
    /\ \A l \in Leases :
          \/ d.leases[l] \in {NoLease, b.leases[l]}
          \/ /\ d.leases[l].holder = t
             /\ d.leases[l].deadline <= d.records[t].expiresAt

(* Changing the leases, deadline or state of one live turn, within its
   lifetime and binding, keeps the broker good. *)
LEMMA SameTurnGood ==
    ASSUME NEW b, Good(b), NEW t \in Tokens, Live(b, t), NEW d,
           SameTurn(b, d, t), FencesCurrent(d)
    PROVE  Good(d)
<1> USE DEF SameTurn
<1>1. b.records[t] \in Record
  BY LiveRecord DEF Good
<1>2. \A u \in Tokens \ {t} : \A l \in HeldBy(d, u) :
         l \in HeldBy(b, u) /\ d.leases[l] = b.leases[l]
  BY DEF HeldBy, NoLease, NoToken, Tokens
<1>3. LeasesWithin(d)
  <2> SUFFICES ASSUME NEW u \in Tokens, NEW l \in HeldBy(d, u)
               PROVE  /\ d.records[u] # Absent
                      /\ d.leases[l].deadline <= d.records[u].expiresAt
    BY DEF LeasesWithin
  <2>1. CASE u # t
    BY <2>1, <1>2 DEF Good, LeasesWithin
  <2>2. CASE u = t
    <3>1. d.records[t] # Absent
      BY DEF Record, Absent, LiveStates, TombstoneStates
    <3>2. CASE d.leases[l] = b.leases[l]
      <4>1. l \in HeldBy(b, t)
        BY <2>2, <3>2 DEF HeldBy
      <4>2. b.leases[l].deadline <= b.records[t].expiresAt
        BY <4>1 DEF Good, LeasesWithin
      <4>3. /\ b.leases[l].deadline \in Nat
            /\ b.records[t].expiresAt \in Nat
            /\ d.records[t].expiresAt \in Nat
        BY <4>1, <1>1 DEF Good, Broker, LeaseEntry, HeldBy, Record
      <4> QED
        BY <2>2, <3>1, <3>2, <4>2, <4>3
    <3>3. CASE d.leases[l] # b.leases[l]
      BY <2>2, <3>1, <3>3 DEF HeldBy, NoLease, NoToken, Tokens
    <3> QED
      BY <3>2, <3>3
  <2> QED
    BY <2>1, <2>2
<1>4. OneHolder(d)
  <2>1. \A u \in Tokens : Occupies(d, u) => Occupies(b, u)
    BY <1>2 DEF Occupies, Live
  <2>2. \A u \in Tokens : Session(d, u) = Session(b, u)
    BY DEF Session
  <2> QED
    BY <2>1, <2>2 DEF Good, OneHolder
<1>5. EpochsCarried(d)
  BY DEF Good, EpochsCarried, Live, Session
<1> QED
  BY <1>3, <1>4, <1>5 DEF Good

(* A handler that changes only one live turn preserves the invariant. *)
LEMMA SameTurnStep ==
    ASSUME IInv, NEW t \in Tokens, Live(Pruned, t), Good(broker'),
           \A u \in Tokens \ {t} : broker'.records[u] = Pruned.records[u],
           Live(broker', t) =>
             broker'.records[t].expiresAt <= now' + broker'.records[t].ttl,
           \A f \in Fences : f >= nextFence' => broker'.fenceOwner[f] = NoToken,
           now' \in Nat, now' >= now, nextToken' = nextToken,
           nextLease' \in 1..(MaxLeases + 1), nextFence' \in 1..(MaxFences + 1)
    PROVE  IInv'
<1>1. /\ Good(Pruned)
      /\ Unused(Pruned, nextToken, nextFence)
      /\ Lifetimes(Pruned, now)
  BY PrunedGood
<1>2. Pruned.records[t] # Absent
  BY DEF Live, Absent, LiveStates
<1>3. Unused(broker', nextToken', nextFence')
  BY <1>1, <1>2 DEF Unused
<1>4. Lifetimes(broker', now')
  <2> SUFFICES ASSUME NEW u \in Tokens \ {t}, Live(broker', u)
               PROVE  broker'.records[u].expiresAt <= now' + broker'.records[u].ttl
    BY DEF Lifetimes
  <2>1. /\ broker'.records[u] = Pruned.records[u] /\ Live(Pruned, u)
        /\ Pruned.records[u].expiresAt <= now + Pruned.records[u].ttl
    BY <1>1 DEF Lifetimes, Live
  <2>2. Pruned.records[u].expiresAt \in Nat /\ Pruned.records[u].ttl \in Nat
    BY <2>1, <1>1, LiveRecord, BrokerAssumption DEF Good, Record
  <2>3. now \in Nat
    BY DEF IInv
  <2> QED
    BY <2>1, <2>2, <2>3
<1> QED
  BY <1>3, <1>4 DEF IInv

(* A second reading of the clock within one handler is no earlier. *)
LEMMA LaterIsNat == ASSUME IInv, NEW late, Later(late)
                    PROVE  late \in Nat /\ late >= now
BY DEF Later, IInv

(***************************************************************************)
(* The handlers.                                                           *)
(***************************************************************************)
LEMMA KeepAliveRequestInv ==
    ASSUME IInv, NEW s \in Sessions, NEW q \in Requests, NEW t \in Tokens,
           NEW at \in Times, KeepAliveRequest(s, q, t, at)
    PROVE  IInv'
<1> DEFINE b == Pruned
           record == b.records[t]
           extended == Lesser(at, now) + record.ttl
           d == broker'
<1>1. Good(b) /\ Lifetimes(b, now) /\ Unused(b, nextToken, nextFence)
  BY PrunedGood
<1>2. /\ Live(b, t) /\ record.state # "completing"
      /\ d = [b EXCEPT !.records[t].expiresAt = Greater(@, extended)]
      /\ UNCHANGED <<now, nextToken, nextLease, nextFence>>
  BY DEF KeepAliveRequest
<1> HIDE DEF b
<1>3. record \in Record
  BY <1>1, <1>2, LiveRecord DEF Good
<1>4. now \in Nat /\ at \in Nat /\ record.ttl \in Nat /\ record.expiresAt \in Nat
  <2>1. now \in Nat
    BY DEF IInv
  <2>2. at \in Nat
    BY BrokerAssumption DEF Times
  <2>3. record.ttl \in Nat /\ record.expiresAt \in Nat
    BY <1>3, BrokerAssumption DEF Record
  <2> QED
    BY <2>1, <2>2, <2>3
<1>5. /\ extended \in Nat /\ extended <= now + record.ttl
      /\ Greater(record.expiresAt, extended) \in Nat
      /\ Greater(record.expiresAt, extended) >= record.expiresAt
  BY <1>4 DEF Lesser, Greater
<1>6. record.expiresAt <= now + record.ttl
  BY <1>1, <1>2 DEF Lifetimes
<1>7. /\ d.records = [b.records EXCEPT ![t] =
                        [record EXCEPT !.expiresAt = Greater(@, extended)]]
      /\ d.leases = b.leases /\ d.fenceOwner = b.fenceOwner /\ d.epochs = b.epochs
      /\ d \in Broker
  <2>1. [record EXCEPT !.expiresAt = Greater(@, extended)] \in Record
    BY <1>3, <1>5 DEF Record
  <2> QED
    BY <2>1, <1>1, <1>2 DEF Good, Broker
<1>8. /\ d.records[t] = [record EXCEPT !.expiresAt = Greater(@, extended)]
      /\ \A u \in Tokens \ {t} : d.records[u] = b.records[u]
  BY <1>1, <1>7 DEF Good, Broker
<1>9. /\ d.records[t] \in Record
      /\ d.records[t].binding = record.binding
      /\ d.records[t].state = record.state /\ d.records[t].fence = record.fence
      /\ d.records[t].ttl = record.ttl
      /\ d.records[t].expiresAt = Greater(record.expiresAt, extended)
  BY <1>3, <1>5, <1>8 DEF Record
<1>10. FencesCurrent(d)
  BY <1>1, <1>7, <1>8, <1>9 DEF Good, FencesCurrent
<1>11. Good(d)
  <2>1. \A l \in Leases : d.leases[l] \in {NoLease, b.leases[l]}
    BY <1>7
  <2>2. SameTurn(b, d, t)
    BY <2>1, <1>5, <1>7, <1>8, <1>9 DEF SameTurn
  <2> QED
    BY <2>2, <1>1, <1>2, <1>10, SameTurnGood
<1>12. d.records[t].expiresAt <= now + d.records[t].ttl
  BY <1>4, <1>5, <1>6, <1>9 DEF Greater
<1> QED
  BY <1>1, <1>2, <1>7, <1>8, <1>11, <1>12, SameTurnStep DEF b, IInv, Unused

(* claim preserves the invariant: the new lease is unused and capped. *)
LEMMA ClaimInv ==
    ASSUME IInv, NEW t \in Tokens, NEW ttl \in LeaseTtls, NEW late \in Times,
           Claim(t, ttl, late)
    PROVE  IInv'
<1> DEFINE b == Pruned
           record == b.records[t]
           end == LeaseEnd(b, t, ttl, late)
           d == broker'
<1>1. Good(b) /\ Lifetimes(b, now) /\ Unused(b, nextToken, nextFence)
  BY PrunedGood
<1>2. /\ record.state \in {"issued", "active"} /\ Live(b, t)
      /\ now' = late /\ late \in Nat /\ late >= now /\ now \in Nat
      /\ nextToken' = nextToken /\ nextFence' = nextFence
  BY LaterIsNat DEF Claim, Live, LiveStates, IInv
<1>3. CASE d = Terminate(b, {t}, "expired", late) /\ nextLease' = nextLease
  <2>1. Good(d) /\ Shrinks(b, d)
    BY <1>1, <1>2, <1>3, TerminateGood DEF TombstoneStates
  <2> QED
    BY <2>1, <1>2, <1>3, ShrinkStep DEF IInv
<1>4. CASE /\ end > late
           /\ nextLease \in Leases
           /\ d = [b EXCEPT !.records[t].state = "active",
                            !.leases[nextLease] = [holder |-> t, deadline |-> end]]
           /\ nextLease' = nextLease + 1
  <2> HIDE DEF b
  <2>1. record \in Record
    BY <1>1, <1>2, LiveRecord DEF Good
  <2>2. end \in Nat /\ end <= record.expiresAt
    BY <2>1, <1>2, BrokerAssumption DEF LeaseEnd, Lesser, Record
  <2>3. /\ d.records = [b.records EXCEPT ![t] = [record EXCEPT !.state = "active"]]
        /\ d.leases = [b.leases EXCEPT ![nextLease] =
                          [holder |-> t, deadline |-> end]]
        /\ d.fenceOwner = b.fenceOwner /\ d.epochs = b.epochs
        /\ d \in Broker
    <3>1. [record EXCEPT !.state = "active"] \in Record
      BY <2>1 DEF Record, LiveStates
    <3>2. [holder |-> t, deadline |-> end] \in LeaseEntry
      BY <2>2 DEF LeaseEntry
    <3> HIDE DEF end
    <3> QED
      BY <3>1, <3>2, <1>1, <1>4 DEF Good, Broker
  <2>4. /\ d.records[t] = [record EXCEPT !.state = "active"]
        /\ \A u \in Tokens \ {t} : d.records[u] = b.records[u]
    BY <1>1, <2>3 DEF Good, Broker
  <2>5. /\ d.records[t] \in Record
        /\ d.records[t].binding = record.binding
        /\ d.records[t].state = "active" /\ d.records[t].fence = record.fence
        /\ d.records[t].ttl = record.ttl
        /\ d.records[t].expiresAt = record.expiresAt
    BY <2>1, <2>4 DEF Record, LiveStates
  <2>6. FencesCurrent(d)
    BY <1>1, <1>2, <2>3, <2>4, <2>5 DEF Good, FencesCurrent
  <2>7. \A l \in Leases :
          \/ d.leases[l] \in {NoLease, b.leases[l]}
          \/ /\ d.leases[l].holder = t
             /\ d.leases[l].deadline <= d.records[t].expiresAt
    <3>1. \A l \in Leases : d.leases[l] = IF l = nextLease
                                THEN [holder |-> t, deadline |-> end]
                                ELSE b.leases[l]
      BY <1>1, <2>3 DEF Good, Broker
    <3> HIDE DEF end
    <3> QED
      BY <3>1, <2>2, <2>5
  <2>8. record.expiresAt \in Nat /\ record.ttl \in Nat
    BY <2>1, BrokerAssumption DEF Record
  <2>9. Good(d)
    <3>1. SameTurn(b, d, t)
      BY <2>3, <2>4, <2>5, <2>7, <2>8 DEF SameTurn
    <3> QED
      BY <3>1, <1>1, <1>2, <2>6, SameTurnGood
  <2>10. d.records[t].expiresAt <= now' + d.records[t].ttl
    BY <1>1, <1>2, <2>5, <2>8 DEF Lifetimes
  <2>11. nextLease' \in 1..(MaxLeases + 1)
    BY <1>4, BrokerAssumption DEF Leases
  <2> QED
    BY <1>1, <1>2, <2>3, <2>4, <2>9, <2>10, <2>11, SameTurnStep
       DEF b, IInv, Unused
<1> QED
  BY <1>3, <1>4 DEF Claim

(* renew preserves the invariant: the deadline stays within the turn. *)
LEMMA RenewInv ==
    ASSUME IInv, NEW t \in Tokens, NEW l \in Leases, NEW ttl \in LeaseTtls,
           NEW late \in Times, Renew(t, l, ttl, late)
    PROVE  IInv'
<1> DEFINE b == Pruned
           record == b.records[t]
           end == LeaseEnd(b, t, ttl, late)
           d == broker'
<1>1. Good(b) /\ Lifetimes(b, now) /\ Unused(b, nextToken, nextFence)
  BY PrunedGood
<1>2. /\ record.state \in {"active", "completing"} /\ Live(b, t)
      /\ l \in HeldBy(b, t)
      /\ now' = late /\ late \in Nat /\ late >= now /\ now \in Nat
      /\ UNCHANGED <<nextToken, nextLease, nextFence>>
  BY LaterIsNat DEF Renew, Live, LiveStates, IInv
<1>3. CASE d = ClearExpiredLeases(b, {t}, late)
  <2>1. Good(d) /\ Shrinks(b, d)
    BY <1>1, <1>2, <1>3, ClearExpiredLeasesGood
  <2> QED
    BY <2>1, <1>2, ShrinkStep DEF IInv
<1>4. CASE d = Terminate(b, {t}, "expired", late)
  <2>1. Good(d) /\ Shrinks(b, d)
    BY <1>1, <1>2, <1>4, TerminateGood DEF TombstoneStates
  <2> QED
    BY <2>1, <1>2, ShrinkStep DEF IInv
<1>5. CASE d = [b EXCEPT !.leases[l].deadline = end]
  <2> HIDE DEF b
  <2>1. record \in Record
    BY <1>1, <1>2, LiveRecord DEF Good
  <2>2. end \in Nat /\ end <= record.expiresAt
    BY <2>1, <1>2, BrokerAssumption DEF LeaseEnd, Lesser, Record
  <2> HIDE DEF end
  <2>3. /\ b.leases[l] \in LeaseEntry /\ b.leases[l].holder = t
        /\ [b.leases[l] EXCEPT !.deadline = end] \in LeaseEntry
        /\ [b.leases[l] EXCEPT !.deadline = end].holder = t
        /\ [b.leases[l] EXCEPT !.deadline = end].deadline = end
    BY <1>1, <1>2, <2>2 DEF Good, Broker, LeaseEntry, HeldBy
  <2>4. /\ d.leases = [b.leases EXCEPT ![l] = [b.leases[l] EXCEPT !.deadline = end]]
        /\ d.records = b.records
        /\ d.fenceOwner = b.fenceOwner /\ d.epochs = b.epochs
        /\ d \in Broker
    BY <2>3, <1>1, <1>5 DEF Good, Broker
  <2>5. FencesCurrent(d)
    BY <1>1, <2>4 DEF Good, FencesCurrent
  <2>6. \A k \in Leases :
          \/ d.leases[k] \in {NoLease, b.leases[k]}
          \/ /\ d.leases[k].holder = t
             /\ d.leases[k].deadline <= d.records[t].expiresAt
    <3>1. \A k \in Leases : d.leases[k] = IF k = l
                                THEN [b.leases[l] EXCEPT !.deadline = end]
                                ELSE b.leases[k]
      BY <1>1, <2>4 DEF Good, Broker
    <3> QED
      BY <3>1, <2>2, <2>3, <2>4
  <2>7. record.expiresAt \in Nat /\ record.ttl \in Nat
    BY <2>1, BrokerAssumption DEF Record
  <2>8. Good(d)
    <3>1. SameTurn(b, d, t)
      BY <2>1, <2>4, <2>6, <2>7 DEF SameTurn
    <3> QED
      BY <3>1, <1>1, <1>2, <2>5, SameTurnGood
  <2>9. record.expiresAt <= now' + record.ttl
    BY <1>1, <1>2, <2>7 DEF Lifetimes
  <2> QED
    BY <1>1, <1>2, <2>4, <2>8, <2>9, SameTurnStep DEF b, IInv, Unused
<1> QED
  BY <1>3, <1>4, <1>5 DEF Renew

(* release preserves the invariant. *)
LEMMA ReleaseInv ==
    ASSUME IInv, NEW t \in Tokens, NEW l \in Leases, NEW late \in Times,
           Release(t, l, late)
    PROVE  IInv'
<1> DEFINE b == ClearExpiredLeases(Pruned, {t}, late)
           c == [b EXCEPT !.leases[l] = NoLease]
<1>1. /\ now' = late /\ late \in Nat /\ late >= now
      /\ UNCHANGED <<nextToken, nextLease, nextFence>>
      /\ broker' = b \/ broker' = TrimTombstones(c)
  BY LaterIsNat DEF Release
<1>2. Good(Pruned)
  BY PrunedGood
<1>3. Good(b) /\ Shrinks(Pruned, b)
  BY <1>1, <1>2, ClearExpiredLeasesGood
<1>4. Good(c) /\ Shrinks(b, c)
  <2> HIDE DEF b
  <2>1. c \in Broker
    BY <1>3 DEF Good, Broker, NoLease, LeaseEntry
  <2>2. /\ c.records = b.records /\ c.fenceOwner = b.fenceOwner
        /\ c.epochs = b.epochs
        /\ \A k \in Leases : c.leases[k] = b.leases[k] \/ c.leases[k] = NoLease
    BY <1>3 DEF Good, Broker
  <2> HIDE DEF c
  <2> QED
    BY <2>1, <2>2, <1>3, FewerLeasesGood
<1> HIDE DEF b, c
<1>5. Good(TrimTombstones(c)) /\ Shrinks(c, TrimTombstones(c))
  BY <1>4, TrimTombstonesGood
<1>6. Shrinks(b, TrimTombstones(c))
  BY <1>4, <1>5, ShrinksTransitive
<1>7. Good(broker') /\ Shrinks(Pruned, broker')
  BY <1>1, <1>3, <1>5, <1>6, ShrinksTransitive
<1> QED
  BY <1>1, <1>7, ShrinkStep DEF IInv

(* beginCompletion preserves the invariant: its fence is new. *)
LEMMA BeginCompletionInv ==
    ASSUME IInv, NEW t \in Tokens, NEW late \in Times, BeginCompletion(t, late)
    PROVE  IInv'
<1> DEFINE b == Pruned
           c == ClearExpiredLeases(b, {t}, late)
           record == c.records[t]
           new == [record EXCEPT !.state = "completing", !.fence = nextFence]
           d == broker'
<1>1. Good(b) /\ Lifetimes(b, now) /\ Unused(b, nextToken, nextFence)
  BY PrunedGood
<1>2. /\ b.records[t].state = "active" /\ nextFence \in Fences
      /\ now' = late /\ late \in Nat /\ late >= now /\ now \in Nat
      /\ nextToken' = nextToken /\ nextLease' = nextLease
      /\ nextFence' = nextFence + 1
      /\ d = [c EXCEPT !.records[t].state = "completing",
                       !.records[t].fence = nextFence,
                       !.fenceOwner[nextFence] = t]
  BY LaterIsNat DEF BeginCompletion, IInv
<1>3. Good(c) /\ c.records = b.records /\ c.fenceOwner = b.fenceOwner
  BY <1>1, <1>2, ClearExpiredLeasesGood
<1> HIDE DEF b, c
<1>4. Live(c, t) /\ Live(b, t) /\ record.state = "active"
  BY <1>2, <1>3 DEF Live, LiveStates
<1>5. record \in Record
  BY <1>3, <1>4, LiveRecord DEF Good
<1>6. /\ new \in Record /\ new.state = "completing" /\ new.fence = nextFence
      /\ new.binding = record.binding /\ new.ttl = record.ttl
      /\ new.expiresAt = record.expiresAt
  BY <1>2, <1>5 DEF Record, LiveStates
<1>7. /\ d.records = [c.records EXCEPT ![t] = new]
      /\ d.fenceOwner = [c.fenceOwner EXCEPT ![nextFence] = t]
      /\ d.leases = c.leases /\ d.epochs = c.epochs
      /\ d \in Broker
  BY <1>2, <1>3, <1>6 DEF Good, Broker
<1>8. /\ d.records[t] = new
      /\ \A u \in Tokens \ {t} : d.records[u] = c.records[u]
      /\ \A f \in Fences : d.fenceOwner[f] = IF f = nextFence THEN t
                                             ELSE c.fenceOwner[f]
  BY <1>3, <1>7 DEF Good, Broker
<1> HIDE DEF new
<1>9. record.expiresAt \in Nat /\ record.ttl \in Nat
  BY <1>5, BrokerAssumption DEF Record
<1>10. SameTurn(c, d, t)
  BY <1>6, <1>7, <1>8, <1>9 DEF SameTurn
<1>11. FencesCurrent(d)
  <2> SUFFICES ASSUME NEW f \in Fences, NEW u \in Tokens
               PROVE  d.fenceOwner[f] = u <=>
                        d.records[u].state = "completing" /\ d.records[u].fence = f
    BY DEF FencesCurrent
  <2>1. c.fenceOwner[f] = u <=>
          c.records[u].state = "completing" /\ c.records[u].fence = f
    BY <1>3 DEF Good, FencesCurrent
  <2>2. c.fenceOwner[nextFence] = NoToken
    BY <1>1, <1>2, <1>3 DEF Unused, Fences
  <2>3. CASE f = nextFence
    <3>1. u # t => ~(c.records[u].state = "completing" /\ c.records[u].fence = f)
      BY <2>1, <2>2, <2>3 DEF NoToken, Tokens
    <3> QED
      BY <3>1, <2>3, <1>6, <1>8
  <2>4. CASE f # nextFence
    BY <2>1, <2>4, <1>4, <1>6, <1>8
  <2> QED
    BY <2>3, <2>4
<1>12. Good(d)
  BY <1>3, <1>4, <1>10, <1>11, SameTurnGood
<1>13. d.records[t].expiresAt <= now' + d.records[t].ttl
  BY <1>1, <1>2, <1>3, <1>4, <1>6, <1>8, <1>9 DEF Lifetimes
<1>14. \A f \in Fences : f >= nextFence' => d.fenceOwner[f] = NoToken
  BY <1>1, <1>2, <1>3, <1>8 DEF Unused, Fences
<1>15. nextFence' \in 1..(MaxFences + 1) /\ nextLease' \in 1..(MaxLeases + 1)
  BY <1>2, BrokerAssumption DEF Fences, IInv
<1>16. \A u \in Tokens \ {t} : d.records[u] = b.records[u]
  BY <1>3, <1>8
<1> QED
  BY <1>2, <1>4, <1>12, <1>13, <1>14, <1>15, <1>16, SameTurnStep DEF b

(***************************************************************************)
(* The fence a caller presents belongs, after the prune too, to the record *)
(* it finds completing.                                                    *)
(***************************************************************************)
LEMMA PresentedFence ==
    ASSUME IInv, NEW f \in Fences, NEW t \in Tokens, broker.fenceOwner[f] = t,
           Pruned.records[t].state = "completing"
    PROVE  /\ Pruned.records[t].fence = f
           /\ \A g \in Fences : Pruned.fenceOwner[g] = t <=> g = f
<1>1. Good(Pruned) /\ Shrinks(broker, Pruned) /\ Good(broker)
  BY PrunedGood DEF IInv
<1>2. Pruned.records[t] = broker.records[t]
  BY <1>1 DEF Shrinks, Live, LiveStates
<1>3. Pruned.records[t].fence = f
  BY <1>1, <1>2 DEF Good, FencesCurrent
<1> QED
  BY <1>1, <1>3 DEF Good, FencesCurrent

(* complete preserves the invariant: the fence goes with the turn. *)
LEMMA CompleteInv ==
    ASSUME IInv, NEW f \in Fences, NEW late \in Times, Complete(f, late)
    PROVE  IInv'
<1> DEFINE t == broker.fenceOwner[f]
           b == ClearExpiredLeases(Pruned, {t}, late)
           c == [b EXCEPT !.records[t].state = "completed",
                          !.records[t].terminalAt = late,
                          !.records[t].fence = NoFence,
                          !.fenceOwner[f] = NoToken]
<1>1. /\ t # NoToken /\ b.records[t].state = "completing"
      /\ broker' = b \/ broker' = TrimTombstones(c)
      /\ now' = late /\ late \in Nat /\ late >= now
      /\ UNCHANGED <<nextToken, nextLease, nextFence>>
  BY LaterIsNat DEF Complete
<1>2. t \in Tokens
  BY <1>1 DEF IInv, Good, Broker
<1>3. Good(Pruned)
  BY PrunedGood
<1>4. /\ Good(b) /\ Shrinks(Pruned, b)
      /\ b.records = Pruned.records /\ b.fenceOwner = Pruned.fenceOwner
  BY <1>1, <1>3, ClearExpiredLeasesGood
<1>5. \A g \in Fences : b.fenceOwner[g] = t <=> g = f
  <2>1. Pruned.records[t].state = "completing"
    BY <1>1, <1>4
  <2>2. \A g \in Fences : Pruned.fenceOwner[g] = t <=> g = f
    BY <1>2, <2>1, PresentedFence
  <2> HIDE DEF b, t
  <2> QED
    BY <2>2, <1>4
<1> HIDE DEF b, t
<1>6. Live(b, t) /\ b.records[t] \in Record
  BY <1>1, <1>2, <1>4, LiveRecord DEF Live, LiveStates, Good
<1> DEFINE e == Terminate(b, {t}, "completed", late)
<1>7. Good(e) /\ Shrinks(b, e)
  <2>1. {t} \in SUBSET Tokens /\ \A u \in {t} : Live(b, u)
    BY <1>2, <1>6
  <2>2. "completed" \in TombstoneStates
    BY DEF TombstoneStates
  <2> QED
    BY <2>1, <2>2, <1>1, <1>4, TerminateGood
(* What complete() writes is what terminate would                          *)
<1>8. Good(c) /\ Shrinks(e, c)
  <2>1. c.records = e.records
    BY <1>2, <1>4, <1>6 DEF Terminate, Good, Broker, Record
  <2>2. c.fenceOwner = e.fenceOwner
    <3>1. b.fenceOwner \in [Fences -> Tokens \cup {NoToken}]
      BY <1>4 DEF Good, Broker
    <3>2. c.fenceOwner = [b.fenceOwner EXCEPT ![f] = NoToken]
      BY <1>4 DEF Good, Broker
    <3>3. e.fenceOwner = [g \in Fences |->
             IF b.fenceOwner[g] \in {t} THEN NoToken ELSE b.fenceOwner[g]]
      BY <1>4 DEF Terminate, Good, Broker
    <3> HIDE DEF c, e
    <3> QED
      BY <3>1, <3>2, <3>3, <1>5
  <2>3. c.leases = e.leases /\ c.epochs = e.epochs
    BY <1>4 DEF Terminate, Good, Broker
  <2>4. c \in Broker
    <3>1. e.records \in [Tokens -> Record \cup {Absent}]
      BY <1>7 DEF Good, Broker
    <3>2. c.fenceOwner \in [Fences -> Tokens \cup {NoToken}]
      BY <2>2, <1>7 DEF Good, Broker
    <3> QED
      BY <3>1, <3>2, <2>1, <1>4 DEF Good, Broker
  <2> HIDE DEF c, e
  <2> QED
    BY <2>1, <2>2, <2>3, <2>4, <1>7, FewerLeasesGood
<1> HIDE DEF c, e
<1>a. Good(TrimTombstones(c)) /\ Shrinks(b, TrimTombstones(c))
  BY <1>7, <1>8, TrimTombstonesGood, ShrinksTransitive
<1>9. Good(broker') /\ Shrinks(Pruned, broker')
  BY <1>1, <1>4, <1>a, ShrinksTransitive
<1> QED
  BY <1>1, <1>9, ShrinkStep DEF IInv

(* abortCompletion preserves the invariant: the fence goes, the turn stays. *)
LEMMA AbortCompletionInv ==
    ASSUME IInv, NEW f \in Fences, AbortCompletion(f)
    PROVE  IInv'
<1> DEFINE t == broker.fenceOwner[f]
           b == Pruned
           record == b.records[t]
           new == [record EXCEPT !.state = "active", !.fence = NoFence]
           d == broker'
<1>1. /\ t # NoToken /\ record.state = "completing" /\ record.fence = f
      /\ d = [b EXCEPT !.records[t].state = "active",
                       !.records[t].fence = NoFence,
                       !.fenceOwner[f] = NoToken]
      /\ UNCHANGED <<now, nextToken, nextLease, nextFence>>
  BY DEF AbortCompletion
<1>2. t \in Tokens
  BY <1>1 DEF IInv, Good, Broker
<1>3. Good(b) /\ Lifetimes(b, now) /\ Unused(b, nextToken, nextFence)
  BY PrunedGood
<1>4. \A g \in Fences : b.fenceOwner[g] = t <=> g = f
  BY <1>1, <1>2, PresentedFence
<1> HIDE DEF b, t
<1>5. Live(b, t) /\ record \in Record
  BY <1>1, <1>2, <1>3, LiveRecord DEF Live, LiveStates, Good
<1>6. /\ new \in Record /\ new.state = "active"
      /\ new.binding = record.binding /\ new.ttl = record.ttl
      /\ new.expiresAt = record.expiresAt
  BY <1>5 DEF Record, LiveStates
<1>7. /\ d.records = [b.records EXCEPT ![t] = new]
      /\ d.fenceOwner = [b.fenceOwner EXCEPT ![f] = NoToken]
      /\ d.leases = b.leases /\ d.epochs = b.epochs
      /\ d \in Broker
  BY <1>1, <1>2, <1>3, <1>6 DEF Good, Broker
<1>8. /\ d.records[t] = new
      /\ \A u \in Tokens \ {t} : d.records[u] = b.records[u]
      /\ \A g \in Fences : d.fenceOwner[g] = IF g = f THEN NoToken
                                             ELSE b.fenceOwner[g]
  BY <1>2, <1>3, <1>7 DEF Good, Broker
<1> HIDE DEF new
<1>9. record.expiresAt \in Nat /\ record.ttl \in Nat
  BY <1>5, BrokerAssumption DEF Record
<1>10. SameTurn(b, d, t)
  BY <1>6, <1>7, <1>8, <1>9 DEF SameTurn
<1>11. FencesCurrent(d)
  <2> SUFFICES ASSUME NEW g \in Fences, NEW u \in Tokens
               PROVE  d.fenceOwner[g] = u <=>
                        d.records[u].state = "completing" /\ d.records[u].fence = g
    BY DEF FencesCurrent
  <2>1. b.fenceOwner[g] = u <=>
          b.records[u].state = "completing" /\ b.records[u].fence = g
    BY <1>3 DEF Good, FencesCurrent
  <2>2. u # NoToken
    BY DEF Tokens, NoToken
  <2>3. CASE u = t
    BY <2>2, <2>3, <1>4, <1>6, <1>8
  <2>4. CASE u # t
    BY <2>1, <2>2, <2>4, <1>4, <1>8
  <2> QED
    BY <2>3, <2>4
<1>12. Good(d)
  BY <1>2, <1>3, <1>5, <1>10, <1>11, SameTurnGood
<1>13. d.records[t].expiresAt <= now' + d.records[t].ttl
  BY <1>1, <1>2, <1>3, <1>5, <1>6, <1>8 DEF Lifetimes
<1>14. \A g \in Fences : g >= nextFence' => d.fenceOwner[g] = NoToken
  BY <1>1, <1>3, <1>8 DEF Unused
<1>15. /\ nextFence' \in 1..(MaxFences + 1)
       /\ nextLease' \in 1..(MaxLeases + 1)
       /\ now' \in Nat /\ now' >= now /\ nextToken' = nextToken
  BY <1>1 DEF IInv
<1> QED
  BY <1>2, <1>5, <1>8, <1>12, <1>13, <1>14, <1>15, SameTurnStep DEF b

(***************************************************************************)
(* Ending live capabilities: cancel and every revoke that leaves the       *)
(* session epochs alone.                                                   *)
(***************************************************************************)
LEMMA EndTurnsInv ==
    ASSUME IInv, NEW T \in SUBSET Tokens, \A t \in T : Live(Pruned, t),
           NEW state \in TombstoneStates, now' \in Nat, now' >= now,
           NEW at \in Nat, broker' = TrimTombstones(Terminate(Pruned, T, state, at)),
           UNCHANGED <<nextToken, nextLease, nextFence>>
    PROVE  IInv'
<1>1. Good(Pruned)
  BY PrunedGood DEF IInv
<1>2. Good(broker') /\ Shrinks(Pruned, broker')
  BY <1>1, RevokeAllGood
<1> QED
  BY <1>1, <1>2, ShrinkStep DEF IInv

(* revokeSession also forgets the session epochs, which no live capability  *)
(* of the session outlives.                                                *)
LEMMA RevokeSessionInv ==
    ASSUME IInv, NEW x \in Locals, RevokeSession(x)
    PROVE  IInv'
<1> DEFINE T == LiveForLocal(Pruned, x)
           b == RevokeAll(Pruned, T)
           d == broker'
<1>1. /\ d = [b EXCEPT !.epochs = [s \in Sessions |->
                 IF s[2] = x THEN NoEpoch ELSE b.epochs[s]]]
      /\ UNCHANGED <<now, nextToken, nextLease, nextFence>>
  BY DEF RevokeSession
<1>2. /\ Good(Pruned) /\ now \in Nat
      /\ Unused(Pruned, nextToken, nextFence) /\ Lifetimes(Pruned, now)
  BY PrunedGood DEF IInv
<1>3. T \in SUBSET Tokens /\ \A t \in T : Live(Pruned, t)
  BY DEF LiveForLocal
<1>4. Good(b) /\ Shrinks(Pruned, b) /\ \A t \in T : ~Live(b, t)
  BY <1>2, <1>3, RevokeAllGood DEF RevokeAll, TombstoneStates
<1>5. Unused(b, nextToken, nextFence) /\ Lifetimes(b, now)
  BY <1>2, <1>4, ShrinksKeeps DEF Good
<1>6. \A t \in Tokens : Live(b, t) => Session(b, t)[2] # x
  <2> SUFFICES ASSUME NEW t \in Tokens, Live(b, t), Session(b, t)[2] = x
               PROVE  FALSE
    OBVIOUS
  <2>1. b.records[t] = Pruned.records[t]
    BY <1>4 DEF Shrinks
  <2>2. t \in T
    BY <2>1 DEF LiveForLocal, Live, Session
  <2> QED
    BY <2>2, <1>4
<1> HIDE DEF b, T
<1>7. /\ d.records = b.records /\ d.leases = b.leases
      /\ d.fenceOwner = b.fenceOwner
      /\ d.epochs = [s \in Sessions |-> IF s[2] = x THEN NoEpoch ELSE b.epochs[s]]
      /\ d \in Broker
  BY <1>1, <1>4 DEF Good, Broker
<1>8. LeasesWithin(d) /\ FencesCurrent(d) /\ OneHolder(d)
  BY <1>4, <1>7 DEF Good, LeasesWithin, FencesCurrent, OneHolder, Occupies,
                    HeldBy, Live, Session
<1>9. EpochsCarried(d)
  <2> SUFFICES ASSUME NEW t \in Tokens, Live(d, t)
               PROVE  d.epochs[Session(d, t)] = d.records[t].binding.epoch
    BY DEF EpochsCarried
  <2>1. Live(b, t) /\ Session(d, t) = Session(b, t)
    BY <1>7 DEF Live, Session
  <2>2. Session(b, t) \in Sessions
    BY <2>1, <1>4, LiveRecord DEF Good, Session, Record, Binding
  <2>3. b.epochs[Session(b, t)] = b.records[t].binding.epoch
    BY <2>1, <1>4 DEF Good, EpochsCarried
  <2> QED
    BY <2>1, <2>2, <2>3, <1>6, <1>7
<1>10. Unused(d, nextToken, nextFence) /\ Lifetimes(d, now)
  BY <1>5, <1>7 DEF Unused, Lifetimes, Live
<1> QED
  BY <1>1, <1>7, <1>8, <1>9, <1>10 DEF IInv, Good

(* The clock preserves the invariant. *)
LEMMA TickInv ==
    ASSUME IInv, Tick
    PROVE  IInv'
<1>1. Shrinks(broker, broker)
  BY DEF Shrinks
<1>2. Unused(broker, nextToken, nextFence) /\ Lifetimes(broker, now + 1)
  BY <1>1, ShrinksKeeps DEF IInv, Good
<1> QED
  BY <1>2 DEF IInv, Tick

(***************************************************************************)
(* The invariant is inductive.                                             *)
(***************************************************************************)
LEMMA InitInv == Init => IInv
BY EmptyGood, BrokerAssumption DEF Init, IInv

(* Every step preserves the invariant. *)
LEMMA StepInv == IInv /\ [GatewayNext]_vars => IInv'
<1> SUFFICES ASSUME IInv, [GatewayNext]_vars PROVE IInv'
  OBVIOUS
<1>1. CASE UNCHANGED vars
  BY <1>1 DEF vars, IInv
<1>2. CASE Observe
  BY <1>2, PrunedGood, ShrinkStep DEF Observe, IInv, Shrinks
<1>3. CASE Restart
  BY <1>3, EmptyGood DEF Restart, IInv
<1>4. CASE Tick
  BY <1>4, TickInv
<1>5. CASE \E s \in Sessions, q \in Requests, e \in Epochs, ttl \in CapabilityTtls :
              IssueReplacingSession(s, q, e, ttl)
  BY <1>5, IssueReplacingSessionInv
<1>6. CASE \E s \in Sessions, q \in Requests, t \in Tokens, at \in Times :
              KeepAliveRequest(s, q, t, at)
  BY <1>6, KeepAliveRequestInv
<1>7. CASE \E t \in Tokens, ttl \in LeaseTtls, late \in Times : Claim(t, ttl, late)
  BY <1>7, ClaimInv
<1>8. CASE \E t \in Tokens, l \in Leases, ttl \in LeaseTtls, late \in Times :
              Renew(t, l, ttl, late)
  BY <1>8, RenewInv
<1>9. CASE \E t \in Tokens, l \in Leases, late \in Times : Release(t, l, late)
  BY <1>9, ReleaseInv
<1>10. CASE \E t \in Tokens, late \in Times : BeginCompletion(t, late)
  BY <1>10, BeginCompletionInv
<1>11. CASE \E f \in Fences, late \in Times : Complete(f, late)
  BY <1>11, CompleteInv
<1>12. CASE \E f \in Fences : AbortCompletion(f)
  BY <1>12, AbortCompletionInv
<1>a. now \in Nat /\ now >= now
  BY DEF IInv
<1>13. CASE \E t \in Tokens, late \in Times : Cancel(t, late)
  <2> SUFFICES ASSUME NEW t \in Tokens, NEW late \in Times, Cancel(t, late)
               PROVE  IInv'
    BY <1>13
  <2> QED
    BY EndTurnsInv, LaterIsNat DEF Cancel, TombstoneStates
<1>14. CASE \E t \in Tokens, late \in Times : Revoke(t, late)
  <2> SUFFICES ASSUME NEW t \in Tokens, NEW late \in Times, Revoke(t, late)
               PROVE  IInv'
    BY <1>14
  <2> QED
    BY EndTurnsInv, LaterIsNat DEF Revoke, TombstoneStates
<1>15. CASE \E bind \in Binding : RevokeBinding(bind)
  BY <1>15, <1>a, EndTurnsInv
     DEF RevokeBinding, RevokeAll, LiveForBinding, TombstoneStates
<1>16. CASE \E x \in Locals, q \in Requests : RevokeRequest(x, q)
  BY <1>16, <1>a, EndTurnsInv
     DEF RevokeRequest, RevokeAll, LiveForRequest, LiveForLocal, TombstoneStates
<1>17. CASE \E x \in Locals : RevokeSession(x)
  BY <1>17, RevokeSessionInv
<1>18. CASE \E r \in Registrations : RevokeRegistration(r)
  BY <1>18, <1>a, EndTurnsInv
     DEF RevokeRegistration, RevokeAll, LiveForRegistration, TombstoneStates
<1> QED
  BY <1>1, <1>2, <1>3, <1>4, <1>5, <1>6, <1>7, <1>8, <1>9, <1>10, <1>11,
     <1>12, <1>13, <1>14, <1>15, <1>16, <1>17, <1>18 DEF GatewayNext

(* The inductive invariant holds of the broker as the gateway drives it.   *)
THEOREM Invariant == Spec => []IInv
<1>1. Init => IInv
  BY InitInv
<1>2. IInv /\ [GatewayNext]_vars => IInv'
  BY StepInv
<1> QED
  BY <1>1, <1>2, PTL DEF Spec

-----------------------------------------------------------------------------
(* Every broker value the handlers produce has the declared shape.         *)
THEOREM TypeCorrect == Spec => []TypeOK
<1>1. IInv => TypeOK
  BY DEF IInv, Good, TypeOK
<1> QED
  BY <1>1, Invariant, PTL

(* issueReplacingSession never gives a session a second capability while    *)
(* an earlier one is live or still has calls in flight.                    *)
THEOREM OneHolderTheorem == Spec => []OneHolderPerSession
<1>1. IInv => OneHolderPerSession
  BY DEF IInv, Good, OneHolderPerSession
<1> QED
  BY <1>1, Invariant, PTL

(* claim and renew cap every activity lease at its capability's deadline,   *)
(* and the record of a held lease is never evicted.                        *)
THEOREM LeaseTheorem == Spec => []LeaseWithinCapability
<1>1. IInv => LeaseWithinCapability
  BY DEF IInv, Good, LeaseWithinCapability
<1> QED
  BY <1>1, Invariant, PTL

(* completionFences and the fence each record keeps never disagree.        *)
THEOREM FenceTheorem == Spec => []FencesAreCurrent
<1>1. IInv => FencesAreCurrent
  BY DEF IInv, Good, FencesAreCurrent
<1> QED
  BY <1>1, Invariant, PTL

(* A live capability carries the epoch recorded for its session.           *)
THEOREM EpochTheorem == Spec => []LiveCarriesSessionEpoch
<1>1. IInv => LiveCarriesSessionEpoch
  BY DEF IInv, Good, LiveCarriesSessionEpoch
<1> QED
  BY <1>1, Invariant, PTL

(* keepAliveRequest never extends a capability past one lifetime from now. *)
THEOREM LifetimeTheorem == Spec => []NoBorrowedLifetime
<1>1. IInv => NoBorrowedLifetime
  BY DEF IInv, Lifetimes, NoBorrowedLifetime
<1> QED
  BY <1>1, Invariant, PTL
-----------------------------------------------------------------------------
(* What no step may do to a session                                        *)

(* What is left of the work of a turn that is not live only goes.          *)
Drains(b, c) ==
    \A t \in Tokens : ~Live(b, t) =>
       /\ ~Live(c, t)
       /\ \A l \in HeldBy(c, t) : c.leases[l] = b.leases[l]
       /\ HeldBy(c, t) # {} => c.records[t] = b.records[t]

(* A helper lets no work into a turn, completes none, and leaves the       *)
(* epochs as they are.                                                     *)
Sealed(b, c) ==
    /\ Drains(b, c)
    /\ \A t \in Tokens : HeldBy(c, t) \subseteq HeldBy(b, t)
    /\ \A t \in Tokens : c.records[t].state = "completed" => b.records[t].state = "completed"
    /\ c.epochs = b.epochs

LEMMA SealedTransitive ==
    ASSUME NEW b, NEW c, NEW d, Sealed(b, c), Sealed(c, d)
    PROVE  Sealed(b, d)
<1>1. \A t \in Tokens : HeldBy(d, t) \subseteq HeldBy(b, t)
  BY DEF Sealed
<1>2. \A t \in Tokens : d.records[t].state = "completed" => b.records[t].state = "completed"
  BY DEF Sealed
<1>3. Drains(b, d)
  <2> SUFFICES ASSUME NEW t \in Tokens, ~Live(b, t)
               PROVE  /\ ~Live(d, t)
                      /\ \A l \in HeldBy(d, t) : d.leases[l] = b.leases[l]
                      /\ HeldBy(d, t) # {} => d.records[t] = b.records[t]
    BY DEF Drains
  <2>1. /\ ~Live(c, t) /\ ~Live(d, t)
        /\ \A l \in HeldBy(d, t) : d.leases[l] = c.leases[l]
        /\ \A l \in HeldBy(c, t) : c.leases[l] = b.leases[l]
        /\ HeldBy(d, t) # {} => d.records[t] = c.records[t]
        /\ HeldBy(c, t) # {} => c.records[t] = b.records[t]
    BY DEF Sealed, Drains
  <2>2. HeldBy(d, t) \subseteq HeldBy(c, t)
    BY DEF Sealed
  <2> QED  BY <2>1, <2>2
<1> QED  BY <1>1, <1>2, <1>3 DEF Sealed

(* Only complete() ends a turn as completed.                               *)
LEMMA TerminateSeals ==
    ASSUME NEW b \in Broker, NEW T \in SUBSET Tokens, \A t \in T : Live(b, t),
           NEW state \in TombstoneStates \ {"completed"}, NEW at \in Nat
    PROVE  Sealed(b, Terminate(b, T, state, at))
<1> DEFINE c == Terminate(b, T, state, at)
<1>1. c.leases = b.leases /\ c.epochs = b.epochs
  BY DEF Terminate, Broker
<1>2. \A t \in Tokens : c.records[t].state = "completed" => b.records[t].state = "completed"
  <2> SUFFICES ASSUME NEW t \in Tokens
               PROVE  c.records[t].state = "completed" => b.records[t].state = "completed"
    OBVIOUS
  <2>1. c.records[t] = IF t \in T
                       THEN [b.records[t] EXCEPT !.state = state, !.terminalAt = at,
                                                 !.fence = NoFence]
                       ELSE b.records[t]
    BY DEF Terminate, Broker
  <2>2. CASE t \in T
    <3>1. b.records[t] \in Record
      BY <2>2, LiveRecord
    <3>2. c.records[t].state = state
      BY <2>1, <2>2, <3>1 DEF Record
    <3> QED  BY <3>2
  <2>3. CASE t \notin T
    BY <2>1, <2>3
  <2> QED  BY <2>2, <2>3
<1>3. \A t \in Tokens : ~Live(b, t) => c.records[t] = b.records[t]
  BY DEF Terminate, Broker
<1> HIDE DEF c
<1>4. Drains(b, c)
  BY <1>1, <1>3 DEF Drains, HeldBy, Live
<1>5. Sealed(b, c)
  BY <1>1, <1>2, <1>4 DEF Sealed, HeldBy
<1> QED  BY <1>5 DEF c

LEMMA FewerLeasesSeals ==
    ASSUME NEW b, NEW c, c.records = b.records, c.epochs = b.epochs,
           \A l \in Leases : c.leases[l] = b.leases[l] \/ c.leases[l] = NoLease
    PROVE  Sealed(b, c)
<1>1. \A t \in Tokens : HeldBy(c, t) \subseteq HeldBy(b, t)
  BY DEF HeldBy, NoLease, NoToken, Tokens
<1>2. Drains(b, c)
  BY DEF Drains, HeldBy, Live, NoLease, NoToken, Tokens
<1> QED  BY <1>1, <1>2 DEF Sealed

LEMMA ClearExpiredLeasesSeals ==
    ASSUME NEW b \in Broker, NEW T, NEW at
    PROVE  Sealed(b, ClearExpiredLeases(b, T, at))
<1> DEFINE c == ClearExpiredLeases(b, T, at)
<1>1. /\ c.records = b.records /\ c.epochs = b.epochs
      /\ \A l \in Leases : c.leases[l] = b.leases[l] \/ c.leases[l] = NoLease
  BY DEF ClearExpiredLeases, Broker
<1> HIDE DEF c
<1>2. Sealed(b, c)
  BY <1>1, FewerLeasesSeals
<1> QED  BY <1>2 DEF c

LEMMA TrimTombstonesSeals ==
    ASSUME NEW b \in Broker
    PROVE  /\ Sealed(b, TrimTombstones(b))
           /\ \A t \in Tokens : HeldBy(TrimTombstones(b), t) = HeldBy(b, t)
<1> DEFINE c == TrimTombstones(b)
<1> DEFINE E == Evicted(b)
<1>0. \A t \in E : HeldBy(b, t) = {}
  BY DEF Evicted, Drained
<1>a. c = [b EXCEPT !.records = [t \in Tokens |-> IF t \in E THEN Absent ELSE b.records[t]]]
  BY DEF TrimTombstones, Forget
<1> HIDE DEF E
<1>1. /\ c.leases = b.leases /\ c.epochs = b.epochs
      /\ \A t \in Tokens : \/ c.records[t] = b.records[t]
                           \/ c.records[t] = Absent /\ HeldBy(b, t) = {}
  BY <1>0, <1>a DEF Broker
<1> HIDE DEF c
<1>2. \A t \in Tokens : HeldBy(c, t) = HeldBy(b, t)
  BY <1>1 DEF HeldBy
<1>3. Drains(b, c)
  BY <1>1, <1>2 DEF Drains, Live, LiveStates, Absent
<1>4. Sealed(b, c)
  BY <1>1, <1>2, <1>3 DEF Sealed, Absent
<1> QED  BY <1>2, <1>4 DEF c

(* Whatever turns are ended by a revocation, a cancellation or their age.  *)
LEMMA EndingSeals ==
    ASSUME NEW b, Good(b), NEW T \in SUBSET Tokens, \A t \in T : Live(b, t),
           NEW state \in TombstoneStates \ {"completed"}, NEW at \in Nat
    PROVE  Sealed(b, TrimTombstones(Terminate(b, T, state, at)))
<1> DEFINE c == Terminate(b, T, state, at)
<1>1. Sealed(b, c)
  BY TerminateSeals DEF Good
<1>2. Good(c)
  BY TerminateGood
<1> HIDE DEF c
<1>3. Sealed(c, TrimTombstones(c))
  BY <1>2, TrimTombstonesSeals DEF Good
<1>4. Sealed(b, TrimTombstones(c))
  BY <1>1, <1>3, SealedTransitive
<1> QED  BY <1>4 DEF c

LEMMA PrunedSeals ==
    ASSUME IInv
    PROVE  Sealed(broker, Pruned)
<1> DEFINE T == Overdue(broker, now)
           c == Terminate(broker, T, "expired", now)
           d == ClearExpiredLeases(c, Tokens, now)
<1>1. /\ T \in SUBSET Tokens /\ \A t \in T : Live(broker, t)
      /\ now \in Nat /\ Good(broker)
  BY DEF Overdue, IInv
<1>2. Sealed(broker, c) /\ Good(c)
  BY <1>1, TerminateSeals, TerminateGood DEF TombstoneStates, Good
<1> HIDE DEF c
<1>3. Sealed(c, d) /\ Good(d)
  BY <1>1, <1>2, ClearExpiredLeasesSeals, ClearExpiredLeasesGood DEF Good
<1> HIDE DEF d
<1>4. Sealed(d, TrimTombstones(d))
  BY <1>3, TrimTombstonesSeals DEF Good
<1>5. Sealed(broker, TrimTombstones(d))
  BY <1>2, <1>3, <1>4, SealedTransitive
<1>6. Pruned = TrimTombstones(d)
  BY DEF Pruned, Prune, d, c
<1> QED  BY <1>5, <1>6

(* A handler that prunes, and then ends turns.                             *)
LEMMA EndTurnsSeals ==
    ASSUME IInv, NEW T \in SUBSET Tokens, \A t \in T : Live(Pruned, t),
           NEW state \in TombstoneStates \ {"completed"}, NEW at \in Nat
    PROVE  Sealed(broker, TrimTombstones(Terminate(Pruned, T, state, at)))
BY PrunedSeals, PrunedGood, EndingSeals, SealedTransitive

-----------------------------------------------------------------------------
(* The three steps that are promised                                       *)

SealStep ==
    \A t \in Tokens :
       broker.records[t].state = "completing" =>
         /\ HeldBy(broker', t) \subseteq HeldBy(broker, t)
         /\ broker'.records[t].state = "completed" => HeldBy(broker', t) = {}

ForwardStep ==
    \A s \in Sessions :
       broker.epochs[s] # NoEpoch =>
         \/ broker'.epochs[s] = NoEpoch /\ LiveInSession(broker', s) = {}
         \/ /\ broker'.epochs[s] # NoEpoch
            /\ broker'.epochs[s][1] >= broker.epochs[s][1]
            /\ broker'.epochs[s][2] >= broker.epochs[s][2]

DrainStep ==
    \A t \in Tokens :
       Tombstone(broker, t) /\ broker' # EmptyBroker =>
         /\ \A l \in HeldBy(broker', t) : broker'.leases[l] = broker.leases[l]
         /\ HeldBy(broker', t) # {} => broker'.records[t] = broker.records[t]

(* The recorded epochs are pairs of numbers.                               *)
LEMMA EpochPairs ==
    ASSUME NEW e \in Epochs
    PROVE  e[1] \in Nat /\ e[2] \in Nat /\ e # NoEpoch
<1>1. PICK m \in Nat, n \in Nat : e = <<m, n>>
  BY BrokerAssumption
<1> QED  BY <1>1 DEF NoEpoch

LEMMA SameEpochs ==
    ASSUME IInv, broker'.epochs = broker.epochs
    PROVE  ForwardStep
<1> SUFFICES ASSUME NEW s \in Sessions, broker.epochs[s] # NoEpoch
             PROVE  /\ broker'.epochs[s] # NoEpoch
                    /\ broker'.epochs[s][1] >= broker.epochs[s][1]
                    /\ broker'.epochs[s][2] >= broker.epochs[s][2]
  BY DEF ForwardStep
<1>1. broker.epochs[s] \in Epochs
  BY DEF IInv, Good, Broker
<1> QED  BY <1>1, EpochPairs

LEMMA SealedSteps ==
    ASSUME IInv, Sealed(broker, broker')
    PROVE  SealStep /\ ForwardStep /\ DrainStep
<1>1. broker'.epochs = broker.epochs
  BY DEF Sealed
<1>2. SealStep
  BY DEF SealStep, Sealed
<1>3. DrainStep
  <2>1. \A t \in Tokens : Tombstone(broker, t) => ~Live(broker, t)
    BY DEF Tombstone, TombstoneStates, Live, LiveStates
  <2> QED  BY <2>1 DEF DrainStep, Sealed, Drains
<1> QED  BY <1>1, <1>2, <1>3, SameEpochs

(* A turn for which the broker works after its prune was in the same state *)
(* before.                                                                 *)
LEMMA StateBefore ==
    ASSUME IInv, NEW t \in Tokens, Live(Pruned, t)
    PROVE  broker.records[t] = Pruned.records[t]
BY PrunedGood DEF Shrinks

(* Whatever is done to one turn that lives, or is new.                     *)
LEMMA OtherTurnsDrain ==
    ASSUME NEW c, Sealed(broker, c), NEW t \in Tokens, ~Tombstone(broker, t),
           \A u \in Tokens : u # t /\ HeldBy(broker', u) # {} =>
              broker'.records[u] = c.records[u],
           \A l \in Leases : broker'.leases[l] = c.leases[l] \/ broker'.leases[l].holder = t
    PROVE  DrainStep
<1> SUFFICES ASSUME NEW u \in Tokens, Tombstone(broker, u)
             PROVE  /\ \A l \in HeldBy(broker', u) : broker'.leases[l] = broker.leases[l]
                    /\ HeldBy(broker', u) # {} => broker'.records[u] = broker.records[u]
  BY DEF DrainStep
<1>1. u # t /\ ~Live(broker, u)
  BY DEF Tombstone, TombstoneStates, Live, LiveStates
<1>2. \A l \in HeldBy(broker', u) : broker'.leases[l] = c.leases[l] /\ l \in HeldBy(c, u)
  BY <1>1 DEF HeldBy
<1> QED  BY <1>1, <1>2 DEF Sealed, Drains

(* A new turn completes nothing, and its epoch is not behind.              *)
LEMMA IssueSteps ==
    ASSUME IInv, NEW s \in Sessions, NEW q \in Requests, NEW e \in Epochs,
           NEW ttl \in CapabilityTtls, IssueReplacingSession(s, q, e, ttl)
    PROVE  SealStep /\ ForwardStep /\ DrainStep
<1> DEFINE T == LiveInSession(Pruned, s)
           c == RevokeAll(Pruned, T)
           bind == [session |-> s, request |-> q, epoch |-> e]
           new == [state |-> "issued", binding |-> bind, ttl |-> ttl,
                   expiresAt |-> now + ttl, terminalAt |-> 0, fence |-> NoFence]
           d == broker'
<1>1. T \in SUBSET Tokens /\ (\A t \in T : Live(Pruned, t)) /\ now \in Nat
  BY DEF LiveInSession, IInv
<1>2. Sealed(broker, c)
  BY <1>1, EndTurnsSeals DEF RevokeAll, TombstoneStates
<1>3. Good(c)
  BY <1>1, PrunedGood, RevokeAllGood DEF RevokeAll, TombstoneStates
<1>4. /\ d = [AddRecord(c, bind, ttl) EXCEPT !.epochs[s] = e]
      /\ FreshEpoch(broker, s, e)
  BY DEF IssueReplacingSession
<1> HIDE DEF c
<1>5. /\ d.records = [c.records EXCEPT ![nextToken] = new]
      /\ d.leases = c.leases
      /\ d.epochs = [c.epochs EXCEPT ![s] = e]
  BY <1>3, <1>4 DEF AddRecord, Good, Broker
<1>6. SealStep
  <2>1. \A t \in Tokens : HeldBy(d, t) = HeldBy(c, t)
    BY <1>5 DEF HeldBy
  <2>2. \A t \in Tokens : d.records[t].state = "completed" => c.records[t].state = "completed"
    BY <1>3, <1>5 DEF Good, Broker
  <2> QED  BY <1>2, <2>1, <2>2 DEF SealStep, Sealed
<1>7. ForwardStep
  <2> SUFFICES ASSUME NEW x \in Sessions, broker.epochs[x] # NoEpoch
               PROVE  /\ d.epochs[x] # NoEpoch
                      /\ d.epochs[x][1] >= broker.epochs[x][1]
                      /\ d.epochs[x][2] >= broker.epochs[x][2]
    BY DEF ForwardStep
  <2>1. broker.epochs[x] \in Epochs
    BY DEF IInv, Good, Broker
  <2>2. d.epochs[x] = IF x = s THEN e ELSE broker.epochs[x]
    BY <1>2, <1>3, <1>5 DEF Good, Broker, Sealed
  <2>3. CASE x = s
    BY <1>4, <2>2, <2>3, EpochPairs DEF FreshEpoch
  <2>4. CASE x # s
    BY <2>1, <2>2, <2>4, EpochPairs
  <2> QED  BY <2>3, <2>4
<1>8. DrainStep
  <2>1. nextToken \in Tokens /\ broker.records[nextToken] = Absent
    BY DEF IssueReplacingSession, IInv, Unused, Tokens
  <2>2. ~Tombstone(broker, nextToken)
    BY <2>1 DEF Tombstone, TombstoneStates, Absent
  <2>3. \A u \in Tokens : u # nextToken => d.records[u] = c.records[u]
    BY <1>3, <1>5 DEF Good, Broker
  <2> QED  BY <1>2, <1>5, <2>1, <2>2, <2>3, OtherTurnsDrain
<1> QED  BY <1>6, <1>7, <1>8

LEMMA KeepAliveSeals ==
    ASSUME IInv, NEW s \in Sessions, NEW q \in Requests, NEW t \in Tokens,
           NEW at \in Times, KeepAliveRequest(s, q, t, at)
    PROVE  Sealed(broker, broker')
<1> DEFINE b == Pruned
           n == Greater(b.records[t].expiresAt, Lesser(at, now) + b.records[t].ttl)
           d == broker'
<1>1. Live(b, t) /\ d = [b EXCEPT !.records[t].expiresAt = n]
  BY DEF KeepAliveRequest
<1>2. Good(b) /\ Sealed(broker, b)
  BY PrunedGood, PrunedSeals
<1> HIDE DEF b, n
<1>3. b.records[t] \in Record
  BY <1>1, <1>2, LiveRecord DEF Good
<1>4. /\ d.records = [b.records EXCEPT ![t] = [b.records[t] EXCEPT !.expiresAt = n]]
      /\ d.leases = b.leases /\ d.epochs = b.epochs
  BY <1>1, <1>2 DEF Good, Broker
<1>5. \A u \in Tokens : d.records[u].state = b.records[u].state
  <2>1. [b.records[t] EXCEPT !.expiresAt = n].state = b.records[t].state
    BY <1>3 DEF Record
  <2>2. \A u \in Tokens : d.records[u] = IF u = t THEN [b.records[t] EXCEPT !.expiresAt = n]
                                                  ELSE b.records[u]
    BY <1>2, <1>4 DEF Good, Broker
  <2> QED  BY <2>1, <2>2
<1>6. Drains(b, d)
  <2>1. \A u \in Tokens : u # t => d.records[u] = b.records[u]
    BY <1>2, <1>4 DEF Good, Broker
  <2> QED  BY <1>1, <1>4, <2>1 DEF Drains, HeldBy, Live
<1>7. Sealed(b, d)
  BY <1>4, <1>5, <1>6 DEF Sealed, HeldBy
<1> QED  BY <1>2, <1>7, SealedTransitive

(* A lease is claimed by a turn that is not completing.                    *)
LEMMA ClaimSteps ==
    ASSUME IInv, NEW t \in Tokens, NEW ttl \in LeaseTtls, NEW late \in Times,
           Claim(t, ttl, late)
    PROVE  SealStep /\ ForwardStep /\ DrainStep
<1> DEFINE b == Pruned
           end == LeaseEnd(b, t, ttl, late)
           d == broker'
<1>1. Good(b) /\ Sealed(broker, b)
  BY PrunedGood, PrunedSeals
<1>2. b.records[t].state \in {"issued", "active"} /\ Live(b, t) /\ late \in Nat
  BY LaterIsNat DEF Claim, Live, LiveStates
<1>3. CASE d = Terminate(b, {t}, "expired", late)
  <2>1. Sealed(b, d)
    BY <1>1, <1>2, <1>3, TerminateSeals DEF TombstoneStates, Good
  <2> QED  BY <1>1, <2>1, SealedTransitive, SealedSteps
<1>4. CASE d = [b EXCEPT !.records[t].state = "active",
                         !.leases[nextLease] = [holder |-> t, deadline |-> end]]
  <2>1. broker.records[t].state # "completing"
    BY <1>2, StateBefore
  <2> HIDE DEF b, end
  <2>2. b.records[t] \in Record
    BY <1>1, <1>2, LiveRecord DEF Good
  <2>3. /\ d.records = [b.records EXCEPT ![t] = [b.records[t] EXCEPT !.state = "active"]]
        /\ d.leases = [b.leases EXCEPT ![nextLease] = [holder |-> t, deadline |-> end]]
        /\ d.epochs = b.epochs
    BY <1>1, <1>4 DEF Good, Broker
  <2>4. \A u \in Tokens : u # t => HeldBy(d, u) \subseteq HeldBy(b, u)
    <3>1. \A l \in Leases : d.leases[l] \in {b.leases[l], [holder |-> t, deadline |-> end]}
      BY <1>1, <2>3 DEF Good, Broker
    <3> QED  BY <3>1 DEF HeldBy
  <2>5. \A u \in Tokens : u # t => d.records[u] = b.records[u]
    BY <1>1, <2>3 DEF Good, Broker
  <2>6. SealStep
    BY <1>1, <2>1, <2>4, <2>5 DEF SealStep, Sealed
  <2>7. d.epochs = broker.epochs
    BY <1>1, <2>3 DEF Sealed
  <2>8. DrainStep
    <3>1. ~Tombstone(broker, t)
      BY <1>2, StateBefore DEF b, Tombstone, TombstoneStates
    <3>2. \A l \in Leases : d.leases[l] = b.leases[l] \/ d.leases[l].holder = t
      BY <1>1, <2>3 DEF Good, Broker
    <3> QED  BY <1>1, <2>5, <3>1, <3>2, OtherTurnsDrain
  <2> QED  BY <2>6, <2>7, <2>8, SameEpochs
<1> QED  BY <1>3, <1>4 DEF Claim

LEMMA RenewSeals ==
    ASSUME IInv, NEW t \in Tokens, NEW l \in Leases, NEW ttl \in LeaseTtls,
           NEW late \in Times, Renew(t, l, ttl, late)
    PROVE  Sealed(broker, broker')
<1> DEFINE b == Pruned
           end == LeaseEnd(b, t, ttl, late)
           d == broker'
<1>1. Good(b) /\ Sealed(broker, b)
  BY PrunedGood, PrunedSeals
<1>2. /\ b.records[t].state \in {"active", "completing"} /\ Live(b, t)
      /\ late \in Nat
  BY LaterIsNat DEF Renew, Live, LiveStates
<1>3. CASE d = ClearExpiredLeases(b, {t}, late)
  BY <1>1, <1>3, ClearExpiredLeasesSeals, SealedTransitive DEF Good
<1>4. CASE d = Terminate(b, {t}, "expired", late)
  <2>1. Sealed(b, d)
    BY <1>1, <1>2, <1>4, TerminateSeals DEF TombstoneStates, Good
  <2> QED  BY <1>1, <2>1, SealedTransitive
<1>5. CASE d = [b EXCEPT !.leases[l].deadline = end]
  <2> HIDE DEF b, end
  <2>1. /\ d.records = b.records /\ d.epochs = b.epochs
        /\ d.leases = [b.leases EXCEPT ![l] = [b.leases[l] EXCEPT !.deadline = end]]
    BY <1>1, <1>5 DEF Good, Broker
  <2>2. \A k \in Leases : d.leases[k].holder = b.leases[k].holder
    <3>1. [b.leases[l] EXCEPT !.deadline = end].holder = b.leases[l].holder
      BY <1>1 DEF Good, Broker, LeaseEntry
    <3>2. \A k \in Leases : d.leases[k] = IF k = l THEN [b.leases[l] EXCEPT !.deadline = end]
                                                   ELSE b.leases[k]
      BY <1>1, <2>1 DEF Good, Broker
    <3> QED  BY <3>1, <3>2
  <2>3. Drains(b, d)
    <3>1. b.leases[l].holder = t
      BY DEF Renew, HeldBy, b
    <3>2. \A k \in Leases : d.leases[k] = b.leases[k] \/ k = l
      BY <1>1, <2>1 DEF Good, Broker
    <3> QED  BY <1>2, <2>1, <2>2, <3>1, <3>2 DEF Drains, HeldBy, Live
  <2>4. Sealed(b, d)
    BY <2>1, <2>2, <2>3 DEF Sealed, HeldBy
  <2> QED  BY <1>1, <2>4, SealedTransitive
<1> QED  BY <1>3, <1>4, <1>5 DEF Renew

LEMMA ReleaseSeals ==
    ASSUME IInv, NEW t \in Tokens, NEW l \in Leases, NEW late \in Times,
           Release(t, l, late)
    PROVE  Sealed(broker, broker')
<1> DEFINE b == ClearExpiredLeases(Pruned, {t}, late)
           c == [b EXCEPT !.leases[l] = NoLease]
<1>1. late \in Nat /\ (broker' = b \/ broker' = TrimTombstones(c))
  BY LaterIsNat DEF Release
<1>2. Good(Pruned) /\ Sealed(broker, Pruned)
  BY PrunedGood, PrunedSeals
<1>3. Good(b) /\ Sealed(Pruned, b)
  BY <1>1, <1>2, ClearExpiredLeasesGood, ClearExpiredLeasesSeals DEF Good
<1> HIDE DEF b
<1>4. /\ c \in Broker /\ c.records = b.records /\ c.epochs = b.epochs
      /\ \A k \in Leases : c.leases[k] = b.leases[k] \/ c.leases[k] = NoLease
  BY <1>3 DEF Good, Broker, NoLease, LeaseEntry
<1> HIDE DEF c
<1>5. Sealed(b, c) /\ Sealed(c, TrimTombstones(c))
  BY <1>4, FewerLeasesSeals, TrimTombstonesSeals
<1>6. Sealed(broker, b) /\ Sealed(b, TrimTombstones(c))
  BY <1>2, <1>3, <1>5, SealedTransitive
<1> QED  BY <1>1, <1>6, SealedTransitive

LEMMA BeginCompletionSeals ==
    ASSUME IInv, NEW t \in Tokens, NEW late \in Times, BeginCompletion(t, late)
    PROVE  Sealed(broker, broker')
<1> DEFINE b == ClearExpiredLeases(Pruned, {t}, late)
           d == broker'
<1>1. /\ Pruned.records[t].state = "active" /\ late \in Nat
      /\ d = [b EXCEPT !.records[t].state = "completing",
                       !.records[t].fence = nextFence,
                       !.fenceOwner[nextFence] = t]
  BY LaterIsNat DEF BeginCompletion
<1>2. Good(Pruned) /\ Sealed(broker, Pruned)
  BY PrunedGood, PrunedSeals
<1>3. Good(b) /\ Sealed(Pruned, b) /\ b.records = Pruned.records
  BY <1>1, <1>2, ClearExpiredLeasesGood, ClearExpiredLeasesSeals DEF Good
<1> HIDE DEF b
<1>4. b.records[t] \in Record
  BY <1>1, <1>3, LiveRecord DEF Good, Live, LiveStates
<1> DEFINE new == [b.records[t] EXCEPT !.state = "completing", !.fence = nextFence]
<1>5. /\ d.records = [b.records EXCEPT ![t] = new]
      /\ d.leases = b.leases /\ d.epochs = b.epochs
  BY <1>1, <1>3 DEF Good, Broker
<1>6. new.state = "completing"
  BY <1>4 DEF Record
<1> HIDE DEF new
<1>7. \A u \in Tokens : d.records[u].state = "completed" => b.records[u].state = "completed"
  BY <1>3, <1>5, <1>6 DEF Good, Broker
<1>8. Drains(b, d)
  <2>1. Live(b, t)
    BY <1>1, <1>3 DEF Live, LiveStates
  <2>2. \A u \in Tokens : u # t => d.records[u] = b.records[u]
    BY <1>3, <1>5 DEF Good, Broker
  <2> QED  BY <1>5, <2>1, <2>2 DEF Drains, HeldBy, Live
<1>9. Sealed(b, d)
  BY <1>5, <1>7, <1>8 DEF Sealed, HeldBy
<1> QED  BY <1>2, <1>3, <1>9, SealedTransitive

LEMMA TrimmedRecords ==
    ASSUME NEW b \in Broker
    PROVE  /\ TrimTombstones(b).leases = b.leases
           /\ \A u \in Tokens : HeldBy(TrimTombstones(b), u) # {} =>
                 TrimTombstones(b).records[u] = b.records[u]
BY DEF TrimTombstones, Forget, Evicted, Drained, HeldBy, Broker

(* A turn completes when it holds nothing any more.                        *)
LEMMA CompleteSteps ==
    ASSUME IInv, NEW f \in Fences, NEW late \in Times, Complete(f, late)
    PROVE  SealStep /\ ForwardStep /\ DrainStep
<1> DEFINE t == broker.fenceOwner[f]
           b == ClearExpiredLeases(Pruned, {t}, late)
           c == [b EXCEPT !.records[t].state = "completed",
                          !.records[t].terminalAt = late,
                          !.records[t].fence = NoFence,
                          !.fenceOwner[f] = NoToken]
           d == broker'
<1>1. /\ t # NoToken /\ late \in Nat
      /\ b.records[t].state = "completing"
      /\ d = b \/ (HeldBy(b, t) = {} /\ d = TrimTombstones(c))
  BY LaterIsNat DEF Complete
<1>2. t \in Tokens
  BY <1>1 DEF IInv, Good, Broker
<1>3. Good(Pruned) /\ Sealed(broker, Pruned)
  BY PrunedGood, PrunedSeals
<1>4. Good(b) /\ Sealed(Pruned, b)
  BY <1>1, <1>3, ClearExpiredLeasesGood, ClearExpiredLeasesSeals DEF Good
<1>5. Sealed(broker, b)
  BY <1>3, <1>4, SealedTransitive
<1> HIDE DEF b, t
<1>6. CASE d = b
  BY <1>5, <1>6, SealedSteps
<1>7. CASE HeldBy(b, t) = {} /\ d = TrimTombstones(c)
  <2>1. /\ c.leases = b.leases /\ c.epochs = b.epochs
        /\ \A u \in Tokens : u # t => c.records[u] = b.records[u]
    BY <1>4 DEF Good, Broker
  <2>2. c \in Broker
    <3>1. b.records[t] \in Record
      BY <1>1, <1>2, <1>4, LiveRecord DEF Good, Live, LiveStates
    <3>2. [b.records[t] EXCEPT !.state = "completed", !.terminalAt = late,
                               !.fence = NoFence] \in Record
      BY <1>1, <3>1 DEF Record, TombstoneStates
    <3> QED  BY <1>4, <3>2 DEF Good, Broker
  <2> HIDE DEF c
  <2>3. /\ Sealed(c, d)
        /\ \A u \in Tokens : HeldBy(d, u) = HeldBy(c, u)
    BY <1>7, <2>2, TrimTombstonesSeals
  <2>4. \A u \in Tokens : HeldBy(d, u) = HeldBy(b, u)
    BY <2>1, <2>3 DEF HeldBy
  <2>5. \A u \in Tokens : u # t /\ d.records[u].state = "completed"
                             => b.records[u].state = "completed"
    BY <2>1, <2>3 DEF Sealed
  <2>6. SealStep
    BY <1>5, <1>7, <2>4, <2>5 DEF SealStep, Sealed
  <2>7. d.epochs = broker.epochs
    BY <1>5, <2>1, <2>3 DEF Sealed
  <2>8. DrainStep
    <3>1. ~Tombstone(broker, t)
      BY <1>2 DEF t, IInv, Good, FencesCurrent, Tombstone, TombstoneStates
    <3>2. \A u \in Tokens : u # t => c.records[u] = b.records[u]
      BY <2>1
    <3>3. \A u \in Tokens : HeldBy(d, u) # {} => d.records[u] = c.records[u]
      BY <1>7, <2>2, TrimmedRecords
    <3>4. d.leases = b.leases
      BY <1>7, <2>1, <2>2, TrimmedRecords
    <3> QED  BY <1>2, <1>5, <3>1, <3>2, <3>3, <3>4, OtherTurnsDrain
  <2> QED  BY <2>6, <2>7, <2>8, SameEpochs
<1> QED  BY <1>1, <1>6, <1>7

LEMMA AbortCompletionSeals ==
    ASSUME IInv, NEW f \in Fences, AbortCompletion(f)
    PROVE  Sealed(broker, broker')
<1> DEFINE t == broker.fenceOwner[f]
           b == Pruned
           d == broker'
<1>1. /\ t # NoToken /\ b.records[t].state = "completing"
      /\ d = [b EXCEPT !.records[t].state = "active",
                       !.records[t].fence = NoFence,
                       !.fenceOwner[f] = NoToken]
  BY DEF AbortCompletion
<1>2. t \in Tokens
  BY <1>1 DEF IInv, Good, Broker
<1>3. Good(b) /\ Sealed(broker, b)
  BY PrunedGood, PrunedSeals
<1> HIDE DEF b, t
<1>4. b.records[t] \in Record
  BY <1>1, <1>2, <1>3, LiveRecord DEF Good, Live, LiveStates
<1> DEFINE new == [b.records[t] EXCEPT !.state = "active", !.fence = NoFence]
<1>5. /\ d.records = [b.records EXCEPT ![t] = new]
      /\ d.leases = b.leases /\ d.epochs = b.epochs
  BY <1>1, <1>3 DEF Good, Broker
<1>6. new.state = "active"
  BY <1>4 DEF Record
<1> HIDE DEF new
<1>7. \A u \in Tokens : d.records[u].state = "completed" => b.records[u].state = "completed"
  BY <1>3, <1>5, <1>6 DEF Good, Broker
<1>8. Drains(b, d)
  <2>1. Live(b, t)
    BY <1>1, <1>3 DEF Live, LiveStates
  <2>2. \A u \in Tokens : u # t => d.records[u] = b.records[u]
    BY <1>3, <1>5 DEF Good, Broker
  <2> QED  BY <1>5, <2>1, <2>2 DEF Drains, HeldBy, Live
<1>9. Sealed(b, d)
  BY <1>5, <1>7, <1>8 DEF Sealed, HeldBy
<1> QED  BY <1>3, <1>9, SealedTransitive

(* A session's epochs are forgotten together with its live turns.          *)
LEMMA RevokeSessionSteps ==
    ASSUME IInv, NEW x \in Locals, RevokeSession(x)
    PROVE  SealStep /\ ForwardStep /\ DrainStep
<1> DEFINE T == LiveForLocal(Pruned, x)
           b == RevokeAll(Pruned, T)
           d == broker'
<1>1. d = [b EXCEPT !.epochs = [s \in Sessions |->
                 IF s[2] = x THEN NoEpoch ELSE b.epochs[s]]]
  BY DEF RevokeSession
<1>2. T \in SUBSET Tokens /\ (\A t \in T : Live(Pruned, t)) /\ now \in Nat
  BY DEF LiveForLocal, IInv
<1>3. Sealed(broker, b)
  BY <1>2, EndTurnsSeals DEF RevokeAll, TombstoneStates
<1>4. Good(b) /\ Shrinks(Pruned, b) /\ \A t \in T : ~Live(b, t)
  BY <1>2, PrunedGood, RevokeAllGood DEF RevokeAll, TombstoneStates
<1>5. \A t \in Tokens : Live(b, t) => Session(b, t)[2] # x
  <2> SUFFICES ASSUME NEW t \in Tokens, Live(b, t), Session(b, t)[2] = x
               PROVE  FALSE
    OBVIOUS
  <2>1. b.records[t] = Pruned.records[t]
    BY <1>4 DEF Shrinks
  <2>2. t \in T
    BY <2>1 DEF LiveForLocal, Live, Session
  <2> QED  BY <2>2, <1>4
<1> HIDE DEF b, T
<1>6. /\ d.records = b.records /\ d.leases = b.leases
      /\ d.epochs = [s \in Sessions |-> IF s[2] = x THEN NoEpoch ELSE b.epochs[s]]
  BY <1>1, <1>4 DEF Good, Broker
<1>7. SealStep
  <2>1. \A t \in Tokens : HeldBy(d, t) = HeldBy(b, t)
    BY <1>6 DEF HeldBy
  <2> QED  BY <1>3, <1>6, <2>1 DEF SealStep, Sealed
<1>8. ForwardStep
  <2> SUFFICES ASSUME NEW s \in Sessions, broker.epochs[s] # NoEpoch
               PROVE  \/ d.epochs[s] = NoEpoch /\ LiveInSession(d, s) = {}
                      \/ /\ d.epochs[s] # NoEpoch
                         /\ d.epochs[s][1] >= broker.epochs[s][1]
                         /\ d.epochs[s][2] >= broker.epochs[s][2]
    BY DEF ForwardStep
  <2>1. CASE s[2] = x
    <3>1. LiveInSession(d, s) = {}
      BY <1>5, <1>6, <2>1 DEF LiveInSession, Live, Session
    <3> QED  BY <1>6, <2>1, <3>1
  <2>2. CASE s[2] # x
    <3>1. d.epochs[s] = broker.epochs[s]
      BY <1>3, <1>6, <2>2 DEF Sealed
    <3>2. broker.epochs[s] \in Epochs
      BY DEF IInv, Good, Broker
    <3> QED  BY <3>1, <3>2, EpochPairs
  <2> QED  BY <2>1, <2>2
<1>9. DrainStep
  <2>1. \A t \in Tokens : Tombstone(broker, t) => ~Live(broker, t)
    BY DEF Tombstone, TombstoneStates, Live, LiveStates
  <2> QED  BY <1>3, <1>6, <2>1 DEF DrainStep, Sealed, Drains, HeldBy
<1> QED  BY <1>7, <1>8, <1>9

LEMMA RestartSteps ==
    ASSUME Restart
    PROVE  SealStep /\ ForwardStep /\ DrainStep
<1>1. /\ \A t \in Tokens : HeldBy(broker', t) = {}
      /\ \A s \in Sessions : broker'.epochs[s] = NoEpoch
      /\ \A t \in Tokens : ~Live(broker', t)
  BY DEF Restart, EmptyBroker, HeldBy, NoLease, NoToken, Tokens, Live, LiveStates, Absent
<1>2. DrainStep
  BY DEF Restart, DrainStep
<1> QED  BY <1>1, <1>2 DEF SealStep, ForwardStep, LiveInSession

LEMMA PromisedSteps ==
    ASSUME IInv, GatewayNext
    PROVE  SealStep /\ ForwardStep /\ DrainStep
<1>1. CASE Observe
  BY <1>1, PrunedSeals, SealedSteps DEF Observe
<1>2. CASE Restart
  BY <1>2, RestartSteps
<1>3. CASE Tick
  <2>1. Sealed(broker, broker')
    BY <1>3 DEF Tick, Sealed, Drains
  <2> QED  BY <2>1, SealedSteps
<1>4. CASE \E s \in Sessions, q \in Requests, e \in Epochs, ttl \in CapabilityTtls :
              IssueReplacingSession(s, q, e, ttl)
  BY <1>4, IssueSteps
<1>5. CASE \E s \in Sessions, q \in Requests, t \in Tokens, at \in Times :
              KeepAliveRequest(s, q, t, at)
  BY <1>5, KeepAliveSeals, SealedSteps
<1>6. CASE \E t \in Tokens, ttl \in LeaseTtls, late \in Times : Claim(t, ttl, late)
  BY <1>6, ClaimSteps
<1>7. CASE \E t \in Tokens, l \in Leases, ttl \in LeaseTtls, late \in Times :
              Renew(t, l, ttl, late)
  BY <1>7, RenewSeals, SealedSteps
<1>8. CASE \E t \in Tokens, l \in Leases, late \in Times : Release(t, l, late)
  BY <1>8, ReleaseSeals, SealedSteps
<1>9. CASE \E t \in Tokens, late \in Times : BeginCompletion(t, late)
  BY <1>9, BeginCompletionSeals, SealedSteps
<1>10. CASE \E f \in Fences, late \in Times : Complete(f, late)
  BY <1>10, CompleteSteps
<1>11. CASE \E f \in Fences : AbortCompletion(f)
  BY <1>11, AbortCompletionSeals, SealedSteps
<1>12. CASE \E t \in Tokens, late \in Times : Cancel(t, late) \/ Revoke(t, late)
  <2> SUFFICES ASSUME NEW t \in Tokens, NEW late \in Times, Cancel(t, late) \/ Revoke(t, late)
               PROVE  SealStep /\ ForwardStep /\ DrainStep
    BY <1>12
  <2>1. late \in Nat /\ {t} \in SUBSET Tokens /\ \A u \in {t} : Live(Pruned, u)
    BY LaterIsNat DEF Cancel, Revoke
  <2>2. Sealed(broker, broker')
    BY <2>1, EndTurnsSeals DEF Cancel, Revoke, TombstoneStates
  <2> QED  BY <2>2, SealedSteps
<1>13. now \in Nat /\ "revoked" \in TombstoneStates \ {"completed"}
  BY DEF IInv, TombstoneStates
<1>14. CASE \E bind \in Binding : RevokeBinding(bind)
  BY <1>13, <1>14, EndTurnsSeals, SealedSteps DEF RevokeBinding, RevokeAll, LiveForBinding
<1>15. CASE \E x \in Locals, q \in Requests : RevokeRequest(x, q)
  BY <1>13, <1>15, EndTurnsSeals, SealedSteps
     DEF RevokeRequest, RevokeAll, LiveForRequest, LiveForLocal
<1>16. CASE \E x \in Locals : RevokeSession(x)
  BY <1>16, RevokeSessionSteps
<1>17. CASE \E r \in Registrations : RevokeRegistration(r)
  BY <1>13, <1>17, EndTurnsSeals, SealedSteps DEF RevokeRegistration, RevokeAll, LiveForRegistration
<1> QED
  BY <1>1, <1>2, <1>3, <1>4, <1>5, <1>6, <1>7, <1>8, <1>9, <1>10, <1>11, <1>12, <1>14,
     <1>15, <1>16, <1>17 DEF GatewayNext

(* No call joins a turn whose completion is pending, nor overtakes what    *)
(* its fence publishes, and a session's epoch never goes back while one of *)
(* its turns lives.                                                        *)
THEOREM SessionStepsTheorem == Spec => SessionSteps
<1>1. IInv /\ [GatewayNext]_vars => [SealStep]_vars /\ [ForwardStep]_vars
  BY PromisedSteps
<1> QED
  BY <1>1, Invariant, PTL DEF Spec, SessionSteps, CompletionSealed, EpochForward,
     SealStep, ForwardStep

(* The work of a terminal turn only drains, whoever then renews, claims or *)
(* revokes what.                                                           *)
THEOREM DrainTheorem == Spec => DrainOnly
<1>1. IInv /\ [GatewayNext]_vars => [DrainStep]_vars
  BY PromisedSteps
<1> QED
  BY <1>1, Invariant, PTL DEF Spec, DrainOnly, DrainStep
=============================================================================
