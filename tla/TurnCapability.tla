--------------------------- MODULE TurnCapability ---------------------------
(***************************************************************************)
(* The in-memory TurnCapabilityBroker of one machine gateway process: it   *)
(* issues turn capabilities (CONTEXT_ID tokens), grants activity leases to *)
(* the MCP calls that use them, fences the completion of a turn and        *)
(* revokes, expires and finally forgets capabilities.                      *)
(*                                                                         *)
(* The whole broker is one value: every handler of the source is a         *)
(* composition of the same private helpers (prune, terminate,              *)
(* trimTombstones, clearExpiredLeases), which are operators on that value  *)
(* here.  Node runs a handler without interruption, so a handler is one    *)
(* action; the wall clock may move between two Date.now() readings of one  *)
(* handler, which the parameter "late" of the actions stands for.          *)
(*                                                                         *)
(* Secrets are random and never repeat: the n-th token, lease and fence    *)
(* created are the numbers n, which also gives the insertion order of the  *)
(* records map.  A binding keeps what the broker compares: the session     *)
(* (registration and local session; one workspace and Project), the        *)
(* control request, the compaction epoch and the page generation.          *)
(***************************************************************************)
EXTENDS Integers, FiniteSets

CONSTANTS
    Registrations,   \* registration ids of the one workspace
    Locals,          \* local session ids
    Requests,        \* control request ids
    Epochs,          \* the <<compactionEpoch, generation>> pairs issued
    CapabilityTtls,  \* ttlMs of issued capabilities
    LeaseTtls,       \* leaseTtlMs of claims and renewals
    ObservationAge,  \* how old a keep-alive observation may be (60 s)
    ObservationSkew, \* how far in the future it may be (5 s)
    MaxTombstones,   \* drained terminal records retained
    MaxTime, MaxTokens, MaxLeases, MaxFences   \* bounds of the model

ASSUME BrokerAssumption ==
    /\ Epochs \subseteq Nat \X Nat
    /\ CapabilityTtls \subseteq Nat \ {0}
    /\ LeaseTtls \subseteq Nat \ {0}
    /\ ObservationAge \in Nat /\ ObservationSkew \in Nat /\ MaxTombstones \in Nat
    /\ MaxTime \in Nat /\ MaxTokens \in Nat
    /\ MaxLeases \in Nat /\ MaxFences \in Nat

Sessions == Registrations \X Locals
Tokens == 1..MaxTokens
Leases == 1..MaxLeases
Fences == 1..MaxFences
NoToken == 0
NoFence == 0
NoEpoch == <<>>

LiveStates == {"issued", "active", "completing"}
TombstoneStates == {"completed", "cancelled", "revoked", "expired"}

Binding == [session: Sessions, request: Requests, epoch: Epochs]
Absent == [state |-> "absent", binding |-> <<>>, ttl |-> 0, expiresAt |-> 0,
           terminalAt |-> 0, fence |-> NoFence]
Record == [state: LiveStates \cup TombstoneStates, binding: Binding,
           ttl: CapabilityTtls, expiresAt: Nat, terminalAt: Nat,
           fence: Fences \cup {NoFence}]

(* A lease is an entry of its holder's leases map *)
LeaseEntry == [holder: Tokens \cup {NoToken}, deadline: Nat]
NoLease == [holder |-> NoToken, deadline |-> 0]

(* The broker: the records map, the leases of all records, the             *)
(* completionFences map and the sessionEpochs map.                         *)
Broker == [records: [Tokens -> Record \cup {Absent}],
           leases: [Leases -> LeaseEntry],
           fenceOwner: [Fences -> Tokens \cup {NoToken}],
           epochs: [Sessions -> Epochs \cup {NoEpoch}]]

EmptyBroker == [records |-> [t \in Tokens |-> Absent],
                leases |-> [l \in Leases |-> NoLease],
                fenceOwner |-> [f \in Fences |-> NoToken],
                epochs |-> [s \in Sessions |-> NoEpoch]]

VARIABLES
    broker,          \* the broker of the current gateway process
    now,             \* Date.now()
    nextToken, nextLease, nextFence   \* the next secrets drawn

vars == <<broker, now, nextToken, nextLease, nextFence>>

-----------------------------------------------------------------------------
(* Reading a broker b *)

Live(b, t) == b.records[t].state \in LiveStates
Tombstone(b, t) == b.records[t].state \in TombstoneStates
HeldBy(b, t) == {l \in Leases : b.leases[l].holder = t}
Session(b, t) == b.records[t].binding.session
Drained(b) == {t \in Tokens : Tombstone(b, t) /\ HeldBy(b, t) = {}}

LiveInSessionNotCompleting(b, s) ==      \* fault: completing turns missed
    {t \in Tokens : /\ b.records[t].state \in {"issued", "active"}
                    /\ Session(b, t) = s}

LiveInSession(b, s) == {t \in Tokens : Live(b, t) /\ Session(b, t) = s}
LiveForLocal(b, x) == {t \in Tokens : Live(b, t) /\ Session(b, t)[2] = x}
LiveForRegistration(b, r) ==
    {t \in Tokens : Live(b, t) /\ Session(b, t)[1] = r}
LiveForRequest(b, x, q) ==
    {t \in LiveForLocal(b, x) : b.records[t].binding.request = q}
LiveForBinding(b, bind) ==
    {t \in Tokens : Live(b, t) /\ b.records[t].binding = bind}

FreshEpochByGeneration(b, s, e) ==    \* fault: compaction epoch not compared
    b.epochs[s] # NoEpoch => e[2] >= b.epochs[s][2]

(* assertFreshSessionEpoch: neither component may be below the recorded one *)
FreshEpoch(b, s, e) ==
    b.epochs[s] # NoEpoch => e[1] >= b.epochs[s][1] /\ e[2] >= b.epochs[s][2]

NoActiveSessionLeasesOfLiveTurns(b, s) ==      \* fault: tombstones skipped
    \A t \in Tokens : HeldBy(b, t) # {} /\ Live(b, t) => Session(b, t) # s

NoActiveSessionLeases(b, s) ==
    \A t \in Tokens : HeldBy(b, t) # {} => Session(b, t) # s

-----------------------------------------------------------------------------
(* The private helpers, as operators from a broker to a broker *)

TerminateKeepingFence(b, T, state, at) ==      \* fault: fence not consumed
    [b EXCEPT !.records = [t \in Tokens |->
       IF t \in T
       THEN [b.records[t] EXCEPT !.state = state, !.terminalAt = at]
       ELSE b.records[t]]]

(* terminate for every token of T: a pending completion fence is consumed, *)
(* the leases are kept: they drain.                                        *)
Terminate(b, T, state, at) ==
    [b EXCEPT
       !.records = [t \in Tokens |->
          IF t \in T
          THEN [b.records[t] EXCEPT !.state = state, !.terminalAt = at,
                                    !.fence = NoFence]
          ELSE b.records[t]],
       !.fenceOwner = [f \in Fences |->
          IF b.fenceOwner[f] \in T THEN NoToken ELSE b.fenceOwner[f]]]

(* clearExpiredLeases for the records of every token of T *)
ClearExpiredLeases(b, T, at) ==
    [b EXCEPT !.leases = [l \in Leases |->
       IF b.leases[l].holder \in T /\ b.leases[l].deadline <= at
       THEN NoLease ELSE b.leases[l]]]

(* Drop the records of E (none of them holds a lease) *)
Forget(b, E) ==
    [b EXCEPT !.records = [t \in Tokens |->
       IF t \in E THEN Absent ELSE b.records[t]]]

(* trimTombstones keeps the MaxTombstones drained records that became      *)
(* terminal last; the sort is stable over the insertion order.             *)
Newer(b, u, t) ==
    \/ b.records[u].terminalAt > b.records[t].terminalAt
    \/ b.records[u].terminalAt = b.records[t].terminalAt /\ u > t

Evicted(b) ==
    {t \in Drained(b) :
       Cardinality({u \in Drained(b) : Newer(b, u, t)}) >= MaxTombstones}

TrimTombstones(b) == Forget(b, Evicted(b))

Overdue(b, at) == {t \in Tokens : Live(b, t) /\ at >= b.records[t].expiresAt}

PruneLiveOnly(b, at) ==      \* fault: leases of terminal turns not swept
    TrimTombstones(
      ClearExpiredLeases(Terminate(b, Overdue(b, at), "expired", at),
                         {t \in Tokens : Live(b, t)}, at))

Prune(b, at) ==
    TrimTombstones(
      ClearExpiredLeases(Terminate(b, Overdue(b, at), "expired", at), Tokens, at))

RevokeAll(b, T) == TrimTombstones(Terminate(b, T, "revoked", now))

AddRecord(b, bind, ttl) ==
    [b EXCEPT !.records[nextToken] =
       [state |-> "issued", binding |-> bind, ttl |-> ttl,
        expiresAt |-> now + ttl, terminalAt |-> 0, fence |-> NoFence]]

Lesser(i, j) == IF i < j THEN i ELSE j
Greater(i, j) == IF i < j THEN j ELSE i

UncappedLeaseEnd(b, t, ttl, at) == at + ttl      \* fault: no cap

(* A lease never outlives its capability *)
LeaseEnd(b, t, ttl, at) == Lesser(at + ttl, b.records[t].expiresAt)

-----------------------------------------------------------------------------
(* The handlers.  Each begins with prune at the first clock reading; a call *)
(* that then throws, or only reads, changes nothing else: that is Observe.  *)

Init ==
    /\ broker = EmptyBroker
    /\ now = 0
    /\ nextToken = 1 /\ nextLease = 1 /\ nextFence = 1

Pruned == Prune(broker, now)

(* A second Date.now() reading of the same handler *)
Later(late) == late \in {now, now + 1} /\ late <= MaxTime

(* status, stats, hasLiveRequest, assertLive, validateLease and every call *)
(* that is refused after its prune.                                        *)
Observe ==
    /\ broker' = Pruned
    /\ UNCHANGED <<now, nextToken, nextLease, nextFence>>

(* issue: no caller in the gateway, which always replaces the session turn *)
Issue(s, q, e, ttl) ==
    /\ nextToken \in Tokens /\ now + ttl <= MaxTime
    /\ broker' = AddRecord(Pruned, [session |-> s, request |-> q, epoch |-> e], ttl)
    /\ nextToken' = nextToken + 1
    /\ UNCHANGED <<now, nextLease, nextFence>>

IssueReplacingSession(s, q, e, ttl) ==
    /\ nextToken \in Tokens /\ now + ttl <= MaxTime
    /\ FreshEpoch(broker, s, e)
    /\ NoActiveSessionLeases(Pruned, s)
    /\ LET superseded == RevokeAll(Pruned, LiveInSession(Pruned, s))
           bind == [session |-> s, request |-> q, epoch |-> e]
       IN broker' = [AddRecord(superseded, bind, ttl) EXCEPT !.epochs[s] = e]
    /\ nextToken' = nextToken + 1
    /\ UNCHANGED <<now, nextLease, nextFence>>

KeepAliveFromObservation(s, q, t, observedAt) ==   \* fault: future time kept
    /\ observedAt >= now - ObservationAge /\ observedAt <= now + ObservationSkew
    /\ LET b == Pruned
       IN /\ Live(b, t) /\ b.records[t].binding.request = q /\ Session(b, t) = s
          /\ broker' = [b EXCEPT !.records[t].expiresAt =
                           Greater(@, observedAt + b.records[t].ttl)]
    /\ UNCHANGED <<now, nextToken, nextLease, nextFence>>

(* keepAliveRequest names a request and a page generation; the capability  *)
(* it finds must be unique.                                                *)
KeepAliveRequest(s, q, t, observedAt) ==
    /\ observedAt >= now - ObservationAge /\ observedAt <= now + ObservationSkew
    /\ LET b == Pruned
           record == b.records[t]
           match == {u \in LiveInSession(b, s) :
                       /\ b.records[u].binding.request = q
                       /\ b.records[u].binding.epoch[2] = record.binding.epoch[2]}
           extended == Lesser(observedAt, now) + record.ttl
       IN /\ Live(b, t) /\ match = {t}
          /\ FreshEpoch(b, s, record.binding.epoch)
          /\ record.state # "completing"
          /\ extended <= MaxTime
          /\ broker' = [b EXCEPT !.records[t].expiresAt = Greater(@, extended)]
    /\ UNCHANGED <<now, nextToken, nextLease, nextFence>>

ClaimWhileCompleting(t, ttl, late) ==      \* fault: completing turns claimable
    /\ late = now
    /\ Live(Pruned, t)
    /\ nextLease \in Leases
    /\ broker' = [Pruned EXCEPT
         !.records[t].state = IF @ = "issued" THEN "active" ELSE @,
         !.leases[nextLease] =
            [holder |-> t, deadline |-> LeaseEnd(Pruned, t, ttl, late)]]
    /\ nextLease' = nextLease + 1
    /\ UNCHANGED <<now, nextToken, nextFence>>

(* claim with the exact binding and granted scopes.  The capability may    *)
(* run out between the prune and the second clock reading.                 *)
Claim(t, ttl, late) ==
    /\ Later(late)
    /\ Pruned.records[t].state \in {"issued", "active"}
    /\ LET b == Pruned
           end == LeaseEnd(b, t, ttl, late)
       IN \/ /\ end <= late
             /\ broker' = Terminate(b, {t}, "expired", late)
             /\ UNCHANGED nextLease
          \/ /\ end > late
             /\ nextLease \in Leases
             /\ broker' = [b EXCEPT !.records[t].state = "active",
                                    !.leases[nextLease] =
                                       [holder |-> t, deadline |-> end]]
             /\ nextLease' = nextLease + 1
    /\ now' = late
    /\ UNCHANGED <<nextToken, nextFence>>

RenewTerminal(t, l, ttl, late) ==      \* fault: resolves terminal turns too
    /\ late = now
    /\ l \in HeldBy(Pruned, t)
    /\ broker' = [Pruned EXCEPT !.leases[l].deadline =
                    LeaseEnd(Pruned, t, ttl, late)]
    /\ UNCHANGED <<now, nextToken, nextLease, nextFence>>

Renew(t, l, ttl, late) ==
    /\ Later(late)
    /\ Pruned.records[t].state \in {"active", "completing"}
    /\ l \in HeldBy(Pruned, t)
    /\ LET b == Pruned
           end == LeaseEnd(b, t, ttl, late)
       IN \/ /\ b.leases[l].deadline <= late          \* assertLease: LEASE_EXPIRED
             /\ broker' = ClearExpiredLeases(b, {t}, late)
          \/ /\ b.leases[l].deadline > late /\ end <= late
             /\ broker' = Terminate(b, {t}, "expired", late)
          \/ /\ b.leases[l].deadline > late /\ end > late
             /\ broker' = [b EXCEPT !.leases[l].deadline = end]
    /\ now' = late
    /\ UNCHANGED <<nextToken, nextLease, nextFence>>

(* release also accepts terminal turns.  A lease that ran out or is        *)
(* unknown returns before trimTombstones.                                  *)
Release(t, l, late) ==
    /\ Later(late)
    /\ Pruned.records[t] # Absent
    /\ LET b == ClearExpiredLeases(Pruned, {t}, late)
       IN broker' = IF l \in HeldBy(b, t)
                    THEN TrimTombstones([b EXCEPT !.leases[l] = NoLease])
                    ELSE b
    /\ now' = late
    /\ UNCHANGED <<nextToken, nextLease, nextFence>>

BeginCompletion(t, late) ==
    /\ Later(late)
    /\ nextFence \in Fences
    /\ Pruned.records[t].state = "active"
    /\ LET b == ClearExpiredLeases(Pruned, {t}, late)
       IN broker' = [b EXCEPT !.records[t].state = "completing",
                              !.records[t].fence = nextFence,
                              !.fenceOwner[nextFence] = t]
    /\ nextFence' = nextFence + 1
    /\ now' = late
    /\ UNCHANGED <<nextToken, nextLease>>

(* complete looks the fence up before the prune and checks only the state  *)
(* of the record afterwards.  Leases that remain refuse it.                *)
Complete(f, late) ==
    /\ Later(late)
    /\ broker.fenceOwner[f] # NoToken
    /\ LET t == broker.fenceOwner[f]
           b == ClearExpiredLeases(Pruned, {t}, late)
       IN /\ b.records[t].state = "completing"
          /\ broker' =
               IF HeldBy(b, t) # {} THEN b
               ELSE TrimTombstones(
                      [b EXCEPT !.records[t].state = "completed",
                                !.records[t].terminalAt = late,
                                !.records[t].fence = NoFence,
                                !.fenceOwner[f] = NoToken])
    /\ now' = late
    /\ UNCHANGED <<nextToken, nextLease, nextFence>>

AbortCompletion(f) ==
    /\ broker.fenceOwner[f] # NoToken
    /\ LET t == broker.fenceOwner[f]
           b == Pruned
       IN /\ b.records[t].state = "completing" /\ b.records[t].fence = f
          /\ broker' = [b EXCEPT !.records[t].state = "active",
                                 !.records[t].fence = NoFence,
                                 !.fenceOwner[f] = NoToken]
    /\ UNCHANGED <<now, nextToken, nextLease, nextFence>>

Cancel(t, late) ==
    /\ Later(late)
    /\ Live(Pruned, t)
    /\ broker' = TrimTombstones(Terminate(Pruned, {t}, "cancelled", late))
    /\ now' = late
    /\ UNCHANGED <<nextToken, nextLease, nextFence>>

Revoke(t, late) ==
    /\ Later(late)
    /\ Live(Pruned, t)
    /\ broker' = TrimTombstones(Terminate(Pruned, {t}, "revoked", late))
    /\ now' = late
    /\ UNCHANGED <<nextToken, nextLease, nextFence>>

RevokeBinding(bind) ==
    /\ broker' = RevokeAll(Pruned, LiveForBinding(Pruned, bind))
    /\ UNCHANGED <<now, nextToken, nextLease, nextFence>>

RevokeRequest(x, q) ==
    /\ broker' = RevokeAll(Pruned, LiveForRequest(Pruned, x, q))
    /\ UNCHANGED <<now, nextToken, nextLease, nextFence>>

RevokeSessionResettingEpochs(x) ==      \* fault: reset instead of deleted
    /\ broker' = [RevokeAll(Pruned, LiveForLocal(Pruned, x)) EXCEPT
                    !.epochs = [s \in Sessions |->
                       IF s[2] = x THEN <<0, 0>> ELSE broker.epochs[s]]]
    /\ UNCHANGED <<now, nextToken, nextLease, nextFence>>

(* revokeSession spans every registration and forgets the session epochs   *)
RevokeSession(x) ==
    /\ LET b == RevokeAll(Pruned, LiveForLocal(Pruned, x))
       IN broker' = [b EXCEPT !.epochs = [s \in Sessions |->
                       IF s[2] = x THEN NoEpoch ELSE b.epochs[s]]]
    /\ UNCHANGED <<now, nextToken, nextLease, nextFence>>

RevokeRegistration(r) ==
    /\ broker' = RevokeAll(Pruned, LiveForRegistration(Pruned, r))
    /\ UNCHANGED <<now, nextToken, nextLease, nextFence>>

(* The gateway process dies or is restarted: nothing of the broker is on   *)
(* disk, and the tokens of the old boot epoch resolve to no record.        *)
Restart ==
    /\ broker' = EmptyBroker
    /\ UNCHANGED <<now, nextToken, nextLease, nextFence>>

Tick ==
    /\ now < MaxTime
    /\ now' = now + 1
    /\ UNCHANGED <<broker, nextToken, nextLease, nextFence>>

Times == 0..MaxTime

GatewayNext ==
    \/ Observe \/ Restart \/ Tick
    \/ \E s \in Sessions, q \in Requests, e \in Epochs, ttl \in CapabilityTtls :
          IssueReplacingSession(s, q, e, ttl)
    \/ \E s \in Sessions, q \in Requests, t \in Tokens, at \in Times :
          KeepAliveRequest(s, q, t, at)
    \/ \E t \in Tokens, ttl \in LeaseTtls, late \in Times : Claim(t, ttl, late)
    \/ \E t \in Tokens, l \in Leases, ttl \in LeaseTtls, late \in Times :
          Renew(t, l, ttl, late)
    \/ \E t \in Tokens, l \in Leases, late \in Times : Release(t, l, late)
    \/ \E t \in Tokens, late \in Times : BeginCompletion(t, late)
    \/ \E f \in Fences, late \in Times : Complete(f, late)
    \/ \E f \in Fences : AbortCompletion(f)
    \/ \E t \in Tokens, late \in Times : Cancel(t, late)
    \/ \E t \in Tokens, late \in Times : Revoke(t, late)
    \/ \E bind \in Binding : RevokeBinding(bind)
    \/ \E x \in Locals, q \in Requests : RevokeRequest(x, q)
    \/ \E x \in Locals : RevokeSession(x)
    \/ \E r \in Registrations : RevokeRegistration(r)

(* The broker as the gateway uses it *)
Spec == Init /\ [][GatewayNext]_vars

(* The broker with its whole public interface, plain issue included *)
Next ==
    \/ GatewayNext
    \/ \E s \in Sessions, q \in Requests, e \in Epochs, ttl \in CapabilityTtls :
          Issue(s, q, e, ttl)

OpenSpec == Init /\ [][Next]_vars

(* Time passes, and the gateway keeps calling the broker (machine status,   *)
(* the next control or data call): each call prunes.                       *)
FairSpec == OpenSpec /\ WF_vars(Tick) /\ WF_vars(Observe)
-----------------------------------------------------------------------------
(* Properties *)

(* Every part of the broker has the shape the source declares.             *)
TypeOK ==
    /\ broker \in Broker
    /\ now \in Nat
    /\ nextToken \in 1..(MaxTokens + 1)
    /\ nextLease \in 1..(MaxLeases + 1)
    /\ nextFence \in 1..(MaxFences + 1)

(* One session's work belongs to one capability: two records of a session  *)
(* that are live, or whose leases are still draining, are the same record. *)
(* issueReplacingSession promises it by refusing to replace a turn whose   *)
(* calls are in flight, terminal turns included.                           *)
Occupies(b, t) == Live(b, t) \/ HeldBy(b, t) # {}

OneHolder(b) ==
    \A t, u \in Tokens :
       /\ Occupies(b, t) /\ Occupies(b, u)
       /\ Session(b, t) = Session(b, u)
       => t = u

OneHolderPerSession == OneHolder(broker)

(* No activity lease outlives the capability it was claimed with, through  *)
(* renewals, keep-alives, revocation and eviction: the record of a held    *)
(* lease is still there and its deadline is not before the lease's.        *)
LeasesWithin(b) ==
    \A t \in Tokens : \A l \in HeldBy(b, t) :
       /\ b.records[t] # Absent
       /\ b.leases[l].deadline <= b.records[t].expiresAt

LeaseWithinCapability == LeasesWithin(broker)

(* completionFences holds exactly the fences of the turns that are         *)
(* completing: complete() does not compare the record's own fence, so an   *)
(* abandoned fence left in the map could complete a later retry.           *)
FencesCurrent(b) ==
    \A f \in Fences, t \in Tokens :
       b.fenceOwner[f] = t <=>
          b.records[t].state = "completing" /\ b.records[t].fence = f

FencesAreCurrent == FencesCurrent(broker)

(* A live capability always carries the epoch the broker holds for its     *)
(* session, so that no token of an older page generation or compaction     *)
(* epoch is live beside a newer one.                                       *)
EpochsCarried(b) ==
    \A t \in Tokens : Live(b, t) =>
       b.epochs[Session(b, t)] = b.records[t].binding.epoch

LiveCarriesSessionEpoch == EpochsCarried(broker)

(* A keep-alive buys at most one capability lifetime counted from now, even *)
(* when the host's observation carries a time in the future.                *)
NoBorrowedLifetime ==
    \A t \in Tokens : Live(broker, t) =>
       broker.records[t].expiresAt <= now + broker.records[t].ttl

(* While a completion is pending no new activity joins the turn, and it     *)
(* completes only when its last lease is gone: what the fence published is  *)
(* never overtaken by a call of the same turn.                              *)
CompletionSealed ==
    [][\A t \in Tokens :
         broker.records[t].state = "completing" =>
           /\ HeldBy(broker', t) \subseteq HeldBy(broker, t)
           /\ broker'.records[t].state = "completed" => HeldBy(broker', t) = {}
      ]_vars

(* The work of a terminal turn only drains: none of its leases is renewed,  *)
(* none is added, and the record stays until the last one is gone.          *)
DrainOnly ==
    [][\A t \in Tokens :
         Tombstone(broker, t) /\ broker' # EmptyBroker =>
           /\ \A l \in HeldBy(broker', t) : broker'.leases[l] = broker.leases[l]
           /\ HeldBy(broker', t) # {} => broker'.records[t] = broker.records[t]
      ]_vars

(* The session epoch moves forward only, and is forgotten only together     *)
(* with every live capability of the session.                               *)
EpochForward ==
    [][\A s \in Sessions :
         broker.epochs[s] # NoEpoch =>
           \/ broker'.epochs[s] = NoEpoch /\ LiveInSession(broker', s) = {}
           \/ /\ broker'.epochs[s] # NoEpoch
              /\ broker'.epochs[s][1] >= broker.epochs[s][1]
              /\ broker'.epochs[s][2] >= broker.epochs[s][2]
      ]_vars

(* A terminal turn's leases always drain, so that a session whose turn was  *)
(* revoked, cancelled or expired with calls in flight can be issued a new   *)
(* turn again.                                                              *)
TerminalTurnsDrain ==
    \A t \in Tokens : Tombstone(broker, t) ~> HeldBy(broker, t) = {}

(* What no step may do to a session: let work into a turn whose completion *)
(* is pending, or take its epoch back.                                     *)
SessionSteps == CompletionSealed /\ EpochForward

(* A terminal turn loses its leases one after the other until none is left.*)
TerminalTurnsEnd == DrainOnly /\ TerminalTurnsDrain
=============================================================================
