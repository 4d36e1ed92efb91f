--------------------------- MODULE ControlRequests ---------------------------
(***************************************************************************)
(* Control requests of one workspace: the files of control/requests.ts and *)
(* the handlers of the machine gateway that open, observe, cancel, retire  *)
(* and prune them, together with the capability each request has in the    *)
(* memory of the gateway (live).                                           *)
(*                                                                         *)
(* A handler reads, decides, and then makes a sequence of changes, each an *)
(* atomic file operation.  Nothing else runs in the one gateway process    *)
(* meanwhile, but the process may die, or a file operation fail, between   *)
(* any two of them: a handler here decides the whole sequence (todo) and   *)
(* Step makes one change of it.  A handler reads the clock once.           *)
(*                                                                         *)
(* Request ids are random and never repeat: the n-th is the number n.  A   *)
(* correlation stands for task, iteration and phase.  Every request has    *)
(* an owned page, and an observation that names another page is refused    *)
(* before anything else; refusing an observation because of the state of   *)
(* the page's own lease is left to the choice of the observations.         *)
(* Legacy files and their migration are left out.                          *)
(***************************************************************************)
EXTENDS PageObservations, Sequences

CONSTANTS
    Sessions,      \* local sessions
    Correlations,  \* what a prompt can be about
    Lifetimes,     \* request lifetimes (ttlMs), also of capabilities
    Retain,        \* RETAIN_TERMINAL_MS
    MaxRequests    \* bound on the requests opened

ASSUME RequestAssumption ==
    /\ Lifetimes \subseteq Nat \ {0}
    /\ Retain \in Nat /\ MaxRequests \in Nat
    /\ "failed" \notin Results      \* the name of an outcome

Ids == 1..MaxRequests
NoRequest == [id |-> 0, session |-> None, correlation |-> None,
              createdAt |-> 0, expiresAt |-> 0]
Request == [id: Ids, session: Sessions, correlation: Correlations,
            createdAt: Times, expiresAt: Nat]

(* The cancelled/ marker ends a request: plainly, with a host failure or   *)
(* with a result.                                                          *)
NoMarker == [outcome |-> None, evidence |-> Nothing, at |-> 0]
Marker == [outcome: {"cancelled", "failed", "delivered"}, at: Times,
           evidence: Observation \cup {Nothing}
                \cup [state: {"final"}, seq: {0}, at: Times,
                      response: {None}, payload: Results]]

(* active/<session> holds a copy of the request, renewals/<id> an expiry   *)
(* later than the request's own (0: none).                                 *)
Store == [active: [Sessions -> Request \cup {NoRequest}],
          request: [Ids -> Request \cup {NoRequest}],
          renewal: [Ids -> Nat],
          observation: [Ids -> ObservationState \cup {NoState}],
          marker: [Ids -> Marker \cup {NoMarker}],
          late: [Ids -> Observation \cup {Nothing}],
          live: [Ids -> BOOLEAN]]

VARIABLES
    store,    \* the files, and the capabilities in memory
    todo,     \* the changes the running handler has still to make
    now,      \* the clock
    nextId    \* the next request id drawn

vars == <<store, todo, now, nextId>>

-----------------------------------------------------------------------------
(* Reading *)

Marked(r) == store.marker[r] # NoMarker
SessionOf(r) == store.request[r].session
Expiry(q) == IF store.renewal[q.id] # 0 THEN store.renewal[q.id] ELSE q.expiresAt
Expired(q) == now > Expiry(q)

(* terminalObservationRecords: of a result the marker keeps only its time  *)
(* and payload, of a failure the whole observation.                        *)
Evidence(o) ==
    IF o.payload \in Results THEN [o EXCEPT !.seq = 0, !.response = None] ELSE o
Outcome(o) == IF o.payload \in Results THEN "delivered" ELSE "failed"

(* hostObservedResultMatchesPageObservation: a result is shown only with   *)
(* the final observation it came from.                                     *)
ResultShown(r) ==
    /\ store.marker[r].outcome = "delivered"
    /\ store.observation[r].definitive.state = "final"
    /\ Evidence(store.observation[r].definitive) = store.marker[r].evidence

(* controlRequestSnapshot *)
Status(r) ==
    IF store.request[r] = NoRequest THEN "not_found"
    ELSE IF Marked(r) THEN "cancelled"
    ELSE IF Expired(store.request[r]) THEN "expired" ELSE "pending"

-----------------------------------------------------------------------------
(* Writing *)

W(file, key, value) == [file |-> file, key |-> key, value |-> value]

Mark(r, outcome, evidence) ==
    <<W("marker", r, [outcome |-> outcome, evidence |-> evidence, at |-> now])>>

(* clearActiveRequest: only if the pointer still names this request        *)
ClearActive(s, r) ==
    IF store.active[s].id = r THEN <<W("active", s, NoRequest)>> ELSE <<>>

Revoke(r) == <<W("live", r, FALSE)>>

(* The handler that decided todo makes its next change                     *)
Step ==
    /\ todo # <<>>
    /\ LET w == Head(todo)
       IN store' = [store EXCEPT ![w.file][w.key] = w.value]
    /\ todo' = Tail(todo)
    /\ UNCHANGED <<now, nextId>>

(* What a handler still does when a file operation fails: an open that     *)
(* cannot write the request file gives up its claim, and a handler that    *)
(* revokes a capability does so if its request turns out to be ended.      *)
AfterFailure ==
    LET w == Head(todo)
        end == todo[Len(todo)]
    IN IF w.file = "request" /\ w.value # NoRequest      \* of an open
       THEN <<W("active", w.value.session, NoRequest)>>
       ELSE IF end.file = "live" /\ Marked(end.key) THEN <<end>> ELSE <<>>

Fail ==
    /\ todo # <<>> /\ Head(todo).file # "live"
    /\ todo' = AfterFailure
    /\ UNCHANGED <<store, now, nextId>>

(* The process dies: the files stay, the capabilities are gone             *)
Crash ==
    /\ store' = [store EXCEPT !.live = [r \in Ids |-> FALSE]]
    /\ todo' = <<>>
    /\ UNCHANGED <<now, nextId>>

Tick ==
    /\ todo = <<>> /\ now < MaxTime
    /\ now' = now + 1
    /\ UNCHANGED <<store, todo, nextId>>

Decide(writes) ==
    /\ todo = <<>> /\ todo' = writes
    /\ UNCHANGED <<store, now, nextId>>

-----------------------------------------------------------------------------
(* The handlers *)

Init ==
    /\ store = [active |-> [s \in Sessions |-> NoRequest],
                request |-> [r \in Ids |-> NoRequest],
                renewal |-> [r \in Ids |-> 0],
                observation |-> [r \in Ids |-> NoState],
                marker |-> [r \in Ids |-> NoMarker],
                late |-> [r \in Ids |-> Nothing],
                live |-> [r \in Ids |-> FALSE]]
    /\ todo = <<>>
    /\ now = 0
    /\ nextId = 1

(* openControlRequest of the same prompt while it is unfinished: the       *)
(* request file is written again if a crash kept it from being written.    *)
(* Another prompt is refused until then (TURN_IN_PROGRESS).                *)
Reopen(s, c) ==
    LET a == store.active[s]
    IN /\ a # NoRequest /\ ~Marked(a.id) /\ ~Expired(a)
       /\ a.correlation = c
       /\ todo = <<>> /\ store.request[a.id] = NoRequest
       /\ store' = [store EXCEPT !.request[a.id] = a]
       /\ UNCHANGED <<todo, now, nextId>>

OpenRequestFirst(s, c, ttl, pageLost) ==      \* fault: file before the claim
    LET a == store.active[s]
        q == [id |-> nextId, session |-> s, correlation |-> c,
              createdAt |-> now, expiresAt |-> now + ttl]
    IN /\ a # NoRequest => Marked(a.id) \/ Expired(a)
       /\ nextId \in Ids /\ todo = <<>> /\ ~pageLost
       /\ todo' = <<W("request", nextId, q), W("active", s, q)>>
       /\ nextId' = nextId + 1
       /\ UNCHANGED <<store, now>>

(* openControlRequest of a new prompt: a finished request gives up the     *)
(* session, the session is claimed, and the request file follows.  If the  *)
(* page's lease can then not be renewed, the request is cancelled again.   *)
Open(s, c, ttl, pageLost) ==
    LET a == store.active[s]
        q == [id |-> nextId, session |-> s, correlation |-> c,
              createdAt |-> now, expiresAt |-> now + ttl]
    IN /\ a # NoRequest => Marked(a.id) \/ Expired(a)
       /\ nextId \in Ids /\ todo = <<>>
       /\ todo' = (IF a # NoRequest THEN <<W("active", s, NoRequest)>> ELSE <<>>)
                  \o <<W("active", s, q), W("request", nextId, q)>>
                  \o (IF pageLost
                      THEN Mark(nextId, "cancelled", Nothing)
                           \o <<W("active", s, NoRequest)>>
                      ELSE <<>>)
       /\ nextId' = nextId + 1
       /\ UNCHANGED <<store, now>>

(* issueTurn: the capability of a pending request replaces the session's   *)
IssueTurn(r) ==
    /\ todo = <<>> /\ Status(r) = "pending"
    /\ store' = [store EXCEPT !.live = [i \in Ids |->
         IF i = r THEN TRUE ELSE store.live[i] /\ SessionOf(i) # SessionOf(r)]]
    /\ UNCHANGED <<todo, now, nextId>>

(* The capability expires or is revoked with its session or registration   *)
LoseAuthority(r) ==
    /\ todo = <<>> /\ store.live[r]
    /\ store' = [store EXCEPT !.live[r] = FALSE]
    /\ UNCHANGED <<todo, now, nextId>>

(* The changes that record an event of a pending request, and its end      *)
Record(r, o) ==
    <<W("observation", r, Advance(store.observation[r], o, now))>>

Finish(r, o) ==
    Mark(r, Outcome(o), Evidence(o)) \o Record(r, o) \o ClearActive(SessionOf(r), r)

ObservedNow(r, o) == Fresh(o, now) /\ o.at >= store.request[r].createdAt

(* observeControlPage on a pending request: an event that is not final, a  *)
(* final with live authority, or a failure.  Generation is Generate.       *)
ObservePending(r, o) ==
    /\ Status(r) = "pending" /\ ObservedNow(r, o)
    /\ Follows(store.observation[r], o, now)
    /\ o.state = "final" => store.live[r]
    /\ o.state = "authority_invalid" => ~store.live[r]
    /\ o.state # "generating"
    /\ IF Terminal(o) THEN Decide(Finish(r, o) \o Revoke(r)) ELSE Decide(Record(r, o))

GenerateAnyTime(r, o, expiry) ==      \* fault: expired requests renewed too
    /\ o.state = "generating" /\ Status(r) \in {"pending", "expired"}
    /\ ObservedNow(r, o) /\ Follows(store.observation[r], o, now)
    /\ store.live[r]
    /\ expiry > now
    /\ Decide((IF expiry > Expiry(store.request[r])
               THEN <<W("renewal", r, expiry)>> ELSE <<>>) \o Record(r, o))

(* A generating response renews the capability and with it the request     *)
Generate(r, o, expiry) ==
    /\ o.state = "generating" /\ Status(r) = "pending"
    /\ ObservedNow(r, o) /\ Follows(store.observation[r], o, now)
    /\ store.live[r]
    /\ expiry > now
    /\ Decide((IF expiry > Expiry(store.request[r])
               THEN <<W("renewal", r, expiry)>> ELSE <<>>) \o Record(r, o))

FinalResult(o) == o.state = "final" /\ o.payload \in Results

(* A final without authority is kept as evidence; a request that is still  *)
(* pending then fails as having lost its authority.                        *)
AuthorityLost(o) ==
    [o EXCEPT !.state = "authority_invalid", !.response = None, !.payload = None]

KeepEvidence(r, o) ==
    IF store.late[r] = Nothing THEN <<W("late", r, o)>> ELSE <<>>

ObserveWithoutAuthority(r, o) ==
    /\ \/ Status(r) = "expired"
       \/ Status(r) = "pending" /\ ~store.live[r]
    /\ ObservedNow(r, o) /\ LateEvidence(store.observation[r], o)
    /\ store.late[r] \in {Nothing, o}
    /\ Decide(KeepEvidence(r, o)
              \o (IF Status(r) = "pending" THEN Finish(r, AuthorityLost(o)) ELSE <<>>))

(* A final result after a failure ended the request is evidence as well    *)
ObserveAfterFailure(r, o) ==
    /\ store.request[r] # NoRequest /\ store.marker[r].outcome = "failed"
    /\ FinalResult(o) /\ ObservedNow(r, o)
    /\ LateEvidence(store.observation[r], o)
    /\ store.late[r] = Nothing
    /\ Decide(KeepEvidence(r, o))

(* Events for an ended request finish what a crash left undone: the final  *)
(* of a marked result, the exact terminal event again, or any current      *)
(* event after a plain cancellation.                                       *)
ExactTerminal(r, o) ==
    /\ Terminal(o)
    /\ Evidence(o) = store.marker[r].evidence
    /\ Outcome(o) = store.marker[r].outcome
    /\ \/ Replay(store.observation[r], o)
       \/ Follows(store.observation[r], o, now)

Completion(r, o) ==
    CASE store.marker[r].outcome = "cancelled" /\ ObservedNow(r, o) ->
            ClearActive(SessionOf(r), r)
      [] store.marker[r].outcome # "cancelled" /\ ExactTerminal(r, o) ->
            (IF Replay(store.observation[r], o) THEN <<>> ELSE Record(r, o))
            \o ClearActive(SessionOf(r), r)
      [] OTHER -> <<>>

(* Also an event that is refused revokes the capability of an ended        *)
(* request, unless it is too old to be looked at.                          *)
ObserveEnded(r, o) ==
    /\ Status(r) = "cancelled"
    /\ store.late[r] # o
    /\ FinalResult(o) => store.marker[r].outcome # "failed"
    /\ \/ FinalResult(o) \/ store.marker[r].outcome = "failed" \/ ResultShown(r)
       \/ ObservedNow(r, o)
    /\ Decide(Completion(r, o) \o Revoke(r))

CancelWithoutRevoke(r) ==      \* fault: a repeated cancel does not revoke
    /\ Status(r) \in {"pending", "cancelled"}
    /\ Decide((IF Status(r) = "pending" THEN Mark(r, "cancelled", Nothing) ELSE <<>>)
              \o ClearActive(SessionOf(r), r))

(* cancelControlRequest, repeated calls included *)
Cancel(r) ==
    /\ Status(r) \in {"pending", "cancelled"}
    /\ Decide((IF Status(r) = "pending" THEN Mark(r, "cancelled", Nothing) ELSE <<>>)
              \o ClearActive(SessionOf(r), r) \o Revoke(r))

(* The changes of a handler that goes through all requests                 *)
ForEach(changes) ==
    LET upTo[n \in 0..MaxRequests] ==
          IF n = 0 THEN <<>> ELSE upTo[n - 1] \o changes[n]
    IN upTo[MaxRequests]

(* surfaceRetire: the session's capabilities are revoked, then its pending *)
(* requests cancelled and its active pointer cleared.                      *)
Retire(s) ==
    LET ofSession == {r \in Ids : SessionOf(r) = s}
    IN /\ todo = <<>>
       /\ store' = [store EXCEPT !.live =
                      [r \in Ids |-> store.live[r] /\ r \notin ofSession]]
       /\ todo' = ForEach([r \in Ids |->
                     IF r \in ofSession /\ Status(r) = "pending"
                     THEN Mark(r, "cancelled", Nothing) ELSE <<>>])
                  \o (IF store.active[s] # NoRequest
                      THEN <<W("active", s, NoRequest)>> ELSE <<>>)
       /\ UNCHANGED <<now, nextId>>

(* pruneControlRequests forgets the requests that ended long enough ago    *)
EndedAt(r) == IF Marked(r) THEN store.marker[r].at ELSE Expiry(store.request[r])

Forgotten(r) ==
    /\ Status(r) \in {"cancelled", "expired"}
    /\ now - EndedAt(r) > Retain

Remove(r) ==
    <<W("request", r, NoRequest), W("observation", r, NoState),
      W("late", r, Nothing), W("marker", r, NoMarker), W("renewal", r, 0)>>

Prune ==
    Decide(ForEach([r \in Ids |->
        IF Forgotten(r) THEN ClearActive(SessionOf(r), r) \o Remove(r) ELSE <<>>]))

Handlers(O) ==
    \/ Step \/ Fail \/ Crash \/ Tick \/ Prune
    \/ \E s \in Sessions, c \in Correlations : Reopen(s, c)
    \/ \E s \in Sessions, c \in Correlations, ttl \in Lifetimes, lost \in BOOLEAN :
          Open(s, c, ttl, lost)
    \/ \E s \in Sessions : Retire(s)
    \/ \E r \in Ids : IssueTurn(r) \/ LoseAuthority(r) \/ Cancel(r)
    \/ \E r \in Ids, o \in O :
          \/ ObservePending(r, o)
          \/ \E ttl \in Lifetimes : Generate(r, o, now + ttl)
          \/ ObserveWithoutAuthority(r, o)
          \/ ObserveAfterFailure(r, o)
          \/ ObserveEnded(r, o)

Next == Handlers(Observation)

Spec == Init /\ [][Next]_vars
-----------------------------------------------------------------------------
(* Properties *)

(* The files hold what the parsers of control/requests.ts accept.          *)
TypeOK ==
    /\ store \in Store
    /\ \A r \in Ids : store.request[r] # NoRequest => store.request[r].id = r
    /\ now \in Times
    /\ nextId \in 1..(MaxRequests + 1)

(* A session has at most one unfinished prompt, whatever a crash or a      *)
(* failed write left behind: a pending request is the one its session's    *)
(* active pointer names, so that nothing else can be opened beside it.     *)
OneUnfinished ==
    \A r \in Ids : Status(r) = "pending" => store.active[SessionOf(r)].id = r

(* A result that was marked but not yet recorded with its final            *)
(* observation can always still be delivered: the candidate it came from   *)
(* is stored, has stood long enough, and precedes the marked final, so     *)
(* that the host's exact final will be accepted again.                     *)
ResultRecoverable ==
    \A r \in Ids :
       /\ Status(r) = "cancelled"
       /\ store.marker[r].outcome = "delivered"
       /\ ~ResultShown(r)
       => LET p == store.observation[r]
              e == store.marker[r].evidence
          IN /\ p.definitive.state = "result_candidate"
             /\ p.definitive.payload = e.payload
             /\ p.definitive.at < e.at
             /\ now - p.definitiveAccepted >= Stability

(* When no handler is running, no capability of an ended request is live:  *)
(* what was cancelled, failed or delivered gives no further access.        *)
AuthorityEndsWithOutcome ==
    todo = <<>> =>
       \A r \in Ids : Status(r) = "cancelled" => ~store.live[r]

(* What docs/protocol.md says of late evidence: "wait.state:               *)
(* evidence_only, wait.delivery: none ... It cannot authorize local reads, *)
(* commit BOOT or count as a delivered result."                            *)
EvidenceIsNotDelivery ==
    \A r \in Ids :
       store.late[r] # Nothing => ~ResultShown(r)

(* What the host is told of a request (controlWaitPolicy), and the outcome *)
(* that is on disk: an implementation of ControlOutcome.                   *)
Shown(r) ==
    CASE Status(r) = "not_found" -> "absent"
      [] Status(r) # "cancelled" /\ Status(r) # "not_found" -> Status(r)
      [] Status(r) = "cancelled" ->
            IF store.marker[r].outcome = "failed" THEN "failed"
            ELSE IF ResultShown(r) THEN "delivered" ELSE "cancelled"

Committed(r) ==
    IF store.request[r] = NoRequest THEN None
    ELSE IF store.marker[r].outcome = "delivered" THEN store.marker[r].evidence.payload
    ELSE store.marker[r].outcome

Outcomes == INSTANCE ControlOutcome
    WITH shown <- [r \in Ids |-> Shown(r)],
         committed <- [r \in Ids |-> Committed(r)]

OutcomeSpec == Outcomes!Spec
=============================================================================
