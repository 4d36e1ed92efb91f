----------------------------- MODULE ToolCalls -----------------------------
(***************************************************************************)
(* The tool calls of one local session's turns, and what changes under     *)
(* them while they await: gateway/machine-gateway.ts with the wrapper of   *)
(* every tool in mcp/server.ts.                                            *)
(*                                                                         *)
(* A call claims its turn, awaits the tool's work while a timer renews its *)
(* lease, looks once more at the turn and its page, and answers.  Every    *)
(* handler of the gateway runs alone, but between the claim and the answer *)
(* the session's page may be replaced or retired, its request may end, its *)
(* turn may be replaced or completed, and its checkout may go.             *)
(*                                                                         *)
(* One session in one checkout.  The broker is TurnCapability's and the    *)
(* index of pages SurfaceOwnership's, as far as the gateway sees them: a   *)
(* turn's status, page generation and phase; the latest generation, the    *)
(* one that is leased and the one that is committed.  Leases, turns and    *)
(* requests may run out at any time.                                       *)
(***************************************************************************)
EXTENDS Naturals, FiniteSets

CONSTANTS
    Calls,                  \* the calls that may run at a time
    MaxTurns, MaxPages,     \* bounds on the turns, the pages and
    MaxRequests             \* the control requests of a session

ASSUME ToolCallsAssumption ==
    MaxTurns \in Nat /\ MaxPages \in Nat /\ MaxRequests \in Nat

VARIABLES
    page,        \* the session's page in the index
    requests,    \* its control requests, in the order they were opened
    turns,       \* its turns, in the order of issue
    held,        \* the turn that the lease of a call belongs to
    calls,       \* the calls; one that ended says if it got its result (history)
    locked,      \* controlSubmissionSessions has the session
    fences,      \* controlCompletionFences: the turn that each one completes
    registered   \* the checkout is registered, and where it was

callVars == <<page, requests, turns, held, calls, locked, fences, registered>>

Turns == 1..MaxTurns
None == 0
BootOrPlan == {"BOOT", "PLAN"}
LiveTurn == {"issued", "active", "completing"}
NoTurn == [status |-> "absent", request |-> None, generation |-> None]
NoCall == [at |-> "idle", turn |-> None, failed |-> FALSE, answered |-> FALSE]
NoRequest == [status |-> "absent", phase |-> "PLAN", generation |-> None]

ToolCallsInit ==
    /\ page = [last |-> None, leased |-> None, committed |-> None]
    /\ requests = [r \in 1..MaxRequests |-> NoRequest]
    /\ turns = [t \in Turns |-> NoTurn]
    /\ held = [k \in Calls |-> None] /\ calls = [k \in Calls |-> NoCall]
    /\ locked = FALSE /\ fences = {}
    /\ registered = TRUE

-----------------------------------------------------------------------------
(* The broker and the index, as the gateway reads them                     *)

LiveNow(t) == turns[t].status \in LiveTurn
Newest == Cardinality({t \in Turns : turns[t].status # "absent"})
Latest == Cardinality({r \in DOMAIN requests : requests[r].status # "absent"})

Pending == {r \in DOMAIN requests : requests[r].status = "pending"}

(* Revoked, cancelled and expired turns are all refused alike              *)
Ended(T) ==
    [t \in Turns |-> IF t \in T /\ LiveNow(t)
                     THEN [turns[t] EXCEPT !.status = "ended"] ELSE turns[t]]

Revoke(T) == turns' = Ended(T)

RequestTurns(r) == {t \in Turns : turns[t].request = r}

(* requireCurrentTurnSurface: a BOOT may use a page not yet committed      *)
CurrentTurnSurface(generation, phase) ==
    /\ generation # None /\ page.leased = generation
    /\ phase = "BOOT" \/ page.committed = generation

PageIsCurrent(t) ==
    CurrentTurnSurface(turns[t].generation, requests[turns[t].request].phase)

Unmoved == UNCHANGED <<held, calls, locked, fences, registered>>

-----------------------------------------------------------------------------
(* The page.  assertSurfaceMutationAllowed is the guard ~locked.           *)

(* Fault: only a registration is looked at                                 *)
MutationAllowedAlways == registered

(* lookup and assertSurfaceMutationAllowed *)
MutationAllowed == registered /\ ~locked

SurfaceClaim ==
    /\ MutationAllowed /\ Pending = {}
    /\ page.last < MaxPages
    /\ page' = [page EXCEPT !.last = @ + 1, !.leased = page.last + 1]
    /\ Revoke(Turns)
    /\ UNCHANGED requests /\ Unmoved

(* Under a pending request only the same page is taken again, when its     *)
(* lease ran out and a turn still works for the request                    *)
RecoverPage ==
    /\ MutationAllowed
    /\ page.leased = None /\ page.committed # None
    /\ \E r \in Pending :
          /\ page.committed = requests[r].generation
          /\ \E t \in RequestTurns(r) : LiveNow(t)
    /\ page' = [page EXCEPT !.leased = page.committed]
    /\ UNCHANGED <<requests, turns>> /\ Unmoved

(* The BOOT turn has done its work: nothing of it goes on                  *)
SurfaceCommit ==
    /\ MutationAllowed /\ page.leased # None
    /\ \E r \in DOMAIN requests :
          /\ requests[r] = [status |-> "result", phase |-> "BOOT",
                            generation |-> page.leased]
          /\ Revoke(RequestTurns(r))
    /\ page' = [page EXCEPT !.committed = page.leased]
    /\ UNCHANGED requests /\ Unmoved

SurfaceRelease ==
    /\ MutationAllowed /\ page.leased # None
    /\ page' = [page EXCEPT !.leased = None]
    /\ UNCHANGED <<requests, turns>> /\ Unmoved

SurfaceRetire ==
    /\ MutationAllowed /\ page.last # None
    /\ page' = [page EXCEPT !.leased = None, !.committed = None]
    /\ Revoke(Turns)
    /\ requests' = [r \in DOMAIN requests |->
                      IF r \in Pending
                      THEN [requests[r] EXCEPT !.status = "cancelled"]
                      ELSE requests[r]]
    /\ Unmoved

PageRunsOut ==
    /\ page.leased # None /\ page' = [page EXCEPT !.leased = None]
    /\ UNCHANGED <<requests, turns>> /\ Unmoved

-----------------------------------------------------------------------------
(* Control requests and turns                                              *)

(* Fault: the session's request that is still pending is not looked at     *)
OpenAgain(phase) ==
    /\ registered /\ Latest < MaxRequests
    /\ requests' = [requests EXCEPT ![Latest + 1] =
                      [phase |-> phase, generation |-> page.leased,
                       status |-> "pending"]]
    /\ UNCHANGED <<page, turns>> /\ Unmoved

(* The lease is renewed for the work to come; when that is refused, the    *)
(* request that was just opened is cancelled                               *)
OpenControlRequest(phase) ==
    /\ registered /\ Pending = {} /\ Latest < MaxRequests
    /\ requests' = [requests EXCEPT ![Latest + 1] =
                      [phase |-> phase, generation |-> page.leased,
                       status |-> IF page.leased # None /\ locked
                                  THEN "cancelled" ELSE "pending"]]
    /\ UNCHANGED <<page, turns>> /\ Unmoved

(* Fault: a request that ends leaves its turns to their time               *)
RequestEndsAlone(r) == UNCHANGED turns

(* broker.revokeRequest, also when the store's outcome came from elsewhere *)
RequestEnds(r) == Revoke(RequestTurns(r))

(* A page with its result, seen by a live turn's request on its own page.  *)
(* A page that was lost, or a result with no live turn left, ends the      *)
(* request too, with no result that could be used.                         *)
ObserveControlPage(r) ==
    /\ registered /\ r \in Pending /\ requests[r].generation # None
    /\ LET live == \E t \in RequestTurns(r) : LiveNow(t)
           generation == requests[r].generation IN
       \/ /\ live /\ ~locked
          /\ \/ page.leased = generation
             \/ page.leased = None /\ page.committed = generation
          /\ requests' = [requests EXCEPT ![r].status = "result"]
       \/ /\ live => ~locked
          /\ requests' = [requests EXCEPT ![r].status = "cancelled"]
    /\ RequestEnds(r)
    /\ UNCHANGED page /\ Unmoved

CancelControlRequest(r) ==
    /\ registered /\ r \in Pending
    /\ requests' = [requests EXCEPT ![r].status = "cancelled"]
    /\ RequestEnds(r)
    /\ UNCHANGED page /\ Unmoved

RequestRunsOut(r) ==
    /\ r \in Pending
    /\ requests' = [requests EXCEPT ![r].status = "expired"]
    /\ UNCHANGED <<page, turns>> /\ Unmoved

(* Fault: calls of turns that have ended are not waited for                *)
NoneInFlightForLive == \A k \in Calls : held[k] # None => ~LiveNow(held[k])

NoneInFlight == \A k \in Calls : held[k] = None

(* Replaces the turn of the session, once none of its calls is in flight.  *)
(* Only a turn with plugins has its page looked at; generations of turns   *)
(* do not go back (assertFreshSessionEpoch).                               *)
IssueReplacingTurn(r, generation) ==
    /\ registered /\ r \in Pending /\ Newest < MaxTurns
    /\ requests[r].generation \in {None, generation}
    /\ Newest # None => generation >= turns[Newest].generation
    /\ NoneInFlight
    /\ turns' = [Ended(Turns) EXCEPT ![Newest + 1] =
                   [status |-> "issued", request |-> r, generation |-> generation]]
    /\ UNCHANGED <<page, requests>> /\ Unmoved

TurnEnds(t) ==
    /\ LiveNow(t)
    /\ Revoke({t})
    /\ UNCHANGED <<page, requests>> /\ Unmoved

-----------------------------------------------------------------------------
(* Completions                                                             *)

(* Fault: the session is locked before the broker is asked                 *)
BeginLocking(t) ==
    /\ LiveNow(t) /\ ~locked
    /\ locked' = TRUE
    /\ IF turns[t].status = "active"
       THEN /\ turns' = [turns EXCEPT ![t].status = "completing"]
            /\ fences' = fences \cup {t}
       ELSE UNCHANGED <<turns, fences>>
    /\ UNCHANGED <<page, requests, held, calls, registered>>

BeginCompletion(t) ==
    /\ turns[t].status = "active" /\ ~locked
    /\ turns' = [turns EXCEPT ![t].status = "completing"]
    /\ locked' = TRUE /\ fences' = fences \cup {t}
    /\ UNCHANGED <<page, requests, held, calls, registered>>

(* A complete() that throws leaves the session locked                      *)
CompleteTurn(t) ==
    /\ t \in fences /\ turns[t].status = "completing"
    /\ \A k \in Calls : held[k] # t
    /\ turns' = [turns EXCEPT ![t].status = "completed"]
    /\ locked' = FALSE /\ fences' = fences \ {t}
    /\ UNCHANGED <<page, requests, held, calls, registered>>

(* Also of a fence that the broker has consumed                            *)
AbortTurnCompletion(t) ==
    /\ t \in fences
    /\ turns' = IF turns[t].status = "completing"
                THEN [turns EXCEPT ![t].status = "active"] ELSE turns
    /\ locked' = FALSE /\ fences' = fences \ {t}
    /\ UNCHANGED <<page, requests, held, calls, registered>>

-----------------------------------------------------------------------------
(* The registry                                                            *)

(* unregisterWorkspace, which a completion refuses, and the removal of a   *)
(* checkout that another registration finds moved, which it does not.  The *)
(* session's Project has no other checkout: its page goes too.             *)
CheckoutGoes ==
    /\ registered
    /\ registered' = FALSE
    /\ Revoke(Turns)
    /\ page' = [page EXCEPT !.leased = None, !.committed = None]
    /\ UNCHANGED <<requests, held, calls, locked, fences>>

CheckoutReturns ==
    /\ ~registered /\ registered' = TRUE
    /\ UNCHANGED <<page, requests, turns, held, calls, locked, fences>>

-----------------------------------------------------------------------------
(* withClaimedWorkspace                                                    *)

(* claimTurn; a turn whose page is not current is revoked by the claim,    *)
(* and so is one whose checkout cannot be resolved any more; one that is   *)
(* completing is refused                                                   *)
ClaimTurn(k, t) ==
    /\ calls[k].at = "idle" /\ LiveNow(t)
    /\ \/ /\ PageIsCurrent(t) /\ turns[t].status # "completing"
          /\ turns' = [turns EXCEPT ![t].status = "active"]
          /\ held' = [held EXCEPT ![k] = t]
          /\ calls' = [calls EXCEPT ![k] = [NoCall EXCEPT !.at = "awaits", !.turn = t]]
       \/ /\ ~PageIsCurrent(t) \/ turns[t].status # "completing"
          /\ Revoke({t})
          /\ UNCHANGED <<calls, held>>
    /\ UNCHANGED <<page, requests, locked, fences, registered>>

(* renewTurn, by the timer; its first failure is remembered                *)
RenewTurn(k) ==
    /\ calls[k].at = "awaits" /\ ~calls[k].failed
    /\ LET t == calls[k].turn IN
       /\ held[k] = None \/ ~PageIsCurrent(t) \/ ~LiveNow(t)
       /\ calls' = [calls EXCEPT ![k].failed = TRUE]
       /\ IF held[k] # None /\ ~PageIsCurrent(t)
          THEN Revoke({t}) ELSE UNCHANGED turns
    /\ UNCHANGED <<page, requests, held, locked, fences, registered>>

LeaseRunsOut(k) ==
    /\ held[k] # None
    /\ held' = [held EXCEPT ![k] = None]
    /\ UNCHANGED <<page, requests, turns, calls, locked, fences, registered>>

(* Fault: the page that was claimed is looked at, the turn is not          *)
MayAnswerForPage(k) == ~calls[k].failed /\ PageIsCurrent(calls[k].turn)

(* No renewal has failed, and assertTurnSurface                            *)
MayAnswer(k) ==
    /\ ~calls[k].failed
    /\ LiveNow(calls[k].turn) /\ PageIsCurrent(calls[k].turn)

(* Fault: a lease is given back only after an answer                       *)
ReleasedWithAnswer(k) ==
    IF MayAnswer(k) THEN [held EXCEPT ![k] = None] ELSE held

(* releaseTurn, in a finally *)
Released(k) == [held EXCEPT ![k] = None]

(* The tool's work is done, or has failed *)
EndCall(k) ==
    /\ calls[k].at = "awaits"
    /\ LET t == calls[k].turn IN
       \/ /\ MayAnswer(k)
          /\ calls' = [calls EXCEPT ![k] = [NoCall EXCEPT !.answered = TRUE]]
          /\ UNCHANGED turns
       \/ /\ calls' = [calls EXCEPT ![k] = NoCall]
          /\ \/ ~MayAnswer(k) /\ ~calls[k].failed
                /\ IF PageIsCurrent(t) THEN UNCHANGED turns ELSE Revoke({t})
             \/ UNCHANGED turns
    /\ held' = Released(k)
    /\ UNCHANGED <<page, requests, locked, fences, registered>>

(* The gateway is restarted: what it has in memory goes                    *)
GatewayRestarts ==
    /\ turns' = Ended(Turns)
    /\ held' = [k \in Calls |-> None] /\ calls' = [k \in Calls |-> NoCall]
    /\ locked' = FALSE /\ fences' = {}
    /\ UNCHANGED <<page, requests, registered>>

ToolCallsNext ==
    \/ SurfaceClaim \/ RecoverPage \/ SurfaceCommit \/ SurfaceRelease
    \/ SurfaceRetire \/ PageRunsOut
    \/ CheckoutGoes \/ CheckoutReturns \/ GatewayRestarts
    \/ \E phase \in BootOrPlan : OpenControlRequest(phase)
    \/ \E r \in DOMAIN requests :
          \/ ObserveControlPage(r) \/ CancelControlRequest(r) \/ RequestRunsOut(r)
          \/ \E generation \in 1..page.last : IssueReplacingTurn(r, generation)
    \/ \E t \in Turns :
          \/ TurnEnds(t) \/ BeginCompletion(t) \/ CompleteTurn(t)
          \/ AbortTurnCompletion(t)
    \/ \E k \in Calls :
          \/ RenewTurn(k) \/ LeaseRunsOut(k) \/ EndCall(k)
          \/ \E t \in Turns : ClaimTurn(k, t)

ToolCallsSpec == ToolCallsInit /\ [][ToolCallsNext]_callVars

-----------------------------------------------------------------------------
(* Properties                                                              *)

Answered(k) == calls[k].at = "awaits" /\ calls'[k].answered

(* Every part has its shape, and generations and turns come in order.      *)
ToolCallsTypeOK ==
    /\ page \in [last: 0..MaxPages, leased: 0..MaxPages, committed: 0..MaxPages]
    /\ page.leased \in {None, page.last} /\ page.committed <= page.last
    /\ requests \in [1..MaxRequests ->
                        [status: {"absent", "pending", "result", "cancelled", "expired"},
                         phase: BootOrPlan, generation: 0..MaxPages]]
    /\ \A r, s \in Pending : r = s
    /\ turns \in [Turns -> [status: LiveTurn \cup {"absent", "ended", "completed"},
                            request: 0..MaxRequests, generation: 0..page.last]]
    /\ calls \in [Calls -> [at: {"idle", "awaits"}, turn: 0..MaxTurns,
                            failed: BOOLEAN, answered: BOOLEAN]]
    /\ held \in [Calls -> 0..MaxTurns]
    /\ locked \in BOOLEAN /\ fences \subseteq Turns

(* A tool's result reaches ChatGPT only for the newest turn of its         *)
(* session, for the page that the session has by then, and while the       *)
(* outcome of its request is open: whatever came between the claim and the *)
(* answer, nothing is answered for what has ended.                         *)
ResultIsCurrent ==
    [][\A k \in Calls : Answered(k) =>
          LET turn == turns[calls[k].turn] IN
          /\ calls[k].turn = Newest
          /\ turn.generation = page.last
          /\ requests[turn.request].status \in {"pending", "expired"}]_callVars

(* A lease is that of a call that is still awaiting its work: whichever    *)
(* way a call ends, it does not keep its session's next turn waiting.      *)
LeasesAreOfCalls ==
    \A k \in Calls : held[k] # None =>
       calls[k].at = "awaits" /\ calls[k].turn = held[k]

(* Calls in flight with their leases all work for one turn.                *)
OneTurnInFlight ==
    \A k, j \in Calls : held[k] # None /\ held[j] # None => held[k] = held[j]

(* A session is locked exactly as long as somebody has a fence to unlock   *)
(* it with, whatever has become of the turn meanwhile.                     *)
LockHasFence ==
    /\ \A f, g \in fences : f = g
    /\ locked <=> fences # {}

(* A turn that is completing has the page it began with: the session has   *)
(* no newer one, and its own may only have run out.                        *)
CompletingKeepsPage ==
    [][\A t \in Turns :
         turns[t].status = "completing" /\ turns'[t].status \in {"completing", "completed"} =>
            /\ page'.last = page.last /\ page'.committed = page.committed
            /\ page'.leased \in {page.leased, None}]_callVars

(* A session and its calls in every state: leases, locks and turns belong  *)
(* to somebody who will give them back.                                    *)
CallsInv ==
    /\ ToolCallsTypeOK
    /\ LeasesAreOfCalls
    /\ OneTurnInFlight
    /\ LockHasFence

(* What no step may do while others await: answer for what has ended, or   *)
(* take the page away from a turn that is completing.                      *)
CallSteps == ResultIsCurrent /\ CompletingKeepsPage
=============================================================================
