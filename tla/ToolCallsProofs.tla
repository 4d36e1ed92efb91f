-------------------------- MODULE ToolCallsProofs --------------------------
(***************************************************************************)
(* The tool calls of a session, for any number of calls, turns, pages and  *)
(* requests: every lease is of a call that will give it back, all calls in *)
(* flight work for one turn, and a locked session can be unlocked.         *)
(*                                                                         *)
(* That calls in flight are of one turn is inductive only with two facts   *)
(* more: a session has one live turn, and while it has one, no lease is of *)
(* another.  A claim then finds only leases of the turn that it claims.    *)
(***************************************************************************)
EXTENDS ToolCalls, FiniteSetTheorems, TLAPS

Statuses == LiveTurn \cup {"absent", "ended", "completed"}
RequestStates == {"absent", "pending", "result", "cancelled", "expired"}

PageOK ==
    /\ page \in [last: 0..MaxPages, leased: 0..MaxPages, committed: 0..MaxPages]
    /\ page.leased \in {None, page.last} /\ page.committed <= page.last

RequestsOK ==
    /\ requests \in [1..MaxRequests -> [status: RequestStates, phase: BootOrPlan,
                                        generation: 0..MaxPages]]
    /\ \A r, s \in Pending : r = s
    /\ \A r \in Pending : requests[r].generation \in {None, page.last}

TurnsOK ==
    turns \in [Turns -> [status: Statuses, request: 0..MaxRequests,
                         generation: 0..page.last]]

CallRecord == [at: {"idle", "awaits"}, turn: 0..MaxTurns,
               failed: BOOLEAN, answered: BOOLEAN]

InFlightOK ==
    /\ calls \in [Calls -> CallRecord]
    /\ held \in [Calls -> 0..MaxTurns]
    /\ locked \in BOOLEAN /\ fences \subseteq Turns

(* The two facts that make OneTurnInFlight inductive                       *)
OneLiveTurn == \A t, u \in Turns : LiveNow(t) /\ LiveNow(u) => t = u
HeldIsOfLiveTurn ==
    \A k \in Calls, t \in Turns : held[k] # None /\ LiveNow(t) => held[k] = t

Flight ==
    /\ InFlightOK /\ LeasesAreOfCalls /\ OneTurnInFlight
    /\ OneLiveTurn /\ HeldIsOfLiveTurn /\ LockHasFence

IInv == PageOK /\ RequestsOK /\ TurnsOK /\ Flight

(* No turn comes alive.                                                    *)
NoneRevived == \A t \in Turns : LiveNow(t)' => LiveNow(t)

USE ToolCallsAssumption DEF ToolCallsAssumption, None

(* No page, no turn and no request is within every bound.                  *)
LEMMA NoneIsBounded ==
    None \in 0..MaxPages /\ None \in 0..MaxTurns /\ None \in 0..MaxRequests
  OBVIOUS

USE NoneIsBounded

(* What becomes of the record of a call.                                   *)
LEMMA CallRecords ==
    /\ NoCall \in CallRecord /\ NoCall.at = "idle" /\ NoCall.turn = None
    /\ \A t \in 0..MaxTurns :
          LET c == [NoCall EXCEPT !.at = "awaits", !.turn = t]
          IN  c \in CallRecord /\ c.at = "awaits" /\ c.turn = t
    /\ \A c \in CallRecord :
          /\ [c EXCEPT !.failed = TRUE] \in CallRecord
          /\ [c EXCEPT !.failed = TRUE].at = c.at
          /\ [c EXCEPT !.failed = TRUE].turn = c.turn
          /\ [c EXCEPT !.answered = TRUE] \in CallRecord
  <1>1. NoCall \in CallRecord /\ NoCall.at = "idle" /\ NoCall.turn = None
    BY DEF NoCall, CallRecord
  <1>2. ASSUME NEW t \in 0..MaxTurns
        PROVE  LET c == [NoCall EXCEPT !.at = "awaits", !.turn = t]
               IN  c \in CallRecord /\ c.at = "awaits" /\ c.turn = t
    BY DEF NoCall, CallRecord
  <1>3. ASSUME NEW c \in CallRecord
        PROVE  /\ [c EXCEPT !.failed = TRUE] \in CallRecord
               /\ [c EXCEPT !.failed = TRUE].at = c.at
               /\ [c EXCEPT !.failed = TRUE].turn = c.turn
               /\ [c EXCEPT !.answered = TRUE] \in CallRecord
    BY DEF CallRecord
  <1> QED  BY <1>1, <1>2, <1>3

-----------------------------------------------------------------------------
(* Nothing has happened to a session at first.                             *)
LEMMA InvInit == ToolCallsInit => IInv
  <1> SUFFICES ASSUME ToolCallsInit PROVE IInv
    OBVIOUS
  <1>1. PageOK /\ RequestsOK /\ TurnsOK
    BY DEF ToolCallsInit, PageOK, RequestsOK, TurnsOK, Statuses, RequestStates,
           NoTurn, NoRequest, BootOrPlan, Pending
  <1>2. \A t \in Turns : ~LiveNow(t)
    BY DEF ToolCallsInit, LiveNow, LiveTurn, NoTurn
  <1>3. Flight
    BY <1>2, CallRecords
       DEF ToolCallsInit, Flight, InFlightOK, LeasesAreOfCalls, OneTurnInFlight,
           OneLiveTurn, HeldIsOfLiveTurn, LockHasFence
  <1> QED  BY <1>1, <1>3 DEF IInv

(* Turns that are ended, or left alone, keep their shape.                  *)
LEMMA RevokedKeeps ==
    ASSUME PageOK, TurnsOK, NEW T, Revoke(T) \/ UNCHANGED turns, page'.last >= page.last,
           page'.last \in Nat
    PROVE  TurnsOK' /\ NoneRevived
  <1>1. CASE UNCHANGED turns
    BY <1>1 DEF TurnsOK, NoneRevived, LiveNow, PageOK
  <1>2. CASE Revoke(T)
    <2>1. ASSUME NEW t \in Turns
          PROVE  turns'[t] = IF t \in T /\ LiveNow(t)
                             THEN [turns[t] EXCEPT !.status = "ended"] ELSE turns[t]
      BY <1>2 DEF Revoke, Ended
    <2>2. TurnsOK'
      BY <1>2, <2>1 DEF Revoke, Ended, TurnsOK, Statuses, PageOK
    <2>3. NoneRevived
      BY <2>1 DEF NoneRevived, LiveNow, LiveTurn, TurnsOK
    <2> QED  BY <2>2, <2>3
  <1> QED  BY <1>1, <1>2

(* While calls, leases and locks stay as they are, and no turn comes alive,*)
(* nothing goes wrong with them.                                           *)
LEMMA UnmovedKeeps ==
    ASSUME Flight, Unmoved, NoneRevived
    PROVE  Flight'
  <1> USE DEF Flight, Unmoved, NoneRevived
  <1>1. InFlightOK' /\ LeasesAreOfCalls' /\ OneTurnInFlight' /\ LockHasFence'
    BY DEF InFlightOK, LeasesAreOfCalls, OneTurnInFlight, LockHasFence
  <1>2. OneLiveTurn' /\ HeldIsOfLiveTurn'
    BY DEF OneLiveTurn, HeldIsOfLiveTurn
  <1> QED  BY <1>1, <1>2

-----------------------------------------------------------------------------
(* What happens to the page.                                               *)
LEMMA PageSteps ==
    ASSUME IInv,
           \/ SurfaceClaim \/ RecoverPage \/ SurfaceCommit \/ SurfaceRelease
           \/ SurfaceRetire \/ PageRunsOut
    PROVE  IInv'
  <1> USE DEF IInv
  <1>1. PageOK' /\ page'.last >= page.last /\ page'.last \in Nat
    <2>1. CASE SurfaceClaim
      <3>1. /\ page' = [last |-> page.last + 1, leased |-> page.last + 1,
                        committed |-> page.committed]
            /\ page.last + 1 \in 0..MaxPages
        <4>1. page.last \in 0..MaxPages /\ page.last < MaxPages
          BY <2>1 DEF PageOK, SurfaceClaim
        <4>2. page' = [page EXCEPT !.last = page.last + 1, !.leased = page.last + 1]
          BY <2>1 DEF SurfaceClaim
        <4>3. page.last + 1 \in 0..MaxPages
          BY <4>1
        <4>4. page' = [last |-> page.last + 1, leased |-> page.last + 1,
                       committed |-> page.committed]
          BY <4>2 DEF PageOK
        <4> QED  BY <4>3, <4>4
      <3> QED  BY <3>1 DEF PageOK
    <2>2. CASE RecoverPage
      <3>1. page.committed = page.last
        BY <2>2 DEF RecoverPage, RequestsOK
      <3>2. page' = [last |-> page.last, leased |-> page.last, committed |-> page.last]
        BY <2>2, <3>1 DEF RecoverPage, PageOK
      <3> QED  BY <3>2 DEF PageOK
    <2>3. CASE SurfaceCommit \/ SurfaceRelease
      BY <2>3 DEF SurfaceCommit, SurfaceRelease, PageOK
    <2>4. CASE SurfaceRetire \/ PageRunsOut
      <3>1. \E c \in {None, page.committed} :
               page' = [last |-> page.last, leased |-> None, committed |-> c]
        BY <2>4 DEF SurfaceRetire, PageRunsOut, PageOK
      <3> QED  BY <3>1 DEF PageOK
    <2> QED  BY <2>1, <2>2, <2>3, <2>4
  <1>2. (\E T : Revoke(T)) \/ UNCHANGED turns
    BY DEF SurfaceClaim, RecoverPage, SurfaceCommit, SurfaceRelease, SurfaceRetire,
           PageRunsOut
  <1>3. TurnsOK' /\ NoneRevived
    BY <1>1, <1>2, RevokedKeeps
  <1>4. RequestsOK'
    <2> USE DEF RequestsOK, Pending
    <2>1. CASE SurfaceClaim
      BY <2>1 DEF SurfaceClaim
    <2>2. CASE SurfaceRetire
      <3>1. page'.last = page.last
        BY <2>2 DEF SurfaceRetire, PageOK
      <3>2. \A r \in 1..MaxRequests :
               requests'[r] = IF r \in Pending
                              THEN [requests[r] EXCEPT !.status = "cancelled"]
                              ELSE requests[r]
        BY <2>2 DEF SurfaceRetire
      <3>3. \A r \in 1..MaxRequests : requests'[r].status # "pending"
        BY <3>2
      <3>4. requests' = [r \in 1..MaxRequests |->
                            IF r \in Pending
                            THEN [requests[r] EXCEPT !.status = "cancelled"]
                            ELSE requests[r]]
        BY <2>2 DEF SurfaceRetire
      <3>5. \A r \in 1..MaxRequests :
               [requests[r] EXCEPT !.status = "cancelled"]
                  \in [status: RequestStates, phase: BootOrPlan, generation: 0..MaxPages]
        BY DEF RequestStates
      <3>6. requests' \in [1..MaxRequests -> [status: RequestStates, phase: BootOrPlan,
                                             generation: 0..MaxPages]]
        BY <3>4, <3>5
      <3>7. Pending' = {}
        BY <3>3, <3>6
      <3> QED  BY <3>6, <3>7
    <2>3. CASE UNCHANGED <<requests, page.last>>
      BY <2>3
    <2>4. \/ SurfaceClaim \/ SurfaceRetire \/ UNCHANGED <<requests, page.last>>
      BY DEF RecoverPage, SurfaceCommit, SurfaceRelease, PageRunsOut, PageOK
    <2> QED  BY <2>1, <2>2, <2>3, <2>4
  <1>5. Unmoved
    BY DEF SurfaceClaim, RecoverPage, SurfaceCommit, SurfaceRelease, SurfaceRetire,
           PageRunsOut
  <1> QED  BY <1>1, <1>3, <1>4, <1>5, UnmovedKeeps

(* What happens to requests and to turns, but for the issue of a turn.     *)
LEMMA RequestSteps ==
    ASSUME IInv,
           \/ \E phase \in BootOrPlan : OpenControlRequest(phase)
           \/ \E r \in DOMAIN requests :
                 ObserveControlPage(r) \/ CancelControlRequest(r) \/ RequestRunsOut(r)
           \/ \E t \in Turns : TurnEnds(t)
    PROVE  IInv'
  <1> USE DEF IInv
  <1>1. UNCHANGED page /\ Unmoved
    BY DEF OpenControlRequest, ObserveControlPage, CancelControlRequest, RequestRunsOut,
           TurnEnds
  <1>2. (\E T : Revoke(T)) \/ UNCHANGED turns
    BY DEF OpenControlRequest, ObserveControlPage, CancelControlRequest, RequestRunsOut,
           TurnEnds, RequestEnds
  <1>3. PageOK' /\ page'.last >= page.last /\ page'.last \in Nat
    BY <1>1 DEF PageOK
  <1>4. TurnsOK' /\ NoneRevived
    BY <1>2, <1>3, RevokedKeeps
  <1>5. RequestsOK'
    <2> USE DEF RequestsOK, Pending
    <2>1. CASE \E phase \in BootOrPlan : OpenControlRequest(phase)
      <3>1. PICK phase \in BootOrPlan : OpenControlRequest(phase)
        BY <2>1
      <3> DEFINE opened == [phase |-> phase, generation |-> page.leased,
                            status |-> IF page.leased # None /\ locked
                                       THEN "cancelled" ELSE "pending"]
      <3>2. opened \in [status: RequestStates, phase: BootOrPlan, generation: 0..MaxPages]
        BY DEF PageOK, RequestStates
      <3>5. opened.generation \in {None, page'.last}
        BY <1>1 DEF PageOK
      <3>3. requests' = [requests EXCEPT ![Latest + 1] = opened]
        BY <3>1 DEF OpenControlRequest
      <3>4. \A r \in 1..MaxRequests : requests[r].status # "pending"
        BY <3>1 DEF OpenControlRequest
      <3> HIDE DEF opened
      <3>6. DOMAIN requests = 1..MaxRequests /\ DOMAIN requests' = 1..MaxRequests
        BY <3>3
      <3>7. \A r \in 1..MaxRequests :
               requests'[r] = IF r = Latest + 1 THEN opened ELSE requests[r]
        BY <3>3, <3>6
      <3>8. \A r \in Pending' : r = Latest + 1 /\ requests'[r] = opened
        BY <3>4, <3>6, <3>7
      <3>9. requests' \in [1..MaxRequests -> [status: RequestStates, phase: BootOrPlan,
                                             generation: 0..MaxPages]]
        BY <3>2, <3>3
      <3> QED  BY <3>5, <3>8, <3>9
    <2>2. CASE \E r \in DOMAIN requests :
                  ObserveControlPage(r) \/ CancelControlRequest(r) \/ RequestRunsOut(r)
      <3>1. PICK r \in DOMAIN requests, outcome \in RequestStates \ {"pending"} :
               requests' = [requests EXCEPT ![r].status = outcome]
        BY <2>2 DEF ObserveControlPage, CancelControlRequest, RequestRunsOut,
                    RequestStates
      <3> QED  BY <1>1, <3>1 DEF RequestStates
    <2>3. CASE UNCHANGED requests
      BY <1>1, <2>3
    <2> QED  BY <2>1, <2>2, <2>3 DEF TurnEnds
  <1> QED  BY <1>1, <1>3, <1>4, <1>5, UnmovedKeeps

(* A turn is issued when no call is in flight, and replaces every other.   *)
LEMMA IssueStep ==
    ASSUME IInv, NEW r \in DOMAIN requests, NEW generation \in 1..page.last,
           IssueReplacingTurn(r, generation)
    PROVE  IInv'
  <1> USE DEF IInv
  <1> DEFINE issued == [status |-> "issued", request |-> r, generation |-> generation]
  <1>1. PageOK' /\ RequestsOK' /\ page' = page
    BY DEF IssueReplacingTurn, PageOK, RequestsOK, Pending
  <1>2. Ended(Turns) \in [Turns -> [status: Statuses, request: 0..MaxRequests,
                                    generation: 0..page.last]]
    BY DEF Ended, TurnsOK, Statuses
  <1>3. \A t \in Turns : Ended(Turns)[t].status \notin LiveTurn
    BY DEF Ended, TurnsOK, LiveNow, LiveTurn
  <1>4. issued \in [status: Statuses, request: 0..MaxRequests, generation: 0..page.last]
    BY DEF RequestsOK, Statuses, LiveTurn, PageOK
  <1>5. turns' = [Ended(Turns) EXCEPT ![Newest + 1] = issued]
    BY DEF IssueReplacingTurn
  <1> HIDE DEF issued
  <1>6. TurnsOK'
    BY <1>1, <1>2, <1>4, <1>5 DEF TurnsOK
  <1>7. \A t \in Turns : LiveNow(t)' => t = Newest + 1
    BY <1>2, <1>3, <1>5 DEF LiveNow
  <1>8. \A k \in Calls : held'[k] = None
    BY DEF IssueReplacingTurn, NoneInFlight, Unmoved
  <1>9. Flight'
    <2> USE DEF IssueReplacingTurn, Unmoved, Flight
    <2>1. InFlightOK' /\ LockHasFence'
      BY DEF InFlightOK, LockHasFence
    <2>2. LeasesAreOfCalls' /\ OneTurnInFlight' /\ HeldIsOfLiveTurn'
      BY <1>8 DEF LeasesAreOfCalls, OneTurnInFlight, HeldIsOfLiveTurn
    <2>3. OneLiveTurn'
      BY <1>7 DEF OneLiveTurn
    <2> QED  BY <2>1, <2>2, <2>3
  <1> QED  BY <1>1, <1>6, <1>9

-----------------------------------------------------------------------------
(* A completion begins with a fence, and ends with it.                     *)
LEMMA CompletionSteps ==
    ASSUME IInv, NEW t \in Turns,
           BeginCompletion(t) \/ CompleteTurn(t) \/ AbortTurnCompletion(t)
    PROVE  IInv'
  <1> USE DEF IInv
  <1>1. UNCHANGED <<page, requests, held, calls>>
    BY DEF BeginCompletion, CompleteTurn, AbortTurnCompletion
  <1>2. PageOK' /\ RequestsOK'
    BY <1>1 DEF PageOK, RequestsOK, Pending
  <1>3. TurnsOK' /\ NoneRevived
    <2> USE DEF TurnsOK, NoneRevived, LiveNow, LiveTurn, Statuses
    <2>1. CASE BeginCompletion(t)
      BY <1>1, <2>1 DEF BeginCompletion
    <2>2. CASE CompleteTurn(t)
      BY <1>1, <2>2 DEF CompleteTurn
    <2>3. CASE AbortTurnCompletion(t)
      BY <1>1, <2>3 DEF AbortTurnCompletion
    <2> QED  BY <2>1, <2>2, <2>3
  <1>4. InFlightOK' /\ LockHasFence'
    <2> USE DEF Flight, InFlightOK, LockHasFence
    <2>1. CASE BeginCompletion(t)
      BY <1>1, <2>1 DEF BeginCompletion
    <2>2. CASE CompleteTurn(t) \/ AbortTurnCompletion(t)
      <3>1. fences = {t} /\ fences' = {} /\ locked' = FALSE
        BY <2>2 DEF CompleteTurn, AbortTurnCompletion
      <3> QED  BY <1>1, <3>1
    <2> QED  BY <2>1, <2>2
  <1>5. LeasesAreOfCalls' /\ OneTurnInFlight'
    BY <1>1 DEF Flight, LeasesAreOfCalls, OneTurnInFlight
  <1>6. OneLiveTurn' /\ HeldIsOfLiveTurn'
    BY <1>1, <1>3 DEF Flight, OneLiveTurn, HeldIsOfLiveTurn, NoneRevived
  <1> QED  BY <1>2, <1>3, <1>4, <1>5, <1>6 DEF Flight

(* The checkout goes and returns, and the gateway is restarted.            *)
LEMMA MachineSteps ==
    ASSUME IInv, CheckoutGoes \/ CheckoutReturns \/ GatewayRestarts
    PROVE  IInv'
  <1> USE DEF IInv
  <1>0. page' = page \/ page' = [last |-> page.last, leased |-> None, committed |-> None]
    BY DEF CheckoutGoes, CheckoutReturns, GatewayRestarts, PageOK
  <1>1. PageOK' /\ page'.last = page.last /\ page'.last \in Nat
    BY <1>0 DEF PageOK
  <1>2. RequestsOK'
    BY <1>1 DEF CheckoutGoes, CheckoutReturns, GatewayRestarts, RequestsOK, Pending
  <1>3. (\E T : Revoke(T)) \/ UNCHANGED turns
    BY DEF CheckoutGoes, CheckoutReturns, GatewayRestarts, Revoke
  <1>4. TurnsOK' /\ NoneRevived
    <2>1. page'.last >= page.last
      BY <1>1
    <2> QED  BY <1>1, <1>3, <2>1, RevokedKeeps
  <1>5. OneLiveTurn'
    BY <1>4 DEF OneLiveTurn, NoneRevived, Flight
  <1>6. Flight'
    <2>1. CASE GatewayRestarts
      BY <1>5, <2>1, CallRecords DEF GatewayRestarts, Flight, InFlightOK, LeasesAreOfCalls,
                        OneTurnInFlight, HeldIsOfLiveTurn, LockHasFence
    <2>2. CASE CheckoutGoes \/ CheckoutReturns
      BY <1>4, <1>5, <2>2 DEF CheckoutGoes, CheckoutReturns, Flight, InFlightOK,
                  LeasesAreOfCalls, OneTurnInFlight, HeldIsOfLiveTurn, LockHasFence,
                  NoneRevived
    <2> QED  BY <2>1, <2>2
  <1> QED  BY <1>1, <1>2, <1>4, <1>6

-----------------------------------------------------------------------------
(* A claim takes a lease of the one live turn.                             *)
LEMMA ClaimStep ==
    ASSUME IInv, NEW k \in Calls, NEW t \in Turns, ClaimTurn(k, t)
    PROVE  IInv'
  <1> USE DEF IInv
  <1>1. UNCHANGED <<page, requests, locked, fences>> /\ LiveNow(t)
    BY DEF ClaimTurn
  <1>2. PageOK' /\ RequestsOK' /\ page'.last >= page.last /\ page'.last \in Nat
    BY <1>1 DEF PageOK, RequestsOK, Pending
  <1>3. CASE Revoke({t}) /\ UNCHANGED <<calls, held>>
    <2>1. TurnsOK' /\ NoneRevived
      BY <1>2, <1>3, RevokedKeeps
    <2>2. Flight'
      BY <1>1, <1>3, <2>1 DEF Flight, InFlightOK, LeasesAreOfCalls, OneTurnInFlight,
                  OneLiveTurn, HeldIsOfLiveTurn, LockHasFence, NoneRevived
    <2> QED  BY <1>2, <2>1, <2>2
  <1>4. CASE /\ turns' = [turns EXCEPT ![t].status = "active"]
             /\ held' = [held EXCEPT ![k] = t]
             /\ calls' = [calls EXCEPT ![k] =
                             [NoCall EXCEPT !.at = "awaits", !.turn = t]]
    <2>1. TurnsOK' /\ NoneRevived
      BY <1>1, <1>4 DEF TurnsOK, NoneRevived, LiveNow, LiveTurn, Statuses
    <2>2. \A j \in Calls : held'[j] # None => held'[j] = t
      BY <1>1, <1>4 DEF Flight, InFlightOK, HeldIsOfLiveTurn
    <2>3. OneLiveTurn' /\ \A u \in Turns : LiveNow(u)' => u = t
      BY <1>1, <2>1 DEF Flight, OneLiveTurn, NoneRevived
    <2>4. InFlightOK' /\ LockHasFence'
      <3> DEFINE call == [NoCall EXCEPT !.at = "awaits", !.turn = t]
      <3>1. t \in 0..MaxTurns
        BY DEF Turns
      <3>2. call \in CallRecord
        BY <3>1, CallRecords
      <3>3. calls' = [calls EXCEPT ![k] = call]
        BY <1>4
      <3> HIDE DEF call
      <3>4. InFlightOK'
        BY <1>1, <1>4, <3>1, <3>2, <3>3 DEF Flight, InFlightOK
      <3> QED  BY <1>1, <3>4 DEF Flight, LockHasFence
    <2>5. LeasesAreOfCalls'
      BY <1>4 DEF Flight, InFlightOK, LeasesAreOfCalls, NoCall
    <2>6. OneTurnInFlight' /\ HeldIsOfLiveTurn'
      BY <2>2, <2>3 DEF OneTurnInFlight, HeldIsOfLiveTurn
    <2> QED  BY <1>2, <2>1, <2>3, <2>4, <2>5, <2>6 DEF Flight
  <1> QED  BY <1>3, <1>4 DEF ClaimTurn

(* A call fails to renew, loses its lease, or ends.                        *)
LEMMA CallKeeps ==
    ASSUME IInv, NEW k \in Calls, RenewTurn(k) \/ LeaseRunsOut(k) \/ EndCall(k)
    PROVE  IInv'
  <1> USE DEF IInv
  <1>1. UNCHANGED <<page, requests, locked, fences>>
    BY DEF RenewTurn, LeaseRunsOut, EndCall
  <1>2. PageOK' /\ RequestsOK' /\ page'.last >= page.last /\ page'.last \in Nat
    BY <1>1 DEF PageOK, RequestsOK, Pending
  <1>3. (\E T : Revoke(T)) \/ UNCHANGED turns
    BY DEF RenewTurn, LeaseRunsOut, EndCall
  <1>4. TurnsOK' /\ NoneRevived
    BY <1>2, <1>3, RevokedKeeps
  <1>5. \A j \in Calls : held'[j] # None => held'[j] = held[j]
    BY DEF RenewTurn, LeaseRunsOut, EndCall, Released, Flight, InFlightOK
  <1>6. OneLiveTurn' /\ HeldIsOfLiveTurn' /\ OneTurnInFlight'
    BY <1>4, <1>5 DEF Flight, OneLiveTurn, HeldIsOfLiveTurn, OneTurnInFlight,
                      NoneRevived
  <1>7. InFlightOK' /\ LeasesAreOfCalls' /\ LockHasFence'
    <2> USE DEF Flight, InFlightOK, LeasesAreOfCalls, LockHasFence
    <2>1. CASE RenewTurn(k)
      <3>1. held' = held /\ calls' = [calls EXCEPT ![k] =
                                         [calls[k] EXCEPT !.failed = TRUE]]
        BY <2>1 DEF RenewTurn
      <3>2. /\ [calls[k] EXCEPT !.failed = TRUE] \in CallRecord
            /\ [calls[k] EXCEPT !.failed = TRUE].at = calls[k].at
            /\ [calls[k] EXCEPT !.failed = TRUE].turn = calls[k].turn
        BY CallRecords
      <3> QED  BY <1>1, <3>1, <3>2
    <2>2. CASE LeaseRunsOut(k)
      BY <1>1, <2>2 DEF LeaseRunsOut
    <2>3. CASE EndCall(k)
      <3>1. /\ held' = [held EXCEPT ![k] = None]
            /\ \/ calls' = [calls EXCEPT ![k] = [NoCall EXCEPT !.answered = TRUE]]
               \/ calls' = [calls EXCEPT ![k] = NoCall]
        BY <2>3 DEF EndCall, Released
      <3>2. NoCall \in CallRecord /\ [NoCall EXCEPT !.answered = TRUE] \in CallRecord
        BY CallRecords
      <3> QED  BY <1>1, <3>1, <3>2
    <2> QED  BY <2>1, <2>2, <2>3
  <1> QED  BY <1>2, <1>4, <1>6, <1>7 DEF Flight

(* The invariant holds in every state of a session and its calls.          *)
THEOREM CallsInvariant == ToolCallsSpec => []IInv
  <1>1. IInv /\ [ToolCallsNext]_callVars => IInv'
    <2> SUFFICES ASSUME IInv, [ToolCallsNext]_callVars PROVE IInv'
      OBVIOUS
    <2>1. CASE UNCHANGED callVars
      BY <2>1 DEF callVars, IInv, PageOK, RequestsOK, TurnsOK, Flight, InFlightOK,
                  LeasesAreOfCalls, OneTurnInFlight, OneLiveTurn, HeldIsOfLiveTurn,
                  LockHasFence, Pending, LiveNow
    <2>2. CASE \/ SurfaceClaim \/ RecoverPage \/ SurfaceCommit \/ SurfaceRelease
               \/ SurfaceRetire \/ PageRunsOut
      BY <2>2, PageSteps
    <2>3. CASE CheckoutGoes \/ CheckoutReturns \/ GatewayRestarts
      BY <2>3, MachineSteps
    <2>4. CASE \/ \E phase \in BootOrPlan : OpenControlRequest(phase)
               \/ \E r \in DOMAIN requests :
                     ObserveControlPage(r) \/ CancelControlRequest(r) \/ RequestRunsOut(r)
               \/ \E t \in Turns : TurnEnds(t)
      BY <2>4, RequestSteps
    <2>5. CASE \E r \in DOMAIN requests, generation \in 1..page.last :
                  IssueReplacingTurn(r, generation)
      BY <2>5, IssueStep
    <2>6. CASE \E t \in Turns :
                  BeginCompletion(t) \/ CompleteTurn(t) \/ AbortTurnCompletion(t)
      BY <2>6, CompletionSteps
    <2>7. CASE \E k \in Calls, t \in Turns : ClaimTurn(k, t)
      BY <2>7, ClaimStep
    <2>8. CASE \E k \in Calls : RenewTurn(k) \/ LeaseRunsOut(k) \/ EndCall(k)
      BY <2>8, CallKeeps
    <2> QED  BY <2>1, <2>2, <2>3, <2>4, <2>5, <2>6, <2>7, <2>8 DEF ToolCallsNext
  <1> QED  BY InvInit, <1>1, PTL DEF ToolCallsSpec

(* However calls end, and whatever has become of their turn: a lease is of *)
(* a call that awaits its work, all calls in flight work for one turn, and *)
(* a locked session can be unlocked.                                       *)
THEOREM CallsTheorem == ToolCallsSpec => []CallsInv
  <1>1. IInv => CallsInv
    BY DEF IInv, PageOK, RequestsOK, TurnsOK, Flight, InFlightOK, CallsInv,
           ToolCallsTypeOK, Statuses, RequestStates, CallRecord
  <1> QED  BY CallsInvariant, <1>1, PTL

-----------------------------------------------------------------------------
(* What a step may not do.  Five facts more are inductive: turns and       *)
(* requests are numbered as they come, only the newest turn lives, the     *)
(* outcome of its request is open, whoever completes it has the fence, and *)
(* a call that awaits has not been answered.                               *)
TurnsInOrder ==
    \E n \in 0..MaxTurns : \A t \in Turns :
       (turns[t].status = "absent" <=> t > n) /\ (LiveNow(t) => t = n)
RequestsInOrder ==
    \E n \in 0..MaxRequests : \A r \in 1..MaxRequests :
       requests[r].status = "absent" <=> r > n
LiveIsOpen ==
    \A t \in Turns : LiveNow(t) =>
       /\ turns[t].request \in 1..MaxRequests
       /\ requests[turns[t].request].status \in {"pending", "expired"}
CompletingHasFence == \A t \in Turns : turns[t].status = "completing" => t \in fences
AwaitsUnanswered ==
    \A k \in Calls : calls[k].at = "awaits" =>
       ~calls[k].answered /\ calls[k].turn \in Turns

StepInv ==
    /\ TurnsInOrder /\ RequestsInOrder /\ LiveIsOpen
    /\ CompletingHasFence /\ AwaitsUnanswered

(* Turns keep their number and their request.                              *)
TurnsOnlyEnd ==
    /\ NoneRevived
    /\ \A t \in Turns :
          /\ turns'[t].status = "absent" <=> turns[t].status = "absent"
          /\ turns'[t].request = turns[t].request

(* An open request stays open, unless its turns end.                       *)
OpenStays ==
    \A r \in 1..MaxRequests : requests[r].status \in {"pending", "expired"} =>
       \/ requests'[r].status \in {"pending", "expired"}
       \/ \A t \in Turns : turns[t].request = r => ~LiveNow(t)'

(* A sequence that is filled in order has as many entries as its last one. *)
LEMMA FilledInOrder ==
    ASSUME NEW M \in Nat, NEW n \in 0..M, NEW S,
           \A i \in 1..M : i \in S <=> ~(i > n), S \subseteq 1..M
    PROVE  Cardinality(S) = n
  <1>1. S = 1..n
    <2>1. \A i \in 1..M : ~(i > n) <=> i \in 1..n
      OBVIOUS
    <2>2. 1..n \subseteq 1..M
      OBVIOUS
    <2> QED  BY <2>1, <2>2
  <1> QED  BY <1>1, FS_Interval

LEMMA NewestTurn ==
    ASSUME TurnsInOrder
    PROVE  Newest \in 0..MaxTurns /\ \A t \in Turns :
              (turns[t].status = "absent" <=> t > Newest) /\ (LiveNow(t) => t = Newest)
  <1>1. PICK n \in 0..MaxTurns : \A t \in Turns :
                (turns[t].status = "absent" <=> t > n) /\ (LiveNow(t) => t = n)
    BY DEF TurnsInOrder
  <1> DEFINE S == {t \in Turns : turns[t].status # "absent"}
  <1>2. S \subseteq 1..MaxTurns /\ \A i \in 1..MaxTurns : i \in S <=> ~(i > n)
    BY <1>1 DEF Turns
  <1> HIDE DEF S
  <1>3. Cardinality(S) = n
    BY <1>2, FilledInOrder
  <1>4. Newest = n
    BY <1>3 DEF Newest, S
  <1> QED  BY <1>1, <1>4

LEMMA LatestRequest ==
    ASSUME RequestsInOrder, DOMAIN requests = 1..MaxRequests
    PROVE  Latest \in 0..MaxRequests /\ \A r \in 1..MaxRequests :
              requests[r].status = "absent" <=> r > Latest
  <1>1. PICK n \in 0..MaxRequests : \A r \in 1..MaxRequests :
                requests[r].status = "absent" <=> r > n
    BY DEF RequestsInOrder
  <1> DEFINE S == {r \in DOMAIN requests : requests[r].status # "absent"}
  <1>2. S \subseteq 1..MaxRequests /\ \A i \in 1..MaxRequests : i \in S <=> ~(i > n)
    BY <1>1
  <1> HIDE DEF S
  <1>3. Cardinality(S) = n
    BY <1>2, FilledInOrder
  <1>4. Latest = n
    BY <1>3 DEF Latest, S
  <1> QED  BY <1>1, <1>4

(* The first state, and the steps in which turns only end.                 *)
LEMMA StepInvInit == ToolCallsInit => StepInv
  <1> SUFFICES ASSUME ToolCallsInit PROVE StepInv
    OBVIOUS
  <1>1. \A t \in Turns : turns[t].status = "absent"
    BY DEF ToolCallsInit, NoTurn
  <1>2. \A t \in Turns : ~LiveNow(t) /\ turns[t].status # "completing" /\ t > 0
    BY <1>1 DEF LiveNow, LiveTurn, Turns
  <1>3. TurnsInOrder
    BY <1>1, <1>2 DEF TurnsInOrder
  <1>4. RequestsInOrder
    BY DEF ToolCallsInit, RequestsInOrder, NoRequest
  <1>5. LiveIsOpen /\ CompletingHasFence /\ AwaitsUnanswered
    BY <1>2 DEF LiveIsOpen, CompletingHasFence, AwaitsUnanswered, ToolCallsInit, NoCall
  <1> QED  BY <1>3, <1>4, <1>5 DEF StepInv

LEMMA RevokedOnlyEnd ==
    ASSUME TurnsOK, NEW T, Revoke(T) \/ UNCHANGED turns
    PROVE  /\ TurnsOnlyEnd
           /\ \A t \in Turns : turns'[t].status = "completing" =>
                                  turns[t].status = "completing"
           /\ Revoke(T) => \A t \in T \cap Turns : ~LiveNow(t)'
  <1>1. CASE UNCHANGED turns /\ ~Revoke(T)
    BY <1>1 DEF TurnsOnlyEnd, NoneRevived, LiveNow
  <1>2. CASE Revoke(T)
    <2>1. ASSUME NEW t \in Turns
          PROVE  turns'[t] = IF t \in T /\ LiveNow(t)
                             THEN [turns[t] EXCEPT !.status = "ended"] ELSE turns[t]
      BY <1>2 DEF Revoke, Ended
    <2> QED  BY <2>1 DEF TurnsOnlyEnd, NoneRevived, LiveNow, LiveTurn, TurnsOK
  <1> QED  BY <1>1, <1>2

LEMMA OrderKept ==
    ASSUME StepInv, TurnsOnlyEnd, OpenStays
    PROVE  TurnsInOrder' /\ LiveIsOpen'
  <1>1. TurnsInOrder'
    BY DEF StepInv, TurnsInOrder, TurnsOnlyEnd, NoneRevived
  <1>2. LiveIsOpen'
    BY DEF StepInv, LiveIsOpen, OpenStays, TurnsOnlyEnd, NoneRevived
  <1> QED  BY <1>1, <1>2

(* No request is forgotten, and its outcome stays.                         *)
LEMMA RequestsKept ==
    ASSUME IInv, StepInv, UNCHANGED requests
    PROVE  RequestsInOrder' /\ OpenStays
  BY DEF StepInv, RequestsInOrder, OpenStays

(* What happens to the page.                                               *)
LEMMA PageStepInv ==
    ASSUME IInv, StepInv,
           \/ SurfaceClaim \/ RecoverPage \/ SurfaceCommit \/ SurfaceRelease
           \/ SurfaceRetire \/ PageRunsOut
    PROVE  StepInv'
  <1>1. UNCHANGED <<calls, fences>>
    BY DEF SurfaceClaim, RecoverPage, SurfaceCommit, SurfaceRelease, SurfaceRetire,
           PageRunsOut, Unmoved
  <1>2. PICK T : Revoke(T) \/ UNCHANGED turns
    BY DEF SurfaceClaim, RecoverPage, SurfaceCommit, SurfaceRelease, SurfaceRetire,
           PageRunsOut
  <1>3. /\ TurnsOnlyEnd
        /\ \A t \in Turns : turns'[t].status = "completing" =>
                               turns[t].status = "completing"
    BY <1>2, RevokedOnlyEnd DEF IInv
  <1>4. RequestsInOrder' /\ OpenStays
    <2>1. CASE SurfaceRetire
      <3>1. \A t \in Turns : ~LiveNow(t)'
        BY <2>1, RevokedOnlyEnd DEF SurfaceRetire, IInv
      <3>2. \A r \in 1..MaxRequests :
               requests'[r].status = "absent" <=> requests[r].status = "absent"
        <4>1. ASSUME NEW r \in 1..MaxRequests
              PROVE  requests'[r] = IF r \in Pending
                                    THEN [requests[r] EXCEPT !.status = "cancelled"]
                                    ELSE requests[r]
          BY <2>1 DEF SurfaceRetire, IInv, RequestsOK
        <4> QED  BY <4>1 DEF Pending, IInv, RequestsOK
      <3> QED  BY <3>1, <3>2 DEF OpenStays, StepInv, RequestsInOrder
    <2>2. CASE UNCHANGED requests
      BY <2>2, RequestsKept
    <2> QED  BY <2>1, <2>2 DEF SurfaceClaim, RecoverPage, SurfaceCommit,
                  SurfaceRelease, PageRunsOut
  <1>5. CompletingHasFence' /\ AwaitsUnanswered'
    BY <1>1, <1>3 DEF StepInv, CompletingHasFence, AwaitsUnanswered
  <1> QED  BY <1>3, <1>4, <1>5, OrderKept DEF StepInv

(* What happens to requests and to turns, but for the issue of a turn.     *)
LEMMA RequestStepInv ==
    ASSUME IInv, StepInv,
           \/ \E phase \in BootOrPlan : OpenControlRequest(phase)
           \/ \E r \in DOMAIN requests :
                 ObserveControlPage(r) \/ CancelControlRequest(r) \/ RequestRunsOut(r)
           \/ \E t \in Turns : TurnEnds(t)
    PROVE  StepInv'
  <1>0. DOMAIN requests = 1..MaxRequests
    BY DEF IInv, RequestsOK
  <1>1. UNCHANGED <<calls, fences>>
    BY DEF OpenControlRequest, ObserveControlPage, CancelControlRequest, RequestRunsOut,
           TurnEnds, Unmoved
  <1>2. PICK T : Revoke(T) \/ UNCHANGED turns
    BY DEF OpenControlRequest, ObserveControlPage, CancelControlRequest, RequestRunsOut,
           TurnEnds, RequestEnds
  <1>3. /\ TurnsOnlyEnd
        /\ \A t \in Turns : turns'[t].status = "completing" =>
                               turns[t].status = "completing"
    BY <1>2, RevokedOnlyEnd DEF IInv
  <1>4. RequestsInOrder' /\ OpenStays
    <2>1. CASE \E phase \in BootOrPlan : OpenControlRequest(phase)
      <3>1. PICK phase \in BootOrPlan : OpenControlRequest(phase)
        BY <2>1
      <3> DEFINE opened == [phase |-> phase, generation |-> page.leased,
                            status |-> IF page.leased # None /\ locked
                                       THEN "cancelled" ELSE "pending"]
      <3>2. requests' = [requests EXCEPT ![Latest + 1] = opened] /\ Latest < MaxRequests
        BY <3>1 DEF OpenControlRequest
      <3>3. opened.status # "absent"
        OBVIOUS
      <3> HIDE DEF opened
      <3>4. Latest \in 0..MaxRequests /\ \A r \in 1..MaxRequests :
               requests[r].status = "absent" <=> r > Latest
        BY <1>0, LatestRequest DEF StepInv
      <3>5. \A r \in 1..MaxRequests :
               requests'[r] = IF r = Latest + 1 THEN opened ELSE requests[r]
        BY <1>0, <3>2
      <3>6. Latest + 1 \in 0..MaxRequests /\ \A r \in 1..MaxRequests :
               requests'[r].status = "absent" <=> r > Latest + 1
        BY <3>2, <3>3, <3>4, <3>5
      <3>7. RequestsInOrder'
        BY <3>6 DEF RequestsInOrder
      <3>8. OpenStays
        BY <3>4, <3>5 DEF OpenStays
      <3> QED  BY <3>7, <3>8
    <2>2. CASE \E r \in DOMAIN requests :
                  ObserveControlPage(r) \/ CancelControlRequest(r) \/ RequestRunsOut(r)
      <3>1. PICK r \in 1..MaxRequests :
                ObserveControlPage(r) \/ CancelControlRequest(r) \/ RequestRunsOut(r)
        BY <1>0, <2>2
      <3>2. PICK outcome \in {"result", "cancelled", "expired"} :
               requests' = [requests EXCEPT ![r].status = outcome]
        BY <3>1 DEF ObserveControlPage, CancelControlRequest, RequestRunsOut
      <3>3. requests[r].status = "pending"
        BY <3>1 DEF ObserveControlPage, CancelControlRequest, RequestRunsOut, Pending
      <3>4. \A s \in 1..MaxRequests :
               requests'[s] = IF s = r THEN [requests[r] EXCEPT !.status = outcome]
                              ELSE requests[s]
        BY <1>0, <3>2
      <3>5. requests'[r].status = outcome /\ outcome # "absent"
        BY <3>4 DEF IInv, RequestsOK
      <3>6. RequestsInOrder'
        BY <3>3, <3>4, <3>5 DEF StepInv, RequestsInOrder
      <3>7. CASE RequestRunsOut(r)
        <4>1. outcome = "expired"
          BY <3>5, <3>7, <1>0 DEF RequestRunsOut, IInv, RequestsOK
        <4> QED  BY <3>4, <3>5, <3>6, <4>1 DEF OpenStays
      <3>8. CASE ObserveControlPage(r) \/ CancelControlRequest(r)
        <4>1. Revoke(RequestTurns(r))
          BY <3>8 DEF ObserveControlPage, CancelControlRequest, RequestEnds
        <4>2. \A t \in Turns : turns[t].request = r => ~LiveNow(t)'
          BY <4>1, RevokedOnlyEnd DEF IInv, RequestTurns
        <4> QED  BY <3>4, <3>6, <4>2 DEF OpenStays
      <3> QED  BY <3>1, <3>7, <3>8
    <2>3. CASE UNCHANGED requests
      BY <2>3, RequestsKept
    <2> QED  BY <2>1, <2>2, <2>3 DEF TurnEnds
  <1>5. CompletingHasFence' /\ AwaitsUnanswered'
    BY <1>1, <1>3 DEF StepInv, CompletingHasFence, AwaitsUnanswered
  <1> QED  BY <1>3, <1>4, <1>5, OrderKept DEF StepInv

(* The turn that is issued is the newest, and its request is pending.      *)
LEMMA IssueStepInv ==
    ASSUME IInv, StepInv, NEW r \in DOMAIN requests, NEW generation \in 1..page.last,
           IssueReplacingTurn(r, generation)
    PROVE  StepInv'
  <1> DEFINE issued == [status |-> "issued", request |-> r, generation |-> generation]
  <1>1. /\ turns' = [Ended(Turns) EXCEPT ![Newest + 1] = issued] /\ Newest < MaxTurns
        /\ r \in Pending /\ UNCHANGED <<requests, calls, fences>>
    BY DEF IssueReplacingTurn, Unmoved
  <1>2. Newest \in 0..MaxTurns /\ \A t \in Turns :
              (turns[t].status = "absent" <=> t > Newest) /\ (LiveNow(t) => t = Newest)
    BY NewestTurn DEF StepInv
  <1>3. /\ issued.status = "issued" /\ issued.request = r
    OBVIOUS
  <1> HIDE DEF issued
  <1>4. \A t \in Turns :
           turns'[t] = IF t = Newest + 1 THEN issued
                       ELSE IF LiveNow(t) THEN [turns[t] EXCEPT !.status = "ended"]
                       ELSE turns[t]
    BY <1>1 DEF Ended
  <1>5. \A t \in Turns : turns'[t].status \in LiveTurn => t = Newest + 1
    BY <1>4 DEF LiveNow, LiveTurn, IInv, TurnsOK
  <1>6. TurnsInOrder'
    <2>1. \A t \in Turns : turns'[t].status = "absent" <=> t > Newest + 1
      <3>1. \A t \in Turns : turns'[t].status = "absent"
                                <=> t # Newest + 1 /\ turns[t].status = "absent"
        BY <1>3, <1>4 DEF LiveNow, LiveTurn, IInv, TurnsOK
      <3>2. \A t \in Turns : t # Newest + 1 /\ t > Newest <=> t > Newest + 1
        BY <1>2 DEF Turns
      <3> QED  BY <1>2, <3>1, <3>2
    <2>2. Newest + 1 \in 0..MaxTurns
      BY <1>1, <1>2
    <2> QED  BY <1>5, <2>1, <2>2 DEF TurnsInOrder, LiveNow
  <1>7. RequestsInOrder'
    BY <1>1 DEF StepInv, RequestsInOrder
  <1>8. LiveIsOpen'
    BY <1>1, <1>3, <1>4, <1>5 DEF LiveIsOpen, LiveNow, Pending, IInv, RequestsOK
  <1>9. CompletingHasFence' /\ AwaitsUnanswered'
    <2>1. \A t \in Turns : turns'[t].status # "completing"
      BY <1>3, <1>4, <1>5 DEF LiveTurn
    <2> QED  BY <1>1, <2>1 DEF StepInv, CompletingHasFence, AwaitsUnanswered
  <1> QED  BY <1>6, <1>7, <1>8, <1>9 DEF StepInv

(* A completion, from its fence to its end.                                *)
LEMMA CompletionStepInv ==
    ASSUME IInv, StepInv, NEW t \in Turns,
           BeginCompletion(t) \/ CompleteTurn(t) \/ AbortTurnCompletion(t)
    PROVE  StepInv'
  <1>1. UNCHANGED <<requests, calls>>
    BY DEF BeginCompletion, CompleteTurn, AbortTurnCompletion
  <1>2. RequestsInOrder' /\ OpenStays
    BY <1>1, RequestsKept
  <1>3. \/ turns' = turns
        \/ /\ turns[t].status \in {"active", "completing"}
           /\ \E status \in {"active", "completing", "completed"} :
                 turns' = [turns EXCEPT ![t].status = status]
    BY DEF BeginCompletion, CompleteTurn, AbortTurnCompletion
  <1>4. TurnsOnlyEnd
    BY <1>3 DEF TurnsOnlyEnd, NoneRevived, LiveNow, LiveTurn, IInv, TurnsOK
  <1>5. CompletingHasFence'
    <2> USE DEF IInv, TurnsOK, StepInv, CompletingHasFence
    <2>1. CASE BeginCompletion(t)
      BY <2>1 DEF BeginCompletion
    <2>2. CASE CompleteTurn(t)
      BY <2>2 DEF CompleteTurn
    <2>3. CASE AbortTurnCompletion(t)
      BY <2>3 DEF AbortTurnCompletion
    <2> QED  BY <2>1, <2>2, <2>3
  <1>6. AwaitsUnanswered'
    BY <1>1 DEF StepInv, AwaitsUnanswered
  <1> QED  BY <1>2, <1>4, <1>5, <1>6, OrderKept DEF StepInv

(* The checkout goes and returns, and the gateway is restarted.            *)
LEMMA MachineStepInv ==
    ASSUME IInv, StepInv, CheckoutGoes \/ CheckoutReturns \/ GatewayRestarts
    PROVE  StepInv'
  <1>1. UNCHANGED requests
    BY DEF CheckoutGoes, CheckoutReturns, GatewayRestarts
  <1>2. RequestsInOrder' /\ OpenStays
    BY <1>1, RequestsKept
  <1>3. PICK T : Revoke(T) \/ UNCHANGED turns
    BY DEF CheckoutGoes, CheckoutReturns, GatewayRestarts, Revoke
  <1>4. /\ TurnsOnlyEnd
        /\ \A t \in Turns : turns'[t].status = "completing" =>
                               turns[t].status = "completing"
    BY <1>3, RevokedOnlyEnd DEF IInv
  <1>5. CASE GatewayRestarts
    <2>1. Revoke(Turns) /\ calls' = [k \in Calls |-> NoCall]
      BY <1>5 DEF GatewayRestarts, Revoke
    <2>2. \A t \in Turns : ~LiveNow(t)'
      BY <2>1, RevokedOnlyEnd DEF IInv
    <2>3. CompletingHasFence' /\ AwaitsUnanswered'
      BY <2>1, <2>2 DEF CompletingHasFence, AwaitsUnanswered, NoCall, LiveNow, LiveTurn
    <2> QED  BY <1>2, <1>4, <2>3, OrderKept DEF StepInv
  <1>6. CASE CheckoutGoes \/ CheckoutReturns
    <2>1. UNCHANGED <<calls, fences>>
      BY <1>6 DEF CheckoutGoes, CheckoutReturns
    <2>2. CompletingHasFence' /\ AwaitsUnanswered'
      BY <1>4, <2>1 DEF StepInv, CompletingHasFence, AwaitsUnanswered
    <2> QED  BY <1>2, <1>4, <2>2, OrderKept DEF StepInv
  <1> QED  BY <1>5, <1>6

(* A call is claimed, fails to renew, loses its lease or ends.             *)
LEMMA CallStepInv ==
    ASSUME IInv, StepInv, NEW k \in Calls,
           \/ RenewTurn(k) \/ LeaseRunsOut(k) \/ EndCall(k)
           \/ \E t \in Turns : ClaimTurn(k, t)
    PROVE  StepInv'
  <1>1. UNCHANGED <<requests, fences>>
    BY DEF RenewTurn, LeaseRunsOut, EndCall, ClaimTurn
  <1>2. RequestsInOrder' /\ OpenStays
    BY <1>1, RequestsKept
  <1>3. /\ TurnsOnlyEnd
        /\ \A t \in Turns : turns'[t].status = "completing" =>
                               turns[t].status = "completing"
    <2>1. CASE \E T : Revoke(T) \/ UNCHANGED turns
      BY <2>1, RevokedOnlyEnd DEF IInv
    <2>2. CASE \E t \in Turns : /\ LiveNow(t)
                                /\ turns' = [turns EXCEPT ![t].status = "active"]
      BY <2>2 DEF TurnsOnlyEnd, NoneRevived, LiveNow, LiveTurn, IInv, TurnsOK
    <2> QED  BY <2>1, <2>2 DEF RenewTurn, LeaseRunsOut, EndCall, ClaimTurn
  <1>4. AwaitsUnanswered'
    <2> USE DEF StepInv, AwaitsUnanswered, IInv, Flight, InFlightOK
    <2>1. CASE RenewTurn(k)
      <3>1. calls' = [calls EXCEPT ![k].failed = TRUE]
        BY <2>1 DEF RenewTurn
      <3> QED  BY <3>1 DEF CallRecord
    <2>2. CASE LeaseRunsOut(k)
      BY <2>2 DEF LeaseRunsOut
    <2>3. CASE EndCall(k)
      <3>1. \/ calls' = [calls EXCEPT ![k] = [NoCall EXCEPT !.answered = TRUE]]
            \/ calls' = [calls EXCEPT ![k] = NoCall]
        BY <2>3 DEF EndCall
      <3> QED  BY <3>1 DEF NoCall
    <2>4. CASE \E t \in Turns : ClaimTurn(k, t)
      <3>1. PICK t \in Turns : ClaimTurn(k, t)
        BY <2>4
      <3>2. \/ calls' = calls
            \/ calls' = [calls EXCEPT ![k] = [NoCall EXCEPT !.at = "awaits", !.turn = t]]
        BY <3>1 DEF ClaimTurn
      <3> QED  BY <3>2 DEF NoCall
    <2> QED  BY <2>1, <2>2, <2>3, <2>4
  <1>5. CompletingHasFence'
    BY <1>1, <1>3 DEF StepInv, CompletingHasFence
  <1> QED  BY <1>2, <1>3, <1>4, <1>5, OrderKept DEF StepInv

(* An answer is for the newest turn, its page and an open outcome.         *)
LEMMA AnswersAreCurrent ==
    ASSUME IInv, StepInv, [ToolCallsNext]_callVars, NEW k \in Calls, Answered(k)
    PROVE  LET turn == turns[calls[k].turn] IN
           /\ calls[k].turn = Newest
           /\ turn.generation = page.last
           /\ requests[turn.request].status \in {"pending", "expired"}
  <1> DEFINE t == calls[k].turn
  <1>1. t \in Turns /\ ~calls[k].answered
    BY DEF Answered, StepInv, AwaitsUnanswered
  <1>2. calls'[k] # calls[k] /\ calls[k].at = "awaits"
    BY <1>1 DEF Answered
  <1>3. calls \in [Calls -> CallRecord]
    BY DEF IInv, Flight, InFlightOK
  <1>4. EndCall(k)
    <2>1. ASSUME NEW j \in Calls, RenewTurn(j)  PROVE FALSE
      <3>1. calls' = [calls EXCEPT ![j].failed = TRUE]
        BY <2>1 DEF RenewTurn
      <3>2. calls'[k].answered = calls[k].answered
        BY <1>3, <3>1 DEF CallRecord
      <3> QED  BY <1>1, <3>2 DEF Answered
    <2>2. ASSUME NEW j \in Calls, NEW u \in Turns, ClaimTurn(j, u)  PROVE FALSE
      <3>1. \/ calls' = calls
            \/ /\ calls' = [calls EXCEPT ![j] = [NoCall EXCEPT !.at = "awaits", !.turn = u]]
               /\ calls[j].at = "idle"
        BY <2>2 DEF ClaimTurn
      <3> QED  BY <1>2, <1>3, <3>1
    <2>3. ASSUME NEW j \in Calls, EndCall(j)  PROVE j = k
      <3>1. \/ calls' = [calls EXCEPT ![j] = [NoCall EXCEPT !.answered = TRUE]]
            \/ calls' = [calls EXCEPT ![j] = NoCall]
        BY <2>3 DEF EndCall
      <3> QED  BY <1>2, <1>3, <3>1
    <2>4. ASSUME GatewayRestarts  PROVE FALSE
      BY <2>4 DEF GatewayRestarts, NoCall, Answered
    <2>5. CASE UNCHANGED calls
      BY <1>2, <2>5
    <2> QED  BY <2>1, <2>2, <2>3, <2>4, <2>5
             DEF ToolCallsNext, callVars, Unmoved, SurfaceClaim, RecoverPage,
                 SurfaceCommit, SurfaceRelease, SurfaceRetire, PageRunsOut,
                 CheckoutGoes, CheckoutReturns, OpenControlRequest,
                 ObserveControlPage, CancelControlRequest, RequestRunsOut,
                 IssueReplacingTurn, TurnEnds, BeginCompletion, CompleteTurn,
                 AbortTurnCompletion, LeaseRunsOut
  <1>5. LiveNow(t) /\ PageIsCurrent(t)
    <2>1. CASE calls' = [calls EXCEPT ![k] = NoCall]
      BY <1>3, <2>1 DEF NoCall, Answered
    <2> QED  BY <1>4, <2>1 DEF EndCall, MayAnswer
  <1>6. t = Newest
    BY <1>1, <1>5, NewestTurn DEF StepInv
  <1>7. turns[t].generation = page.last
    BY <1>5 DEF PageIsCurrent, CurrentTurnSurface, IInv, PageOK
  <1>8. requests[turns[t].request].status \in {"pending", "expired"}
    BY <1>1, <1>5 DEF StepInv, LiveIsOpen
  <1> QED  BY <1>6, <1>7, <1>8

(* While a turn is completing the session is locked, and its page is only  *)
(* changed by steps that a lock refuses or that end the turn.              *)
LEMMA PageIsKept ==
    ASSUME IInv, StepInv, [ToolCallsNext]_callVars, NEW t \in Turns,
           turns[t].status = "completing", turns'[t].status \in {"completing", "completed"}
    PROVE  /\ page'.last = page.last /\ page'.committed = page.committed
           /\ page'.leased \in {page.leased, None}
  <1>1. locked
    BY DEF StepInv, CompletingHasFence, IInv, Flight, LockHasFence
  <1>2. CASE PageRunsOut
    BY <1>2 DEF PageRunsOut, IInv, PageOK
  <1>3. CASE CheckoutGoes
    <2>1. turns'[t].status = "ended"
      BY <1>3 DEF CheckoutGoes, Revoke, Ended, LiveNow, LiveTurn, IInv, TurnsOK
    <2> QED  BY <2>1
  <1>4. CASE UNCHANGED page
    BY <1>4
  <1> QED  BY <1>1, <1>2, <1>3, <1>4
           DEF ToolCallsNext, callVars, MutationAllowed, SurfaceClaim, RecoverPage,
               SurfaceCommit, SurfaceRelease, SurfaceRetire, CheckoutReturns,
               GatewayRestarts, OpenControlRequest, ObserveControlPage,
               CancelControlRequest, RequestRunsOut, IssueReplacingTurn, TurnEnds,
               BeginCompletion, CompleteTurn, AbortTurnCompletion, RenewTurn,
               LeaseRunsOut, EndCall, ClaimTurn

(* Whatever comes between the claim of a turn and the answer to its call,  *)
(* nothing is answered for a turn, a page or an outcome that has ended,    *)
(* and a turn that is completing keeps the page that it began with.        *)
THEOREM CallStepsTheorem == ToolCallsSpec => CallSteps
  <1>1. IInv /\ StepInv /\ [ToolCallsNext]_callVars => StepInv'
    <2> SUFFICES ASSUME IInv, StepInv, [ToolCallsNext]_callVars PROVE StepInv'
      OBVIOUS
    <2>1. CASE UNCHANGED callVars
      BY <2>1 DEF callVars, StepInv, TurnsInOrder, RequestsInOrder, LiveIsOpen, LiveNow,
                  CompletingHasFence, AwaitsUnanswered
    <2>2. CASE ToolCallsNext
      BY <2>2, PageStepInv, RequestStepInv, IssueStepInv, CompletionStepInv,
         MachineStepInv, CallStepInv DEF ToolCallsNext
    <2> QED  BY <2>1, <2>2
  <1>2. IInv /\ StepInv /\ [ToolCallsNext]_callVars =>
           [\A k \in Calls : Answered(k) =>
               LET turn == turns[calls[k].turn] IN
               /\ calls[k].turn = Newest
               /\ turn.generation = page.last
               /\ requests[turn.request].status \in {"pending", "expired"}]_callVars
    BY AnswersAreCurrent
  <1>3. IInv /\ StepInv /\ [ToolCallsNext]_callVars =>
           [\A t \in Turns :
              turns[t].status = "completing"
              /\ turns'[t].status \in {"completing", "completed"} =>
                 /\ page'.last = page.last /\ page'.committed = page.committed
                 /\ page'.leased \in {page.leased, None}]_callVars
    BY PageIsKept
  <1> QED  BY CallsInvariant, StepInvInit, <1>1, <1>2, <1>3, PTL
           DEF ToolCallsSpec, CallSteps, ResultIsCurrent, CompletingKeepsPage
=============================================================================
