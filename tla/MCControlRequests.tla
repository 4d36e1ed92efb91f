-------------------------- MODULE MCControlRequests --------------------------
(* ControlRequests for TLC.  The host skips no sequence number, which the   *)
(* code does not distinguish from the next one.  A second request is opened *)
(* while the first has at most one event, and then there is one per request.*)
EXTENDS ControlRequests, TLC

LatestSeqs == {store.observation[r].latest.seq : r \in Ids}

Observations ==
    IF todo # <<>> \/ nextId = 1 THEN {}
    ELSE {o \in Observation :
             /\ \E n \in LatestSeqs : o.seq <= n + 1
             /\ nextId > 2 => o.seq <= 1 /\ o.payload \notin Failures}

FewEvents ==
    /\ \A n \in LatestSeqs : n <= 1
    /\ \A r \in Ids : store.marker[r].outcome # "failed"

MCNext == Handlers(Observations) /\ (nextId = 2 /\ nextId' = 3 => FewEvents)

MCSpec == Init /\ [][MCNext]_vars

Symmetric == Permutations(Sessions)
=============================================================================
