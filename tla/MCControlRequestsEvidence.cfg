SPECIFICATION MCSpec
CONSTANTS
    Responses = {x}
    Results = {p1}
    Failures = {}
    Stability = 1
    ObservationAge = 0
    ObservationSkew = 0
    MaxSeq = 4
    MaxTime = 2
    Sessions = {s1}
    Correlations = {c1}
    Lifetimes = {2}
    Retain = 1
    MaxRequests = 1
INVARIANTS EvidenceIsNotDelivery
CHECK_DEADLOCK FALSE
