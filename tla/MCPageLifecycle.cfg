SPECIFICATION MCSpec
CONSTANTS
    Responses = {r1, r2}
    Results = {p1, p2}
    Failures = {}
    Stability = 1
    ObservationAge = 1
    ObservationSkew = 0
    MaxSeq = 6
    MaxTime = 2
SYMMETRY Symmetric
INVARIANTS TypeOK FinalIsStable OneResponse SendingProved
CHECK_DEADLOCK FALSE
