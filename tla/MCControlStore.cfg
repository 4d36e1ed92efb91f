SPECIFICATION MCControlStoreSpec
CONSTANTS
    Responses = {x}
    Results = {p1}
    Failures = {f1}
    Stability = 1
    ObservationAge = 0
    ObservationSkew = 0
    MaxSeq = 4
    MaxTime = 2
    Sessions = {s1, s2}
    Correlations = {c1}
    Lifetimes = {1}
    Retain = 0
    MaxRequests = 2
    Requests = {q, r}
    Found = {"absent", "broken", "generating"}
    MaxDrifts = 2
SYMMETRY StoreSymmetric
INVARIANTS
    ResultRecoverable AuthorityEndsWithOutcome OneUnfinished MigrationInv
PROPERTIES
    OutcomeSpec DeletedIsTaken
CHECK_DEADLOCK FALSE
