SPECIFICATION Spec
CONSTANTS
    r1 = r1 r2 = r2 s1 = s1 q1 = q1
    Registrations <- TwoRegistrations
    Locals <- OneLocal
    Requests <- OneRequest
    Epochs <- BothEpochs
    CapabilityTtls <- ShortTtl
    LeaseTtls <- ShortTtl
    ObservationAge = 0
    ObservationSkew = 0
    MaxTombstones = 0
    MaxTime = 2
    MaxTokens = 3
    MaxLeases = 2
    MaxFences = 1
INVARIANTS
    OneHolderPerSession LiveCarriesSessionEpoch
PROPERTIES
    SessionSteps
