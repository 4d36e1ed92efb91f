SPECIFICATION FairSpec
CONSTANTS
    r1 = r1 r2 = r2 s1 = s1 q1 = q1
    Registrations <- OneRegistration
    Locals <- OneLocal
    Requests <- OneRequest
    Epochs <- OneEpoch
    CapabilityTtls <- LongTtl
    LeaseTtls <- BothTtls
    ObservationAge = 1
    ObservationSkew = 1
    MaxTombstones = 1
    MaxTime = 3
    MaxTokens = 2
    MaxLeases = 2
    MaxFences = 2
INVARIANTS
    TypeOK LeaseWithinCapability FencesAreCurrent NoBorrowedLifetime
PROPERTIES
    TerminalTurnsEnd
