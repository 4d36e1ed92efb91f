SPECIFICATION LifetimeSpec
CONSTANTS
    Commands = {ca}
    MaxBoots = 2
    MaxInstalls = 1
INVARIANTS RebuiltIsServed
CHECK_DEADLOCK FALSE
