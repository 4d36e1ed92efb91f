SPECIFICATION MCMachineSpec
CONSTANTS
    Procs = {pa, pb, pc1}
    Mortal = {pa, pb, pc1}
    Inodes = {1, 2, 3, 4, 5, 6, 7}
    Roots = {ra, rb}
    Prints = {i, j}
    GitProjects = {g}
    MaxRegistrations = 2
    Rivals = FALSE
    Commands = {ca}
    MaxBoots = 3
    MaxInstalls = 1
    MaxReleases = 3
    Calls = {ka, kb}
    MaxTurns = 2
    MaxPages = 2
    MaxRequests = 2
SYMMETRY Symmetric
INVARIANTS
    TypeOK ReaperSparesHolder RegistryInv LifetimeInv InstallInv CallsInv
PROPERTIES
    RemovedOnlyWhenEmpty LifetimeSteps ForeignKept CallSteps
CHECK_DEADLOCK FALSE
