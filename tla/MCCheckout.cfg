SPECIFICATION MCCheckoutSpec
CONSTANTS
    Procs = {pa, pb}
    Mortal = {pa}
    Inodes = {1, 2, 3, 4, 5, 6}
    Recorders = {rec1, rec2}
    Texts = {t}
    MAX_OUTPUT_RECORDS = 1
    Wide = {}
    MaxRecords = 3
    Sessions = {sa, sb}
    Projects = {P, Q}
    Tasks = {ta}
    MAX_C2C_ITERATION = 1
    MaxGeneration = 1
    None = None
    Absent = Absent
INVARIANTS
    LockNamesHolder RecordsInv SessionInv
PROPERTIES
    AbandonedIsRecovered RecordsOnlyGrow ProgressSurvivesRoutes
CHECK_DEADLOCK FALSE
