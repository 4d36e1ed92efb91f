SPECIFICATION RecordsSpec
CONSTANTS
    Recorders = {pa, pb}
    Texts = {t}
    MAX_OUTPUT_RECORDS = 1
    Wide = {1}
    MaxRecords = 3
INVARIANTS LogReadable
CHECK_DEADLOCK FALSE
