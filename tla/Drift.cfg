CONSTANTS
    Producer <- MCProducer
    Watcher = "watch"
    Main = "main"
    Content = {"c1"}
    MaxQueue = 1
    BatchSize = 2
    MaxRetries = 1
    MaxSaves = 3
    MaxRecords = 3
SPECIFICATION Spec
INVARIANTS RecordsAccounted DrainedOnClose
PROPERTIES DriftRecorded EveryRecordLeaves
CHECK_DEADLOCK FALSE
