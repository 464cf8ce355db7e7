CONSTANTS
    LogSerializerCsv = LogSerializerCsv
    RecoveryManagerCsv = RecoveryManagerCsv
    OtherCsv = OtherCsv
    LOG_SERIALIZER_CSV <- LogSerializerCsv
    RECOVERY_MANAGER_CSV <- RecoveryManagerCsv
    METRICS_FILES <- MCMetricsFiles
    MaxInvocations = 1
    MaxRows = 4
    MaxLog = 3
    SyncTimeout = 2
    TeardownMayFail = FALSE


SPECIFICATION Spec

INVARIANT PrimaryTornDownLast
