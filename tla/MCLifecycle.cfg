\* Two beacon nodes, shutdown by a signal at any moment.
SPECIFICATION FairSpec
CONSTANTS
    Instances = {i1, i2}
    Servers = {health}
    MaxGen = 3
INVARIANTS TypeOK OneMonitorOneConnection RestartedAtMostOnce OneSummary NoDoubleClose StoppedMeansDisconnected
PROPERTIES CancelledSummariesEnd SignalsAreHandled ShutdownEndsGoroutines
CHECK_DEADLOCK FALSE
