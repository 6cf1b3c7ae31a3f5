\* Mismatch tracking against the history of what was recorded.
SPECIFICATION HSpec
CONSTANTS
    Subnets = {1, 2, 3, 4}
    SubnetLists <- TrackingLists
    Slots = {1, 2, 3, 4}
    AttestationEnabled = TRUE
    MaxSubnets = 1
    DetectionWindow = 2
    MismatchThreshold = 2
    CooldownPeriod = 2
    HighWaterMark = 1
    Refreshers = {}
    NoRefresher = none
PROPERTIES InOrderEvidence MismatchDetected ImplementsReconnectSignal
