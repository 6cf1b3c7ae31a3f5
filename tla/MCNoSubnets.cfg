\* A node that leaves all its subnets.
SPECIFICATION SFairSpec
CONSTANTS
    Subnets = {1, 2}
    SubnetLists <- FollowLists
    Slots = {}
    AttestationEnabled = TRUE
    MaxSubnets = 1
    DetectionWindow = 2
    MismatchThreshold = 1
    CooldownPeriod = 0
    HighWaterMark = 0
    Refreshers = {r1}
    NoRefresher = none
    Checks = {c1}
PROPERTIES FollowsNoSubnets
CHECK_DEADLOCK FALSE
