\* The node's subnets reach the topic manager, and what is selected is among them.
SPECIFICATION SFairSpec
CONSTANTS
    Subnets = {1, 2}
    SubnetLists <- FollowLists
    Slots = {1}
    AttestationEnabled = TRUE
    MaxSubnets = 1
    DetectionWindow = 2
    MismatchThreshold = 1
    CooldownPeriod = 0
    HighWaterMark = 0
    Refreshers = {r1}
    NoRefresher = none
    Checks = {c1}
INVARIANTS TypeOK SelectionMatchesAdvertised NoLeakedRefresher
PROPERTIES FollowsSubnets StoppedWrapperQuiesces
