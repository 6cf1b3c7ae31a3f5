\* A restart that failed leaves no Node for Stop.
SPECIFICATION Spec
CONSTANTS
    Instances = {i1}
    Servers = {health}
    MaxGen = 3
INVARIANTS StopNeverPanics
CHECK_DEADLOCK FALSE
