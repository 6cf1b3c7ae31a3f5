\* Three beacon nodes.
SPECIFICATION FairSpec
CONSTANTS
    Nodes = {n1, n2, n3}
INVARIANTS TypeOK
PROPERTIES ImplementsConnecting ConnectReturns ReportersEnd BackgroundReceivesAll
CHECK_DEADLOCK FALSE
