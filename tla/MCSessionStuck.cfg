SPECIFICATION FairSpec
CONSTANTS
    NoClient = NoClient
    Clients = {c1, c2}
    ReloginAfter = 2
PROPERTY KeepsConnected
CHECK_DEADLOCK FALSE
