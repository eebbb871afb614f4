SPECIFICATION FairSpec
CONSTANTS
    NoClient = NoClient
    Clients = {c1, c2}
    ReloginAfter = 3
INVARIANTS TypeOK LeftoversExplained NoStaleRelogin WaitIsForSomething
PROPERTIES RequestAnswered AllStop KeepsConnectedUnlessRefused
CHECK_DEADLOCK FALSE
