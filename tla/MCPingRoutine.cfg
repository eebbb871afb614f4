SPECIFICATION FairSpec
CONSTANTS
    Devices = {d1, d2}
    Ping = 2
    Refresh = 5
    PublishTimeout = 3
    LoginDelay = 1
    MaxLoginDelay = 3
    MaxLogins = 3
INVARIANTS RefreshedInTime PublishAddressed
PROPERTIES LoginsSpaced LogsIn KeepsAsking
CHECK_DEADLOCK FALSE
