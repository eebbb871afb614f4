SPECIFICATION CallbacksSpec
CONSTANTS
    NoClient = NoClient
    Clients = {c1, c2}
    Devices = {d1}
    ReloginAfter = 2
SYMMETRY ClientSymmetry
VIEW WithoutHistory
INVARIANTS SubscribedUnlessFailed GaugeWrongOnlyByLateWrite
CHECK_DEADLOCK FALSE
