SPECIFICATION ProcessSpec
CONSTANTS
    Absent = Absent
    Interval = 3
    Limit = 7
    Second = 8
    HalfRange = 32
    DefaultRestInterval = 1
    DefaultOfflineThreshold = 3
    DefaultPingInterval = 1
    DefaultStateRefreshInterval = 2
    Environments <- MCEnvironments
INVARIANTS FiresInTime ExitExplained SettingsAsGiven OneCorrectionSuffices
PROPERTIES GivesUpOnlyWhenUnhealthy OkIsHealthy UnhealthyExits
CHECK_DEADLOCK FALSE
