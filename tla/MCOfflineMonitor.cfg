SPECIFICATION FairMonitorSpec
CONSTANTS
    Absent = Absent
    Devices = {d1}
    Threshold = 2
    MaxReconnectDelay = 5
    ReloginAfter = 3
INVARIANTS MonitorTypeOK VerdictExplained HiddenOnlyByRace ReturnRefreshed
PROPERTIES ReloginInTime ReconnectsSpaced SilentIsReported ReloginRepeats
