SPECIFICATION MonitorSpec
CONSTANTS
    Absent = Absent
    Devices = {d1, d2}
    Threshold = 2
    MaxReconnectDelay = 3
    ReloginAfter = 3
PROPERTY OfflineReportTruthful
