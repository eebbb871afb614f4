SPECIFICATION MonitorSpec
CONSTANTS
    Absent = Absent
    Devices = {d1}
    Threshold = 2
    MaxReconnectDelay = 3
    ReloginAfter = 3
PROPERTY ReloginNotEarly
