SPECIFICATION FairRestSpec
CONSTANTS
    Absent = Absent
    NoUpdate = NoUpdate
    Devices = {d1, d2, d3}
    Params = {p}
    Values = {v}
    Concurrency = 2
    Timeout = 1
    Interval = 1
    MinLimit = 2
INVARIANTS ScrapeReported UnhealthyExplained
PROPERTIES VanishedStays KeepsPolling
CHECK_DEADLOCK FALSE
