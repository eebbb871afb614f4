SPECIFICATION Spec
CONSTANTS
    Inboxes <- MCInboxes
    Device = "sn1"
    OnlineName <- MCOnlineName
INVARIANTS ExposedExplained PacksKeptApart NamesKeepWords TelemetryTells
CHECK_DEADLOCK FALSE
