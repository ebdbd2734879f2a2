SPECIFICATION SessionsSpec
CHECK_DEADLOCK FALSE
INVARIANTS
    ReportIsFinal
    ChecksHold
    SessionsAreSeparate
    OneVersion
    ListArrivesWhole
PROPERTIES
    CallsReturn
    EveryThreadGetsOut
