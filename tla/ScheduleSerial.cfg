SPECIFICATION Spec
CONSTANTS
    Handlers = {h1}
    ScheduleIds = {s1, s2}
    Channels = {c1, c2}
    Horizon = 2
    MaxVersion = 3
    CreateDtos <- AllCreateDtos
    UpdateDtos <- AllUpdateDtos
    Faults = FALSE
    Null = Null
SYMMETRY Symmetric
INVARIANTS
    NoDoubleBooking
    RowsWellFormed
    AuditTrailIsAHistory
    AuditTrailComplete
    SnappedFollowsOn
PROPERTIES
    CancelledIsFinal
    PublishedByPublishOnly
    ImplementsTimeline
