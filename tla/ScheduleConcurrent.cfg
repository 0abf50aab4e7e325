SPECIFICATION Spec
CONSTANTS
    Handlers = {h1, h2}
    ScheduleIds = {s1}
    Channels = {c1}
    Horizon = 2
    MaxVersion = 3
    CreateDtos <- FewCreateDtos
    UpdateDtos <- FewUpdateDtos
    Faults = TRUE
    Null = Null
SYMMETRY Symmetric
INVARIANTS
    TypeOK
    OneAuditRowPerVersion
    AuditedWritesHappened
