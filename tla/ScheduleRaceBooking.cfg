SPECIFICATION Spec
CONSTANTS
    Handlers = {h1, h2}
    ScheduleIds = {s1, s2}
    Channels = {c1}
    Horizon = 2
    MaxVersion = 2
    CreateDtos <- FewCreateDtos
    UpdateDtos <- FewUpdateDtos
    Faults = FALSE
    Null = Null
SYMMETRY Symmetric
INVARIANT
    NoDoubleBooking
