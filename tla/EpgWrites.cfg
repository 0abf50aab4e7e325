SPECIFICATION EpgSpec
CONSTANTS
    Handlers = {h1}
    ScheduleIds = {s1, s2}
    Channels = {c1, c2}
    Horizon = 1
    MaxVersion = 3
    CreateDtos <- OneSlot
    UpdateDtos <- MovesAndDrafts
    Faults = FALSE
    Null = Null
    Readers = {r1}
    AllChannels = AllChannels
    RedisFaults = FALSE
    MaxJobs = 1
SYMMETRY Interchangeable
INVARIANTS
    WritesAreSeen
    ServedWithoutOverlap
