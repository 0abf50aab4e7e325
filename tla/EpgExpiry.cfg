SPECIFICATION FairEpgSpec
CONSTANTS
    Handlers = {h1}
    ScheduleIds = {s1}
    Channels = {c1}
    Horizon = 1
    MaxVersion = 3
    CreateDtos <- OneSlot
    UpdateDtos <- MovesAndDrafts
    Faults = TRUE
    Null = Null
    Readers = {r1}
    AllChannels = AllChannels
    RedisFaults = TRUE
    MaxJobs = 1
INVARIANT
    OnlyPublishedIsServed
PROPERTY
    StaleResponsesEnd
