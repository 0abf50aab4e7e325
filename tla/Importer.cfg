SPECIFICATION ImportSpec
CONSTANTS
    c1 = c1
    c2 = c2
    e1 = e1
    e2 = e2
    e3 = e3
    title = title
    Handlers = {h1}
    ScheduleIds = {s1, s2, s3}
    Channels = {c1, c2}
    Horizon = 2
    MaxVersion = 1
    CreateDtos <- OneSlot
    UpdateDtos <- NoBodies
    Faults = TRUE
    Null = Null
    Files <- SoundFiles
    EpgIds <- EveryEpgId
    ChannelOf <- Known
    Titles = {title}
SYMMETRY Interchangeable
INVARIANTS
    ImportTypeOK
    NoDoubleBooking
    ImportCovers
