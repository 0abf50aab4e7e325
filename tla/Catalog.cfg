SPECIFICATION Spec
CONSTANTS
    h1 = h1
    h2 = h2
    r1 = r1
    c1 = c1
    c2 = c2
    a1 = a1
    a2 = a2
    s1 = s1
    e1 = e1
    n1 = n1
    n2 = n2
    Handlers = {h1, h2}
    Readers = {r1}
    ChannelIds = {c1, c2}
    AssetIds = {a1}
    ScheduleIds = {s1}
    ScheduleChannel <- OneScheduleChannel
    EpgIds = {e1}
    Names = {n1, n2}
    ChannelBodies <- EpgIdBodies
    AssetBodies <- NamingBodies
    ChannelList = ChannelList
    Absent = Absent
    Null = Null
SYMMETRY Symmetry
INVARIANTS
    CatalogTypeOK
    EpgIdsUnique
    ListIsCurrent
    GuideIsCurrent
PROPERTIES
    DeletionSparesUsers
