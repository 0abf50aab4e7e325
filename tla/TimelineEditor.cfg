SPECIFICATION EditorSpec
CONSTANTS
    c1 = c1
    s1 = s1
    s2 = s2
    s3 = s3
    k1 = k1
    Null = Null
    ScheduleIds = {s1, s2, s3}
    Channels = {c1}
    Horizon = 8
    Minute = 2
    Grid = 3
    SnapMinutes = 2
    Calls = {k1}
    MaxUnderWay = 1
    MaxUnseen = 1
    Shown = {c1}
    From = 0
    To = 3
    Allowed = {"create", "update", "publish"}
    PageLimit = 2
    Assets = {3}
    Drops = {1, 6}
    Widths = {4}
    Forms <- FewForms
    Offers <- FewOffers
SYMMETRY Symmetric
INVARIANTS
    EditorTypeOK
    RefusedOnlyIfOutdated
    ResizeOnSeenStart
    DropsWhereShown
    OwnWritesAreShown
