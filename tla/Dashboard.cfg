SPECIFICATION DashboardSpec
CONSTANTS
    Ids = {1, 2, 3}
    Channels = {1, 2}
    Rows <- MCRows
    Tables <- MCTables
    DayEnd = 4
    Nows = {1}
    Ahead = 2
    PageLimit = 2
    MaxPageCount = 2
    TopCount = 1
    MaxWrites = 1
    MaxPolls = 1
    Null = Null
INVARIANTS
    DashboardTypeOK
    IntegrityIsExact
    CoverageIsExact
    OnlyTheTailIsMissed
CHECK_DEADLOCK FALSE
