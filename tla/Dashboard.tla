------------------------------ MODULE Dashboard ------------------------------
(***************************************************************************)
(* The dashboard of the admin web (services/dashboard.service.ts): every   *)
(* thirty seconds it reads lists of schedules and of channels page by      *)
(* page, several lists at a time, from tables that others write to between *)
(* two pages, and computes from them how healthy the day is.               *)
(*                                                                         *)
(* A list is read in pages of PageLimit rows by offset, so that a row's    *)
(* page depends on the rows before it at the moment of the read.  Ids      *)
(* stand for the order of creation, channels for the order of their names. *)
(* Rows may overlap or end before they start: concurrent requests of the   *)
(* API leave such rows behind (ScheduleRaceBooking and the README), and    *)
(* the dashboard is there to show them.                                    *)
(***************************************************************************)
EXTENDS Integers, FiniteSets

CONSTANTS
    Ids,            \* schedule ids, in the order of creation
    Channels,       \* channel ids, in the order of the names
    Rows,           \* the rows that are written
    Tables,         \* the tables of schedules at the start
    DayEnd,         \* the day is from 0 to DayEnd
    Nows,           \* the times at which the dashboard is refreshed
    Ahead,          \* six hours
    PageLimit,      \* pageLimit
    MaxPageCount,   \* maxPageCount
    TopCount,       \* the length of the list of risky channels
    MaxWrites,      \* bound: the writes
    MaxPolls,       \* bound: the refreshes
    Null

VARIABLES
    schedules,      \* the table of schedules
    active,         \* the channels that are active
    phase,          \* "idle", "reading" or "scanning"
    now,            \* when the refresh began
    reading,        \* of each list, what has been read
    scan,           \* the variables of calculateIntegrity
    shown,          \* the snapshot on the page, or Null
    writes, polls,  \* for the bounds
    old,            \* of each list, the rows when the refresh began
    calm,           \* whether nothing was written since the refresh began
    steady          \* whether since then rows were only added or changed
                    \* their status, and channels only activated

tables == <<schedules, active>>
ghosts == <<old, calm, steady>>
client == <<phase, now, reading, scan, shown>>
vars == <<tables, client, writes, polls, ghosts>>

Statuses == {"DRAFT", "PUBLISHED", "CANCELLED"}
Row == [channel : Channels, start : Int, stop : Int, status : Statuses]

ScheduleReads == {"today", "onAir", "next6h"}
Reads == ScheduleReads \cup {"active"}

\* A row as one page brought it: a row that two pages bring is there twice.
Item == [page : Nat, id : Ids \cup Channels, row : Row \cup {Null}]

\* page is the number of pages read, last the number of pages to read, or Null
\* before the count of the first page is known.
Reading == [page : Nat, last : Nat \cup {Null}, items : SUBSET Item]

Scan ==
    [left : SUBSET Item, end : [Channels -> Int \cup {Null}],
     overlaps : Nat, gaps : Nat, invalid : Nat,
     issue : [Channels -> [overlaps : Nat, gaps : Nat, invalid : Nat]]]

Snapshot ==
    [overlaps : Nat, gaps : Nat, invalid : Nat, topRisk : SUBSET Channels,
     activeChannels : Nat, onAir : SUBSET Channels, next6h : SUBSET Channels]

ASSUME DashboardAssumption ==
    /\ Ids \subseteq Nat /\ IsFiniteSet(Ids)
    /\ Channels \subseteq Nat /\ IsFiniteSet(Channels)
    /\ Rows \subseteq Row
    /\ Tables \subseteq [Ids -> Row \cup {Null}]
    /\ DayEnd \in Int /\ Nows \subseteq Int /\ Ahead \in Nat \ {0}
    /\ PageLimit \in Nat \ {0} /\ MaxPageCount \in Nat \ {0} /\ TopCount \in Nat
    /\ MaxWrites \in Nat /\ MaxPolls \in Nat
    /\ Null \notin Row \cup Int \cup Snapshot

DashboardTypeOK ==
    /\ schedules \in [Ids -> Row \cup {Null}]
    /\ active \in SUBSET Channels
    /\ phase \in {"idle", "reading", "scanning"}
    /\ now \in Int
    /\ reading \in [Reads -> Reading]
    /\ scan \in Scan
    /\ shown \in Snapshot \cup {Null}
    /\ writes \in Nat /\ polls \in Nat
    /\ old \in [Reads -> SUBSET (Ids \cup Channels)]
    /\ calm \in BOOLEAN /\ steady \in BOOLEAN

-----------------------------------------------------------------------------
(* What the API lists. *)

\* The range of each query of getSnapshot, for a refresh at time at.
Within(r, row, at) ==
    CASE r = "today"  -> row.start < DayEnd /\ row.stop > 0
      [] r = "onAir"  -> row.start < at + 1 /\ row.stop > at
      [] r = "next6h" -> row.start < at + Ahead /\ row.stop > at

\* buildWhere of the two services
ListedAt(r, at) ==
    IF r = "active" THEN active
    ELSE {s \in Ids : schedules[s] # Null /\ Within(r, schedules[s], at)}

Listed(r) == ListedAt(r, now)

\* orderBy: by start time, then by creation; active channels by name.
Key(r, s) == IF r = "active" THEN 0 ELSE schedules[s].start

Before(r, s, t) == Key(r, s) < Key(r, t) \/ (Key(r, s) = Key(r, t) /\ s < t)

Position(r, s) == Cardinality({t \in Listed(r) : Before(r, t, s)})

\* Mutant: the API counts pages from zero.
PagesFromZero(r, k) == {s \in Listed(r) : Position(r, s) \div PageLimit = k}

\* skip and take: the rows of page k.
PageRows(r, k) == {s \in Listed(r) : Position(r, s) \div PageLimit = k - 1}

\* totalPages
TotalPages(r) ==
    LET total == Cardinality(Listed(r))
    IN IF total = 0 THEN 0 ELSE (total - 1) \div PageLimit + 1

-----------------------------------------------------------------------------
(* The dashboard. *)

NoIssue == [overlaps |-> 0, gaps |-> 0, invalid |-> 0]

ScanOf(items) ==
    [left |-> items, end |-> [c \in Channels |-> Null],
     overlaps |-> 0, gaps |-> 0, invalid |-> 0,
     issue |-> [c \in Channels |-> NoIssue]]

Unread == [page |-> 0, last |-> Null, items |-> {}]

DashboardInit ==
    /\ schedules \in Tables
    /\ active \in SUBSET Channels
    /\ phase = "idle"
    /\ now \in Nows
    /\ reading = [r \in Reads |-> Unread]
    /\ scan = ScanOf({})
    /\ shown = Null
    /\ writes = 0 /\ polls = 0
    /\ old = [r \in Reads |-> {}]
    /\ calm = FALSE /\ steady = FALSE

\* getSnapshot begins all its requests.
Refresh ==
    /\ phase = "idle"
    /\ polls < MaxPolls
    /\ polls' = polls + 1
    /\ phase' = "reading"
    /\ \E at \in Nows :
         /\ now' = at
         /\ old' = [r \in Reads |-> ListedAt(r, at)]
    /\ reading' = [r \in Reads |-> Unread]
    /\ calm' = TRUE /\ steady' = TRUE
    /\ UNCHANGED <<tables, scan, shown, writes>>

\* totalPages of fetchAllPages; the first page is read in any case.
PagesToRead(total) == IF total < MaxPageCount THEN total ELSE MaxPageCount

PageItems(r, k) ==
    {[page |-> k, id |-> s, row |-> IF r = "active" THEN Null ELSE schedules[s]] :
        s \in PageRows(r, k)}

\* findMany of the next page: the first one, or one of those that the count
\* of the first page promised.
ReadPage(r) ==
    LET read == reading[r]
        k    == read.page + 1
    IN /\ phase = "reading"
       /\ k = 1 \/ (read.last # Null /\ k <= read.last)
       /\ reading' = [reading EXCEPT ![r] =
              [page |-> k, last |-> read.last, items |-> read.items \cup PageItems(r, k)]]
       /\ UNCHANGED <<tables, phase, now, scan, shown, writes, polls, ghosts>>

\* count of the first page, a statement of its own; those of later pages are
\* not looked at.
CountRows(r) ==
    /\ phase = "reading"
    /\ reading[r].page = 1
    /\ reading[r].last = Null
    /\ reading' = [reading EXCEPT ![r] =
           [page |-> 1, last |-> PagesToRead(TotalPages(r)), items |-> reading[r].items]]
    /\ UNCHANGED <<tables, phase, now, scan, shown, writes, polls, ghosts>>

ReadInFull(r) == reading[r].last # Null /\ reading[r].page >= reading[r].last

\* Mutant: cancelled programmes count.
AllItems(items) == items

\* nonCancelled
NonCancelled(items) == {i \in items : i.row.status # "CANCELLED"}

\* Promise.all has every list: calculateIntegrity begins.
StartScan ==
    /\ phase = "reading"
    /\ \A r \in Reads : ReadInFull(r)
    /\ phase' = "scanning"
    /\ scan' = ScanOf(NonCancelled(reading["today"].items))
    /\ UNCHANGED <<tables, now, reading, shown, writes, polls, ghosts>>

\* One of the lists cannot be read: the page keeps what it shows.
RefreshFails ==
    /\ phase = "reading"
    /\ phase' = "idle"
    /\ calm' = FALSE /\ steady' = FALSE
    /\ UNCHANGED <<tables, now, reading, scan, shown, writes, polls, old>>

Invalid(row) == row.stop <= row.start

\* Mutant: the end of the latest programme instead of the latest end.
EndOfLatest(end, row) == row.stop

\* previousEnd after a programme
LaterEnd(end, row) == IF end = Null \/ row.stop > end THEN row.stop ELSE end

\* What the loop counts of a row that follows the end of all before it.
Finding(row, end) ==
    CASE Invalid(row)                      -> "invalid"
      [] ~Invalid(row) /\ end = Null       -> "first"
      [] ~Invalid(row) /\ end # Null /\ row.start < end -> "overlap"
      [] ~Invalid(row) /\ end # Null /\ row.start > end -> "gap"
      [] OTHER                             -> "follows"

One(b) == IF b THEN 1 ELSE 0

\* Mutant: an issue without its count of invalid ranges.
CountedWithoutInvalid(count, finding) ==
    [overlaps |-> count.overlaps + One(finding = "overlap"),
     gaps     |-> count.gaps + One(finding = "gap")]

\* What getIssue's record of the channel becomes.
Counted(count, finding) ==
    [overlaps |-> count.overlaps + One(finding = "overlap"),
     gaps     |-> count.gaps + One(finding = "gap"),
     invalid  |-> count.invalid + One(finding = "invalid")]

\* A turn of the loop: the next row in the order of starts.  Every channel has
\* its own previousEnd, so that it does not matter that the code takes one
\* channel after the other.
ScanRow ==
    /\ phase = "scanning"
    /\ \E i \in scan.left :
         LET c == i.row.channel
             f == Finding(i.row, scan.end[c])
         IN /\ \A j \in scan.left : i.row.start <= j.row.start
            /\ scan' =
                 [left     |-> scan.left \ {i},
                  end      |-> IF f = "invalid" THEN scan.end
                               ELSE [scan.end EXCEPT ![c] = LaterEnd(scan.end[c], i.row)],
                  overlaps |-> scan.overlaps + One(f = "overlap"),
                  gaps     |-> scan.gaps + One(f = "gap"),
                  invalid  |-> scan.invalid + One(f = "invalid"),
                  issue    |-> [scan.issue EXCEPT ![c] = Counted(scan.issue[c], f)]]
    /\ UNCHANGED <<tables, phase, now, reading, shown, writes, polls, ghosts>>

Score(c) ==
    scan.issue[c].overlaps * 3 + scan.issue[c].gaps * 2 + scan.issue[c].invalid * 3

\* channelIssueMap
WithIssues == {c \in Channels : scan.issue[c] # NoIssue}

\* sort and slice: the riskiest ones, equal ones in any order.
IsTopRisk(top) ==
    /\ top \subseteq WithIssues
    /\ top = WithIssues \/ Cardinality(top) = TopCount
    /\ Cardinality(top) <= TopCount
    /\ \A c \in top, d \in WithIssues \ top : Score(c) >= Score(d)

ActiveIds == {i.id : i \in reading["active"].items}

\* onAirChannelIds, next6hCoverageChannelIds
ChannelsOf(r) ==
    {i.row.channel : i \in NonCancelled(reading[r].items)} \cap ActiveIds

\* The snapshot is on the page.  The queues and the metrics are read with the
\* rest and may be missing; nothing here depends on them.
Show ==
    /\ phase = "scanning"
    /\ scan.left = {}
    /\ phase' = "idle"
    /\ \E top \in SUBSET Channels :
         /\ IsTopRisk(top)
         /\ shown' = [overlaps |-> scan.overlaps, gaps |-> scan.gaps, invalid |-> scan.invalid,
                      topRisk |-> top,
                      activeChannels |-> Cardinality(reading["active"].items),
                      onAir |-> ChannelsOf("onAir"), next6h |-> ChannelsOf("next6h")]
    /\ UNCHANGED <<tables, now, reading, scan, writes, polls, ghosts>>

AtLeastZero(n) == IF n < 0 THEN 0 ELSE n

\* onAirHealth of getSnapshot, and the three parts of the page's bar.
MissingOnAir(snap) == AtLeastZero(snap.activeChannels - Cardinality(snap.onAir))
NoCoverage(snap)   == AtLeastZero(snap.activeChannels - Cardinality(snap.next6h))
PartialCoverage(snap) == AtLeastZero(MissingOnAir(snap) - NoCoverage(snap))
FullyCovered(snap) ==
    AtLeastZero(snap.activeChannels - PartialCoverage(snap) - NoCoverage(snap))

-----------------------------------------------------------------------------
(* The others. *)

Counts(keepsOrder) ==
    /\ writes < MaxWrites
    /\ writes' = writes + 1
    /\ calm' = FALSE
    /\ steady' = (steady /\ keepsOrder)
    /\ UNCHANGED <<client, polls, old>>

\* Ids are in the order of creation.
Create ==
    /\ \E s \in Ids, row \in Rows :
         /\ schedules[s] = Null
         /\ \A t \in Ids : t < s => schedules[t] # Null
         /\ schedules' = [schedules EXCEPT ![s] = row]
    /\ Counts(TRUE)
    /\ UNCHANGED active

\* Publish, cancel.
ChangeStatus ==
    /\ \E s \in Ids, status \in {"PUBLISHED", "CANCELLED"} :
         /\ schedules[s] # Null
         /\ schedules[s].status \notin {status, "CANCELLED"}
         /\ schedules' = [schedules EXCEPT ![s].status = status]
    /\ Counts(TRUE)
    /\ UNCHANGED active

\* A programme is moved.
Edit ==
    /\ \E s \in Ids, row \in Rows :
         /\ schedules[s] # Null
         /\ schedules[s].status # "CANCELLED"
         /\ row.status = schedules[s].status
         /\ row # schedules[s]
         /\ schedules' = [schedules EXCEPT ![s] = row]
    /\ Counts(FALSE)
    /\ UNCHANGED active

Activate ==
    /\ \E c \in Channels \ active : active' = active \cup {c}
    /\ Counts(TRUE)
    /\ UNCHANGED schedules

Deactivate ==
    /\ \E c \in active : active' = active \ {c}
    /\ Counts(FALSE)
    /\ UNCHANGED schedules

DashboardNext ==
    \/ Refresh \/ RefreshFails \/ StartScan \/ ScanRow \/ Show
    \/ \E r \in Reads : ReadPage(r) \/ CountRows(r)
    \/ Create \/ ChangeStatus \/ Edit \/ Activate \/ Deactivate

DashboardSpec == DashboardInit /\ [][DashboardNext]_vars

-----------------------------------------------------------------------------
(* Properties. *)

\* The page shows what was read from the tables as they are now.
Fresh == phase = "idle" /\ calm /\ shown # Null

\* No list is longer than what fetchAllPages reads.
WithinCap == \A r \in Reads : TotalPages(r) <= MaxPageCount

\* The programmes of channel c in list r.
Live(r, c) ==
    {s \in Listed(r) : schedules[s].channel = c /\ schedules[s].status # "CANCELLED"}

Valid(c) == {s \in Live("today", c) : ~Invalid(schedules[s])}

HasInvalid(c) == \E s \in Live("today", c) : Invalid(schedules[s])

HasOverlap(c) ==
    \E s, t \in Valid(c) :
        /\ s # t
        /\ schedules[s].start < schedules[t].stop
        /\ schedules[t].start < schedules[s].stop

\* A moment with programmes before and after it and none at it.
HasGap(c) ==
    \E s, t \in Valid(c) :
        /\ schedules[s].stop < schedules[t].start
        /\ \A u \in Valid(c) :
             ~(schedules[u].start <= schedules[s].stop /\ schedules[s].stop < schedules[u].stop)

\* If nothing was written meanwhile, the dashboard reports an overlap, a gap or
\* an invalid range exactly if there is one on some channel, and names exactly
\* the channels that have one unless they are more than the list is long: the
\* single pass with previousEnd and the walk through the pages
\* (dashboard.service.ts:163-181, :226-258) miss nothing and invent nothing.
IntegrityIsExact ==
    Fresh /\ WithinCap =>
        /\ shown.overlaps > 0 <=> \E c \in Channels : HasOverlap(c)
        /\ shown.gaps > 0 <=> \E c \in Channels : HasGap(c)
        /\ shown.invalid > 0 <=> \E c \in Channels : HasInvalid(c)
        /\ LET bad == {c \in Channels : HasOverlap(c) \/ HasGap(c) \/ HasInvalid(c)}
           IN /\ shown.topRisk \subseteq bad
              /\ Cardinality(bad) <= TopCount => shown.topRisk = bad

\* If nothing was written meanwhile, the parts of the coverage bar are the
\* active channels with a programme on the air, those with none in the next six
\* hours, and the rest (dashboard.service.ts:313-327, :396-401;
\* DashboardPage.tsx:122-123): four lists read side by side agree.
CoverageIsExact ==
    Fresh /\ WithinCap =>
        /\ FullyCovered(shown) = Cardinality({c \in active : Live("onAir", c) # {}})
        /\ NoCoverage(shown) = Cardinality({c \in active : Live("next6h", c) = {}})

\* As long as rows are only added or change their status, a list misses none
\* of the rows it had when the refresh began, except those that the new ones
\* push behind the last page that the first count promised, or that the cap on
\* the pages leaves out (dashboard.service.ts:163-181).
OnlyTheTailIsMissed ==
    \A r \in Reads :
        phase = "reading" /\ steady /\ ReadInFull(r) =>
            \A s \in old[r] :
                \/ \E i \in reading[r].items : i.id = s
                \/ Position(r, s) \div PageLimit >= reading[r].last
=============================================================================
