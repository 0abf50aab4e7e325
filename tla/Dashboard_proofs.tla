-------------------------- MODULE Dashboard_proofs --------------------------
(***************************************************************************)
(* Theorems of Dashboard, for tables, lists and pages of any size and any  *)
(* number of writes and refreshes.                                         *)
(***************************************************************************)
EXTENDS Dashboard, FiniteSetTheorems, TLAPS

-----------------------------------------------------------------------------
(* Pages. *)

LEMMA DivType ==
    ASSUME NEW a \in Nat, NEW d \in Nat \ {0}
    PROVE  a \div d \in Nat
  OBVIOUS

LEMMA DivMonotone ==
    ASSUME NEW a \in Nat, NEW b \in Nat, a <= b, NEW d \in Nat \ {0}
    PROVE  a \div d <= b \div d
  <1> DEFINE q == a \div d
             p == b \div d
  <1>1. q \in Nat /\ p \in Nat
    BY DivType
  <1>2. d * q <= a /\ a < d * (q + 1) /\ d * p <= b /\ b < d * (p + 1)
    OBVIOUS
  <1> HIDE DEF q, p
  <1>3. d * q < d * (p + 1)
    <2>1. d * q \in Nat /\ d * (p + 1) \in Nat
      BY <1>1
    <2> QED BY <1>2, <2>1
  <1>4. ASSUME q > p PROVE FALSE
    <2>1. q >= p + 1
      BY <1>1, <1>4
    <2>2. d * q >= d * (p + 1)
      BY <1>1, <2>1, Z3
    <2> QED BY <1>1, <1>3, <2>2
  <1>5. q <= p
    BY <1>1, <1>4
  <1> QED BY <1>5 DEF q, p

TablesOK ==
    /\ schedules \in [Ids -> Row \cup {Null}]
    /\ active \in SUBSET Channels

LEMMA ListedIds == \A r, at : ListedAt(r, at) \subseteq Ids \cup active
  BY DEF ListedAt

LEMMA ListedFinite ==
    ASSUME TablesOK, NEW r
    PROVE  IsFiniteSet(Listed(r))
  <1>1. IsFiniteSet(Ids) /\ IsFiniteSet(active)
    BY FS_Subset, DashboardAssumption DEF TablesOK
  <1>2. Listed(r) \subseteq Ids \cup active
    BY ListedIds DEF Listed
  <1> QED BY <1>1, <1>2, FS_Union, FS_Subset

\* A row's position is a number below the length of the list.
LEMMA PositionRange ==
    ASSUME TablesOK, NEW r, NEW s \in Listed(r)
    PROVE  /\ Position(r, s) \in Nat
           /\ Cardinality(Listed(r)) \in Nat
           /\ Position(r, s) < Cardinality(Listed(r))
  <1> DEFINE above == {t \in Listed(r) : Before(r, t, s)}
  <1>1. IsFiniteSet(Listed(r))
    BY ListedFinite
  <1>2. s \notin above
    <2>1. CASE r = "active"
      <3>1. s \in Nat
        BY <2>1, DashboardAssumption DEF Listed, ListedAt, TablesOK
      <3> QED BY <2>1, <3>1 DEF Before, Key
    <2>2. CASE r # "active"
      <3>1. s \in Nat
        BY <2>2, DashboardAssumption DEF Listed, ListedAt
      <3>2. ~(s < s)
        BY <3>1
      <3>3. Key(r, s) \in Int
        BY <2>2 DEF Listed, ListedAt, Key, TablesOK, Row
      <3>4. ~(Key(r, s) < Key(r, s))
        BY <3>3
      <3> QED BY <3>2, <3>4 DEF Before
    <2> QED BY <2>1, <2>2
  <1>3. above \subseteq Listed(r) /\ above # Listed(r)
    BY <1>2
  <1>4. /\ IsFiniteSet(above)
        /\ Cardinality(above) <= Cardinality(Listed(r))
        /\ Cardinality(above) # Cardinality(Listed(r))
    BY <1>1, <1>3, FS_Subset
  <1>5. Cardinality(above) \in Nat /\ Cardinality(Listed(r)) \in Nat
    BY <1>1, <1>4, FS_CardinalityType
  <1> QED BY <1>4, <1>5 DEF Position

\* The page of a row, counted from zero.
PageOf(r, s) == Position(r, s) \div PageLimit

LEMMA PageOfType ==
    ASSUME TablesOK, NEW r, NEW s \in Listed(r)
    PROVE  PageOf(r, s) \in Nat
  BY PositionRange, DivType, DashboardAssumption DEF PageOf

\* A list has no rows behind its last page.
LEMMA PagesHoldAll ==
    ASSUME TablesOK, NEW r
    PROVE  /\ TotalPages(r) \in Nat
           /\ \A s \in Listed(r) : PageOf(r, s) < TotalPages(r)
  <1> DEFINE n == Cardinality(Listed(r))
  <1>1. n \in Nat
    BY ListedFinite, FS_CardinalityType
  <1>2. CASE n = 0
    <2>1. Listed(r) = {}
      BY <1>2, ListedFinite, FS_EmptySet
    <2> QED BY <1>2, <2>1 DEF TotalPages
  <1>3. CASE n # 0
    <2>1. n - 1 \in Nat /\ (n - 1) \div PageLimit \in Nat
      BY <1>1, <1>3, DivType, DashboardAssumption
    <2>2. TotalPages(r) = (n - 1) \div PageLimit + 1
      BY <1>3 DEF TotalPages
    <2>3. ASSUME NEW s \in Listed(r) PROVE PageOf(r, s) < TotalPages(r)
      <3>1. Position(r, s) \in Nat /\ Position(r, s) <= n - 1
        BY <1>1, PositionRange
      <3>2. PageOf(r, s) <= (n - 1) \div PageLimit
        BY <2>1, <3>1, DivMonotone, DashboardAssumption DEF PageOf
      <3>3. PageOf(r, s) \in Nat
        BY PageOfType
      <3> HIDE DEF n
      <3> QED BY <2>1, <2>2, <3>2, <3>3
    <2> QED BY <2>1, <2>2, <2>3
  <1> QED BY <1>2, <1>3

PositionsOK ==
    \A r : /\ IsFiniteSet(Listed(r))
           /\ \A s \in Listed(r) : Position(r, s) \in Nat

LEMMA ListsInOrder == TablesOK => PositionsOK
  BY ListedFinite, PositionRange DEF PositionsOK

\* When rows are only added to a list, no row moves to an earlier page.
LEMMA GrowthPushesBack ==
    ASSUME TablesOK, TablesOK', NEW r, NEW s \in Listed(r),
           Listed(r) \subseteq Listed(r)',
           \A t \in Listed(r) : Key(r, t)' = Key(r, t)
    PROVE  PageOf(r, s) <= PageOf(r, s)'
  <1> DEFINE above == {t \in Listed(r) : Before(r, t, s)}
  <1>0. TablesOK' => PositionsOK'
    BY ListsInOrder, PTL
  <1>1. above \subseteq above'
    BY DEF Before
  <1>2. IsFiniteSet(above')
    <2>1. IsFiniteSet(Listed(r)')
      BY <1>0 DEF PositionsOK
    <2> QED BY <2>1, FS_Subset
  <1>3. Cardinality(above) <= Cardinality(above')
    BY <1>1, <1>2, FS_Subset
  <1>4. Position(r, s) \in Nat /\ Position(r, s)' \in Nat
    BY <1>0, PositionRange DEF PositionsOK
  <1>5. Position(r, s) <= Position(r, s)'
    BY <1>3 DEF Position
  <1> QED BY <1>4, <1>5, DivMonotone, DashboardAssumption DEF PageOf

-----------------------------------------------------------------------------
(* Types. *)

RowsRead ==
    /\ \A r \in ScheduleReads : \A i \in reading[r].items : i.id \in Ids /\ i.row \in Row
    /\ \A i \in reading["active"].items : i.id \in Channels
    /\ \A r \in Reads : IsFiniteSet(reading[r].items)
    /\ \A i \in scan.left : i.row \in Row

Typed == DashboardTypeOK /\ RowsRead

Others == Create \/ ChangeStatus \/ Edit \/ Activate \/ Deactivate

LEMMA ScanOfType ==
    ASSUME NEW items \in SUBSET Item
    PROVE  ScanOf(items) \in Scan /\ ScanOf(items).left = items
  BY DEF ScanOf, Scan, NoIssue

LEMMA PageItemsType ==
    ASSUME TablesOK, NEW r \in Reads, NEW k \in Nat
    PROVE  /\ PageItems(r, k) \in SUBSET Item
           /\ IsFiniteSet(PageItems(r, k))
           /\ r \in ScheduleReads =>
                \A i \in PageItems(r, k) : i.id \in Ids /\ i.row \in Row
           /\ r = "active" => \A i \in PageItems(r, k) : i.id \in Channels
  <1>1. ASSUME r = "active" PROVE \A s \in PageRows(r, k) : s \in Channels
    BY <1>1 DEF PageRows, Listed, ListedAt, TablesOK
  <1>2. ASSUME r # "active" PROVE \A s \in PageRows(r, k) : s \in Ids /\ schedules[s] \in Row
    BY <1>2 DEF PageRows, Listed, ListedAt, TablesOK
  <1>3. PageItems(r, k) \in SUBSET Item
    BY <1>1, <1>2 DEF PageItems, Item
  <1>4. r \in ScheduleReads => \A i \in PageItems(r, k) : i.id \in Ids /\ i.row \in Row
    BY <1>2 DEF PageItems, ScheduleReads
  <1>5. r = "active" => \A i \in PageItems(r, k) : i.id \in Channels
    BY <1>1 DEF PageItems
  <1>6. IsFiniteSet(PageItems(r, k))
    <2> DEFINE f == [s \in PageRows(r, k) |->
                       [page |-> k, id |-> s, row |-> IF r = "active" THEN Null ELSE schedules[s]]]
    <2>1. IsFiniteSet(PageRows(r, k))
      BY ListedFinite, FS_Subset DEF PageRows
    <2>2. f \in Surjection(PageRows(r, k), PageItems(r, k))
      BY DEF Surjection, PageItems
    <2> QED BY <2>1, <2>2, FS_Surjection
  <1> QED BY <1>3, <1>4, <1>5, <1>6

LEMMA PagesToReadType ==
    ASSUME TablesOK, NEW r
    PROVE  PagesToRead(TotalPages(r)) \in Nat
  BY PagesHoldAll, DashboardAssumption DEF PagesToRead

LEMMA InitTyped == DashboardInit => Typed
  <1> SUFFICES ASSUME DashboardInit PROVE Typed
    OBVIOUS
  <1>1. schedules \in [Ids -> Row \cup {Null}] /\ now \in Int
    BY DashboardAssumption DEF DashboardInit
  <1>2. reading \in [Reads -> Reading] /\ \A r \in Reads : reading[r].items = {}
    BY DEF DashboardInit, Unread, Reading
  <1>4. IsFiniteSet({})
    BY FS_EmptySet
  <1>3. scan \in Scan /\ scan.left = {}
    BY ScanOfType DEF DashboardInit
  <1> QED BY <1>1, <1>2, <1>3, <1>4 DEF DashboardInit, DashboardTypeOK, Typed, RowsRead, Reads,
     ScheduleReads

LEMMA OthersTyped ==
    ASSUME Typed, Others
    PROVE  Typed'
  <1>1. schedules' \in [Ids -> Row \cup {Null}]
    <2>1. CASE Create
      BY <2>1, DashboardAssumption DEF Create, Typed, DashboardTypeOK
    <2>2. CASE ChangeStatus
      <3>1. PICK s \in Ids, st \in {"PUBLISHED", "CANCELLED"} :
               schedules[s] # Null /\ schedules' = [schedules EXCEPT ![s].status = st]
        BY <2>2 DEF ChangeStatus
      <3>2. schedules[s] \in Row
        BY <3>1 DEF Typed, DashboardTypeOK
      <3>3. [schedules[s] EXCEPT !.status = st] \in Row
        BY <3>2 DEF Row, Statuses
      <3>4. schedules' = [schedules EXCEPT ![s] = [schedules[s] EXCEPT !.status = st]]
        BY <3>1
      <3> QED BY <3>3, <3>4 DEF Typed, DashboardTypeOK
    <2>3. CASE Edit
      BY <2>3, DashboardAssumption DEF Edit, Typed, DashboardTypeOK
    <2>4. CASE Activate \/ Deactivate
      BY <2>4 DEF Activate, Deactivate, Typed, DashboardTypeOK
    <2> QED BY <2>1, <2>2, <2>3, <2>4 DEF Others
  <1>2. active' \in SUBSET Channels
    <2>1. CASE UNCHANGED active
      BY <2>1 DEF Typed, DashboardTypeOK
    <2>2. CASE Activate
      BY <2>2 DEF Activate, Typed, DashboardTypeOK
    <2>3. CASE Deactivate
      BY <2>3 DEF Deactivate, Typed, DashboardTypeOK
    <2> QED BY <2>1, <2>2, <2>3 DEF Others, Create, ChangeStatus, Edit
  <1>3. Counts(TRUE) \/ Counts(FALSE)
    BY DEF Others, Create, ChangeStatus, Edit, Activate, Deactivate
  <1>4. /\ UNCHANGED <<phase, now, reading, scan, shown, polls, old>>
        /\ writes' \in Nat /\ calm' \in BOOLEAN /\ steady' \in BOOLEAN
    <2>1. UNCHANGED <<phase, now, reading, scan, shown, polls, old>>
      BY <1>3 DEF Counts, client
    <2>2. writes' \in Nat
      BY <1>3 DEF Counts, Typed, DashboardTypeOK
    <2>3. calm' \in BOOLEAN /\ steady' \in BOOLEAN
      BY <1>3 DEF Counts, Typed, DashboardTypeOK
    <2> QED BY <2>1, <2>2, <2>3
  <1>5. RowsRead'
    BY <1>4 DEF Typed, RowsRead
  <1>6. DashboardTypeOK'
    BY <1>1, <1>2, <1>4 DEF Typed, DashboardTypeOK
  <1> QED BY <1>5, <1>6 DEF Typed

LEMMA ReadTyped ==
    ASSUME Typed, NEW r \in Reads, ReadPage(r) \/ CountRows(r)
    PROVE  Typed'
  <1>0. TablesOK
    BY DEF Typed, DashboardTypeOK, TablesOK
  <1>1. UNCHANGED <<tables, phase, now, scan, shown, writes, polls, ghosts>>
    BY DEF ReadPage, CountRows
  <1>2. PICK new \in Reading :
           /\ reading' = [reading EXCEPT ![r] = new]
           /\ IsFiniteSet(new.items)
           /\ r \in ScheduleReads => \A i \in new.items : i.id \in Ids /\ i.row \in Row
           /\ r = "active" => \A i \in new.items : i.id \in Channels
    <2> DEFINE k == reading[r].page + 1
    <2>0. reading[r] \in Reading
      BY DEF Typed, DashboardTypeOK
    <2>1. CASE ReadPage(r)
      <3> DEFINE new == [page |-> k, last |-> reading[r].last,
                         items |-> reading[r].items \cup PageItems(r, k)]
      <3>1. k \in Nat /\ reading[r].items \in SUBSET Item
        BY <2>0 DEF Reading
      <3>2. PageItems(r, k) \in SUBSET Item
        BY <1>0, <3>1, PageItemsType
      <3>3. new \in Reading
        BY <2>0, <3>1, <3>2 DEF Reading
      <3>4. reading' = [reading EXCEPT ![r] = new]
        BY <2>1 DEF ReadPage
      <3>5. r \in ScheduleReads => \A i \in new.items : i.id \in Ids /\ i.row \in Row
        BY <1>0, <3>1, PageItemsType DEF Typed, RowsRead
      <3>6. r = "active" => \A i \in new.items : i.id \in Channels
        BY <1>0, <3>1, PageItemsType DEF Typed, RowsRead
      <3>7. IsFiniteSet(new.items)
        BY <1>0, <3>1, PageItemsType, FS_Union DEF Typed, RowsRead
      <3> QED BY <3>3, <3>4, <3>5, <3>6, <3>7
    <2>2. CASE CountRows(r)
      <3> DEFINE new == [page |-> 1, last |-> PagesToRead(TotalPages(r)),
                         items |-> reading[r].items]
      <3>1. new \in Reading
        BY <1>0, <2>0, PagesToReadType DEF Reading
      <3>2. reading' = [reading EXCEPT ![r] = new]
        BY <2>2 DEF CountRows
      <3> QED BY <3>1, <3>2 DEF Typed, RowsRead
    <2> QED BY <2>1, <2>2
  <1>3. reading' \in [Reads -> Reading]
    BY <1>2 DEF Typed, DashboardTypeOK
  <1>4. \A q \in Reads : reading'[q] = IF q = r THEN new ELSE reading[q]
    BY <1>2 DEF Typed, DashboardTypeOK
  <1>5. RowsRead'
    BY <1>1, <1>2, <1>4 DEF Typed, RowsRead, Reads
  <1>6. DashboardTypeOK'
    BY <1>1, <1>3 DEF Typed, DashboardTypeOK, tables, ghosts
  <1> QED BY <1>5, <1>6 DEF Typed

LEMMA RefreshTyped ==
    ASSUME Typed, Refresh \/ RefreshFails
    PROVE  Typed'
  <1>1. CASE Refresh
    <2>1. PICK at \in Nows : now' = at /\ old' = [r \in Reads |-> ListedAt(r, at)]
      BY <1>1 DEF Refresh
    <2>2. now' \in Int
      BY <2>1, DashboardAssumption
    <2>3. old' \in [Reads -> SUBSET (Ids \cup Channels)]
      BY <2>1 DEF ListedAt, Typed, DashboardTypeOK
    <2>4. reading' \in [Reads -> Reading] /\ \A r \in Reads : reading'[r].items = {}
      BY <1>1 DEF Refresh, Unread, Reading
    <2>5. RowsRead'
      BY <1>1, <2>4, FS_EmptySet DEF Refresh, RowsRead, Typed, Reads
    <2>6. DashboardTypeOK'
      BY <1>1, <2>2, <2>3, <2>4 DEF Refresh, Typed, DashboardTypeOK, tables
    <2> QED BY <2>5, <2>6 DEF Typed
  <1>2. CASE RefreshFails
    BY <1>2 DEF RefreshFails, Typed, DashboardTypeOK, RowsRead, tables
  <1> QED BY <1>1, <1>2

\* A turn of the loop, field by field.
Turn(i, c, f) ==
    /\ i \in scan.left /\ c = i.row.channel /\ f = Finding(i.row, scan.end[c])
    /\ i \in Item /\ i.row \in Row /\ c \in Channels
    /\ \A j \in scan.left : i.row.start <= j.row.start
    /\ scan'.left = scan.left \ {i}
    /\ \A d \in Channels :
         /\ scan'.end[d] = IF f # "invalid" /\ d = c THEN LaterEnd(scan.end[c], i.row)
                           ELSE scan.end[d]
         /\ scan'.issue[d] = IF d = c THEN Counted(scan.issue[c], f) ELSE scan.issue[d]
    /\ scan'.overlaps = scan.overlaps + One(f = "overlap")
    /\ scan'.gaps = scan.gaps + One(f = "gap")
    /\ scan'.invalid = scan.invalid + One(f = "invalid")
    /\ scan' \in Scan

LEMMA ScanRowTurns ==
    ASSUME Typed, ScanRow
    PROVE  \E i, c, f : Turn(i, c, f)
  <1> DEFINE c(i) == i.row.channel
             f(i) == Finding(i.row, scan.end[c(i)])
             end(i) == IF f(i) = "invalid" THEN scan.end
                       ELSE [scan.end EXCEPT ![c(i)] = LaterEnd(scan.end[c(i)], i.row)]
             issue(i) == [scan.issue EXCEPT ![c(i)] = Counted(scan.issue[c(i)], f(i))]
             next(i) == [left |-> scan.left \ {i}, end |-> end(i),
                         overlaps |-> scan.overlaps + One(f(i) = "overlap"),
                         gaps |-> scan.gaps + One(f(i) = "gap"),
                         invalid |-> scan.invalid + One(f(i) = "invalid"),
                         issue |-> issue(i)]
  <1>1. PICK i \in scan.left :
           /\ \A j \in scan.left : i.row.start <= j.row.start
           /\ scan' = next(i)
    BY DEF ScanRow
  <1>2. scan \in Scan /\ i.row \in Row
    BY <1>1 DEF Typed, DashboardTypeOK, RowsRead
  <1>3. /\ scan.left \in SUBSET Item /\ scan.end \in [Channels -> Int \cup {Null}]
        /\ scan.overlaps \in Nat /\ scan.gaps \in Nat /\ scan.invalid \in Nat
        /\ scan.issue \in [Channels -> [overlaps : Nat, gaps : Nat, invalid : Nat]]
    BY <1>2 DEF Scan
  <1>4. c(i) \in Channels /\ i.row.stop \in Int
    BY <1>2 DEF Row
  <1>5. One(f(i) = "overlap") \in Nat /\ One(f(i) = "gap") \in Nat /\ One(f(i) = "invalid") \in Nat
    BY DEF One
  <1>6. LaterEnd(scan.end[c(i)], i.row) \in Int \cup {Null}
    BY <1>3, <1>4 DEF LaterEnd
  <1>7. end(i) \in [Channels -> Int \cup {Null}]
    BY <1>3, <1>6
  <1>8. Counted(scan.issue[c(i)], f(i)) \in [overlaps : Nat, gaps : Nat, invalid : Nat]
    BY <1>3, <1>4, <1>5 DEF Counted
  <1>9. issue(i) \in [Channels -> [overlaps : Nat, gaps : Nat, invalid : Nat]]
    BY <1>3, <1>8
  <1>10. \A d \in Channels :
           /\ end(i)[d] = IF f(i) # "invalid" /\ d = c(i)
                          THEN LaterEnd(scan.end[c(i)], i.row) ELSE scan.end[d]
           /\ issue(i)[d] = IF d = c(i) THEN Counted(scan.issue[c(i)], f(i)) ELSE scan.issue[d]
    BY <1>3
  <1>11. scan.left \ {i} \in SUBSET Item
    BY <1>3
  <1>12. /\ scan.overlaps + One(f(i) = "overlap") \in Nat
         /\ scan.gaps + One(f(i) = "gap") \in Nat
         /\ scan.invalid + One(f(i) = "invalid") \in Nat
    BY <1>3, <1>5
  <1> HIDE DEF end, issue, f
  <1>13. next(i) \in Scan
    BY <1>7, <1>9, <1>11, <1>12 DEF Scan
  <1>14. Turn(i, c(i), f(i))
    BY <1>1, <1>2, <1>3, <1>4, <1>10, <1>13 DEF Turn, f
  <1> QED BY <1>14

LEMMA ScanTyped ==
    ASSUME Typed, StartScan \/ ScanRow \/ Show
    PROVE  Typed'
  <1>1. CASE StartScan
    <2> DEFINE items == NonCancelled(reading["today"].items)
    <2>1. reading["today"] \in Reading
      BY DEF Typed, DashboardTypeOK, Reads, ScheduleReads
    <2>2. items \in SUBSET Item /\ \A i \in items : i.row \in Row
      BY <2>1 DEF Reading, NonCancelled, Typed, RowsRead, ScheduleReads
    <2>3. scan' \in Scan /\ scan'.left = items
      BY <1>1, <2>2, ScanOfType DEF StartScan
    <2> HIDE DEF items
    <2>4. RowsRead'
      BY <1>1, <2>2, <2>3 DEF StartScan, RowsRead, Typed
    <2>5. DashboardTypeOK'
      BY <1>1, <2>3 DEF StartScan, Typed, DashboardTypeOK, tables, ghosts
    <2> QED BY <2>4, <2>5 DEF Typed
  <1>2. CASE ScanRow
    <2>1. PICK i, c, f : Turn(i, c, f)
      BY <1>2, ScanRowTurns
    <2>2. scan' \in Scan /\ scan'.left \subseteq scan.left
      BY <2>1 DEF Turn
    <2>3. UNCHANGED <<tables, phase, now, reading, shown, writes, polls, ghosts>>
      BY <1>2 DEF ScanRow
    <2>4. RowsRead'
      BY <2>2, <2>3 DEF RowsRead, Typed
    <2>5. DashboardTypeOK'
      BY <2>2, <2>3 DEF Typed, DashboardTypeOK, tables, ghosts
    <2> QED BY <2>4, <2>5 DEF Typed
  <1>3. CASE Show
    <2>1. PICK top \in SUBSET Channels :
             shown' = [overlaps |-> scan.overlaps, gaps |-> scan.gaps, invalid |-> scan.invalid,
                       topRisk |-> top,
                       activeChannels |-> Cardinality(reading["active"].items),
                       onAir |-> ChannelsOf("onAir"), next6h |-> ChannelsOf("next6h")]
      BY <1>3 DEF Show
    <2>2. Cardinality(reading["active"].items) \in Nat
      BY FS_CardinalityType DEF Typed, RowsRead, Reads
    <2>3. ChannelsOf("onAir") \subseteq Channels /\ ChannelsOf("next6h") \subseteq Channels
      BY DEF ChannelsOf, ActiveIds, Typed, RowsRead
    <2>4. shown' \in Snapshot
      BY <2>1, <2>2, <2>3 DEF Snapshot, Scan, Typed, DashboardTypeOK
    <2> QED BY <1>3, <2>4 DEF Show, Typed, DashboardTypeOK, RowsRead, tables, ghosts
  <1> QED BY <1>1, <1>2, <1>3

Stutters == UNCHANGED vars

\* The steps of DashboardNext in four groups.
LEMMA Groups ==
    ASSUME [DashboardNext]_vars
    PROVE  \/ Others
           \/ \E r \in Reads : ReadPage(r) \/ CountRows(r)
           \/ Refresh \/ RefreshFails
           \/ StartScan \/ ScanRow \/ Show
           \/ Stutters
  BY DEF DashboardNext, Others, Stutters

LEMMA StepTyped ==
    ASSUME Typed, [DashboardNext]_vars
    PROVE  Typed'
  <1>1. CASE Stutters
    BY <1>1 DEF Stutters, vars, tables, client, ghosts, Typed, DashboardTypeOK, RowsRead
  <1> QED BY <1>1, Groups, OthersTyped, ReadTyped, RefreshTyped, ScanTyped

LEMMA TypedTables == Typed => TablesOK
  BY DEF Typed, DashboardTypeOK, TablesOK

-----------------------------------------------------------------------------
(* Lists that only grow. *)

\* Every row that was there has been read or is still to come.
Met ==
    phase = "reading" /\ steady =>
        \A r \in Reads : \A s \in old[r] :
            /\ s \in Listed(r)
            /\ \/ \E i \in reading[r].items : i.id = s
               \/ reading[r].page <= PageOf(r, s)

LEMMA GrowthKeeps ==
    ASSUME Typed, Create \/ ChangeStatus \/ Activate, NEW r \in Reads
    PROVE  /\ Listed(r) \subseteq Listed(r)'
           /\ \A t \in Listed(r) : Key(r, t)' = Key(r, t)
  <1>0. now' = now
    BY DEF Create, ChangeStatus, Activate, Counts, client
  <1>1. CASE r = "active"
    <2>1. active \subseteq active'
      BY DEF Create, ChangeStatus, Activate
    <2> QED BY <1>1, <2>1 DEF Listed, ListedAt, Key
  <1>2. CASE r # "active"
    <2>1. \A t \in Ids : schedules[t] # Null =>
             /\ schedules'[t] # Null
             /\ schedules'[t].start = schedules[t].start
             /\ schedules'[t].stop = schedules[t].stop
      <3>1. CASE Create
        BY <3>1, DashboardAssumption DEF Create, Typed, DashboardTypeOK
      <3>2. CASE ChangeStatus
        <4>1. PICK s \in Ids, st \in {"PUBLISHED", "CANCELLED"} :
                 schedules[s] # Null /\ schedules' = [schedules EXCEPT ![s].status = st]
          BY <3>2 DEF ChangeStatus
        <4>2. schedules[s] \in Row
          BY <4>1 DEF Typed, DashboardTypeOK
        <4>3. [schedules[s] EXCEPT !.status = st] \in Row
          BY <4>2 DEF Row, Statuses
        <4>4. /\ [schedules[s] EXCEPT !.status = st].start = schedules[s].start
              /\ [schedules[s] EXCEPT !.status = st].stop = schedules[s].stop
          BY <4>2 DEF Row
        <4>5. \A t \in Ids : schedules'[t] = IF t = s THEN [schedules[s] EXCEPT !.status = st]
                                             ELSE schedules[t]
          BY <4>1 DEF Typed, DashboardTypeOK
        <4> QED BY <4>3, <4>4, <4>5, DashboardAssumption
      <3>3. CASE Activate
        BY <3>3 DEF Activate
      <3> QED BY <3>1, <3>2, <3>3
    <2> QED BY <1>0, <1>2, <2>1 DEF Listed, ListedAt, Within, Key
  <1> QED BY <1>1, <1>2

LEMMA OthersMet ==
    ASSUME Typed, Met, Others
    PROVE  Met'
  <1> SUFFICES ASSUME phase' = "reading", steady', NEW r \in Reads, NEW s \in old'[r]
               PROVE  /\ s \in Listed(r)'
                      /\ \/ \E i \in reading'[r].items : i.id = s
                         \/ reading'[r].page <= PageOf(r, s)'
    BY DEF Met
  <1>1. UNCHANGED <<phase, reading, old>>
    BY DEF Others, Create, ChangeStatus, Edit, Activate, Deactivate, Counts, client
  <1>2. steady /\ (Create \/ ChangeStatus \/ Activate)
    BY DEF Others, Create, ChangeStatus, Edit, Activate, Deactivate, Counts
  <1>3. /\ s \in Listed(r)
        /\ \/ \E i \in reading[r].items : i.id = s
           \/ reading[r].page <= PageOf(r, s)
    BY <1>1, <1>2 DEF Met
  <1>4. /\ Listed(r) \subseteq Listed(r)'
        /\ \A t \in Listed(r) : Key(r, t)' = Key(r, t)
    BY <1>2, GrowthKeeps
  <1>5. TablesOK /\ TablesOK'
    BY OthersTyped DEF Typed, DashboardTypeOK, TablesOK
  <1>6. PageOf(r, s) <= PageOf(r, s)'
    BY <1>3, <1>4, <1>5, GrowthPushesBack
  <1>7. PageOf(r, s) \in Nat /\ PageOf(r, s)' \in Nat /\ reading[r].page \in Nat
    <2>1. TablesOK' => PositionsOK'
      BY ListsInOrder, PTL
    <2>2. Position(r, s)' \in Nat
      BY <1>3, <1>4, <1>5, <2>1 DEF PositionsOK
    <2> QED BY <1>3, <1>5, <2>2, PageOfType, DivType, DashboardAssumption
            DEF PageOf, Typed, DashboardTypeOK, Reading
  <1> QED BY <1>1, <1>3, <1>4, <1>6, <1>7

LEMMA ReadMet ==
    ASSUME Typed, Met, NEW q \in Reads, ReadPage(q) \/ CountRows(q)
    PROVE  Met'
  <1> SUFFICES ASSUME phase' = "reading", steady', NEW r \in Reads, NEW s \in old'[r]
               PROVE  /\ s \in Listed(r)'
                      /\ \/ \E i \in reading'[r].items : i.id = s
                         \/ reading'[r].page <= PageOf(r, s)'
    BY DEF Met
  <1>1. UNCHANGED <<schedules, active, now, phase, old, steady>>
    BY DEF ReadPage, CountRows, tables, ghosts
  <1>2. Listed(r)' = Listed(r) /\ PageOf(r, s)' = PageOf(r, s)
    BY <1>1 DEF Listed, ListedAt, PageOf, Position, Before, Key
  <1>3. /\ s \in Listed(r)
        /\ \/ \E i \in reading[r].items : i.id = s
           \/ reading[r].page <= PageOf(r, s)
    BY <1>1 DEF Met
  <1>4. reading \in [Reads -> Reading] /\ reading[r].page \in Nat
    BY DEF Typed, DashboardTypeOK, Reading
  <1>5. CASE r # q
    <2>1. reading'[r] = reading[r]
      BY <1>4, <1>5 DEF ReadPage, CountRows
    <2> QED BY <1>2, <1>3, <2>1
  <1>6. CASE r = q /\ CountRows(q)
    <2>1. reading'[r].items = reading[r].items /\ reading'[r].page = reading[r].page
      BY <1>4, <1>6 DEF CountRows
    <2> QED BY <1>2, <1>3, <2>1
  <1>7. CASE r = q /\ ReadPage(q)
    <2> DEFINE k == reading[r].page + 1
    <2>1. /\ reading'[r].page = k
          /\ reading'[r].items = reading[r].items \cup PageItems(r, k)
      BY <1>4, <1>7 DEF ReadPage
    <2>2. CASE \E i \in reading[r].items : i.id = s
      BY <1>2, <1>3, <2>1, <2>2
    <2>3. CASE PageOf(r, s) = reading[r].page
      <3>1. s \in PageRows(r, k)
        BY <1>3, <1>4, <2>3 DEF PageRows, PageOf
      <3> DEFINE item == [page |-> k, id |-> s, row |-> IF r = "active" THEN Null ELSE schedules[s]]
      <3>2. item \in PageItems(r, k) /\ item.id = s
        BY <3>1 DEF PageItems
      <3> QED BY <1>2, <1>3, <2>1, <3>2
    <2>4. CASE reading[r].page <= PageOf(r, s) /\ PageOf(r, s) # reading[r].page
      <3>1. PageOf(r, s) \in Nat
        BY <1>3, PageOfType, TypedTables
      <3>2. k <= PageOf(r, s)
        BY <1>4, <2>4, <3>1
      <3> QED BY <1>2, <1>3, <2>1, <3>2
    <2> QED BY <1>3, <2>2, <2>3, <2>4
  <1> QED BY <1>5, <1>6, <1>7

LEMMA RestMet ==
    ASSUME Typed, Met, Refresh \/ RefreshFails \/ StartScan \/ ScanRow \/ Show \/ Stutters
    PROVE  Met'
  <1>1. CASE Refresh
    <2>1. PICK at \in Nows : now' = at /\ old' = [r \in Reads |-> ListedAt(r, at)]
      BY <1>1 DEF Refresh
    <2>2. \A r \in Reads : ListedAt(r, at) = Listed(r)'
      BY <1>1, <2>1 DEF Refresh, Listed, ListedAt, tables
    <2>3. TablesOK'
      BY <1>1, RefreshTyped DEF Typed, DashboardTypeOK, TablesOK
    <2>4. TablesOK' => PositionsOK'
      BY ListsInOrder, PTL
    <2>5. ASSUME NEW r \in Reads, NEW s \in old'[r]
          PROVE  s \in Listed(r)' /\ reading'[r].page <= PageOf(r, s)'
      <3>1. s \in Listed(r)'
        BY <2>1, <2>2, <2>5
      <3>2. Position(r, s)' \in Nat
        BY <2>3, <2>4, <3>1 DEF PositionsOK
      <3>3. PageOf(r, s)' \in Nat
        BY <3>2, DivType, DashboardAssumption DEF PageOf
      <3>4. reading'[r].page = 0
        BY <1>1, <2>5 DEF Refresh, Unread
      <3> QED BY <3>1, <3>3, <3>4
    <2> QED BY <2>5 DEF Met
  <1>2. CASE RefreshFails \/ StartScan \/ ScanRow \/ Show
    BY <1>2 DEF RefreshFails, StartScan, ScanRow, Show, Met
  <1>3. CASE Stutters
    BY <1>3 DEF Stutters, vars, tables, client, ghosts, Met, Listed, ListedAt, PageOf, Position,
       Before, Key
  <1> QED BY <1>1, <1>2, <1>3

LEMMA StepMet ==
    ASSUME Typed, Met, [DashboardNext]_vars
    PROVE  Met'
  BY Groups, OthersMet, ReadMet, RestMet

\* As long as rows are only added or change their status, no page is skipped:
\* what a list had when the refresh began is read or lies behind the last page
\* (dashboard.service.ts:163-181), however many pages and writes there are.
THEOREM OnlyTailMissed == DashboardSpec => []OnlyTheTailIsMissed
  <1>1. DashboardInit => Typed /\ Met
    <2>1. DashboardInit => Met
      BY DEF DashboardInit, Met
    <2> QED BY <2>1, InitTyped
  <1>2. Typed /\ Met /\ [DashboardNext]_vars => Typed' /\ Met'
    BY StepTyped, StepMet
  <1>3. ASSUME Typed, Met PROVE OnlyTheTailIsMissed
    <2> SUFFICES ASSUME NEW r \in Reads, phase = "reading", steady, ReadInFull(r),
                        NEW s \in old[r]
                 PROVE  \/ \E i \in reading[r].items : i.id = s
                        \/ Position(r, s) \div PageLimit >= reading[r].last
      BY DEF OnlyTheTailIsMissed
    <2>1. /\ s \in Listed(r)
          /\ \/ \E i \in reading[r].items : i.id = s
             \/ reading[r].page <= PageOf(r, s)
      BY <1>3 DEF Met
    <2>2. PageOf(r, s) \in Nat
      BY <1>3, <2>1, TypedTables, PageOfType
    <2>3. reading[r].page \in Nat /\ reading[r].last \in Nat /\ reading[r].page >= reading[r].last
      BY <1>3 DEF Typed, DashboardTypeOK, Reading, ReadInFull
    <2>4. ASSUME reading[r].page <= PageOf(r, s) PROVE PageOf(r, s) >= reading[r].last
      BY <2>2, <2>3, <2>4
    <2> QED BY <2>1, <2>4 DEF PageOf
  <1> QED BY <1>1, <1>2, <1>3, PTL DEF DashboardSpec

-----------------------------------------------------------------------------
(* The loop of calculateIntegrity. *)

ItemsOverlap(V) ==
    \E i, j \in V : i # j /\ i.row.start < j.row.stop /\ j.row.start < i.row.stop

Uncovered(V, t) == \A u \in V : ~(u.row.start <= t /\ t < u.row.stop)

ItemsGap(V) ==
    \E i, j \in V : i.row.stop < j.row.start /\ Uncovered(V, i.row.stop)

\* end is the latest stop of the items V, or Null without any.
EndsAt(V, end) ==
    /\ end = Null <=> V = {}
    /\ end # Null => /\ end \in Int
                     /\ \A i \in V : i.row.stop <= end
                     /\ \E i \in V : i.row.stop = end

\* V are valid rows, and i is one that does not start before any of them.
ComesNext(V, i) ==
    /\ \A j \in V \cup {i} : /\ j.row.start \in Int /\ j.row.stop \in Int
                             /\ j.row.start < j.row.stop
    /\ \A j \in V : j.row.start <= i.row.start
    /\ i \notin V

LEMMA EndAfter ==
    ASSUME NEW V, NEW i, NEW end, ComesNext(V, i), EndsAt(V, end)
    PROVE  EndsAt(V \cup {i}, LaterEnd(end, i.row))
  <1>1. CASE end = Null
    <2>1. LaterEnd(end, i.row) = i.row.stop
      BY <1>1 DEF LaterEnd
    <2>2. i.row.stop \in Int /\ i.row.stop # Null
      BY DashboardAssumption DEF ComesNext
    <2> QED BY <1>1, <2>1, <2>2 DEF EndsAt
  <1>2. CASE end # Null
    <2>1. /\ end \in Int /\ i.row.stop \in Int
          /\ i.row.stop # Null
          /\ \A j \in V : j.row.stop \in Int
      BY <1>2, DashboardAssumption DEF EndsAt, ComesNext
    <2>2. CASE i.row.stop > end
      <3>1. LaterEnd(end, i.row) = i.row.stop
        BY <2>2 DEF LaterEnd
      <3>2. \A j \in V : j.row.stop <= i.row.stop
        BY <1>2, <2>1, <2>2 DEF EndsAt
      <3> QED BY <2>1, <3>1, <3>2 DEF EndsAt
    <2>3. CASE ~(i.row.stop > end)
      <3>1. LaterEnd(end, i.row) = end
        BY <1>2, <2>3 DEF LaterEnd
      <3>2. i.row.stop <= end
        BY <2>1, <2>3
      <3> QED BY <1>2, <2>1, <3>1, <3>2 DEF EndsAt
    <2> QED BY <2>2, <2>3
  <1> QED BY <1>1, <1>2

LEMMA OverlapAfter ==
    ASSUME NEW V, NEW i, NEW end, ComesNext(V, i), EndsAt(V, end)
    PROVE  ItemsOverlap(V \cup {i}) <=>
               ItemsOverlap(V) \/ (end # Null /\ i.row.start < end)
  <1>1. ASSUME ItemsOverlap(V) PROVE ItemsOverlap(V \cup {i})
    BY <1>1 DEF ItemsOverlap
  <1>2. ASSUME end # Null, i.row.start < end PROVE ItemsOverlap(V \cup {i})
    <2>1. PICK j \in V : j.row.stop = end
      BY <1>2 DEF EndsAt
    <2>2. j # i /\ i.row.start < j.row.stop /\ j.row.start < i.row.stop
      BY <1>2, <2>1 DEF ComesNext
    <2> QED BY <2>1, <2>2 DEF ItemsOverlap
  <1>3. ASSUME ItemsOverlap(V \cup {i}), ~ItemsOverlap(V)
        PROVE  end # Null /\ i.row.start < end
    <2>1. PICK j \in V : i.row.start < j.row.stop
      BY <1>3 DEF ItemsOverlap
    <2>2. end # Null /\ end \in Int /\ j.row.stop <= end
      BY <2>1 DEF EndsAt
    <2> QED BY <2>1, <2>2 DEF ComesNext
  <1> QED BY <1>1, <1>2, <1>3

LEMMA GapAfter ==
    ASSUME NEW V, NEW i, NEW end, ComesNext(V, i), EndsAt(V, end)
    PROVE  ItemsGap(V \cup {i}) <=> ItemsGap(V) \/ (end # Null /\ i.row.start > end)
  <1>1. ASSUME ItemsGap(V) PROVE ItemsGap(V \cup {i})
    <2>1. PICK a \in V, b \in V : a.row.stop < b.row.start /\ Uncovered(V, a.row.stop)
      BY <1>1 DEF ItemsGap
    <2>2. a.row.stop < i.row.start
      BY <2>1 DEF ComesNext
    <2>3. Uncovered(V \cup {i}, a.row.stop)
      BY <2>1, <2>2 DEF Uncovered, ComesNext
    <2> QED BY <2>1, <2>3 DEF ItemsGap
  <1>2. ASSUME end # Null, i.row.start > end PROVE ItemsGap(V \cup {i})
    <2>1. PICK a \in V : a.row.stop = end
      BY <1>2 DEF EndsAt
    <2>2. Uncovered(V \cup {i}, a.row.stop)
      BY <1>2, <2>1 DEF Uncovered, ComesNext, EndsAt
    <2>3. a.row.stop < i.row.start
      BY <1>2, <2>1 DEF ComesNext
    <2> QED BY <2>1, <2>2, <2>3 DEF ItemsGap
  <1>3. ASSUME ItemsGap(V \cup {i}), ~ItemsGap(V)
        PROVE  end # Null /\ i.row.start > end
    <2>1. PICK a \in V \cup {i}, b \in V \cup {i} :
             a.row.stop < b.row.start /\ Uncovered(V \cup {i}, a.row.stop)
      BY <1>3 DEF ItemsGap
    <2>2. Uncovered(V, a.row.stop)
      BY <2>1 DEF Uncovered
    <2>3. a \in V
      <3>1. ASSUME a = i PROVE FALSE
        <4>1. b.row.start <= i.row.start
          BY DEF ComesNext
        <4>2. i.row.start \in Int /\ i.row.stop \in Int /\ b.row.start \in Int
              /\ i.row.start < i.row.stop
          BY DEF ComesNext
        <4> QED BY <2>1, <3>1, <4>1, <4>2
      <3> QED BY <2>1, <3>1
    <2>4. b = i
      BY <1>3, <2>1, <2>2, <2>3 DEF ItemsGap
    <2>5. end # Null /\ end \in Int
      BY <2>3 DEF EndsAt
    <2>6. PICK w \in V : w.row.stop = end
      BY <2>5 DEF EndsAt
    <2>7. /\ a.row.stop \in Int /\ i.row.start \in Int /\ w.row.start \in Int
          /\ a.row.stop < i.row.start /\ a.row.stop <= end
      BY <2>1, <2>3, <2>4, <2>5 DEF ComesNext, EndsAt
    <2>8. ASSUME i.row.start <= end PROVE FALSE
      <3>1. a.row.stop < w.row.stop
        BY <2>5, <2>6, <2>7, <2>8
      <3>2. a.row.stop < w.row.start
        BY <2>2, <2>6, <2>7, <3>1 DEF Uncovered
      <3> QED BY <1>3, <2>2, <2>3, <2>6, <3>2 DEF ItemsGap
    <2> QED BY <2>5, <2>7, <2>8
  <1> QED BY <1>1, <1>2, <1>3

LEMMA FindingMeans ==
    ASSUME NEW row \in Row, NEW end \in Int \cup {Null}
    PROVE  /\ Finding(row, end) = "invalid" <=> Invalid(row)
           /\ Finding(row, end) = "overlap" <=> ~Invalid(row) /\ end # Null /\ row.start < end
           /\ Finding(row, end) = "gap" <=> ~Invalid(row) /\ end # Null /\ row.start > end
  <1>1. row.start \in Int /\ row.stop \in Int
    BY DEF Row
  <1>2. CASE Invalid(row)
    BY <1>2 DEF Finding
  <1>3. CASE ~Invalid(row) /\ end = Null
    BY <1>3 DEF Finding
  <1>4. CASE ~Invalid(row) /\ end # Null /\ row.start < end
    BY <1>1, <1>4 DEF Finding
  <1>5. CASE ~Invalid(row) /\ end # Null /\ row.start > end
    BY <1>1, <1>5 DEF Finding
  <1>6. CASE ~Invalid(row) /\ end # Null /\ ~(row.start < end) /\ ~(row.start > end)
    BY <1>1, <1>6 DEF Finding
  <1> QED BY <1>2, <1>3, <1>4, <1>5, <1>6

ToScan == NonCancelled(reading["today"].items)

\* The rows that the loop has been through, and those of a channel with a length.
Seen == ToScan \ scan.left
SeenOf(c) == {i \in Seen : i.row.channel = c /\ ~Invalid(i.row)}

InOrder == scan.left \subseteq ToScan /\ \A i \in Seen, j \in scan.left : i.row.start <= j.row.start

EndsRight == \A c \in Channels : EndsAt(SeenOf(c), scan.end[c])

IssuesRight ==
    \A c \in Channels :
        /\ scan.issue[c].overlaps > 0 <=> ItemsOverlap(SeenOf(c))
        /\ scan.issue[c].gaps > 0 <=> ItemsGap(SeenOf(c))
        /\ scan.issue[c].invalid > 0 <=> \E i \in Seen : i.row.channel = c /\ Invalid(i.row)

TotalsRight ==
    /\ scan.overlaps > 0 <=> \E c \in Channels : scan.issue[c].overlaps > 0
    /\ scan.gaps > 0 <=> \E c \in Channels : scan.issue[c].gaps > 0
    /\ scan.invalid > 0 <=> \E c \in Channels : scan.issue[c].invalid > 0

ScanRight == InOrder /\ EndsRight /\ IssuesRight /\ TotalsRight

LEMMA ScanBegins ==
    ASSUME Typed, StartScan
    PROVE  ScanRight'
  <1> DEFINE items == NonCancelled(reading["today"].items)
  <1>1. items \in SUBSET Item
    BY DEF Typed, DashboardTypeOK, Reads, ScheduleReads, Reading, NonCancelled
  <1>2. /\ scan'.left = items /\ scan'.overlaps = 0 /\ scan'.gaps = 0 /\ scan'.invalid = 0
        /\ \A c \in Channels : scan'.end[c] = Null /\ scan'.issue[c] = NoIssue
    BY DEF StartScan, ScanOf
  <1>3. Seen' = {} /\ ToScan' = items
    BY <1>2 DEF Seen, ToScan, StartScan
  <1>4. \A c \in Channels : SeenOf(c)' = {}
    BY <1>3 DEF SeenOf
  <1>5. InOrder'
    BY <1>2, <1>3 DEF InOrder
  <1>6. EndsRight'
    BY <1>2, <1>4 DEF EndsRight, EndsAt
  <1>7. IssuesRight'
    BY <1>2, <1>3, <1>4 DEF IssuesRight, NoIssue, ItemsOverlap, ItemsGap
  <1>8. TotalsRight'
    BY <1>2 DEF TotalsRight, NoIssue
  <1> QED BY <1>5, <1>6, <1>7, <1>8 DEF ScanRight

LEMMA TurnKeepsRight ==
    ASSUME Typed, ScanRight, UNCHANGED reading, NEW i, NEW c, NEW f, Turn(i, c, f)
    PROVE  ScanRight'
  <1>1. /\ i \in scan.left /\ c = i.row.channel /\ c \in Channels /\ i.row \in Row
        /\ scan'.left = scan.left \ {i}
        /\ f = Finding(i.row, scan.end[c])
    BY DEF Turn
  <1>2. scan.end[c] \in Int \cup {Null} /\ scan \in Scan
    BY <1>1 DEF Typed, DashboardTypeOK, Scan
  <1>3. /\ f = "invalid" <=> Invalid(i.row)
        /\ f = "overlap" <=> ~Invalid(i.row) /\ scan.end[c] # Null /\ i.row.start < scan.end[c]
        /\ f = "gap" <=> ~Invalid(i.row) /\ scan.end[c] # Null /\ i.row.start > scan.end[c]
    BY <1>1, <1>2, FindingMeans
  <1>4. ToScan' = ToScan /\ Seen' = Seen \cup {i} /\ i \notin Seen
    BY <1>1 DEF ToScan, Seen, ScanRight, InOrder
  <1>5. \A d \in Channels : SeenOf(d)' = IF d = c /\ ~Invalid(i.row) THEN SeenOf(d) \cup {i}
                                         ELSE SeenOf(d)
    BY <1>1, <1>4 DEF SeenOf
  <1>6. \A j \in ToScan : j.row \in Row /\ j.row.start \in Int /\ j.row.stop \in Int
    BY DEF ToScan, NonCancelled, Typed, RowsRead, ScheduleReads, Row
  <1>7. InOrder'
    <2>1. \A j \in scan.left : i.row.start <= j.row.start
      BY DEF Turn
    <2> QED BY <1>1, <1>4, <2>1 DEF ScanRight, InOrder
  <1>8. ASSUME ~Invalid(i.row) PROVE ComesNext(SeenOf(c), i) /\ EndsAt(SeenOf(c), scan.end[c])
    <2>1. \A j \in SeenOf(c) \cup {i} : j \in ToScan /\ ~Invalid(j.row)
      BY <1>1, <1>8 DEF SeenOf, Seen, ScanRight, InOrder
    <2>2. \A j \in SeenOf(c) : j.row.start <= i.row.start
      BY <1>1 DEF SeenOf, ScanRight, InOrder
    <2>3. i \notin SeenOf(c)
      BY <1>4 DEF SeenOf
    <2>4. \A j \in SeenOf(c) \cup {i} :
             j.row.start \in Int /\ j.row.stop \in Int /\ j.row.start < j.row.stop
      BY <1>6, <2>1 DEF Invalid
    <2> QED BY <1>1, <2>2, <2>3, <2>4 DEF ComesNext, ScanRight, EndsRight
  <1>9. EndsRight'
    <2> SUFFICES ASSUME NEW d \in Channels PROVE EndsAt(SeenOf(d)', scan'.end[d])
      BY DEF EndsRight, EndsAt
    <2>1. CASE d = c /\ ~Invalid(i.row)
      <3>1. scan'.end[d] = LaterEnd(scan.end[c], i.row)
        BY <1>1, <1>3, <2>1 DEF Turn
      <3> QED BY <1>5, <1>8, <2>1, <3>1, EndAfter
    <2>2. CASE ~(d = c /\ ~Invalid(i.row))
      <3>1. scan'.end[d] = scan.end[d]
        BY <1>1, <1>3, <2>2 DEF Turn
      <3> QED BY <1>5, <2>2, <3>1 DEF ScanRight, EndsRight
    <2> QED BY <2>1, <2>2
  <1>10. \A d \in Channels :
           /\ scan.issue[d].overlaps \in Nat /\ scan.issue[d].gaps \in Nat
           /\ scan.issue[d].invalid \in Nat
    BY <1>2 DEF Scan
  <1>11. \A d \in Channels :
           /\ scan'.issue[d].overlaps > 0 <=>
                  scan.issue[d].overlaps > 0 \/ (d = c /\ f = "overlap")
           /\ scan'.issue[d].gaps > 0 <=> scan.issue[d].gaps > 0 \/ (d = c /\ f = "gap")
           /\ scan'.issue[d].invalid > 0 <=>
                  scan.issue[d].invalid > 0 \/ (d = c /\ f = "invalid")
    <2> SUFFICES ASSUME NEW d \in Channels
                 PROVE  /\ scan'.issue[d].overlaps > 0 <=>
                               scan.issue[d].overlaps > 0 \/ (d = c /\ f = "overlap")
                        /\ scan'.issue[d].gaps > 0 <=>
                               scan.issue[d].gaps > 0 \/ (d = c /\ f = "gap")
                        /\ scan'.issue[d].invalid > 0 <=>
                               scan.issue[d].invalid > 0 \/ (d = c /\ f = "invalid")
      OBVIOUS
    <2>1. CASE d = c
      <3>1. scan'.issue[d] = Counted(scan.issue[c], f)
        BY <1>1, <2>1 DEF Turn
      <3>2. /\ scan'.issue[d].overlaps = scan.issue[c].overlaps + One(f = "overlap")
            /\ scan'.issue[d].gaps = scan.issue[c].gaps + One(f = "gap")
            /\ scan'.issue[d].invalid = scan.issue[c].invalid + One(f = "invalid")
        BY <3>1 DEF Counted
      <3> QED BY <1>10, <2>1, <3>2 DEF One
    <2>2. CASE d # c
      BY <2>2 DEF Turn
    <2> QED BY <2>1, <2>2
  <1>12. IssuesRight'
    <2> SUFFICES ASSUME NEW d \in Channels
                 PROVE  /\ scan'.issue[d].overlaps > 0 <=> ItemsOverlap(SeenOf(d)')
                        /\ scan'.issue[d].gaps > 0 <=> ItemsGap(SeenOf(d)')
                        /\ scan'.issue[d].invalid > 0 <=>
                               \E j \in Seen' : j.row.channel = d /\ Invalid(j.row)
      BY DEF IssuesRight, ItemsOverlap, ItemsGap, Uncovered
    <2>1. /\ scan.issue[d].overlaps > 0 <=> ItemsOverlap(SeenOf(d))
          /\ scan.issue[d].gaps > 0 <=> ItemsGap(SeenOf(d))
          /\ scan.issue[d].invalid > 0 <=> \E j \in Seen : j.row.channel = d /\ Invalid(j.row)
      BY DEF ScanRight, IssuesRight
    <2>2. CASE d = c /\ ~Invalid(i.row)
      <3>1. ItemsOverlap(SeenOf(d)') <=> ItemsOverlap(SeenOf(d)) \/ f = "overlap"
        BY <1>3, <1>5, <1>8, <2>2, OverlapAfter
      <3>2. ItemsGap(SeenOf(d)') <=> ItemsGap(SeenOf(d)) \/ f = "gap"
        BY <1>3, <1>5, <1>8, <2>2, GapAfter
      <3> QED BY <1>3, <1>4, <1>11, <2>1, <2>2, <3>1, <3>2
    <2>3. CASE d = c /\ Invalid(i.row)
      BY <1>1, <1>3, <1>4, <1>5, <1>11, <2>1, <2>3
    <2>4. CASE d # c
      BY <1>1, <1>3, <1>4, <1>5, <1>11, <2>1, <2>4
    <2> QED BY <2>2, <2>3, <2>4
  <1>13. TotalsRight'
    <2>1. /\ scan'.overlaps > 0 <=> scan.overlaps > 0 \/ f = "overlap"
          /\ scan'.gaps > 0 <=> scan.gaps > 0 \/ f = "gap"
          /\ scan'.invalid > 0 <=> scan.invalid > 0 \/ f = "invalid"
      <3>1. scan.overlaps \in Nat /\ scan.gaps \in Nat /\ scan.invalid \in Nat
        BY <1>2 DEF Scan
      <3>2. /\ scan'.overlaps = scan.overlaps + One(f = "overlap")
            /\ scan'.gaps = scan.gaps + One(f = "gap")
            /\ scan'.invalid = scan.invalid + One(f = "invalid")
        BY DEF Turn
      <3> QED BY <3>1, <3>2 DEF One
    <2> QED BY <1>1, <1>11, <2>1 DEF TotalsRight, ScanRight
  <1> QED BY <1>7, <1>9, <1>12, <1>13 DEF ScanRight

-----------------------------------------------------------------------------
(* A refresh that nobody writes into. *)

\* What has been read is what the tables hold, each row once.
Agree ==
    calm => \A r \in Reads :
        /\ \A i \in reading[r].items :
             /\ i.id \in Listed(r)
             /\ i.row = IF r = "active" THEN Null ELSE schedules[i.id]
             /\ i.page = PageOf(r, i.id) + 1
        /\ \A s \in Listed(r) :
             PageOf(r, s) < reading[r].page => \E i \in reading[r].items : i.id = s
        /\ reading[r].last # Null => reading[r].last = PagesToRead(TotalPages(r))

\* Between the beginning of the loop and the next refresh.
Complete ==
    phase = "scanning" \/ (phase = "idle" /\ calm) =>
        (\A r \in Reads : ReadInFull(r)) /\ ScanRight

Displayed ==
    phase = "idle" /\ calm =>
        /\ scan.left = {}
        /\ shown.overlaps = scan.overlaps /\ shown.gaps = scan.gaps
        /\ shown.invalid = scan.invalid
        /\ IsTopRisk(shown.topRisk)
        /\ shown.activeChannels = Cardinality(reading["active"].items)
        /\ shown.onAir = ChannelsOf("onAir") /\ shown.next6h = ChannelsOf("next6h")

LEMMA StepAgree ==
    ASSUME Typed, Agree, [DashboardNext]_vars
    PROVE  Agree'
  <1> SUFFICES ASSUME calm', NEW r \in Reads
               PROVE  /\ \A i \in reading'[r].items :
                           /\ i.id \in Listed(r)'
                           /\ i.row = IF r = "active" THEN Null ELSE schedules'[i.id]
                           /\ i.page = PageOf(r, i.id)' + 1
                      /\ \A s \in Listed(r)' :
                           PageOf(r, s)' < reading'[r].page =>
                               \E i \in reading'[r].items : i.id = s
                      /\ reading'[r].last # Null =>
                           reading'[r].last = PagesToRead(TotalPages(r))'
    BY DEF Agree, PagesToRead
  <1>1. CASE Refresh
    <2>1. reading'[r].items = {} /\ reading'[r].last = Null /\ reading'[r].page = 0
      BY <1>1 DEF Refresh, Unread
    <2>2. TablesOK' => PositionsOK'
      BY ListsInOrder, PTL
    <2>3. TablesOK'
      BY <1>1, RefreshTyped DEF Typed, DashboardTypeOK, TablesOK
    <2>4. \A s \in Listed(r)' : PageOf(r, s)' \in Nat
      BY <2>2, <2>3, DivType, DashboardAssumption DEF PositionsOK, PageOf
    <2> QED BY <2>1, <2>4
  <1>2. CASE Others \/ RefreshFails
    BY <1>2 DEF Others, Create, ChangeStatus, Edit, Activate, Deactivate, Counts, RefreshFails
  <1>3. ASSUME UNCHANGED <<schedules, active, now, calm>>
        PROVE  /\ calm
               /\ Listed(r)' = Listed(r)
               /\ \A s : PageOf(r, s)' = PageOf(r, s)
               /\ TotalPages(r)' = TotalPages(r)
               /\ PagesToRead(TotalPages(r))' = PagesToRead(TotalPages(r))
    BY <1>3 DEF Listed, ListedAt, PageOf, Position, Before, Key, TotalPages, PagesToRead
  <1>4. CASE StartScan \/ ScanRow \/ Show \/ Stutters
    <2>1. UNCHANGED <<schedules, active, now, calm, reading>>
      BY <1>4 DEF StartScan, ScanRow, Show, Stutters, vars, tables, client, ghosts
    <2>2. /\ \A i \in reading[r].items :
               /\ i.id \in Listed(r)
               /\ i.row = IF r = "active" THEN Null ELSE schedules[i.id]
               /\ i.page = PageOf(r, i.id) + 1
          /\ \A s \in Listed(r) :
               PageOf(r, s) < reading[r].page => \E i \in reading[r].items : i.id = s
          /\ reading[r].last # Null => reading[r].last = PagesToRead(TotalPages(r))
      BY <2>1 DEF Agree
    <2>3. reading'[r] = reading[r] /\ schedules' = schedules
      BY <2>1
    <2>4. /\ Listed(r)' = Listed(r)
          /\ \A s : PageOf(r, s)' = PageOf(r, s)
          /\ PagesToRead(TotalPages(r))' = PagesToRead(TotalPages(r))
      BY <1>3, <2>1
    <2> QED BY <2>2, <2>3, <2>4
  <1>5. ASSUME NEW q \in Reads, ReadPage(q) \/ CountRows(q)
        PROVE  /\ \A i \in reading'[r].items :
                    /\ i.id \in Listed(r)
                    /\ i.row = IF r = "active" THEN Null ELSE schedules[i.id]
                    /\ i.page = PageOf(r, i.id) + 1
               /\ \A s \in Listed(r) :
                    PageOf(r, s) < reading'[r].page => \E i \in reading'[r].items : i.id = s
               /\ reading'[r].last # Null => reading'[r].last = PagesToRead(TotalPages(r))
               /\ UNCHANGED <<schedules, active, now, calm>>
    <2>1. UNCHANGED <<schedules, active, now, calm>>
      BY <1>5 DEF ReadPage, CountRows, tables, ghosts
    <2>2. /\ \A i \in reading[r].items :
               /\ i.id \in Listed(r)
               /\ i.row = IF r = "active" THEN Null ELSE schedules[i.id]
               /\ i.page = PageOf(r, i.id) + 1
          /\ \A s \in Listed(r) :
               PageOf(r, s) < reading[r].page => \E i \in reading[r].items : i.id = s
          /\ reading[r].last # Null => reading[r].last = PagesToRead(TotalPages(r))
      BY <2>1 DEF Agree
    <2>3. reading \in [Reads -> Reading] /\ reading[r].page \in Nat
      BY DEF Typed, DashboardTypeOK, Reading
    <2>4. CASE r # q
      <3>1. reading'[r] = reading[r]
        BY <1>5, <2>3, <2>4 DEF ReadPage, CountRows
      <3> QED BY <2>1, <2>2, <3>1
    <2>5. CASE r = q /\ CountRows(q)
      <3>1. /\ reading'[r].items = reading[r].items /\ reading'[r].page = reading[r].page
            /\ reading'[r].last = PagesToRead(TotalPages(r))
        BY <2>3, <2>5 DEF CountRows
      <3> QED BY <2>1, <2>2, <3>1
    <2>6. CASE r = q /\ ReadPage(q)
      <3> DEFINE k == reading[r].page + 1
                 item(s) == [page |-> k, id |-> s,
                             row |-> IF r = "active" THEN Null ELSE schedules[s]]
      <3>1. /\ reading'[r].page = k /\ reading'[r].last = reading[r].last
            /\ reading'[r].items = reading[r].items \cup PageItems(r, k)
        BY <2>3, <2>6 DEF ReadPage
      <3>2. \A s \in Listed(r) : PageOf(r, s) \in Nat
        BY TypedTables, PageOfType
      <3>3. PageItems(r, k) = {item(s) : s \in {t \in Listed(r) : PageOf(r, t) = k - 1}}
        BY DEF PageItems, PageRows, PageOf
      <3>4. \A i \in PageItems(r, k) :
               /\ i.id \in Listed(r)
               /\ i.row = IF r = "active" THEN Null ELSE schedules[i.id]
               /\ i.page = PageOf(r, i.id) + 1
        BY <2>3, <3>2, <3>3
      <3>5. ASSUME NEW s \in Listed(r), PageOf(r, s) < k
            PROVE  \E i \in reading'[r].items : i.id = s
        <4>1. CASE PageOf(r, s) < reading[r].page
          BY <2>2, <3>1, <4>1
        <4>2. CASE PageOf(r, s) = k - 1
          <5>1. item(s) \in PageItems(r, k) /\ item(s).id = s
            BY <3>3, <4>2
          <5> QED BY <3>1, <5>1
        <4> QED BY <2>3, <3>2, <3>5, <4>1, <4>2
      <3> QED BY <2>1, <2>2, <3>1, <3>4, <3>5
    <2> QED BY <1>5, <2>4, <2>5, <2>6
  <1>6. CASE \E q \in Reads : ReadPage(q) \/ CountRows(q)
    <2>1. /\ \A i \in reading'[r].items :
               /\ i.id \in Listed(r)
               /\ i.row = IF r = "active" THEN Null ELSE schedules[i.id]
               /\ i.page = PageOf(r, i.id) + 1
          /\ \A s \in Listed(r) :
               PageOf(r, s) < reading'[r].page => \E i \in reading'[r].items : i.id = s
          /\ reading'[r].last # Null => reading'[r].last = PagesToRead(TotalPages(r))
          /\ UNCHANGED <<schedules, active, now, calm>>
      BY <1>5, <1>6
    <2>2. /\ Listed(r)' = Listed(r) /\ schedules' = schedules
          /\ \A s : PageOf(r, s)' = PageOf(r, s)
          /\ PagesToRead(TotalPages(r))' = PagesToRead(TotalPages(r))
      BY <1>3, <2>1
    <2> QED BY <2>1, <2>2
  <1> QED BY <1>1, <1>2, <1>4, <1>6, Groups

LEMMA StepComplete ==
    ASSUME Typed, Complete, [DashboardNext]_vars
    PROVE  Complete'
  <1>1. CASE StartScan
    BY <1>1, ScanBegins DEF StartScan, Complete, ReadInFull
  <1>2. CASE ScanRow
    <2>1. PICK i, c, f : Turn(i, c, f)
      BY <1>2, ScanRowTurns
    <2>2. phase = "scanning" /\ UNCHANGED <<phase, reading>>
      BY <1>2 DEF ScanRow
    <2>3. ScanRight'
      BY <2>1, <2>2, TurnKeepsRight DEF Complete
    <2> QED BY <2>2, <2>3 DEF Complete, ReadInFull
  <1>3. ASSUME UNCHANGED <<reading, scan>>, ScanRight, \A r \in Reads : ReadInFull(r)
        PROVE  Complete'
    BY <1>3 DEF Complete, ReadInFull, ScanRight, InOrder, EndsRight, IssuesRight, TotalsRight,
       Seen, SeenOf, ToScan, EndsAt, ItemsOverlap, ItemsGap, Uncovered
  <1>4. CASE Show
    BY <1>3, <1>4 DEF Show, Complete
  <1>5. CASE Others \/ Stutters
    <2>1. UNCHANGED <<reading, scan, phase>> /\ (calm' => calm)
      BY <1>5 DEF Others, Create, ChangeStatus, Edit, Activate, Deactivate, Counts, client,
         Stutters, vars, ghosts
    <2> QED BY <1>3, <2>1 DEF Complete
  <1>6. CASE Refresh \/ RefreshFails \/ \E r \in Reads : ReadPage(r) \/ CountRows(r)
    BY <1>6 DEF Refresh, RefreshFails, ReadPage, CountRows, Complete
  <1> QED BY <1>1, <1>2, <1>4, <1>5, <1>6, Groups

LEMMA StepDisplayed ==
    ASSUME Typed, Displayed, [DashboardNext]_vars
    PROVE  Displayed'
  <1>1. CASE Show
    <2>1. PICK top \in SUBSET Channels :
             /\ IsTopRisk(top)
             /\ shown' = [overlaps |-> scan.overlaps, gaps |-> scan.gaps, invalid |-> scan.invalid,
                          topRisk |-> top,
                          activeChannels |-> Cardinality(reading["active"].items),
                          onAir |-> ChannelsOf("onAir"), next6h |-> ChannelsOf("next6h")]
      BY <1>1 DEF Show
    <2>2. scan.left = {} /\ UNCHANGED <<scan, reading>>
      BY <1>1 DEF Show
    <2> QED BY <2>1, <2>2 DEF Displayed, IsTopRisk, WithIssues, Score, ChannelsOf, ActiveIds
  <1>2. CASE Others \/ Stutters
    <2>1. UNCHANGED <<reading, scan, phase, shown>> /\ (calm' => calm)
      BY <1>2 DEF Others, Create, ChangeStatus, Edit, Activate, Deactivate, Counts, client,
         Stutters, vars, ghosts
    <2> QED BY <2>1 DEF Displayed, IsTopRisk, WithIssues, Score, ChannelsOf, ActiveIds
  <1>3. CASE \/ Refresh \/ RefreshFails \/ StartScan \/ ScanRow
             \/ \E r \in Reads : ReadPage(r) \/ CountRows(r)
    BY <1>3 DEF Refresh, RefreshFails, StartScan, ScanRow, ReadPage, CountRows, Displayed
  <1> QED BY <1>1, <1>2, <1>3, Groups

DashboardInv == Typed /\ Met /\ Agree /\ Complete /\ Displayed

\* What the snapshot is computed from is what the tables hold as long as nobody
\* writes (dashboard.service.ts:163-258, :276-341): the invariant on which the
\* theorems below rest.
THEOREM DashboardIsSound == DashboardSpec => []DashboardInv
  <1>1. DashboardInit => DashboardInv
    <2>1. DashboardInit => Met /\ Agree /\ Complete /\ Displayed
      BY DEF DashboardInit, Met, Agree, Complete, Displayed
    <2> QED BY <2>1, InitTyped DEF DashboardInv
  <1>2. DashboardInv /\ [DashboardNext]_vars => DashboardInv'
    BY StepTyped, StepMet, StepAgree, StepComplete, StepDisplayed DEF DashboardInv
  <1> QED BY <1>1, <1>2, PTL DEF DashboardSpec

\* The lists, the loop's variables and the snapshot keep their shapes: no
\* count goes below zero, and previousEnd is an end or Null.
THEOREM DashboardTypeCorrect == DashboardSpec => []DashboardTypeOK
  <1>1. DashboardInv => DashboardTypeOK
    BY DEF DashboardInv, Typed
  <1> QED BY <1>1, DashboardIsSound, PTL

-----------------------------------------------------------------------------
(* What a refresh that nobody writes into shows. *)

\* The items of list r are its rows, each once and as it is.
Exact(r) ==
    /\ \A i \in reading[r].items :
         /\ i.id \in Listed(r)
         /\ i.row = IF r = "active" THEN Null ELSE schedules[i.id]
    /\ \A i, j \in reading[r].items : i.id = j.id => i = j
    /\ \A s \in Listed(r) : \E i \in reading[r].items : i.id = s

LEMMA ReadExactly ==
    ASSUME Typed, Agree, calm, NEW r \in Reads, ReadInFull(r), TotalPages(r) <= MaxPageCount
    PROVE  Exact(r)
  <1>1. /\ \A i \in reading[r].items :
             /\ i.id \in Listed(r)
             /\ i.row = IF r = "active" THEN Null ELSE schedules[i.id]
             /\ i.page = PageOf(r, i.id) + 1
        /\ \A s \in Listed(r) :
             PageOf(r, s) < reading[r].page => \E i \in reading[r].items : i.id = s
        /\ reading[r].last = PagesToRead(TotalPages(r))
    BY DEF Agree, ReadInFull
  <1>2. ASSUME NEW i \in reading[r].items, NEW j \in reading[r].items, i.id = j.id
        PROVE  i = j
    <2>1. i \in Item /\ j \in Item
      BY DEF Typed, DashboardTypeOK, Reading
    <2>2. i.page = j.page /\ i.row = j.row
      BY <1>1, <1>2
    <2> QED BY <1>2, <2>1, <2>2 DEF Item
  <1>3. ASSUME NEW s \in Listed(r) PROVE \E i \in reading[r].items : i.id = s
    <2>1. PagesToRead(TotalPages(r)) = TotalPages(r)
      BY TypedTables, PagesHoldAll, DashboardAssumption DEF PagesToRead
    <2>2. PageOf(r, s) < TotalPages(r) /\ PageOf(r, s) \in Nat /\ TotalPages(r) \in Nat
      BY TypedTables, PagesHoldAll, PageOfType
    <2>3. reading[r].page \in Nat /\ reading[r].page >= TotalPages(r)
      BY <1>1, <2>1 DEF ReadInFull, Typed, DashboardTypeOK, Reading
    <2> QED BY <1>1, <2>2, <2>3
  <1> QED BY <1>1, <1>2, <1>3 DEF Exact

LEMMA FreshIsExact ==
    ASSUME DashboardInv, Fresh, WithinCap, NEW r \in Reads
    PROVE  Exact(r)
  <1>1. calm /\ ReadInFull(r) /\ TotalPages(r) <= MaxPageCount
    BY DEF DashboardInv, Fresh, WithinCap, Complete
  <1> QED BY <1>1, ReadExactly DEF DashboardInv

\* The programmes of a channel, as rows of the table and as items read.
LEMMA LiveItems ==
    ASSUME Typed, NEW r \in ScheduleReads, Exact(r), NEW c
    PROVE  /\ \A i \in NonCancelled(reading[r].items) :
                /\ i.row = schedules[i.id]
                /\ i.row.channel = c => i.id \in Live(r, c)
           /\ \A s \in Live(r, c) : \E i \in NonCancelled(reading[r].items) :
                i.id = s /\ i.row = schedules[s] /\ i.row.channel = c
  <1>1. r # "active"
    BY DEF ScheduleReads
  <1> QED BY <1>1 DEF Exact, NonCancelled, Live

LEMMA ScannedIsLive ==
    ASSUME Typed, Exact("today"), scan.left = {}, ScanRight, NEW c \in Channels
    PROVE  /\ scan.issue[c].overlaps > 0 <=> HasOverlap(c)
           /\ scan.issue[c].gaps > 0 <=> HasGap(c)
           /\ scan.issue[c].invalid > 0 <=> HasInvalid(c)
  <1>0. "today" \in ScheduleReads
    BY DEF ScheduleReads
  <1>1. Seen = NonCancelled(reading["today"].items)
    BY DEF Seen, ToScan
  <1>2. /\ \A i \in Seen : /\ i.row = schedules[i.id]
                           /\ i.row.channel = c => i.id \in Live("today", c)
        /\ \A s \in Live("today", c) :
             \E i \in Seen : i.id = s /\ i.row = schedules[s] /\ i.row.channel = c
    BY <1>0, <1>1, LiveItems
  <1>3. \A i \in SeenOf(c) : i.id \in Valid(c) /\ i.row = schedules[i.id]
    BY <1>2 DEF SeenOf, Valid
  <1>4. \A s \in Valid(c) : \E i \in SeenOf(c) : i.id = s /\ i.row = schedules[s]
    BY <1>2 DEF SeenOf, Valid
  <1>5. \A i, j \in SeenOf(c) : i.id = j.id => i = j
    BY <1>1 DEF SeenOf, Exact, NonCancelled
  <1>6. ItemsOverlap(SeenOf(c)) <=> HasOverlap(c)
    BY <1>3, <1>4, <1>5 DEF ItemsOverlap, HasOverlap
  <1>7. ItemsGap(SeenOf(c)) <=> HasGap(c)
    <2>1. ASSUME ItemsGap(SeenOf(c)) PROVE HasGap(c)
      <3>1. PICK i \in SeenOf(c), j \in SeenOf(c) :
               i.row.stop < j.row.start /\ Uncovered(SeenOf(c), i.row.stop)
        BY <2>1 DEF ItemsGap
      <3>2. /\ i.id \in Valid(c) /\ j.id \in Valid(c)
            /\ schedules[i.id].stop < schedules[j.id].start
        BY <1>3, <3>1
      <3>3. \A u \in Valid(c) : ~(/\ schedules[u].start <= schedules[i.id].stop
                                 /\ schedules[i.id].stop < schedules[u].stop)
        BY <1>3, <1>4, <3>1 DEF Uncovered
      <3> QED BY <3>2, <3>3 DEF HasGap
    <2>2. ASSUME HasGap(c) PROVE ItemsGap(SeenOf(c))
      <3>1. PICK s \in Valid(c), t \in Valid(c) :
               /\ schedules[s].stop < schedules[t].start
               /\ \A u \in Valid(c) : ~(/\ schedules[u].start <= schedules[s].stop
                                       /\ schedules[s].stop < schedules[u].stop)
        BY <2>2 DEF HasGap
      <3>2. PICK i \in SeenOf(c), j \in SeenOf(c) :
               i.row = schedules[s] /\ j.row = schedules[t]
        BY <1>4
      <3>3. Uncovered(SeenOf(c), i.row.stop)
        BY <1>3, <3>1, <3>2 DEF Uncovered
      <3> QED BY <3>1, <3>2, <3>3 DEF ItemsGap
    <2> QED BY <2>1, <2>2
  <1>8. (\E i \in Seen : i.row.channel = c /\ Invalid(i.row)) <=> HasInvalid(c)
    BY <1>2 DEF HasInvalid
  <1> QED BY <1>6, <1>7, <1>8 DEF ScanRight, IssuesRight

\* The single pass over pages read by offset finds an overlap, a gap or an
\* invalid range exactly where there is one (dashboard.service.ts:226-258).
THEOREM IntegrityExact == DashboardSpec => []IntegrityIsExact
  <1>1. ASSUME DashboardInv PROVE IntegrityIsExact
    <2> SUFFICES ASSUME Fresh, WithinCap
                 PROVE  /\ shown.overlaps > 0 <=> \E c \in Channels : HasOverlap(c)
                        /\ shown.gaps > 0 <=> \E c \in Channels : HasGap(c)
                        /\ shown.invalid > 0 <=> \E c \in Channels : HasInvalid(c)
                        /\ LET bad == {c \in Channels : HasOverlap(c) \/ HasGap(c) \/ HasInvalid(c)}
                           IN /\ shown.topRisk \subseteq bad
                              /\ Cardinality(bad) <= TopCount => shown.topRisk = bad
      BY DEF IntegrityIsExact
    <2> DEFINE bad == {c \in Channels : HasOverlap(c) \/ HasGap(c) \/ HasInvalid(c)}
    <2>1. Exact("today")
      BY <1>1, FreshIsExact DEF Reads, ScheduleReads
    <2>2. ScanRight /\ scan.left = {} /\ scan \in Scan /\ Typed
      BY <1>1 DEF DashboardInv, Fresh, Complete, Displayed, Typed, DashboardTypeOK
    <2>3. \A c \in Channels :
             /\ scan.issue[c].overlaps > 0 <=> HasOverlap(c)
             /\ scan.issue[c].gaps > 0 <=> HasGap(c)
             /\ scan.issue[c].invalid > 0 <=> HasInvalid(c)
      BY <2>1, <2>2, ScannedIsLive
    <2>4. /\ shown.overlaps = scan.overlaps /\ shown.gaps = scan.gaps
          /\ shown.invalid = scan.invalid /\ IsTopRisk(shown.topRisk)
      BY <1>1 DEF DashboardInv, Fresh, Displayed
    <2>5. /\ shown.overlaps > 0 <=> \E c \in Channels : HasOverlap(c)
          /\ shown.gaps > 0 <=> \E c \in Channels : HasGap(c)
          /\ shown.invalid > 0 <=> \E c \in Channels : HasInvalid(c)
      BY <2>2, <2>3, <2>4 DEF ScanRight, TotalsRight
    <2>6. ASSUME NEW c \in Channels
          PROVE  scan.issue[c] # NoIssue <=> HasOverlap(c) \/ HasGap(c) \/ HasInvalid(c)
      <3>1. scan.issue[c] \in [overlaps : Nat, gaps : Nat, invalid : Nat]
        BY <2>2 DEF Scan
      <3>2. scan.issue[c] # NoIssue <=>
               \/ scan.issue[c].overlaps > 0 \/ scan.issue[c].gaps > 0
               \/ scan.issue[c].invalid > 0
        BY <3>1 DEF NoIssue
      <3> QED BY <2>3, <3>2
    <2>7. WithIssues = bad
      BY <2>6 DEF WithIssues
    <2>8. ASSUME Cardinality(bad) <= TopCount PROVE shown.topRisk = bad
      <3>1. IsFiniteSet(bad)
        BY FS_Subset, DashboardAssumption
      <3>2. shown.topRisk \in SUBSET bad
        BY <2>4, <2>7 DEF IsTopRisk
      <3>3. /\ Cardinality(shown.topRisk) <= Cardinality(bad)
            /\ Cardinality(bad) = Cardinality(shown.topRisk) => bad = shown.topRisk
        BY <3>1, <3>2, FS_Subset
      <3>4. CASE Cardinality(shown.topRisk) = TopCount
        <4>1. Cardinality(bad) \in Nat /\ TopCount \in Nat
          BY <3>1, FS_CardinalityType, DashboardAssumption
        <4> HIDE DEF bad
        <4> QED BY <2>8, <3>3, <3>4, <4>1
      <3> QED BY <2>4, <2>7, <3>4 DEF IsTopRisk
    <2> QED BY <2>4, <2>5, <2>7, <2>8 DEF IsTopRisk
  <1> QED BY <1>1, DashboardIsSound, PTL

\* The active channels are read each once.
LEMMA ActiveExact ==
    ASSUME Typed, Exact("active")
    PROVE  ActiveIds = active /\ Cardinality(reading["active"].items) = Cardinality(active)
  <1> DEFINE items == reading["active"].items
             f == [i \in items |-> i.id]
  <1>1. Listed("active") = active
    BY DEF Listed, ListedAt
  <1>2. ActiveIds = active
    BY <1>1 DEF ActiveIds, Exact
  <1>3. IsFiniteSet(items)
    BY DEF Typed, RowsRead, Reads
  <1>4. f \in Surjection(items, active)
    BY <1>1 DEF Surjection, Exact
  <1>5. f \in Injection(items, active)
    <2>1. f \in [items -> active]
      BY <1>4 DEF Surjection
    <2>2. \A i, j \in items : f[i] = f[j] => i = j
      BY DEF Exact
    <2> HIDE DEF f, items
    <2> QED BY <2>1, <2>2 DEF Injection, IsInjective
  <1>6. Cardinality(active) = Cardinality(items)
    BY <1>3, <1>4, <1>5, FS_Surjection
  <1> QED BY <1>2, <1>6

LEMMA ChannelsExact ==
    ASSUME Typed, Exact("active"), NEW r \in ScheduleReads, Exact(r)
    PROVE  ChannelsOf(r) = {c \in active : Live(r, c) # {}}
  <1>1. ActiveIds = active
    BY ActiveExact
  <1>2. \A c : (\E i \in NonCancelled(reading[r].items) : i.row.channel = c) <=> Live(r, c) # {}
    BY LiveItems
  <1> QED BY <1>1, <1>2 DEF ChannelsOf

\* A channel on the air has a programme in the next six hours.
LEMMA OnAirIsCovered ==
    ASSUME Typed, NEW c
    PROVE  Live("onAir", c) \subseteq Live("next6h", c)
  <1> SUFFICES ASSUME NEW s \in Ids, schedules[s] # Null, Within("onAir", schedules[s], now)
               PROVE  Within("next6h", schedules[s], now)
    BY DEF Live, Listed, ListedAt
  <1>1. schedules[s].start \in Int /\ now \in Int
    BY DEF Typed, DashboardTypeOK, Row
  <1>2. schedules[s].start < now + 1 /\ schedules[s].stop > now
    BY DEF Within
  <1>3. schedules[s].start < now + Ahead
    BY <1>1, <1>2, DashboardAssumption
  <1> QED BY <1>2, <1>3 DEF Within

\* The parts of the coverage bar count the channels they name
\* (dashboard.service.ts:313-327, :396-401).
THEOREM CoverageExact == DashboardSpec => []CoverageIsExact
  <1>1. ASSUME DashboardInv PROVE CoverageIsExact
    <2> DEFINE on  == {c \in active : Live("onAir", c) # {}}
               off == {c \in active : Live("next6h", c) = {}}
               cov == {c \in active : Live("next6h", c) # {}}
    <2> SUFFICES ASSUME Fresh, WithinCap
                 PROVE  /\ FullyCovered(shown) = Cardinality(on)
                        /\ NoCoverage(shown) = Cardinality(off)
      BY DEF CoverageIsExact
    <2>1. Exact("active") /\ Exact("onAir") /\ Exact("next6h") /\ Typed
      BY <1>1, FreshIsExact DEF Reads, ScheduleReads, DashboardInv
    <2>2. /\ shown.activeChannels = Cardinality(active)
          /\ shown.onAir = on /\ shown.next6h = cov
      BY <1>1, <2>1, ActiveExact, ChannelsExact DEF DashboardInv, Fresh, Displayed, ScheduleReads
    <2>3. IsFiniteSet(active)
      BY <2>1, FS_Subset, DashboardAssumption DEF Typed, DashboardTypeOK
    <2>4. off = active \ cov /\ cov \subseteq active /\ on \subseteq cov
      BY <2>1, OnAirIsCovered
    <2> HIDE DEF on, off, cov
    <2>5. IsFiniteSet(cov) /\ IsFiniteSet(on) /\ Cardinality(on) <= Cardinality(cov)
          /\ Cardinality(cov) <= Cardinality(active)
      BY <2>3, <2>4, FS_Subset
    <2>6. Cardinality(off) = Cardinality(active) - Cardinality(cov)
      <3>1. active \cap cov = cov
        BY <2>4
      <3>2. Cardinality(active \ cov) = Cardinality(active) - Cardinality(active \cap cov)
        BY <2>3, FS_Difference
      <3> QED BY <2>4, <3>1, <3>2
    <2>7. /\ Cardinality(active) \in Nat /\ Cardinality(cov) \in Nat /\ Cardinality(on) \in Nat
      BY <2>3, <2>5, FS_CardinalityType
    <2>8. NoCoverage(shown) = Cardinality(active) - Cardinality(cov)
      BY <2>2, <2>5, <2>7 DEF NoCoverage, AtLeastZero
    <2>9. MissingOnAir(shown) = Cardinality(active) - Cardinality(on)
      BY <2>2, <2>5, <2>7 DEF MissingOnAir, AtLeastZero
    <2>10. PartialCoverage(shown) = Cardinality(cov) - Cardinality(on)
      BY <2>5, <2>7, <2>8, <2>9 DEF PartialCoverage, AtLeastZero
    <2>11. FullyCovered(shown) = Cardinality(on)
      BY <2>2, <2>5, <2>7, <2>8, <2>10 DEF FullyCovered, AtLeastZero
    <2> QED BY <2>6, <2>8, <2>11
  <1> QED BY <1>1, DashboardIsSound, PTL
=============================================================================
