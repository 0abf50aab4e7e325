------------------------ MODULE TimelineEditor_proofs ------------------------
(***************************************************************************)
(* Theorems about TimelineEditor, for every number of programmes, calls    *)
(* and channels, every grid and every page limit: its types, that the tab  *)
(* implements Timeline's promise together with the other operators, and    *)
(* the four properties that the run checks on a small day.                 *)
(***************************************************************************)
EXTENDS TimelineEditor, ScheduleRules_proofs, FiniteSetTheorems

USE SnapAssumption

-----------------------------------------------------------------------------
(* The grid. *)

LEMMA DivBounds ==
    ASSUME NEW a \in Int, NEW b \in Nat \ {0}
    PROVE  /\ a \div b \in Int
           /\ b * (a \div b) <= a
           /\ a < b * (a \div b) + b
  BY SMTT(30)

LEMMA CancelFactor ==
    ASSUME NEW g \in Nat \ {0}, NEW x \in Int, NEW y \in Int, g * x < g * y
    PROVE  x < y
  BY SMTT(30)

\* A place on the grid is a multiple of it, at most half a step away.
LEMMA OnGridIsNear ==
    ASSUME NEW t \in Int
    PROVE  /\ OnGrid(t) \in Int
           /\ \E k \in Int : OnGrid(t) = k * Grid
           /\ OnGrid(t) % Grid = 0
           /\ 2 * OnGrid(t) <= 2 * t + Grid
           /\ 2 * t < 2 * OnGrid(t) + Grid
  <1> DEFINE k == (2 * t + Grid) \div (2 * Grid)
  <1>1. 2 * t + Grid \in Int /\ 2 * Grid \in Nat \ {0} /\ Grid \in Int
    OBVIOUS
  <1>2. k \in Int /\ (2 * Grid) * k <= 2 * t + Grid /\ 2 * t + Grid < (2 * Grid) * k + 2 * Grid
    BY <1>1, DivBounds
  <1>3. OnGrid(t) = k * Grid
    BY DEF OnGrid
  <1> HIDE DEF k
  <1>4. (2 * Grid) * k = 2 * (k * Grid) /\ k * Grid \in Int
    BY <1>1, <1>2
  <1>5. (k * Grid) % Grid = 0
    BY <1>2, SMTT(30)
  <1> QED BY <1>1, <1>2, <1>3, <1>4, <1>5

\* What is on the grid stays.
LEMMA OnGridIsStable ==
    ASSUME NEW t \in Int
    PROVE  OnGrid(OnGrid(t)) = OnGrid(t)
  <1>1. PICK k \in Int : OnGrid(t) = k * Grid
    BY OnGridIsNear
  <1>2. PICK j \in Int : OnGrid(k * Grid) = j * Grid
    <2>1. k * Grid \in Int
      OBVIOUS
    <2> QED BY <2>1, OnGridIsNear
  <1>3. k * Grid \in Int /\ j * Grid \in Int /\ Grid \in Nat \ {0}
    OBVIOUS
  <1>4. 2 * (j * Grid) <= 2 * (k * Grid) + Grid /\ 2 * (k * Grid) < 2 * (j * Grid) + Grid
    BY <1>2, <1>3, OnGridIsNear
  <1>5. Grid * j < Grid * (k + 1) /\ Grid * k < Grid * (j + 1)
    BY <1>3, <1>4
  <1>6. j < k + 1 /\ k < j + 1
    BY <1>3, <1>5, CancelFactor
  <1> QED BY <1>1, <1>2, <1>6

-----------------------------------------------------------------------------
(* Snapping. *)

InTimes(others) == \A a \in others : a.start \in Times /\ a.stop \in Times

LEMMA EarliestIsMinimum ==
    ASSUME NEW S, S \subseteq Times, S # {}
    PROVE  Earliest(S) \in S /\ \A u \in S : Earliest(S) <= u
  <1>1. S \in SUBSET Nat
    BY EditorAssumption DEF Times
  <1>2. \E x \in S : \A y \in S : x <= y
    BY <1>1, LeastNat
  <1> QED BY <1>2 DEF Earliest

\* What is within the threshold in seconds is within it in whole minutes.
LEMMA CloseIsNear ==
    ASSUME NEW t \in Int, NEW u \in Int, Distance(t, u) <= SnapMinutes * Minute
    PROVE  Near(t, u)
  <1> DEFINE q == Distance(t, u) \div Minute
  <1>1. Distance(t, u) \in Int /\ Minute \in Nat \ {0} /\ SnapMinutes \in Nat
    BY DEF Distance
  <1>2. q \in Int /\ Minute * q <= Distance(t, u)
    BY <1>1, DivBounds
  <1>3. Near(t, u) <=> q <= SnapMinutes
    BY DEF Near, MinutesApart
  <1> HIDE DEF q
  <1>4. Minute * q <= Minute * SnapMinutes
    <2>1. SnapMinutes * Minute = Minute * SnapMinutes /\ Minute * SnapMinutes \in Int /\ Minute * q \in Int
      BY <1>1, <1>2
    <2> QED BY <1>1, <1>2, <2>1
  <1>5. Minute * q < Minute * (SnapMinutes + 1)
    BY <1>1, <1>2, <1>4
  <1>6. q < SnapMinutes + 1
    BY <1>1, <1>2, <1>5, CancelFactor
  <1> QED BY <1>1, <1>2, <1>3, <1>6

\* Where applyScheduleSnap puts a programme: on the grid, behind another one or
\* in front of one; when it snaps to none, none is within the threshold.
LEMMA SnapCases ==
    ASSUME NEW others, InTimes(others), NEW t \in Int, NEW d \in Int
    PROVE  LET p == OnGrid(t)
               s == ScheduleSnap(others, t, d)
           IN /\ s.start \in Int
              /\ s.snapped \in BOOLEAN
              /\ \/ s.start = p
                 \/ \E a \in others : s.start = a.stop
                 \/ \E a \in others : s.start + d = a.start
              /\ ~s.snapped =>
                    /\ s.start = p
                    /\ \A a \in others :
                         /\ a.stop <= p => p - a.stop > SnapMinutes * Minute
                         /\ a.start >= p + d => a.start - (p + d) > SnapMinutes * Minute
  <1> DEFINE p == OnGrid(t)
             before == {a.stop : a \in EndedBy(others, p)}
             after == {a.start : a \in {b \in others : b.start >= p + d}}
             toPrevious == before # {} /\ Near(Latest(before), p)
             start == IF toPrevious THEN Latest(before) ELSE p
             toNext == after # {} /\ Near(Earliest(after), start + d)
             s == ScheduleSnap(others, t, d)
  <1>1. /\ s.start = IF toNext THEN Earliest(after) - d ELSE start
        /\ s.snapped = (toPrevious \/ toNext)
    BY DEF ScheduleSnap
  <1>2. p \in Int /\ d \in Int /\ SnapMinutes * Minute \in Nat
    BY OnGridIsNear
  <1>3. before \subseteq Times /\ after \subseteq Times
    BY DEF EndedBy, InTimes
  <1>4. before # {} => /\ Latest(before) \in before
                       /\ \A u \in before : u <= Latest(before)
    BY <1>3, LatestIsMaximum, EditorAssumption DEF Times
  <1>5. after # {} => /\ Earliest(after) \in after
                      /\ \A u \in after : Earliest(after) <= u
    BY <1>3, EarliestIsMinimum
  <1>6. before # {} => /\ Latest(before) \in Int
                       /\ Latest(before) <= p
                       /\ \E a \in others : Latest(before) = a.stop
    <2>1. SUFFICES ASSUME before # {}
                   PROVE  /\ Latest(before) \in Int
                          /\ Latest(before) <= p
                          /\ \E a \in others : Latest(before) = a.stop
      OBVIOUS
    <2>2. PICK a \in EndedBy(others, p) : Latest(before) = a.stop
      BY <1>4, <2>1
    <2>3. a \in others /\ a.stop <= p /\ a.stop \in Int
      BY EditorAssumption DEF EndedBy, InTimes, Times
    <2> QED BY <2>2, <2>3
  <1>7. after # {} => /\ Earliest(after) \in Int
                      /\ Earliest(after) >= p + d
                      /\ \E a \in others : Earliest(after) = a.start
    <2>1. SUFFICES ASSUME after # {}
                   PROVE  /\ Earliest(after) \in Int
                          /\ Earliest(after) >= p + d
                          /\ \E a \in others : Earliest(after) = a.start
      OBVIOUS
    <2>2. PICK a \in {b \in others : b.start >= p + d} : Earliest(after) = a.start
      BY <1>5, <2>1
    <2>3. a \in others /\ a.start >= p + d /\ a.start \in Int
      BY EditorAssumption DEF InTimes, Times
    <2> QED BY <2>2, <2>3
  <1>8. ASSUME NEW a \in others
        PROVE  a.start \in Int /\ a.stop \in Int
    BY EditorAssumption DEF InTimes, Times
  <1>8a. ASSUME NEW a \in others, a.stop <= p
         PROVE  a.stop \in before
    BY <1>8a DEF EndedBy
  <1>8b. ASSUME NEW a \in others, a.start >= p + d
         PROVE  a.start \in after
    BY <1>8b
  <1> HIDE DEF before, after, p
  <1>9. start \in Int /\ s.start \in Int /\ s.snapped \in BOOLEAN
    BY <1>1, <1>2, <1>6, <1>7
  <1>10. \/ s.start = p
         \/ \E a \in others : s.start = a.stop
         \/ \E a \in others : s.start + d = a.start
    <2>1. CASE toNext
      BY <1>1, <1>2, <1>7, <2>1
    <2>2. CASE ~toNext /\ toPrevious
      BY <1>1, <1>6, <2>2
    <2>3. CASE ~toNext /\ ~toPrevious
      BY <1>1, <2>3
    <2> QED BY <2>1, <2>2, <2>3
  <1>11. ASSUME ~s.snapped
         PROVE  /\ s.start = p
                /\ \A a \in others :
                     /\ a.stop <= p => p - a.stop > SnapMinutes * Minute
                     /\ a.start >= p + d => a.start - (p + d) > SnapMinutes * Minute
    <2>1. ~toPrevious /\ ~toNext /\ s.start = p /\ start = p
      BY <1>1, <1>11
    <2>2. ASSUME NEW a \in others, a.stop <= p
          PROVE  p - a.stop > SnapMinutes * Minute
      <3>0. a.stop \in before /\ a.stop \in Int
        BY <1>8, <1>8a, <2>2
      <3>1. before # {} /\ a.stop <= Latest(before) /\ a.stop \in Int
        BY <1>4, <3>0
      <3>2. ~(Distance(Latest(before), p) <= SnapMinutes * Minute)
        BY <1>2, <1>6, <2>1, <3>1, CloseIsNear
      <3>3. Distance(Latest(before), p) = p - Latest(before)
        BY <1>2, <1>6, <3>1 DEF Distance
      <3> QED BY <1>2, <1>6, <3>1, <3>2, <3>3
    <2>3. ASSUME NEW a \in others, a.start >= p + d
          PROVE  a.start - (p + d) > SnapMinutes * Minute
      <3>0. a.start \in after /\ a.start \in Int
        BY <1>8, <1>8b, <2>3
      <3>1. after # {} /\ Earliest(after) <= a.start /\ a.start \in Int
        BY <1>5, <3>0
      <3>2. ~(Distance(Earliest(after), p + d) <= SnapMinutes * Minute)
        BY <1>2, <1>7, <2>1, <3>1, CloseIsNear
      <3>3. p + d \in Int /\ Earliest(after) \in Int /\ Earliest(after) >= p + d
        BY <1>2, <1>7, <3>1
      <3>4. Distance(Earliest(after), p + d) = Earliest(after) - (p + d)
        BY <3>3 DEF Distance
      <3> QED BY <1>2, <3>1, <3>2, <3>3, <3>4
    <2> QED BY <2>1, <2>2, <2>3
  <1> QED BY <1>9, <1>10, <1>11 DEF p

\* A drop that ends away from the edges of others, and free of them, is where
\* the ghost was: the second snap of handleDragEnd cannot carry it off.
LEMMA DropStaysWithGhost ==
    ASSUME NEW others, InTimes(others), \A a \in others : a.start < a.stop,
           NEW t \in Int, NEW d \in Nat,
           ~DropPlace(others, t, d).snapped,
           ~HasOverlap(others, Lasting(DropPlace(others, t, d).start, d))
    PROVE  /\ DropPlace(others, t, d).start = ScheduleSnap(others, t, d).start
           /\ DropPlace(others, t, d).start % Grid = 0
  <1> DEFINE g == ScheduleSnap(others, t, d).start
             p == OnGrid(g)
             s == ScheduleSnap(others, g, d)
             far == SnapMinutes * Minute
  <1>1. /\ g \in Int
        /\ \/ g = OnGrid(t)
           \/ \E a \in others : g = a.stop
           \/ \E a \in others : g + d = a.start
    BY SnapCases
  <1>2. DropPlace(others, t, d) = s
    BY DEF DropPlace
  <1>3. /\ s.start = p
        /\ \A a \in others :
             /\ a.stop <= p => p - a.stop > far
             /\ a.start >= p + d => a.start - (p + d) > far
    BY <1>1, <1>2, SnapCases
  <1>4. p \in Int /\ p % Grid = 0 /\ 2 * p <= 2 * g + Grid /\ 2 * g < 2 * p + Grid
    BY <1>1, OnGridIsNear
  <1>5. far \in Int /\ Grid <= far /\ Grid \in Nat \ {0}
    OBVIOUS
  <1>6. \A a \in others : ~(a.start < p + d /\ a.stop > p)
    BY <1>2, <1>3 DEF HasOverlap, Overlaps, Lasting
  <1>7. \A a \in others : a.start \in Int /\ a.stop \in Int /\ a.start < a.stop
    BY EditorAssumption DEF InTimes, Times
  <1> HIDE DEF p, g, s, far
  <1>8. CASE g = OnGrid(t)
    BY <1>2, <1>3, <1>4, <1>8, OnGridIsStable DEF p, g
  <1>9. ASSUME NEW a \in others, g = a.stop PROVE g = p
    <2>1. a.start \in Int /\ a.stop \in Int /\ a.start < a.stop
      BY <1>7
    <2>2. a.stop <= p => p - a.stop > far
      BY <1>3
    <2>3. a.start >= p + d => a.start - (p + d) > far
      BY <1>3
    <2>4. ~(a.start < p + d /\ a.stop > p)
      BY <1>6
    <2> QED BY <1>1, <1>4, <1>5, <1>9, <2>1, <2>2, <2>3, <2>4
  <1>10. ASSUME NEW a \in others, g + d = a.start PROVE g = p
    <2>1. a.start \in Int /\ a.stop \in Int /\ a.start < a.stop
      BY <1>7
    <2>2. a.stop <= p => p - a.stop > far
      BY <1>3
    <2>3. a.start >= p + d => a.start - (p + d) > far
      BY <1>3
    <2>4. ~(a.start < p + d /\ a.stop > p)
      BY <1>6
    <2> QED BY <1>1, <1>4, <1>5, <1>10, <2>1, <2>2, <2>3, <2>4
  <1>11. g = p
    BY <1>1, <1>2, <1>3, <1>8, <1>9, <1>10, OnGridIsStable DEF p
  <1> QED BY <1>2, <1>3, <1>4, <1>11 DEF g

-----------------------------------------------------------------------------
(* What every step of Timeline keeps. *)

RowsFit(rows) == \A s \in ScheduleIds : rows[s] # Null => WellFormed(rows[s])

\* No two slots that are live share the air.
LiveFree == \A s \in ScheduleIds : IsLive(s) => Bookable(s, slots[s])

LEMMA NullIsNoSlot == Null \notin Slot
  BY EditorAssumption

LEMMA SlotFields ==
    ASSUME NEW a \in Slot
    PROVE  /\ a.channel \in Channels /\ a.start \in Times /\ a.stop \in Times
           /\ a.duration \in Durations /\ a.status \in Statuses /\ a # Null
  BY NullIsNoSlot DEF Slot

\* A granted slot leaves the channels free of double bookings.
LEMMA BookingKeepsFree ==
    ASSUME TypeOK, RowsFit(slots), LiveFree,
           NEW s \in ScheduleIds, NEW a \in Slot, Bookable(s, a),
           slots' = [slots EXCEPT ![s] = a]
    PROVE  TypeOK' /\ RowsFit(slots)' /\ LiveFree'
  <1>1. TypeOK'
    BY DEF TypeOK
  <1>2. \A t \in ScheduleIds : slots'[t] = IF t = s THEN a ELSE slots[t]
    BY DEF TypeOK
  <1>3. RowsFit(slots)'
    BY <1>2 DEF RowsFit, Bookable
  <1>4. ASSUME NEW t \in ScheduleIds, IsLive(t)' PROVE Bookable(t, slots[t])'
    <2>1. CASE t = s
      <3>1. \A u \in ScheduleIds \ {s} : slots'[u] = slots[u]
        BY <1>2
      <3> QED BY <1>2, <2>1, <3>1 DEF Bookable, IsLive
    <2>2. CASE t # s
      <3>1. slots'[t] = slots[t] /\ IsLive(t) /\ slots'[s] = a
        BY <1>2, <1>4, <2>2 DEF IsLive
      <3>2. WellFormed(slots[t]) /\ \A u \in ScheduleIds \ {t} :
              IsLive(u) /\ slots[u].channel = slots[t].channel => ~Overlaps(slots[u], slots[t])
        BY <3>1 DEF LiveFree, Bookable
      <3>3. slots[t].channel = a.channel => ~Overlaps(slots[t], a)
        BY <2>2, <3>1 DEF Bookable
      <3>4. slots[t] \in Slot
        BY <3>1 DEF IsLive, TypeOK
      <3>5. a.channel = slots[t].channel => ~Overlaps(a, slots[t])
        BY <3>3, <3>4, SlotFields, EditorAssumption DEF Overlaps, Times
      <3>6. ASSUME NEW u \in ScheduleIds \ {t}, IsLive(u)', slots'[u].channel = slots[t].channel
            PROVE  ~Overlaps(slots'[u], slots[t])
        <4>1. CASE u = s
          BY <1>2, <3>5, <3>6, <4>1
        <4>2. CASE u # s
          BY <1>2, <3>2, <3>6, <4>2 DEF IsLive
        <4> QED BY <4>1, <4>2
      <3> QED BY <3>1, <3>2, <3>6 DEF Bookable
    <2> QED BY <2>1, <2>2
  <1> QED BY <1>1, <1>3, <1>4 DEF LiveFree

\* Every step of Timeline keeps them.
LEMMA TimelineKeepsFree ==
    ASSUME TypeOK, RowsFit(slots), LiveFree, [Next]_slots
    PROVE  TypeOK' /\ RowsFit(slots)' /\ LiveFree'
  <1>1. CASE UNCHANGED slots
    BY <1>1 DEF TypeOK, RowsFit, LiveFree, IsLive, Bookable
  <1>2. ASSUME NEW s \in ScheduleIds, Book(s) \/ Edit(s)
        PROVE  TypeOK' /\ RowsFit(slots)' /\ LiveFree'
    <2>1. PICK a \in Slot : Bookable(s, a) /\ slots' = [slots EXCEPT ![s] = a]
      BY <1>2 DEF Book, Edit
    <2> QED BY <2>1, BookingKeepsFree
  <1>3. ASSUME NEW s \in ScheduleIds, Publish(s)
        PROVE  TypeOK' /\ RowsFit(slots)' /\ LiveFree'
    <2> DEFINE a == [slots[s] EXCEPT !.status = "PUBLISHED"]
    <2>1. slots[s] \in Slot
      BY <1>3 DEF Publish, IsLive, TypeOK
    <2>2. /\ a \in Slot /\ a.channel = slots[s].channel /\ a.start = slots[s].start
          /\ a.stop = slots[s].stop /\ a.duration = slots[s].duration
      BY <2>1 DEF Slot, Statuses
    <2>3. slots' = [slots EXCEPT ![s] = a]
      BY <1>3 DEF Publish
    <2> HIDE DEF a
    <2>4. Bookable(s, a)
      BY <1>3, <2>2 DEF Publish, Bookable, WellFormed, ValidRange, ValidDuration,
                        DurationMatchesRange, Overlaps
    <2> QED BY <2>2, <2>3, <2>4, BookingKeepsFree
  <1>4. ASSUME NEW s \in ScheduleIds, Cancel(s)
        PROVE  TypeOK' /\ RowsFit(slots)' /\ LiveFree'
    <2> DEFINE a == [slots[s] EXCEPT !.status = "CANCELLED"]
    <2>1. slots[s] \in Slot
      BY <1>4 DEF Cancel, TypeOK
    <2>2. /\ a \in Slot /\ a.start = slots[s].start /\ a.status = "CANCELLED"
          /\ a.stop = slots[s].stop /\ a.duration = slots[s].duration
      BY <2>1 DEF Slot, Statuses
    <2>3. slots' = [slots EXCEPT ![s] = a]
      BY <1>4 DEF Cancel
    <2> HIDE DEF a
    <2>4. \A t \in ScheduleIds : slots'[t] = IF t = s THEN a ELSE slots[t]
      BY <2>3 DEF TypeOK
    <2>5. TypeOK'
      BY <2>2, <2>3 DEF TypeOK
    <2>6. RowsFit(slots)'
      BY <1>4, <2>2, <2>4 DEF RowsFit, Cancel, WellFormed, ValidRange, ValidDuration,
                              DurationMatchesRange
    <2>7. \A t \in ScheduleIds : IsLive(t)' => t # s /\ IsLive(t) /\ slots'[t] = slots[t]
      BY <2>2, <2>4 DEF IsLive
    <2>8. LiveFree'
      BY <2>7 DEF LiveFree, Bookable
    <2> QED BY <2>5, <2>6, <2>8
  <1> QED BY <1>1, <1>2, <1>3, <1>4 DEF Next

-----------------------------------------------------------------------------
(* Requests. *)

\* What a request of each kind carries.
RequestShape(r) ==
    /\ r \in Request
    /\ r.op = "create" =>
         /\ r.channel \in Channels /\ r.start \in Times /\ r.stop \in Times
         /\ r.duration \in Durations /\ r.stop = r.start + r.duration
    /\ r.op # "create" => r.id \in ScheduleIds
    /\ r.op = "move" => r.channel \in Channels
    /\ r.op \in {"move", "save", "snap", "follow"} =>
         r.start \in Times /\ r.stop \in Times /\ r.duration \in Nat
    /\ r.op = "resize" =>
         /\ r.start = Null /\ r.stop \in Times /\ r.duration \in Nat /\ r.from \in Times
         /\ r.duration = r.stop - r.from \/ r.duration = 0
    /\ r.op \in {"save", "snap"} => r.status \in Statuses
    /\ r.op \in {"create", "move"} /\ ~r.snapped => r.start = r.from /\ r.start % Grid = 0

LEMMA RequestFields ==
    ASSUME NEW r \in Request
    PROVE  /\ r # Null
           /\ r.op \in {"create", "move", "resize", "save", "snap", "follow", "publish", "delete"}
           /\ r.id \in ScheduleIds \cup {Null}
           /\ r.channel \in Channels \cup {Null}
           /\ r.start \in Times \cup {Null}
           /\ r.stop \in Times \cup {Null}
           /\ r.duration \in Nat \cup {Null}
           /\ r.status \in Statuses \cup {Null}
           /\ r.snapped \in BOOLEAN
           /\ r.sure \in BOOLEAN
  <1>1. r # Null
    BY EditorAssumption
  <1> QED BY <1>1, SMTT(30) DEF Request

\* Being sure or not does not change what a request carries.
LEMMA ShapeWithoutSure ==
    ASSUME NEW r, RequestShape(r), NEW b \in BOOLEAN
    PROVE  RequestShape([r EXCEPT !.sure = b])
  <1> DEFINE q == [r EXCEPT !.sure = b]
  <1>1. r \in Request
    BY DEF RequestShape
  <1>2. q \in Request
    BY <1>1, SMTT(30) DEF Request
  <1>3. /\ q.op = r.op /\ q.id = r.id /\ q.channel = r.channel /\ q.start = r.start
        /\ q.stop = r.stop /\ q.duration = r.duration /\ q.status = r.status
        /\ q.snapped = r.snapped /\ q.from = r.from
    BY <1>1 DEF Request
  <1> HIDE DEF q
  <1>4. RequestShape(q)
    BY <1>2, <1>3 DEF RequestShape
  <1> QED BY <1>4 DEF q

LEMMA UnsureShape ==
    ASSUME NEW f, \A c \in Calls : f[c] # Null => RequestShape(f[c])
    PROVE  \A c \in Calls :
             /\ Unsure(f)[c] = Null <=> f[c] = Null
             /\ Unsure(f)[c] # Null => RequestShape(Unsure(f)[c]) /\ ~Unsure(f)[c].sure
                                      /\ Unsure(f)[c].op = f[c].op
                                      /\ Unsure(f)[c].id = f[c].id
  <1>1. ASSUME NEW c \in Calls, f[c] = Null
        PROVE  Unsure(f)[c] = Null
    BY <1>1 DEF Unsure
  <1>2. ASSUME NEW c \in Calls, f[c] # Null
        PROVE  /\ Unsure(f)[c] # Null /\ RequestShape(Unsure(f)[c]) /\ ~Unsure(f)[c].sure
               /\ Unsure(f)[c].op = f[c].op /\ Unsure(f)[c].id = f[c].id
    <2>1. RequestShape(f[c]) /\ f[c] \in Request
      BY <1>2 DEF RequestShape
    <2>2. Unsure(f)[c] = [f[c] EXCEPT !.sure = FALSE]
      BY <1>2 DEF Unsure
    <2>3. RequestShape(Unsure(f)[c])
      BY <2>1, <2>2, ShapeWithoutSure
    <2>4. Unsure(f)[c] # Null
      BY <2>3, RequestFields DEF RequestShape
    <2>5. ~Unsure(f)[c].sure /\ Unsure(f)[c].op = f[c].op /\ Unsure(f)[c].id = f[c].id
      BY <2>1, <2>2 DEF Request
    <2> QED BY <2>3, <2>4, <2>5
  <1> QED BY <1>1, <1>2

\* What the API makes of a granted request is a slot, whatever kind it is, and
\* Timeline allows the write.
LEMMA GrantIsTimelineStep ==
    ASSUME TypeOK, NEW r, RequestShape(r), NEW s \in ScheduleIds, Grants(r, s),
           slots' = [slots EXCEPT ![s] = Result(r, s)]
    PROVE  Next
  <1>1. r \in Request
    BY DEF RequestShape
  <1>2. r.op \in {"create", "move", "resize", "save", "snap", "follow", "publish", "delete"}
    BY <1>1, RequestFields
  <1>3. CASE r.op = "create"
    <2> DEFINE a == Created(r)
               t == SnapStart(Others(slots, r.channel, Null), r.start)
    <2>1. slots[s] = Null /\ Bookable(s, a) /\ Result(r, s) = a
      BY <1>3 DEF Grants, Result
    <2>2. /\ r.channel \in Channels /\ r.start \in Times /\ r.stop \in Times
          /\ r.duration \in Durations /\ r.stop = r.start + r.duration
      BY <1>3 DEF RequestShape
    <2>3. t \in 0 .. Horizon /\ t <= r.start
      <3>1. \A x \in Others(slots, r.channel, Null) : x.stop \in 0 .. Horizon /\ x.start \in Int
        BY EditorAssumption, SlotFields DEF Others, OnScreen, TypeOK, Times
      <3>2. r.start \in 0 .. Horizon /\ Horizon \in Nat /\ 0 \in Int
        BY <2>2, EditorAssumption DEF Times
      <3> HIDE DEF t
      <3>3. t \in 0 .. Horizon /\ t <= r.start
        BY <3>1, <3>2, SnapStartKeepsFree DEF t
      <3> QED BY <3>3
    <2>4. a.start \in Times /\ a.stop \in Times
      BY <2>2, <2>3, EditorAssumption DEF Created, Times, Durations
    <2>5. a \in Slot /\ a.status = "DRAFT"
      BY <2>2, <2>4 DEF Created, Slot, Statuses
    <2> HIDE DEF a
    <2> QED BY <2>1, <2>5 DEF Book, Next
  <1>4. CASE r.op \in {"move", "resize", "save", "snap", "follow"}
    <2> DEFINE a == Updated(r, slots[s])
    <2>1. /\ IsLive(s) /\ Bookable(s, a) /\ Result(r, s) = a
          /\ r.status = "PUBLISHED" => slots[s].status = "PUBLISHED"
      BY <1>4 DEF Grants, Result
    <2>2. slots[s] \in Slot
      BY <2>1 DEF IsLive, TypeOK
    <2>3. /\ r.stop \in Times /\ r.duration \in Nat /\ r.duration # Null
          /\ r.channel \in Channels \cup {Null} /\ r.start \in Times \cup {Null}
          /\ r.status \in Statuses \cup {Null}
      BY <1>1, <1>4, RequestFields, EditorAssumption DEF RequestShape
    <2>4. /\ a.channel \in Channels /\ a.start \in Times /\ a.stop \in Times
          /\ a.duration \in Nat /\ a.status \in Statuses
          /\ a.status = "PUBLISHED" => slots[s].status = "PUBLISHED"
      BY <2>1, <2>2, <2>3, SlotFields DEF Updated, OrElse
    <2>5. a.duration \in Durations
      BY <2>1, <2>4, EditorAssumption DEF Bookable, WellFormed, ValidDuration,
                     DurationMatchesRange, Durations, Times
    <2>6. a \in Slot
      BY <2>4, <2>5 DEF Updated, Slot
    <2> HIDE DEF a
    <2> QED BY <2>1, <2>4, <2>6 DEF Edit, Next
  <1>5. CASE r.op = "publish"
    <2>1. /\ IsLive(s) /\ Result(r, s) = [slots[s] EXCEPT !.status = "PUBLISHED"]
          /\ Bookable(s, Result(r, s))
      BY <1>5 DEF Grants, Result
    <2>2. slots[s] \in Slot
      BY <2>1 DEF IsLive, TypeOK
    <2>3. Bookable(s, slots[s])
      BY <2>1, <2>2 DEF Slot, Bookable, WellFormed, ValidRange, ValidDuration,
                        DurationMatchesRange, Overlaps
    <2>4. slots' = [slots EXCEPT ![s].status = "PUBLISHED"]
      BY <2>1
    <2> QED BY <2>1, <2>3, <2>4 DEF Publish, Next
  <1>6. CASE r.op = "delete"
    <2>1. slots[s] # Null /\ Result(r, s) = [slots[s] EXCEPT !.status = "CANCELLED"]
      BY <1>6 DEF Grants, Result
    <2> QED BY <2>1 DEF Cancel, Next
  <1> QED BY <1>2, <1>3, <1>4, <1>5, <1>6

-----------------------------------------------------------------------------
(* What the gestures send. *)

EditorInv ==
    /\ EditorTypeOK
    /\ RowsFit(slots) /\ LiveFree
    /\ RowsFit(view)
    /\ grip # Null => RowsFit(grip.rows) /\ grip.rows[grip.id] # Null
    /\ \A c \in Calls : request[c] # Null => RequestShape(request[c])

LEMMA OthersAreSlots ==
    ASSUME NEW rows \in Rows, RowsFit(rows), NEW c, NEW s
    PROVE  /\ InTimes(Others(rows, c, s))
           /\ \A a \in Others(rows, c, s) :
                a \in Slot /\ a.start \in Int /\ a.stop \in Int /\ a.start < a.stop
  <1>1. ASSUME NEW a \in Others(rows, c, s)
        PROVE  a \in Slot /\ WellFormed(a)
    BY DEF Others, OnScreen, Rows, RowsFit
  <1>2. ASSUME NEW a \in Others(rows, c, s)
        PROVE  /\ a \in Slot /\ a.start \in Times /\ a.stop \in Times
               /\ a.start \in Int /\ a.stop \in Int /\ a.start < a.stop
    BY <1>1, SlotFields, EditorAssumption DEF WellFormed, ValidRange, Times
  <1> QED BY <1>2 DEF InTimes

\* The arguments that the gestures give to PlaceBody.
PlaceFits(op, s, ch, a, status, snapped, from) ==
    /\ op \in {"create", "move", "save", "snap", "follow"}
    /\ s \in ScheduleIds \cup {Null} /\ ch \in Channels \cup {Null}
    /\ a.start \in Times /\ a.stop \in Times /\ a.duration \in Nat
    /\ status \in Statuses \cup {Null}
    /\ snapped \in BOOLEAN /\ from \in Int \cup {Null}
    /\ op = "create" => ch # Null /\ a.duration \in Durations /\ a.stop = a.start + a.duration
    /\ op # "create" => s # Null
    /\ op = "move" => ch # Null
    /\ op \in {"save", "snap"} => status # Null
    /\ op \in {"create", "move"} /\ ~snapped => a.start = from /\ a.start % Grid = 0

LEMMA PlaceShape ==
    ASSUME NEW op, NEW s, NEW ch, NEW a, NEW status, NEW snapped, NEW from,
           PlaceFits(op, s, ch, a, status, snapped, from)
    PROVE  /\ RequestShape(PlaceBody(op, s, ch, a, status, snapped, from))
           /\ PlaceBody(op, s, ch, a, status, snapped, from).op = op
           /\ PlaceBody(op, s, ch, a, status, snapped, from).sure = UpToDate(view)
  <1> DEFINE r == PlaceBody(op, s, ch, a, status, snapped, from)
  <1>1. /\ r.op = op /\ r.id = s /\ r.channel = ch /\ r.start = a.start /\ r.stop = a.stop
        /\ r.duration = a.duration /\ r.status = status /\ r.snapped = snapped /\ r.from = from
        /\ r.sure = UpToDate(view)
    BY DEF PlaceBody
  <1>2. UpToDate(view) \in BOOLEAN
    BY DEF UpToDate
  <1>3. r \in Request
    BY <1>2, SMTT(30) DEF PlaceBody, Request, PlaceFits
  <1> HIDE DEF r
  <1>4. RequestShape(r)
    BY <1>1, <1>3 DEF RequestShape, PlaceFits
  <1> QED BY <1>1, <1>4 DEF r

LEMMA ViewRow ==
    ASSUME EditorInv, NEW s \in ScheduleIds, view[s] # Null
    PROVE  /\ view[s] \in Slot /\ view[s].start \in Times /\ view[s].stop \in Times
           /\ view[s].duration \in Durations /\ view[s].channel \in Channels
           /\ view[s].duration = view[s].stop - view[s].start
  <1>1. view[s] \in Slot /\ WellFormed(view[s])
    BY DEF EditorInv, EditorTypeOK, Rows, RowsFit
  <1> QED BY <1>1, SlotFields DEF WellFormed, DurationMatchesRange

DropBody(op, s, ch, t, d, status) ==
    LET others == Others(view, ch, s)
        place  == DropPlace(others, t, d)
    IN PlaceBody(op, s, ch, Lasting(place.start, d), status, place.snapped,
                 ScheduleSnap(others, t, d).start)

LEMMA DropShape ==
    ASSUME EditorInv, NEW op \in {"create", "move"}, NEW s \in ScheduleIds \cup {Null},
           op = "move" => s # Null,
           NEW ch \in Channels, NEW t \in Int, NEW d \in Durations,
           NEW status \in Statuses \cup {Null},
           WithinHorizon(Lasting(DropPlace(Others(view, ch, s), t, d).start, d)),
           FreeToDrop(Others(view, ch, s), Lasting(DropPlace(Others(view, ch, s), t, d).start, d))
    PROVE  RequestShape(DropBody(op, s, ch, t, d, status))
  <1> DEFINE others == Others(view, ch, s)
             ghost == ScheduleSnap(others, t, d).start
             place == DropPlace(others, t, d)
             slot == Lasting(place.start, d)
  <1>1. InTimes(others) /\ \A a \in others : a.start < a.stop
    BY OthersAreSlots DEF EditorInv, EditorTypeOK
  <1>2. d \in Nat /\ d \in Int
    BY EditorAssumption DEF Durations
  <1>3. ghost \in Int
    BY <1>1, <1>2, SnapCases
  <1>4. place.snapped \in BOOLEAN /\ place.start \in Int
    BY <1>1, <1>2, <1>3, SnapCases DEF DropPlace
  <1>5. ~place.snapped => place.start = ghost /\ place.start % Grid = 0
    BY <1>1, <1>2, DropStaysWithGhost DEF FreeToDrop
  <1>6. /\ slot.start = place.start /\ slot.stop = place.start + d /\ slot.duration = d
        /\ slot.start \in Times /\ slot.stop \in Times
        /\ slot.duration \in Durations /\ slot.stop = slot.start + slot.duration
    BY DEF Lasting, WithinHorizon
  <1>7. ch # Null /\ Null \notin Int
    BY EditorAssumption
  <1> HIDE DEF others, ghost, place, slot
  <1>8. RequestShape(PlaceBody(op, s, ch, slot, status, place.snapped, ghost))
    <2>1. op \in {"create", "move", "save", "snap", "follow"} /\ op \notin {"save", "snap"}
      OBVIOUS
    <2>2. op # "create" => s # Null
      OBVIOUS
    <2>3. ~place.snapped => slot.start = ghost /\ slot.start % Grid = 0
      BY <1>5, <1>6
    <2>4. slot.duration \in Nat /\ ghost \in Int \cup {Null} /\ ch \in Channels \cup {Null}
      BY <1>2, <1>3, <1>6
    <2>5. PlaceFits(op, s, ch, slot, status, place.snapped, ghost)
      BY <1>4, <1>6, <1>7, <2>1, <2>2, <2>3, <2>4 DEF PlaceFits
    <2> QED BY <2>5, PlaceShape
  <1> QED BY <1>8 DEF DropBody, others, ghost, place, slot

\* An edge snap keeps duration and stop together, but for a stop that snapped
\* to before the start.
LEMMA StopSnapShape ==
    ASSUME NEW others, NEW start, NEW d \in Nat, WithinHorizon(StopSnap(others, start, d))
    PROVE  LET slot == StopSnap(others, start, d)
           IN /\ slot.start = start /\ slot.start \in Times /\ slot.stop \in Times
              /\ slot.duration \in Nat
              /\ slot.duration = slot.stop - slot.start \/ slot.duration = 0
  <1> DEFINE slot == StopSnap(others, start, d)
             edges == {e \in {a.start : a \in others} : Within(e, start + d)}
  <1>1. /\ slot.start = start
        /\ slot.stop = IF edges = {} THEN start + d ELSE Nearest(edges, start + d)
        /\ slot.duration = IF edges = {} THEN d ELSE Length(start, slot.stop)
    BY DEF StopSnap
  <1>2. /\ slot.start \in Times /\ slot.stop \in Times
        /\ slot.start \in Int /\ slot.stop \in Int
    BY EditorAssumption DEF WithinHorizon, Times
  <1> HIDE DEF slot, edges
  <1>3. slot.duration \in Nat /\ (slot.duration = slot.stop - slot.start \/ slot.duration = 0)
    <2>1. CASE edges = {}
      BY <1>1, <1>2, <2>1
    <2>2. CASE edges # {}
      BY <1>1, <1>2, <2>2 DEF Length
    <2> QED BY <2>1, <2>2
  <1> QED BY <1>1, <1>2, <1>3 DEF slot

LEMMA GridDurationIsNat ==
    ASSUME NEW d \in Nat
    PROVE  GridDuration(d) \in Nat
  <1>1. OnGrid(d) \in Int /\ Grid \in Nat
    BY OnGridIsNear
  <1> QED BY <1>1 DEF GridDuration

Sends(c) == \E r : RequestShape(r) /\ Send(c, r)

LEMMA DropAssetSends ==
    ASSUME EditorInv, NEW c \in Calls, DropAsset(c)
    PROVE  Sends(c)
  <1>1. PICK ch \in Channels, at \in Drops, d \in Assets :
           LET others == Others(view, ch, Null)
               place  == DropPlace(others, at, d)
               slot   == Lasting(place.start, d)
           IN /\ WithinHorizon(slot)
              /\ FreeToDrop(others, slot)
              /\ Send(c, DropBody("create", Null, ch, at, d, "DRAFT"))
    BY DEF DropAsset, DropBody
  <1>2. at \in Int /\ d \in Durations /\ "DRAFT" \in Statuses
    BY EditorAssumption DEF Times, Statuses
  <1>3. RequestShape(DropBody("create", Null, ch, at, d, "DRAFT"))
    BY <1>1, <1>2, DropShape
  <1> QED BY <1>1, <1>3 DEF Sends

LEMMA MoveSends ==
    ASSUME EditorInv, NEW c \in Calls, Move(c)
    PROVE  Sends(c)
  <1>1. PICK s \in ScheduleIds, ch \in Shown, at \in Drops :
           LET d      == view[s].duration
               others == Others(view, ch, s)
               place  == DropPlace(others, at, d)
               slot   == Lasting(place.start, d)
           IN /\ OnScreen(view, s)
              /\ WithinHorizon(slot)
              /\ FreeToDrop(others, slot)
              /\ Send(c, DropBody("move", s, ch, at, d, Null))
    BY DEF Move, DropBody
  <1>2. view[s].duration \in Durations
    BY <1>1, ViewRow DEF OnScreen
  <1>3. at \in Int /\ ch \in Channels /\ s # Null
    BY EditorAssumption DEF Times
  <1>4. RequestShape(DropBody("move", s, ch, at, view[s].duration, Null))
    BY <1>1, <1>2, <1>3, DropShape
  <1> QED BY <1>1, <1>4 DEF Sends

LEMMA PointerUpSends ==
    ASSUME EditorInv, NEW c \in Calls, PointerUp(c)
    PROVE  Sends(c) \/ UNCHANGED request
  <1> DEFINE row == grip.rows[grip.id]
             others == Others(grip.rows, row.channel, grip.id)
  <1>1. PICK d \in Widths :
           LET slot == ResizeSnap(others, row.start, d)
           IN /\ WithinHorizon(slot)
              /\ \/ UNCHANGED request
                 \/ Send(c, ResizeBody(grip.id, slot, grip.rows))
    BY DEF PointerUp
  <1>2. grip \in Grip /\ row \in Slot
    BY DEF PointerUp, EditorInv, EditorTypeOK, Grip, Rows
  <1>3. grip.id \in ScheduleIds /\ row.start \in Times
    BY <1>2, SlotFields DEF Grip
  <1>4. GridDuration(d) \in Nat
    BY GridDurationIsNat, EditorAssumption
  <1> DEFINE slot == ResizeSnap(others, row.start, d)
             r == ResizeBody(grip.id, slot, grip.rows)
  <1>5. /\ slot.start = row.start /\ slot.stop \in Times /\ slot.duration \in Nat
        /\ slot.duration = slot.stop - slot.start \/ slot.duration = 0
    BY <1>1, <1>4, StopSnapShape DEF ResizeSnap
  <1>6. /\ r.op = "resize" /\ r.id = grip.id /\ r.channel = Null /\ r.start = Null
        /\ r.stop = slot.stop /\ r.duration = slot.duration /\ r.status = Null
        /\ r.snapped = FALSE /\ r.from = row.start /\ r.sure = UpToDate(grip.rows)
    BY DEF ResizeBody
  <1>7. r \in Request
    <2>1. UpToDate(grip.rows) \in BOOLEAN
      BY DEF UpToDate
    <2>2. row.start \in Int
      BY <1>3, EditorAssumption DEF Times
    <2> HIDE DEF slot, row
    <2>3. grip.rows[grip.id].start \in Int
      BY <2>2 DEF row
    <2> QED BY <1>3, <1>5, <2>1, <2>3, SMTT(30) DEF ResizeBody, Request
  <1> HIDE DEF r, slot
  <1>8. RequestShape(r)
    BY <1>3, <1>5, <1>6, <1>7 DEF RequestShape
  <1> QED BY <1>1, <1>8 DEF Sends, r, slot

LEMMA SaveShape ==
    ASSUME NEW s \in ScheduleIds, NEW ch, NEW a, NEW status \in Statuses,
           a.start \in Times, a.stop \in Times, a.duration \in Nat
    PROVE  RequestShape(SaveBody(s, ch, a, status))
  <1> DEFINE q == PlaceBody("save", s, Null, a, status, FALSE, Null)
             b == q.sure /\ view[s] # Null /\ view[s].channel = ch
  <1>1. status # Null /\ s # Null
    BY EditorAssumption
  <1>2. PlaceFits("save", s, Null, a, status, FALSE, Null)
    BY <1>1 DEF PlaceFits
  <1>3. RequestShape(q)
    BY <1>2, PlaceShape
  <1>4. b \in BOOLEAN
    OBVIOUS
  <1>5. SaveBody(s, ch, a, status) = [q EXCEPT !.sure = b]
    BY DEF SaveBody
  <1> HIDE DEF q, b
  <1> QED BY <1>3, <1>4, <1>5, ShapeWithoutSure

LEMMA SaveSends ==
    ASSUME EditorInv, NEW c \in Calls, Save(c)
    PROVE  Sends(c) \/ UNCHANGED request
  <1>1. PICK s \in ScheduleIds, ch \in Shown, f \in Forms :
           LET slot == EdgeSnap(Others(view, ch, s), f.start, f.duration)
           IN /\ WithinHorizon(slot)
              /\ UNCHANGED request \/ Send(c, SaveBody(s, ch, slot, f.status))
    BY DEF Save
  <1> DEFINE slot == EdgeSnap(Others(view, ch, s), f.start, f.duration)
  <1>2. f.duration \in Nat /\ f.status \in Statuses
    BY EditorAssumption DEF Form, Durations
  <1>3. slot.start \in Times /\ slot.stop \in Times /\ slot.duration \in Nat
    BY <1>1, <1>2, StopSnapShape DEF EdgeSnap
  <1> HIDE DEF slot
  <1>4. RequestShape(SaveBody(s, ch, slot, f.status))
    BY <1>2, <1>3, SaveShape
  <1> QED BY <1>1, <1>4 DEF Sends, slot

LEMMA SaveAtHintSends ==
    ASSUME EditorInv, NEW c \in Calls, SaveAtHint(c)
    PROVE  Sends(c)
  <1>1. PICK f \in Forms :
           LET slot == Lasting(hint.start, f.duration)
           IN /\ WithinHorizon(slot)
              /\ Send(c, PlaceBody("snap", hint.id, Null, slot, f.status, FALSE, Null))
    BY DEF SaveAtHint
  <1> DEFINE slot == Lasting(hint.start, f.duration)
  <1>2. f.duration \in Nat /\ f.status \in Statuses /\ f.status # Null
    BY EditorAssumption DEF Form, Durations
  <1>3. hint.id \in ScheduleIds /\ hint.id # Null
    BY EditorAssumption DEF SaveAtHint, EditorInv, EditorTypeOK, Hint
  <1>4. slot.start \in Times /\ slot.stop \in Times /\ slot.duration \in Nat
    BY <1>1, <1>2 DEF Lasting, WithinHorizon
  <1> HIDE DEF slot
  <1>5. PlaceFits("snap", hint.id, Null, slot, f.status, FALSE, Null)
    BY <1>2, <1>3, <1>4 DEF PlaceFits
  <1> QED BY <1>1, <1>5, PlaceShape DEF Sends, slot

\* What ended before a row begins ends where the row can go, and the row moved
\* there stays within the day.
LEMMA FollowPlace ==
    ASSUME EditorInv, NEW s \in ScheduleIds, view[s] # Null,
           EndedBy(Others(view, view[s].channel, s), view[s].start) # {}
    PROVE  LET E == EndedBy(Others(view, view[s].channel, s), view[s].start)
               before == {a.stop : a \in E}
               slot == Lasting(Latest(before), view[s].duration)
           IN /\ Latest(before) \in before /\ \A u \in before : u <= Latest(before)
              /\ Latest(before) <= view[s].start
              /\ slot.start \in Times /\ slot.stop \in Times /\ slot.duration \in Nat
  <1> DEFINE E == EndedBy(Others(view, view[s].channel, s), view[s].start)
             before == {a.stop : a \in E}
             slot == Lasting(Latest(before), view[s].duration)
  <1>1. \A a \in E : a.stop \in Times /\ a.stop <= view[s].start
    BY OthersAreSlots DEF EditorInv, EditorTypeOK, EndedBy, InTimes
  <1>2. before \subseteq 0 .. Horizon /\ before # {}
    BY <1>1 DEF Times
  <1>3. Latest(before) \in before /\ \A u \in before : u <= Latest(before)
    BY <1>2, LatestIsMaximum, EditorAssumption
  <1>4. Latest(before) \in Times /\ Latest(before) <= view[s].start
    BY <1>1, <1>3
  <1>5. slot.start \in Times /\ slot.stop \in Times /\ slot.duration \in Nat
    BY <1>4, ViewRow, EditorAssumption DEF Lasting, Times, Durations
  <1> QED BY <1>3, <1>4, <1>5

LEMMA FollowSends ==
    ASSUME EditorInv, NEW c \in Calls, Follow(c)
    PROVE  Sends(c)
  <1>1. PICK s \in ScheduleIds :
           LET before == {a.stop : a \in EndedBy(Others(view, view[s].channel, s), view[s].start)}
               slot   == Lasting(Latest(before), view[s].duration)
           IN /\ view[s] # Null
              /\ before # {}
              /\ Send(c, PlaceBody("follow", s, Null, slot, Null, FALSE, Null))
    BY DEF Follow
  <1> DEFINE before == {a.stop : a \in EndedBy(Others(view, view[s].channel, s), view[s].start)}
             slot == Lasting(Latest(before), view[s].duration)
  <1>2. slot.start \in Times /\ slot.stop \in Times /\ slot.duration \in Nat
    BY <1>1, FollowPlace
  <1>3. s # Null
    BY EditorAssumption
  <1> HIDE DEF slot, before
  <1>4. PlaceFits("follow", s, Null, slot, Null, FALSE, Null)
    BY <1>2, <1>3 DEF PlaceFits
  <1> QED BY <1>1, <1>4, PlaceShape DEF Sends, slot, before

LEMMA PlainShape ==
    ASSUME NEW s \in ScheduleIds, NEW op \in {"publish", "delete"}
    PROVE  RequestShape(PlainBody(op, s))
  <1> DEFINE r == PlainBody(op, s)
  <1>1. r.op = op /\ r.id = s
    BY DEF PlainBody
  <1>2. r \in Request
    <2>1. UpToDate(view) \in BOOLEAN
      BY DEF UpToDate
    <2> QED BY <2>1, SMTT(30) DEF PlainBody, Request
  <1> HIDE DEF r
  <1>3. RequestShape(r)
    BY <1>1, <1>2 DEF RequestShape
  <1> QED BY <1>3 DEF r

LEMMA PublishOrRemoveSends ==
    ASSUME EditorInv, NEW c \in Calls, PublishOrRemove(c)
    PROVE  Sends(c)
  BY PlainShape DEF PublishOrRemove, Sends

LEMMA GestureSends ==
    ASSUME EditorInv, NEW c \in Calls, Gesture(c)
    PROVE  Sends(c) \/ UNCHANGED request
  BY DropAssetSends, MoveSends, PointerUpSends, SaveSends, SaveAtHintSends, FollowSends,
     PublishOrRemoveSends DEF Gesture

-----------------------------------------------------------------------------
(* The step. *)

\* Gestures touch neither the table nor the rows nor the loop.
LEMMA GestureFrame ==
    ASSUME NEW c \in Calls, Gesture(c)
    PROVE  UNCHANGED <<slots, view, due, batch, unseen>>
  BY DEF Gesture, DropAsset, Move, PointerUp, Save, SaveAtHint, Follow, PublishOrRemove

\* Whatever happens in the tab or elsewhere is a step that Timeline allows.
LEMMA StepIsTimelineStep ==
    ASSUME EditorInv, [EditorNext]_editorVars
    PROVE  [Next]_slots
  <1>1. CASE UNCHANGED editorVars
    BY <1>1 DEF editorVars
  <1>2. ASSUME NEW c \in Calls, Gesture(c) PROVE [Next]_slots
    BY <1>2, GestureFrame
  <1>3. ASSUME NEW c \in Calls, Granted(c) \/ GrantedUnheard(c) PROVE [Next]_slots
    <2>1. PICK s \in ScheduleIds : Grants(request[c], s) /\ Write(s, Result(request[c], s))
      BY <1>3 DEF Granted, GrantedUnheard
    <2>2. RequestShape(request[c])
      BY <1>3 DEF Granted, GrantedUnheard, EditorInv
    <2> QED BY <2>1, <2>2, GrantIsTimelineStep DEF Write, EditorInv, EditorTypeOK
  <1>4. ASSUME NEW s \in ScheduleIds, BatchPublishes(s) \/ BatchUnheard(s) PROVE [Next]_slots
    <2>1. Grants(PlainBody("publish", s), s) /\ Write(s, Result(PlainBody("publish", s), s))
      BY <1>4 DEF BatchPublishes, BatchUnheard
    <2>2. RequestShape(PlainBody("publish", s))
      BY PlainShape
    <2> QED BY <2>1, <2>2, GrantIsTimelineStep DEF Write, EditorInv, EditorTypeOK
  <1>5. ASSUME OthersWrite PROVE [Next]_slots
    <2>1. PICK s \in ScheduleIds : OthersPlace(s) \/ Publish(s) \/ Cancel(s)
      BY <1>5 DEF OthersWrite
    <2>2. CASE OthersPlace(s)
      <3>1. PICK a \in Offers :
               /\ \/ slots[s] = Null /\ a.status = "DRAFT"
                  \/ IsLive(s) /\ a.status = slots[s].status
               /\ Bookable(s, a)
               /\ slots' = [slots EXCEPT ![s] = a]
        BY <2>2 DEF OthersPlace, Write
      <3>2. a \in Slot
        BY EditorAssumption
      <3> QED BY <3>1, <3>2 DEF Book, Edit, Next
    <2> QED BY <2>1, <2>2 DEF Next
  <1>6. ASSUME \/ \E c \in Calls : Failed(c)
               \/ \E s \in ScheduleIds : PointerDown(s) \/ BatchFails(s)
               \/ ForgetHint \/ PublishChannel \/ BatchEnds \/ Fetch
        PROVE  [Next]_slots
    BY <1>6 DEF Failed, PointerDown, BatchFails, ForgetHint, PublishChannel, BatchEnds, Fetch
  <1> QED BY <1>1, <1>2, <1>3, <1>4, <1>5, <1>6 DEF EditorNext

LEMMA StepKeepsView ==
    ASSUME EditorInv, [EditorNext]_editorVars
    PROVE  view' \in Rows /\ RowsFit(view)'
  <1>1. CASE UNCHANGED view
    BY <1>1 DEF EditorInv, EditorTypeOK, RowsFit
  <1>2. CASE Fetch
    <2>1. PICK page \in SUBSET ScheduleIds : Page(page) /\ view' = RowsOf(page)
      BY <1>2 DEF Fetch
    <2>2. \A s \in page : slots[s] \in Slot
      BY <2>1 DEF Page, Listed, EditorInv, EditorTypeOK, TypeOK
    <2> QED BY <2>1, <2>2 DEF RowsOf, Rows, RowsFit, EditorInv
  <1>3. \/ UNCHANGED view \/ Fetch
    BY GestureFrame DEF EditorNext, Granted, GrantedUnheard, Failed, PointerDown, BatchPublishes,
       BatchFails, BatchUnheard, ForgetHint, PublishChannel, BatchEnds, OthersWrite, editorVars, editor
  <1> QED BY <1>1, <1>2, <1>3

Calling == request \in [Calls -> Request \cup {Null}]
Shaped == \A c \in Calls : request[c] # Null => RequestShape(request[c])

LEMMA StepKeepsRequests ==
    ASSUME EditorInv, [EditorNext]_editorVars
    PROVE  Calling' /\ Shaped'
  <1>1. Calling /\ Shaped
    BY DEF EditorInv, EditorTypeOK, Calling, Shaped
  <1>2. CASE UNCHANGED request
    BY <1>1, <1>2 DEF Calling, Shaped
  <1>3. ASSUME NEW c \in Calls, Sends(c) PROVE Calling' /\ Shaped'
    <2>1. PICK r : RequestShape(r) /\ request' = [request EXCEPT ![c] = r]
      BY <1>3 DEF Sends, Send
    <2>2. r \in Request
      BY <2>1 DEF RequestShape
    <2> QED BY <1>1, <2>1, <2>2 DEF Calling, Shaped
  <1>4. ASSUME NEW c \in Calls, request' = [request EXCEPT ![c] = Null]
        PROVE Calling' /\ Shaped'
    BY <1>1, <1>4 DEF Calling, Shaped
  <1>5. ASSUME NEW f \in [Calls -> Request \cup {Null}],
               \A c \in Calls : f[c] # Null => RequestShape(f[c]),
               request' = Unsure(f)
        PROVE  Calling' /\ Shaped'
    <2>1. \A c \in Calls : Unsure(f)[c] # Null => RequestShape(Unsure(f)[c])
      BY <1>5, UnsureShape
    <2>2. \A c \in Calls : Unsure(f)[c] \in Request \cup {Null}
      BY <2>1 DEF RequestShape
    <2>3. Unsure(f) = [c \in Calls |-> Unsure(f)[c]]
      BY DEF Unsure
    <2> HIDE DEF Unsure
    <2>4. Unsure(f) \in [Calls -> Request \cup {Null}]
      BY <2>2, <2>3
    <2> QED BY <1>5, <2>1, <2>4 DEF Calling, Shaped
  <1>6. ASSUME NEW c \in Calls, request' = Unsure([request EXCEPT ![c] = Null])
        PROVE  Calling' /\ Shaped'
    <2> DEFINE f == [request EXCEPT ![c] = Null]
    <2>1. f \in [Calls -> Request \cup {Null}]
      BY <1>1 DEF Calling
    <2>2. \A k \in Calls : f[k] # Null => RequestShape(f[k])
      BY <1>1 DEF Calling, Shaped
    <2> HIDE DEF f
    <2> QED BY <1>5, <1>6, <2>1, <2>2 DEF f
  <1>7. CASE request' = Unsure(request)
    BY <1>1, <1>5, <1>7 DEF Calling, Shaped
  <1>8. \/ UNCHANGED request
        \/ \E c \in Calls : \/ Sends(c)
                            \/ request' = [request EXCEPT ![c] = Null]
                            \/ request' = Unsure([request EXCEPT ![c] = Null])
        \/ request' = Unsure(request)
    BY GestureSends DEF EditorNext, Granted, GrantedUnheard, Failed, PointerDown, BatchPublishes,
       BatchFails, BatchUnheard, ForgetHint, PublishChannel, BatchEnds, Fetch, OthersWrite,
       editorVars, editor
  <1> QED BY <1>2, <1>3, <1>4, <1>6, <1>7, <1>8

\* The loop stays a loop until it ends.
LEMMA LoopGoesOn ==
    ASSUME EditorInv,
           NEW s \in ScheduleIds, BatchPublishes(s) \/ BatchFails(s) \/ BatchUnheard(s)
    PROVE  batch' \in Batch /\ batch' # Null
  <1>1. batch \in Batch
    BY DEF EditorInv, EditorTypeOK, BatchPublishes, BatchFails, BatchUnheard
  <1>2. /\ batch = [left |-> batch.left, published |-> batch.published,
                   failed |-> batch.failed, sure |-> batch.sure]
        /\ batch.left \in SUBSET ScheduleIds
        /\ batch.published \in Nat /\ batch.failed \in Nat /\ batch.sure \in BOOLEAN
    BY <1>1 DEF Batch
  <1>3. batch' \in Batch
    <2>1. CASE BatchPublishes(s)
      <3>1. batch' = [left |-> batch.left \ {s}, published |-> batch.published + 1,
                      failed |-> batch.failed, sure |-> batch.sure]
        BY <1>1, <2>1 DEF BatchPublishes, Batch
      <3> QED BY <1>2, <3>1 DEF Batch
    <2>2. CASE BatchFails(s)
      <3>1. batch' = [left |-> batch.left \ {s}, published |-> batch.published,
                      failed |-> batch.failed + 1, sure |-> batch.sure]
        BY <1>1, <2>2 DEF BatchFails, Batch
      <3> QED BY <1>2, <3>1 DEF Batch
    <2>3. CASE BatchUnheard(s)
      <3>1. batch' = [left |-> batch.left \ {s}, published |-> batch.published,
                      failed |-> batch.failed + 1, sure |-> FALSE]
        BY <1>1, <2>3 DEF BatchUnheard, Batch
      <3> QED BY <1>2, <3>1 DEF Batch
    <2> QED BY <2>1, <2>2, <2>3
  <1> QED BY <1>3, EditorAssumption

LEMMA StepKeepsBatch ==
    ASSUME EditorInv, [EditorNext]_editorVars
    PROVE  batch' \in Batch \cup {Null}
  <1>1. batch \in Batch \cup {Null}
    BY DEF EditorInv, EditorTypeOK
  <1>2. CASE batch' \in {batch, Null}
    BY <1>1, <1>2
  <1>3. CASE batch' = UnsureBatch
    BY <1>1, <1>3 DEF UnsureBatch, Batch
  <1>4. CASE PublishChannel
    <2>1. PICK ch \in Channels :
             batch' = [left |-> Publishable(ch), published |-> 0, failed |-> 0,
                       sure |-> UpToDate(view)]
      BY <1>4 DEF PublishChannel
    <2>2. Publishable(ch) \in SUBSET ScheduleIds
      BY DEF Publishable
    <2>3. UpToDate(view) \in BOOLEAN
      BY DEF UpToDate
    <2> QED BY <2>1, <2>2, <2>3 DEF Batch
  <1>5. ASSUME NEW s \in ScheduleIds, BatchPublishes(s) \/ BatchFails(s) \/ BatchUnheard(s)
        PROVE  batch' \in Batch \cup {Null}
    BY <1>5, LoopGoesOn
  <1>8. \/ batch' \in {batch, Null} \/ batch' = UnsureBatch \/ PublishChannel
        \/ \E s \in ScheduleIds : BatchPublishes(s) \/ BatchFails(s) \/ BatchUnheard(s)
    BY GestureFrame DEF EditorNext, Granted, GrantedUnheard, Failed, PointerDown, ForgetHint,
       BatchEnds, Fetch, OthersWrite, editorVars, editor
  <1> QED BY <1>2, <1>3, <1>4, <1>5, <1>8

LEMMA StepKeepsGrip ==
    ASSUME EditorInv, [EditorNext]_editorVars
    PROVE  /\ grip' \in Grip \cup {Null}
           /\ grip' # Null => RowsFit(grip'.rows) /\ grip'.rows[grip'.id] # Null
  <1>1. /\ grip \in Grip \cup {Null}
        /\ grip # Null => RowsFit(grip.rows) /\ grip.rows[grip.id] # Null
    BY DEF EditorInv, EditorTypeOK
  <1>2. CASE grip' \in {grip, Null}
    BY <1>1, <1>2
  <1>3. ASSUME NEW s \in ScheduleIds, PointerDown(s)
        PROVE  /\ grip' \in Grip \cup {Null}
               /\ RowsFit(grip'.rows) /\ grip'.rows[grip'.id] # Null
    BY <1>3 DEF PointerDown, Grip, EditorInv, EditorTypeOK, OnScreen
  <1>4. grip' \in {grip, Null} \/ \E s \in ScheduleIds : PointerDown(s)
    BY DEF EditorNext, Gesture, DropAsset, Move, PointerUp, Save, SaveAtHint, Follow,
       PublishOrRemove, Granted, GrantedUnheard, Failed, BatchPublishes, BatchFails,
       BatchUnheard, ForgetHint, PublishChannel, BatchEnds, Fetch, OthersWrite, editorVars, editor
  <1> QED BY <1>2, <1>3, <1>4

LEMMA StepKeepsHint ==
    ASSUME EditorInv, [EditorNext]_editorVars
    PROVE  hint' \in Hint \cup {Null}
  <1>1. hint \in Hint \cup {Null}
    BY DEF EditorInv, EditorTypeOK
  <1>2. CASE hint' \in {hint, Null}
    BY <1>1, <1>2
  <1>3. ASSUME NEW c \in Calls, Save(c) PROVE hint' \in Hint \cup {Null}
    <2>1. PICK s \in ScheduleIds, ch \in Shown, f \in Forms :
             LET slot == EdgeSnap(Others(view, ch, s), f.start, f.duration)
                 before == {a.stop : a \in EndedBy(Others(view, ch, s), slot.start)}
             IN \/ hint' = Null
                \/ before # {} /\ hint' = [id |-> s, start |-> Latest(before)]
      BY <1>3 DEF Save
    <2> DEFINE slot == EdgeSnap(Others(view, ch, s), f.start, f.duration)
               before == {a.stop : a \in EndedBy(Others(view, ch, s), slot.start)}
    <2>2. before \subseteq 0 .. Horizon
      BY OthersAreSlots DEF EndedBy, EditorInv, EditorTypeOK, InTimes, Times
    <2>3. before # {} => Latest(before) \in Times
      BY <2>2, LatestIsMaximum, EditorAssumption DEF Times
    <2> QED BY <2>1, <2>3 DEF Hint
  <1>4. hint' \in {hint, Null} \/ \E c \in Calls : Save(c)
    BY DEF EditorNext, Gesture, DropAsset, Move, PointerUp, SaveAtHint, Follow, PublishOrRemove,
       PointerDown, Granted, GrantedUnheard, Failed, BatchPublishes, BatchFails, BatchUnheard,
       ForgetHint, PublishChannel, BatchEnds, Fetch, OthersWrite, editorVars, editor
  <1> QED BY <1>2, <1>3, <1>4

LEMMA StepKeepsCounts ==
    ASSUME EditorInv, [EditorNext]_editorVars
    PROVE  due' \in BOOLEAN /\ unseen' \in Nat
  <1>1. due \in BOOLEAN /\ unseen \in Nat
    BY DEF EditorInv, EditorTypeOK
  <1>2. due' \in {due, TRUE, FALSE}
    BY GestureFrame DEF EditorNext, PointerDown, Granted, GrantedUnheard, Failed, BatchPublishes,
       BatchFails, BatchUnheard, ForgetHint, PublishChannel, BatchEnds, Fetch, OthersWrite,
       DueAfter, editorVars, editor
  <1>3. unseen' = unseen \/ unseen' = unseen + 1 \/ unseen' = 0
    BY GestureFrame DEF EditorNext, PointerDown, Granted, GrantedUnheard, Failed, BatchPublishes,
       BatchFails, BatchUnheard, ForgetHint, PublishChannel, BatchEnds, Fetch, OthersWrite,
       editorVars, editor
  <1>4. due' \in BOOLEAN
    BY <1>1, <1>2
  <1>5. unseen' \in Nat
    BY <1>1, <1>3
  <1> QED BY <1>4, <1>5

LEMMA InitGivesInv ==
    ASSUME EditorInit
    PROVE  EditorInv
  <1>1. \A s \in ScheduleIds : slots[s] = Null /\ view[s] = Null
    BY DEF EditorInit, Init
  <1>2. TypeOK /\ RowsFit(slots) /\ LiveFree
    BY <1>1 DEF EditorInit, Init, TypeOK, RowsFit, LiveFree, IsLive
  <1>3. view \in Rows /\ RowsFit(view)
    BY <1>1 DEF EditorInit, Rows, RowsFit
  <1>4. EditorTypeOK
    BY <1>2, <1>3 DEF EditorInit, EditorTypeOK
  <1> QED BY <1>2, <1>3, <1>4 DEF EditorInit, EditorInv

LEMMA StepKeepsInv ==
    ASSUME EditorInv, [EditorNext]_editorVars
    PROVE  EditorInv'
  <1>1. TypeOK' /\ RowsFit(slots)' /\ LiveFree'
    BY StepIsTimelineStep, TimelineKeepsFree DEF EditorInv, EditorTypeOK
  <1>2. view' \in Rows /\ RowsFit(view)'
    BY StepKeepsView
  <1>3. Calling' /\ Shaped'
    BY StepKeepsRequests
  <1>4. batch' \in Batch \cup {Null}
    BY StepKeepsBatch
  <1>5. /\ grip' \in Grip \cup {Null}
        /\ grip' # Null => RowsFit(grip'.rows) /\ grip'.rows[grip'.id] # Null
    BY StepKeepsGrip
  <1>6. hint' \in Hint \cup {Null}
    BY StepKeepsHint
  <1>7. due' \in BOOLEAN /\ unseen' \in Nat
    BY StepKeepsCounts
  <1>8. EditorTypeOK'
    BY <1>1, <1>2, <1>3, <1>4, <1>5, <1>6, <1>7 DEF EditorTypeOK, Calling
  <1>9. (grip # Null => RowsFit(grip.rows) /\ grip.rows[grip.id] # Null)'
    BY <1>5 DEF RowsFit
  <1> QED BY <1>1, <1>2, <1>3, <1>8, <1>9 DEF EditorInv, Shaped

THEOREM EditorIsSound == EditorSpec => []EditorInv
  <1>1. EditorInit => EditorInv
    BY InitGivesInv
  <1>2. EditorInv /\ [EditorNext]_editorVars => EditorInv'
    BY StepKeepsInv
  <1> QED BY <1>1, <1>2, PTL DEF EditorSpec

-----------------------------------------------------------------------------
(* Theorems. *)

\* The types of the tab's state, of its requests among them
\* (useTimelineMutations.ts, ScheduleDetailPanel.tsx).
THEOREM EditorTypeCorrect == EditorSpec => []EditorTypeOK
  <1>1. EditorInv => EditorTypeOK
    BY DEF EditorInv
  <1> QED BY <1>1, EditorIsSound, PTL

\* Whatever the gestures, the forms, the loop of Publish Channel, lost answers
\* and the other operators do, the table behaves as Timeline promises: every
\* step is a booking, an edit, a publication or a cancellation that it allows.
THEOREM EditorImplementsTimeline == EditorSpec => Spec
  <1>1. EditorInit => Init
    BY DEF EditorInit
  <1>2. EditorInv /\ [EditorNext]_editorVars => [Next]_slots
    BY StepIsTimelineStep
  <1> QED BY <1>1, <1>2, EditorIsSound, PTL DEF EditorSpec, Spec

\* No two programmes that are not cancelled ever share the air.
THEOREM EditorKeepsChannelsFree == EditorSpec => []LiveFree
  <1>1. EditorInv => LiveFree
    BY DEF EditorInv
  <1> QED BY <1>1, EditorIsSound, PTL

\* The API grants a resize (useScheduleResize.ts:13-57) only if the programme
\* still starts where it started when the pointer went down: any other start
\* is at odds with the duration that is sent.
THEOREM ResizeKeepsSeenStart == EditorSpec => []ResizeOnSeenStart
  <1>1. ASSUME EditorInv PROVE ResizeOnSeenStart
    <2>1. SUFFICES ASSUME NEW c \in Calls, request[c] # Null, request[c].op = "resize",
                          Grants(request[c], request[c].id)
                   PROVE  slots[request[c].id].start = request[c].from
      BY DEF ResizeOnSeenStart
    <2> DEFINE r == request[c]
               row == slots[r.id]
    <2>2. RequestShape(r)
      BY <1>1, <2>1 DEF EditorInv
    <2>3. /\ r.id \in ScheduleIds /\ r.start = Null /\ r.stop \in Times /\ r.duration \in Nat
          /\ r.from \in Times /\ (r.duration = r.stop - r.from \/ r.duration = 0)
      BY <2>1, <2>2 DEF RequestShape
    <2>4. row \in Slot /\ WellFormed(Updated(r, row))
      BY <1>1, <2>1, <2>3 DEF Grants, Result, Bookable, IsLive, EditorInv, EditorTypeOK, TypeOK
    <2>5. r.duration # Null /\ row.start \in Int /\ r.stop \in Int /\ r.from \in Int
      BY <2>3, <2>4, SlotFields, EditorAssumption DEF Times
    <2> HIDE DEF r, row
    <2>6. r.duration > 0 /\ r.stop - row.start = r.duration
      BY <2>3, <2>4, <2>5 DEF Updated, OrElse, WellFormed, ValidDuration, DurationMatchesRange
    <2>7. row.start = r.from
      BY <2>3, <2>5, <2>6
    <2> QED BY <2>7 DEF r, row
  <1> QED BY <1>1, EditorIsSound, PTL

\* A card dropped away from the edges of others is saved where its ghost was
\* (useScheduleDrag.ts:133-190), for every grid that is no coarser than the
\* distance at which edges attract.
THEOREM DropsStayWhereShown == EditorSpec => []DropsWhereShown
  <1>1. EditorInv => DropsWhereShown
    BY DEF EditorInv, RequestShape, DropsWhereShown
  <1> QED BY <1>1, EditorIsSound, PTL

\* The page shows the table, up to its limit, when nothing is invalidated and
\* nobody else wrote (useTimelineMutations.ts:15-63 and :90).
THEOREM OwnWritesGetShown == EditorSpec => []OwnWritesAreShown
  <1>1. EditorInit => OwnWritesAreShown
    BY DEF EditorInit, OwnWritesAreShown
  <1>2. ASSUME EditorInv, OwnWritesAreShown, [EditorNext]_editorVars
        PROVE  OwnWritesAreShown'
    <2>1. CASE UNCHANGED <<slots, view, due, batch, unseen>>
      BY <1>2, <2>1 DEF OwnWritesAreShown, Listed, UpToDate, RowsOf
    <2>2. CASE due' \/ batch' # Null
      BY <2>2 DEF OwnWritesAreShown
    <2>3. CASE unseen' = unseen + 1
      <3>1. unseen' # 0
        BY <1>2, <2>3 DEF EditorInv, EditorTypeOK
      <3> QED BY <3>1 DEF OwnWritesAreShown
    <2>4. CASE Fetch
      <3>1. PICK page \in SUBSET ScheduleIds : Page(page) /\ view' = RowsOf(page)
        BY <2>4 DEF Fetch
      <3>2. Listed' = Listed /\ RowsOf(Listed)' = RowsOf(Listed)
        BY <2>4 DEF Fetch, Listed, RowsOf
      <3>3. ASSUME Cardinality(Listed) <= PageLimit PROVE page = Listed
        <4>1. IsFiniteSet(Listed) /\ IsFiniteSet(page)
          BY EditorAssumption, FS_Subset DEF Listed
        <4>2. /\ Cardinality(page) \in Nat /\ Cardinality(Listed) \in Nat
              /\ Cardinality(page) <= Cardinality(Listed)
              /\ Cardinality(page) = Cardinality(Listed) => page = Listed
          BY <3>1, <4>1, FS_CardinalityType, FS_Subset DEF Page
        <4> QED BY <3>1, <3>3, <4>2, EditorAssumption DEF Page
      <3> QED BY <3>1, <3>2, <3>3 DEF OwnWritesAreShown, UpToDate
    <2>5. ASSUME NEW c \in Calls, Granted(c) PROVE due'
      BY <2>5 DEF Granted, DueAfter
    <2>6. ASSUME BatchEnds PROVE due'
      BY <2>6 DEF BatchEnds, DueAfter
    <2>7. ASSUME NEW s \in ScheduleIds, BatchPublishes(s) \/ BatchFails(s) \/ BatchUnheard(s)
          PROVE  batch' # Null
      BY <1>2, <2>7, LoopGoesOn
    <2>8. ASSUME PublishChannel PROVE batch' # Null
      <3>1. batch' \in Batch
        BY <2>8 DEF PublishChannel, Publishable, UpToDate, Batch
      <3> QED BY <3>1, EditorAssumption
    <2>9. \/ UNCHANGED <<slots, view, due, batch, unseen>>
          \/ unseen' = unseen + 1
          \/ Fetch \/ BatchEnds \/ PublishChannel
          \/ \E c \in Calls : Granted(c)
          \/ \E s \in ScheduleIds : BatchPublishes(s) \/ BatchFails(s)
      BY <1>2, GestureFrame DEF EditorNext, PointerDown, GrantedUnheard, Failed,
         BatchUnheard, ForgetHint, OthersWrite, editorVars, editor
    <2> QED BY <2>1, <2>2, <2>3, <2>4, <2>5, <2>6, <2>7, <2>8, <2>9
  <1> QED BY <1>1, <1>2, EditorIsSound, PTL DEF EditorSpec

-----------------------------------------------------------------------------
(* Why a request is refused. *)

\* The API grants the request, or refuses it for one of the reasons that the
\* property names.
Excused(r) ==
    \/ \E s \in ScheduleIds : Grants(r, s)
    \/ Needed(r.op) \notin Allowed
    \/ r.op = "create" /\ \A s \in ScheduleIds : slots[s] # Null
    \/ r.op # "create" /\ ~IsLive(r.id)
    \/ r.duration = 0
    \/ r.status = "PUBLISHED" /\ slots[r.id].status # "PUBLISHED"
    \/ UnfetchedInTheWay(r)

SureCalls ==
    \A c \in Calls :
        request[c] # Null /\ request[c].sure /\ request[c].op # "snap" => Excused(request[c])

\* The loop of Publish Channel still has only live rows before it.
SureLoop ==
    batch # Null /\ batch.sure /\ "publish" \in Allowed =>
        batch.failed = 0 /\ \A s \in batch.left : IsLive(s)

LEMMA ExcusedStays ==
    ASSUME NEW r, UNCHANGED slots, Excused(r)
    PROVE  Excused(r)'
  <1>1. \A s \in ScheduleIds : Grants(r, s)' <=> Grants(r, s)
    <2>1. \A s : IsLive(s)' <=> IsLive(s)
      BY DEF IsLive
    <2>2. Created(r)' = Created(r)
      BY DEF Created, Others, OnScreen
    <2>3. \A s : Result(r, s)' = Result(r, s)
      BY <2>2 DEF Result, Updated
    <2>4. \A s, a : Bookable(s, a)' <=> Bookable(s, a)
      BY <2>1 DEF Bookable
    <2> QED BY <2>1, <2>2, <2>3, <2>4 DEF Grants
  <1>2. IsLive(r.id)' <=> IsLive(r.id)
    BY DEF IsLive
  <1>3. UnfetchedInTheWay(r)' <=> UnfetchedInTheWay(r)
    <2>1. Listed' = Listed /\ \A t : IsLive(t)' <=> IsLive(t)
      BY DEF Listed, IsLive
    <2>2. Result(r, r.id)' = Result(r, r.id)
      BY DEF Result, Updated, Created, Others, OnScreen
    <2> QED BY <2>1, <2>2 DEF UnfetchedInTheWay, ReachesOut
  <1> QED BY <1>1, <1>2, <1>3 DEF Excused

\* No other programme of channel ch that is live overlaps a, where r would go,
\* but for one that the page did not fetch.
FreeFor(r, s, ch, a) ==
    \A t \in ScheduleIds \ {s} :
        IsLive(t) /\ slots[t].channel = ch /\ Overlaps(slots[t], a) =>
            t \notin Listed /\ ReachesOut(r)

LEMMA UpToDateRow ==
    ASSUME NEW rows, UpToDate(rows), NEW s \in ScheduleIds
    PROVE  /\ rows[s] # Null => /\ rows[s] = slots[s] /\ s \in Listed
                               /\ slots[s].channel \in Shown
           /\ s \in Listed => rows[s] = slots[s]
  BY DEF UpToDate, RowsOf, Listed

\* What is not listed lies beyond the window.
LEMMA UnlistedIsBeyond ==
    ASSUME TypeOK, NEW t \in ScheduleIds, slots[t] # Null, slots[t].channel \in Shown,
           t \notin Listed
    PROVE  slots[t].start >= To \/ slots[t].stop <= From
  <1>1. slots[t].start \in Int /\ slots[t].stop \in Int /\ From \in Int /\ To \in Int
    BY SlotFields, EditorAssumption DEF TypeOK, Times
  <1> QED BY <1>1 DEF Listed

\* hasOverlap on rows that are up to date sees what the conflict check of the
\* API sees, but for programmes that were not fetched.
LEMMA SeenFreeIsFree ==
    ASSUME NEW rows, UpToDate(rows), NEW s, NEW ch \in Shown, NEW a,
           ~HasOverlap(Others(rows, ch, s), a),
           NEW t \in ScheduleIds \ {s}, IsLive(t), slots[t].channel = ch, Overlaps(slots[t], a)
    PROVE  t \notin Listed
  <1> SUFFICES ASSUME t \in Listed PROVE FALSE
    OBVIOUS
  <1>1. rows[t] = slots[t] /\ rows[t] # Null
    BY UpToDateRow DEF IsLive
  <1>2. slots[t] \in Others(rows, ch, s)
    BY <1>1 DEF Others, OnScreen, IsLive
  <1> QED BY <1>2 DEF HasOverlap

\* The same for a request that names its whole place.
LEMMA SeenPlaceIsFree ==
    ASSUME TypeOK, NEW rows, UpToDate(rows), NEW s, NEW ch \in Shown, NEW a,
           ~HasOverlap(Others(rows, ch, s), a), a.start \in Int, a.stop \in Int,
           NEW r, r.start = a.start, r.stop = a.stop
    PROVE  FreeFor(r, s, ch, a)
  <1> SUFFICES ASSUME NEW t \in ScheduleIds \ {s}, IsLive(t), slots[t].channel = ch,
                      Overlaps(slots[t], a)
               PROVE  t \notin Listed /\ ReachesOut(r)
    BY DEF FreeFor
  <1>1. t \notin Listed
    BY SeenFreeIsFree
  <1>2. slots[t].start >= To \/ slots[t].stop <= From
    BY <1>1, UnlistedIsBeyond DEF IsLive
  <1>3. slots[t].start \in Int /\ slots[t].stop \in Int /\ From \in Int /\ To \in Int
    BY SlotFields, EditorAssumption DEF IsLive, TypeOK, Times
  <1>4. a.start # Null /\ a.stop # Null
    BY EditorAssumption
  <1> QED BY <1>1, <1>2, <1>3, <1>4 DEF ReachesOut, Overlaps

LEMMA EditGranted ==
    ASSUME NEW r, NEW s \in ScheduleIds, r.op \in {"move", "resize", "save", "follow"},
           r.id = s, IsLive(s), r.status = "PUBLISHED" => slots[s].status = "PUBLISHED",
           NEW ch, NEW start, NEW stop, NEW d,
           Updated(r, slots[s]).channel = ch, Updated(r, slots[s]).start = start,
           Updated(r, slots[s]).stop = stop, Updated(r, slots[s]).duration = d,
           start \in Int, stop \in Int, d \in Int, d > 0, stop = start + d,
           NEW a, a.start = start, a.stop = stop, FreeFor(r, s, ch, a)
    PROVE  Excused(r)
  <1> DEFINE u == Updated(r, slots[s])
  <1>1. Result(r, s) = u
    BY DEF Result
  <1>2. WellFormed(u)
    BY DEF WellFormed, ValidRange, ValidDuration, DurationMatchesRange
  <1>3. ASSUME NEW t \in ScheduleIds \ {s}, IsLive(t), slots[t].channel = u.channel,
               Overlaps(slots[t], u)
        PROVE  UnfetchedInTheWay(r)
    <2>1. Overlaps(slots[t], a)
      BY <1>3 DEF Overlaps
    <2>2. t \notin Listed /\ ReachesOut(r)
      BY <1>3, <2>1 DEF FreeFor
    <2> QED BY <1>1, <1>3, <2>2 DEF UnfetchedInTheWay
  <1>4. ASSUME Needed(r.op) \in Allowed, ~UnfetchedInTheWay(r) PROVE Grants(r, s)
    BY <1>1, <1>2, <1>3, <1>4 DEF Grants, Bookable, IsLive
  <1> QED BY <1>4 DEF Excused

LEMMA PlaceFields ==
    ASSUME NEW op, NEW s, NEW ch, NEW a, NEW status, NEW snapped, NEW from
    PROVE  LET r == PlaceBody(op, s, ch, a, status, snapped, from)
           IN /\ r.op = op /\ r.id = s /\ r.channel = ch /\ r.start = a.start
              /\ r.stop = a.stop /\ r.duration = a.duration /\ r.status = status
              /\ r.snapped = snapped /\ r.sure = UpToDate(view)
  BY DEF PlaceBody

\* A create that found its place free is granted while there is a name left:
\* auto-snap on the server leaves a free place free.
LEMMA CreateExcused ==
    ASSUME EditorInv, NEW ch \in Shown, NEW a, NEW snapped, NEW from,
           a.start \in Times, a.duration \in Durations, a.stop = a.start + a.duration,
           UpToDate(view) => ~HasOverlap(Others(view, ch, Null), a),
           UpToDate(view)
    PROVE  Excused(PlaceBody("create", Null, ch, a, "DRAFT", snapped, from))
  <1> DEFINE r == PlaceBody("create", Null, ch, a, "DRAFT", snapped, from)
             S == Others(slots, ch, Null)
             t == SnapStart(S, a.start)
             u == Created(r)
  <1>1. /\ r.op = "create" /\ r.channel = ch /\ r.start = a.start /\ r.stop = a.stop
        /\ r.duration = a.duration /\ r.snapped = snapped /\ r.status = "DRAFT"
    BY DEF PlaceBody
  <1>2. SUFFICES ASSUME NEW s \in ScheduleIds, slots[s] = Null, Needed(r.op) \in Allowed,
                        ~UnfetchedInTheWay(r)
                 PROVE  Grants(r, s)
    BY <1>1 DEF Excused
  <1>3. FreeFor(r, Null, ch, a)
    <2>1. a.start \in Int /\ a.stop \in Int
      BY EditorAssumption DEF Times, Durations
    <2> HIDE DEF r
    <2> QED BY <1>1, <2>1, SeenPlaceIsFree DEF EditorInv, EditorTypeOK
  <1>4. \A x \in S : x.stop \in 0 .. Horizon /\ x.start \in Int
    BY SlotFields, EditorAssumption DEF Others, OnScreen, EditorInv, EditorTypeOK, TypeOK, Times
  <1>5. a.start \in 0 .. Horizon /\ Horizon \in Nat /\ a.duration \in Int /\ a.duration > 0
        /\ a.start \in Int
    BY EditorAssumption DEF Times, Durations
  <1> HIDE DEF S, t, r
  <1>6. /\ t \in 0 .. Horizon
        /\ \A x \in S : x.start < t + a.duration /\ x.stop > t
                          => x.start < a.start + a.duration /\ x.stop > a.start
    BY <1>4, <1>5, SnapStartKeepsFree DEF t
  <1>7. /\ u.channel = ch /\ u.duration = a.duration
        /\ \/ u.start = t /\ u.stop = t + a.duration
           \/ u.start = a.start /\ u.stop = a.start + a.duration
    BY <1>1 DEF Created, t, S
  <1>8. WellFormed(u)
    BY <1>5, <1>6, <1>7 DEF WellFormed, ValidRange, ValidDuration, DurationMatchesRange
  <1>9. ASSUME NEW p \in ScheduleIds \ {s}, IsLive(p), slots[p].channel = u.channel
        PROVE  ~Overlaps(slots[p], u)
    <2>1. slots[p] \in S /\ p # Null
      BY <1>7, <1>9, EditorAssumption DEF S, Others, OnScreen, IsLive
    <2>2. Result(r, r.id) = u /\ r.id = Null
      BY <1>1 DEF Result, r, PlaceBody
    <2>3. Overlaps(slots[p], a) => p \notin Listed /\ ReachesOut(r)
      BY <1>3, <1>7, <1>9, <2>1 DEF FreeFor
    <2> HIDE DEF u
    <2>4. Overlaps(slots[p], u) => Overlaps(slots[p], a)
      BY <1>6, <1>7, <2>1 DEF Overlaps
    <2>5. Overlaps(slots[p], u) => UnfetchedInTheWay(r)
      BY <1>9, <2>1, <2>2, <2>3, <2>4 DEF UnfetchedInTheWay
    <2> QED BY <1>2, <2>5
  <1>10. Bookable(s, u)
    BY <1>8, <1>9 DEF Bookable
  <1> QED BY <1>1, <1>2, <1>10 DEF Grants

\* Sent without having looked, or granted for what was seen, or excused.
SendsExcused(c) == \E r : Send(c, r) /\ (r.sure /\ r.op # "snap" => Excused(r))

LEMMA DropAssetExcused ==
    ASSUME EditorInv, NEW c \in Calls, DropAsset(c)
    PROVE  SendsExcused(c)
  <1>1. PICK ch \in Channels, at \in Drops, d \in Assets :
           LET others == Others(view, ch, Null)
               ghost  == ScheduleSnap(others, at, d).start
               place  == DropPlace(others, at, d)
               slot   == Lasting(place.start, d)
           IN /\ Shown = {ch}
              /\ WithinHorizon(slot)
              /\ FreeToDrop(others, slot)
              /\ Send(c, PlaceBody("create", Null, ch, slot, "DRAFT", place.snapped, ghost))
    BY DEF DropAsset
  <1> DEFINE others == Others(view, ch, Null)
             ghost  == ScheduleSnap(others, at, d).start
             place  == DropPlace(others, at, d)
             slot   == Lasting(place.start, d)
             r == PlaceBody("create", Null, ch, slot, "DRAFT", place.snapped, ghost)
  <1>2. /\ slot.start \in Times /\ slot.duration \in Durations
        /\ slot.stop = slot.start + slot.duration
    BY <1>1, EditorAssumption DEF WithinHorizon, Lasting
  <1>3. ~HasOverlap(others, slot) /\ ch \in Shown /\ Send(c, r)
    BY <1>1 DEF FreeToDrop
  <1>4. r.sure = UpToDate(view)
    BY PlaceFields
  <1>5. ASSUME UpToDate(view) PROVE Excused(r)
    <2> HIDE DEF slot, ghost, place
    <2> QED BY <1>2, <1>3, <1>5, CreateExcused
  <1> QED BY <1>3, <1>4, <1>5 DEF SendsExcused

LEMMA MoveExcused ==
    ASSUME EditorInv, NEW c \in Calls, Move(c)
    PROVE  SendsExcused(c)
  <1>1. PICK s \in ScheduleIds, ch \in Shown, at \in Drops :
           LET d      == view[s].duration
               others == Others(view, ch, s)
               ghost  == ScheduleSnap(others, at, d).start
               place  == DropPlace(others, at, d)
               slot   == Lasting(place.start, d)
           IN /\ OnScreen(view, s)
              /\ WithinHorizon(slot)
              /\ FreeToDrop(others, slot)
              /\ Send(c, PlaceBody("move", s, ch, slot, Null, place.snapped, ghost))
    BY DEF Move
  <1> DEFINE d      == view[s].duration
             others == Others(view, ch, s)
             ghost  == ScheduleSnap(others, at, d).start
             place  == DropPlace(others, at, d)
             slot   == Lasting(place.start, d)
             r == PlaceBody("move", s, ch, slot, Null, place.snapped, ghost)
  <1>2. d \in Durations
    BY <1>1, ViewRow DEF OnScreen
  <1>3. /\ slot.start \in Int /\ slot.stop \in Int /\ slot.duration \in Int
        /\ slot.duration > 0 /\ slot.stop = slot.start + slot.duration
    BY <1>1, <1>2, EditorAssumption DEF WithinHorizon, Lasting, Times, Durations
  <1>4. ~HasOverlap(others, slot) /\ Send(c, r)
    BY <1>1 DEF FreeToDrop
  <1> HIDE DEF slot, ghost, place
  <1>5. /\ r.op = "move" /\ r.id = s /\ r.channel = ch /\ r.start = slot.start
        /\ r.stop = slot.stop /\ r.duration = slot.duration /\ r.status = Null
        /\ r.sure = UpToDate(view)
    BY PlaceFields
  <1> HIDE DEF r, others, d
  <1>6. ASSUME UpToDate(view) PROVE Excused(r)
    <2>1. CASE ~IsLive(s)
      BY <1>5, <2>1 DEF Excused
    <2>2. CASE IsLive(s)
      <3>1. FreeFor(r, s, ch, slot)
        BY <1>3, <1>4, <1>5, <1>6, SeenPlaceIsFree DEF others, EditorInv, EditorTypeOK
      <3>2. /\ Updated(r, slots[s]).channel = ch /\ Updated(r, slots[s]).start = slot.start
            /\ Updated(r, slots[s]).stop = slot.stop
            /\ Updated(r, slots[s]).duration = slot.duration
        BY <1>3, <1>5, EditorAssumption DEF Updated, OrElse
      <3>3. r.status # "PUBLISHED"
        BY <1>5, EditorAssumption DEF Statuses
      <3> QED BY <1>3, <1>5, <2>2, <3>1, <3>2, <3>3, EditGranted
    <2> QED BY <2>1, <2>2
  <1> QED BY <1>4, <1>5, <1>6 DEF SendsExcused, r

LEMMA PointerUpExcused ==
    ASSUME EditorInv, NEW c \in Calls, PointerUp(c)
    PROVE  SendsExcused(c) \/ UNCHANGED request
  <1> DEFINE row == grip.rows[grip.id]
             others == Others(grip.rows, row.channel, grip.id)
  <1>1. PICK d \in Widths :
           LET slot == ResizeSnap(others, row.start, d)
           IN /\ WithinHorizon(slot)
              /\ \/ UNCHANGED request
                 \/ /\ ~HasOverlap(others, slot)
                    /\ Send(c, ResizeBody(grip.id, slot, grip.rows))
    BY DEF PointerUp
  <1> DEFINE slot == ResizeSnap(others, row.start, d)
             r == ResizeBody(grip.id, slot, grip.rows)
  <1>2. grip \in Grip /\ row # Null
    BY DEF PointerUp, EditorInv, EditorTypeOK
  <1>3. grip.id \in ScheduleIds /\ grip.rows \in Rows
    BY <1>2 DEF Grip
  <1>4. /\ slot.start = row.start /\ slot.start \in Times /\ slot.stop \in Times
        /\ slot.duration \in Nat /\ (slot.duration = slot.stop - slot.start \/ slot.duration = 0)
    <2>1. GridDuration(d) \in Nat
      BY GridDurationIsNat, EditorAssumption
    <2> QED BY <1>1, <2>1, StopSnapShape DEF ResizeSnap
  <1> HIDE DEF slot
  <1>5. /\ r.op = "resize" /\ r.id = grip.id /\ r.channel = Null /\ r.start = Null
        /\ r.stop = slot.stop /\ r.duration = slot.duration /\ r.status = Null
        /\ r.sure = UpToDate(grip.rows)
    BY DEF ResizeBody
  <1>6. ASSUME UpToDate(grip.rows), ~HasOverlap(others, slot) PROVE Excused(r)
    <2>1. row = slots[grip.id] /\ grip.id \in Listed /\ row.channel \in Shown
      BY <1>2, <1>3, <1>6, UpToDateRow
    <2>2. CASE slot.duration = 0
      BY <1>5, <2>2 DEF Excused
    <2>3. CASE ~IsLive(grip.id)
      BY <1>5, <2>3 DEF Excused
    <2>4. CASE slot.duration # 0 /\ IsLive(grip.id)
      <3>1. FreeFor(r, grip.id, row.channel, slot)
        <4>1. SUFFICES ASSUME NEW t \in ScheduleIds \ {grip.id}, IsLive(t),
                              slots[t].channel = row.channel, Overlaps(slots[t], slot)
                       PROVE  t \notin Listed /\ slot.stop > To
          <5>1. slot.stop # Null
            BY <1>4, EditorAssumption DEF Times
          <5>2. slot.stop > To => ReachesOut(r)
            BY <1>5, <5>1 DEF ReachesOut
          <5> HIDE DEF r, row, others
          <5> QED BY <5>2 DEF FreeFor
        <4>2. t \notin Listed
          BY <1>6, <2>1, <4>1, SeenFreeIsFree
        <4>3. slots[t].start >= To \/ slots[t].stop <= From
          BY <2>1, <4>1, <4>2, UnlistedIsBeyond DEF IsLive, EditorInv, EditorTypeOK
        <4>4. ~Overlaps(slots[t], row)
          BY <1>3, <2>1, <2>4, <4>1 DEF EditorInv, LiveFree, Bookable
        <4>5. row.stop > From
          BY <2>1 DEF Listed
        <4>6. /\ slots[t].start \in Int /\ slots[t].stop \in Int
              /\ slots[t].start < slots[t].stop
          <5>1. slots[t] \in Slot /\ WellFormed(slots[t])
            BY <4>1 DEF IsLive, EditorInv, EditorTypeOK, TypeOK, RowsFit
          <5> QED BY <5>1, SlotFields, EditorAssumption DEF WellFormed, ValidRange, Times
        <4>7. /\ row.start \in Int /\ row.stop \in Int /\ slot.start = row.start
              /\ slot.stop \in Int /\ From \in Int /\ To \in Int
          <5>1. row \in Slot
            BY <1>3, <2>1, <2>4 DEF IsLive, EditorInv, EditorTypeOK, TypeOK
          <5>2. row.start \in Times /\ row.stop \in Times
            BY <5>1, SlotFields
          <5> QED BY <1>4, <5>2, EditorAssumption DEF Times
        <4> HIDE DEF row
        <4> QED BY <4>1, <4>2, <4>3, <4>4, <4>5, <4>6, <4>7 DEF Overlaps
      <3>2. /\ slot.start \in Int /\ slot.stop \in Int /\ slot.duration \in Int
            /\ slot.duration > 0 /\ slot.stop = slot.start + slot.duration
            /\ slot.duration # Null
        BY <1>4, <2>4, EditorAssumption DEF Times
      <3>3. /\ Updated(r, slots[grip.id]).channel = row.channel
            /\ Updated(r, slots[grip.id]).start = slot.start
            /\ Updated(r, slots[grip.id]).stop = slot.stop
            /\ Updated(r, slots[grip.id]).duration = slot.duration
        BY <1>4, <1>5, <2>1, <3>2 DEF Updated, OrElse
      <3>4. r.status # "PUBLISHED"
        BY <1>5, EditorAssumption DEF Statuses
      <3> HIDE DEF r, row, others
      <3> QED BY <1>3, <1>5, <2>4, <3>1, <3>2, <3>3, <3>4, EditGranted
    <2> QED BY <2>2, <2>3, <2>4
  <1> QED BY <1>1, <1>5, <1>6 DEF SendsExcused, slot

LEMMA SaveExcused ==
    ASSUME EditorInv, NEW c \in Calls, Save(c)
    PROVE  SendsExcused(c) \/ UNCHANGED request
  <1>1. PICK s \in ScheduleIds, ch \in Shown, f \in Forms :
           LET others == Others(view, ch, s)
               slot   == EdgeSnap(others, f.start, f.duration)
           IN /\ WithinHorizon(slot)
              /\ \/ UNCHANGED request
                 \/ /\ ~HasOverlap(others, slot)
                    /\ Send(c, SaveBody(s, ch, slot, f.status))
    BY DEF Save
  <1> DEFINE others == Others(view, ch, s)
             slot   == EdgeSnap(others, f.start, f.duration)
             r == SaveBody(s, ch, slot, f.status)
  <1>2. f.duration \in Nat /\ f.status \in Statuses
    BY EditorAssumption DEF Form, Durations
  <1>3. /\ slot.start \in Times /\ slot.stop \in Times /\ slot.duration \in Nat
        /\ slot.duration = slot.stop - slot.start \/ slot.duration = 0
    BY <1>1, <1>2, StopSnapShape DEF EdgeSnap
  <1> HIDE DEF slot
  <1>4. /\ r.op = "save" /\ r.id = s /\ r.channel = Null /\ r.start = slot.start
        /\ r.stop = slot.stop /\ r.duration = slot.duration /\ r.status = f.status
        /\ r.sure => UpToDate(view) /\ view[s] # Null /\ view[s].channel = ch
    BY DEF SaveBody, PlaceBody
  <1> HIDE DEF r
  <1>5. ASSUME r.sure, ~HasOverlap(others, slot) PROVE Excused(r)
    <2>1. UpToDate(view) /\ view[s] = slots[s] /\ slots[s].channel = ch
      BY <1>4, <1>5, UpToDateRow
    <2>2. CASE slot.duration = 0
      BY <1>4, <2>2 DEF Excused
    <2>3. CASE ~IsLive(s)
      BY <1>4, <2>3 DEF Excused
    <2>4. CASE r.status = "PUBLISHED" /\ slots[s].status # "PUBLISHED"
      BY <1>4, <2>4 DEF Excused
    <2>5. CASE /\ slot.duration # 0 /\ IsLive(s)
               /\ r.status = "PUBLISHED" => slots[s].status = "PUBLISHED"
      <3>1. FreeFor(r, s, ch, slot)
        <4>1. slot.start \in Int /\ slot.stop \in Int /\ ch \in Shown
          BY <1>1, <1>3, EditorAssumption DEF Times
        <4> HIDE DEF others
        <4> QED BY <1>4, <1>5, <2>1, <4>1, SeenPlaceIsFree DEF others, EditorInv, EditorTypeOK
      <3>2. /\ slot.start \in Int /\ slot.stop \in Int /\ slot.duration \in Int
            /\ slot.duration > 0 /\ slot.stop = slot.start + slot.duration
            /\ slot.duration # Null /\ slot.start # Null
        BY <1>3, <2>5, EditorAssumption DEF Times
      <3>3. /\ Updated(r, slots[s]).channel = ch
            /\ Updated(r, slots[s]).start = slot.start
            /\ Updated(r, slots[s]).stop = slot.stop
            /\ Updated(r, slots[s]).duration = slot.duration
        BY <1>4, <2>1, <3>2 DEF Updated, OrElse
      <3> HIDE DEF others
      <3> QED BY <1>4, <2>5, <3>1, <3>2, <3>3, EditGranted
    <2> QED BY <2>2, <2>3, <2>4, <2>5
  <1> QED BY <1>1, <1>5 DEF SendsExcused, slot, r

\* Snapping a row to the stop before it needs no look at the rows: there was
\* room for it where it was.
LEMMA FollowExcused ==
    ASSUME EditorInv, NEW c \in Calls, Follow(c)
    PROVE  SendsExcused(c)
  <1>1. PICK s \in ScheduleIds :
           LET E == EndedBy(Others(view, view[s].channel, s), view[s].start)
               slot == Lasting(Latest({a.stop : a \in E}), view[s].duration)
           IN /\ view[s] # Null
              /\ {a.stop : a \in E} # {}
              /\ Send(c, PlaceBody("follow", s, Null, slot, Null, FALSE, Null))
    BY DEF Follow
  <1> DEFINE others == Others(view, view[s].channel, s)
             t == Latest({a.stop : a \in EndedBy(others, view[s].start)})
             slot == Lasting(t, view[s].duration)
             r == PlaceBody("follow", s, Null, slot, Null, FALSE, Null)
  <1>2. t = SnapStart(others, view[s].start)
    BY <1>1 DEF SnapStart
  <1>3. /\ view[s].start \in 0 .. Horizon /\ Horizon \in Nat /\ view[s].duration \in Int
        /\ view[s].duration > 0 /\ view[s].stop = view[s].start + view[s].duration
    <2>1. /\ view[s].start \in Times /\ view[s].stop \in Times
          /\ view[s].duration \in Durations /\ view[s].duration = view[s].stop - view[s].start
      BY <1>1, ViewRow
    <2> QED BY <2>1, EditorAssumption DEF Times, Durations
  <1>4. \A x \in others : x.stop \in 0 .. Horizon /\ x.start \in Int
    BY OthersAreSlots DEF EditorInv, EditorTypeOK, InTimes, Times
  <1>5. Send(c, r)
    BY <1>1
  <1> HIDE DEF others, t
  <1>6. /\ t \in 0 .. Horizon
        /\ \A x \in others : x.start < t + view[s].duration /\ x.stop > t
              => x.start < view[s].start + view[s].duration /\ x.stop > view[s].start
    BY <1>2, <1>3, <1>4, SnapStartKeepsFree
  <1>7. /\ slot.start = t /\ slot.stop = t + view[s].duration
        /\ slot.duration = view[s].duration
    BY DEF Lasting
  <1> HIDE DEF slot
  <1>8. /\ r.op = "follow" /\ r.id = s /\ r.channel = Null /\ r.start = slot.start
        /\ r.stop = slot.stop /\ r.duration = slot.duration /\ r.status = Null
        /\ r.sure = UpToDate(view)
    BY DEF PlaceBody
  <1> HIDE DEF r
  <1>9. ASSUME UpToDate(view) PROVE Excused(r)
    <2>1. view[s] = slots[s] /\ slots[s].channel \in Shown
      BY <1>1, <1>9, UpToDateRow
    <2>2. CASE ~IsLive(s)
      BY <1>8, <2>2 DEF Excused
    <2>3. CASE IsLive(s)
      <3>1. ASSUME NEW p \in ScheduleIds \ {s}, IsLive(p), slots[p].channel = view[s].channel,
                   Overlaps(slots[p], slot)
            PROVE  p \notin Listed /\ ReachesOut(r)
        <4>1. ~Overlaps(slots[p], view[s])
          BY <2>1, <2>3, <3>1 DEF EditorInv, LiveFree, Bookable
        <4>2. ASSUME p \in Listed PROVE FALSE
          <5>1. view[p] = slots[p] /\ view[p] # Null
            BY <1>9, <3>1, <4>2, UpToDateRow DEF IsLive
          <5>2. slots[p] \in others
            BY <3>1, <5>1 DEF others, Others, OnScreen, IsLive
          <5> QED BY <1>3, <1>6, <1>7, <3>1, <4>1, <5>2 DEF Overlaps
        <4>3. slots[p].start >= To \/ slots[p].stop <= From
          BY <2>1, <3>1, <4>2, UnlistedIsBeyond DEF IsLive, EditorInv, EditorTypeOK
        <4>4. slots[p].start \in Int /\ slots[p].stop \in Int /\ From \in Int /\ To \in Int
          BY <3>1, SlotFields, EditorAssumption DEF IsLive, EditorInv, EditorTypeOK, TypeOK, Times
        <4>5. slot.start \in Int /\ slot.stop \in Int /\ slot.start # Null /\ slot.stop # Null
          BY <1>3, <1>6, <1>7, EditorAssumption
        <4> QED BY <1>8, <3>1, <4>2, <4>3, <4>4, <4>5 DEF ReachesOut, Overlaps
      <3>2. FreeFor(r, s, view[s].channel, slot)
        BY <3>1 DEF FreeFor
      <3>3. /\ slot.start \in Int /\ slot.stop \in Int /\ slot.duration \in Int
            /\ slot.duration > 0 /\ slot.stop = slot.start + slot.duration
            /\ slot.duration # Null /\ slot.start # Null
        BY <1>3, <1>6, <1>7, EditorAssumption
      <3>4. /\ Updated(r, slots[s]).channel = view[s].channel
            /\ Updated(r, slots[s]).start = slot.start
            /\ Updated(r, slots[s]).stop = slot.stop
            /\ Updated(r, slots[s]).duration = slot.duration
        BY <1>8, <2>1, <3>3 DEF Updated, OrElse
      <3>5. r.status # "PUBLISHED"
        BY <1>8, EditorAssumption DEF Statuses
      <3> QED BY <1>8, <2>3, <3>2, <3>3, <3>4, <3>5, EditGranted
    <2> QED BY <2>2, <2>3
  <1> QED BY <1>5, <1>8, <1>9 DEF SendsExcused, r, slot, t, others

\* A live row can always be published, and any row removed, by whoever may.
LEMMA PlainExcused ==
    ASSUME EditorInv, NEW s \in ScheduleIds, slots[s] # Null, NEW op \in {"publish", "delete"},
           op \in Allowed, op = "publish" => IsLive(s)
    PROVE  Grants(PlainBody(op, s), s)
  <1> DEFINE r == PlainBody(op, s)
             row == [slots[s] EXCEPT !.status = "PUBLISHED"]
  <1>1. r.op = op /\ r.id = s /\ r.status = Null /\ Needed(r.op) \in Allowed
    BY DEF PlainBody, Needed
  <1> HIDE DEF r
  <1>2. CASE op = "delete"
    BY <1>1, <1>2 DEF Grants, r
  <1>3. CASE op = "publish"
    <2>1. slots[s] \in Slot /\ Bookable(s, slots[s])
      BY <1>3 DEF EditorInv, EditorTypeOK, TypeOK, LiveFree
    <2>2. /\ row.channel = slots[s].channel /\ row.start = slots[s].start
          /\ row.stop = slots[s].stop /\ row.duration = slots[s].duration
      BY <2>1 DEF Slot
    <2>3. Result(r, s) = row
      BY <1>1, <1>3 DEF Result
    <2> HIDE DEF row
    <2>4. Bookable(s, row)
      BY <2>1, <2>2 DEF Bookable, WellFormed, ValidRange, ValidDuration, DurationMatchesRange,
         Overlaps
    <2>5. r.status # "PUBLISHED"
      BY <1>1, EditorAssumption DEF Statuses
    <2> QED BY <1>1, <1>3, <2>3, <2>4, <2>5 DEF Grants, r
  <1> QED BY <1>2, <1>3

LEMMA PublishOrRemoveExcused ==
    ASSUME EditorInv, NEW c \in Calls, PublishOrRemove(c)
    PROVE  SendsExcused(c)
  <1>1. PICK s \in ScheduleIds, op \in {"publish", "delete"} :
           slots[s] # Null /\ Send(c, PlainBody(op, s))
    BY DEF PublishOrRemove
  <1>2. PlainBody(op, s).op = op /\ PlainBody(op, s).id = s
    BY DEF PlainBody
  <1>3. CASE op = "publish" /\ ~IsLive(s)
    BY <1>1, <1>2, <1>3 DEF SendsExcused, Excused
  <1>4. CASE op \notin Allowed
    BY <1>1, <1>2, <1>4 DEF SendsExcused, Excused, Needed
  <1>5. CASE op \in Allowed /\ (op = "delete" \/ IsLive(s))
    BY <1>1, <1>5, PlainExcused DEF SendsExcused, Excused
  <1> QED BY <1>3, <1>4, <1>5

LEMMA GestureExcused ==
    ASSUME EditorInv, NEW c \in Calls, Gesture(c)
    PROVE  SendsExcused(c) \/ UNCHANGED request
  <1>1. CASE SaveAtHint(c)
    <2>1. PICK f \in Forms :
             Send(c, PlaceBody("snap", hint.id, Null, Lasting(hint.start, f.duration),
                               f.status, FALSE, Null))
      BY <1>1 DEF SaveAtHint
    <2> QED BY <2>1 DEF SendsExcused, PlaceBody
  <1> QED BY <1>1, DropAssetExcused, MoveExcused, PointerUpExcused, SaveExcused, FollowExcused,
          PublishOrRemoveExcused DEF Gesture

LEMMA StepKeepsSureCalls ==
    ASSUME EditorInv, SureCalls, [EditorNext]_editorVars
    PROVE  SureCalls'
  <1>1. Calling
    BY DEF EditorInv, EditorTypeOK, Calling
  <1>2. ASSUME UNCHANGED <<slots, request>> PROVE SureCalls'
    BY <1>2, ExcusedStays DEF SureCalls
  <1>3. ASSUME NEW c \in Calls, UNCHANGED slots, SendsExcused(c) PROVE SureCalls'
    <2>1. PICK r : request' = [request EXCEPT ![c] = r] /\ (r.sure /\ r.op # "snap" => Excused(r))
      BY <1>3 DEF SendsExcused, Send
    <2>2. \A k \in Calls : request'[k] = IF k = c THEN r ELSE request[k]
      BY <1>1, <2>1 DEF Calling
    <2> QED BY <1>3, <2>1, <2>2, ExcusedStays DEF SureCalls
  <1>4. ASSUME NEW c \in Calls, Failed(c) PROVE SureCalls'
    <2>1. \A k \in Calls : request'[k] = IF k = c THEN Null ELSE request[k]
      BY <1>1, <1>4 DEF Failed, Calling
    <2>2. UNCHANGED slots
      BY <1>4 DEF Failed
    <2> QED BY <2>1, <2>2, ExcusedStays DEF SureCalls
  <1>5. ASSUME NEW f, \A c \in Calls : f[c] # Null => RequestShape(f[c]), request' = Unsure(f)
        PROVE  SureCalls'
    BY <1>5, UnsureShape DEF SureCalls
  <1>6. ASSUME NEW c \in Calls, Granted(c) \/ GrantedUnheard(c) PROVE SureCalls'
    <2> DEFINE f == [request EXCEPT ![c] = Null]
    <2>1. \A k \in Calls : f[k] # Null => RequestShape(f[k])
      BY <1>1 DEF Calling, EditorInv
    <2>2. request' = Unsure(f)
      BY <1>6 DEF Granted, GrantedUnheard
    <2> HIDE DEF f
    <2> QED BY <1>5, <2>1, <2>2
  <1>7. ASSUME request' = Unsure(request) PROVE SureCalls'
    BY <1>5, <1>7 DEF EditorInv
  <1>8. \/ UNCHANGED <<slots, request>>
        \/ request' = Unsure(request)
        \/ \E c \in Calls : \/ UNCHANGED slots /\ SendsExcused(c)
                            \/ Failed(c) \/ Granted(c) \/ GrantedUnheard(c)
    BY GestureExcused, GestureFrame DEF EditorNext, PointerDown, BatchPublishes, BatchFails,
       BatchUnheard, ForgetHint, PublishChannel, BatchEnds, Fetch, OthersWrite, editorVars, editor
  <1> QED BY <1>2, <1>3, <1>4, <1>6, <1>7, <1>8

LEMMA StepKeepsSureLoop ==
    ASSUME EditorInv, SureLoop, [EditorNext]_editorVars
    PROVE  SureLoop'
  <1>1. CASE UNCHANGED <<slots, batch>>
    BY <1>1 DEF SureLoop, IsLive
  <1>2. CASE batch' = Null
    BY <1>2 DEF SureLoop
  <1>3. CASE batch' = UnsureBatch
    <2>1. batch \in Batch \cup {Null}
      BY DEF EditorInv, EditorTypeOK
    <2> QED BY <1>3, <2>1 DEF UnsureBatch, SureLoop, Batch
  <1>4. CASE PublishChannel
    <2>1. PICK ch \in Channels :
             batch' = [left |-> Publishable(ch), published |-> 0, failed |-> 0,
                       sure |-> UpToDate(view)] /\ UNCHANGED slots
      BY <1>4 DEF PublishChannel
    <2>2. ASSUME UpToDate(view), NEW s \in Publishable(ch) PROVE IsLive(s)
      <3>1. s \in ScheduleIds /\ view[s] # Null /\ view[s].status = "DRAFT"
        BY <2>2 DEF Publishable
      <3>2. view[s] = slots[s]
        BY <2>2, <3>1, UpToDateRow
      <3> QED BY <3>1, <3>2 DEF IsLive
    <2> QED BY <2>1, <2>2 DEF SureLoop, IsLive
  <1>5. ASSUME NEW s \in ScheduleIds, BatchPublishes(s) PROVE SureLoop'
    <2>1. /\ batch # Null /\ batch \in Batch
          /\ slots' = [slots EXCEPT ![s] = Result(PlainBody("publish", s), s)]
          /\ batch' = [batch EXCEPT !.left = @ \ {s}, !.published = @ + 1]
      BY <1>5 DEF BatchPublishes, Write, EditorInv, EditorTypeOK
    <2>2. /\ batch'.left = batch.left \ {s} /\ batch'.failed = batch.failed
          /\ batch'.sure = batch.sure /\ batch.left \in SUBSET ScheduleIds
      BY <2>1 DEF Batch
    <2>3. \A t \in ScheduleIds \ {s} : slots'[t] = slots[t]
      BY <2>1 DEF EditorInv, EditorTypeOK, TypeOK
    <2> QED BY <2>1, <2>2, <2>3 DEF SureLoop, IsLive
  <1>6. ASSUME NEW s \in ScheduleIds, BatchFails(s) PROVE SureLoop'
    <2>1. /\ batch # Null /\ batch \in Batch /\ s \in batch.left
          /\ ~Grants(PlainBody("publish", s), s)
          /\ batch' = [batch EXCEPT !.left = @ \ {s}, !.failed = @ + 1]
      BY <1>6 DEF BatchFails, EditorInv, EditorTypeOK
    <2>2. ~IsLive(s) \/ "publish" \notin Allowed
      BY <2>1, PlainExcused DEF IsLive
    <2>3. ~batch.sure \/ "publish" \notin Allowed
      BY <2>1, <2>2 DEF SureLoop
    <2>4. batch'.sure = batch.sure
      BY <2>1 DEF Batch
    <2> QED BY <2>3, <2>4 DEF SureLoop
  <1>7. ASSUME NEW s \in ScheduleIds, BatchUnheard(s) PROVE SureLoop'
    <2>1. /\ batch \in Batch
          /\ batch' = [batch EXCEPT !.left = @ \ {s}, !.failed = @ + 1, !.sure = FALSE]
      BY <1>7 DEF BatchUnheard, EditorInv, EditorTypeOK
    <2>2. ~batch'.sure
      BY <2>1 DEF Batch
    <2> QED BY <2>2 DEF SureLoop
  <1>8. \/ UNCHANGED <<slots, batch>> \/ batch' = Null \/ batch' = UnsureBatch \/ PublishChannel
        \/ \E s \in ScheduleIds : BatchPublishes(s) \/ BatchFails(s) \/ BatchUnheard(s)
    BY GestureFrame DEF EditorNext, Granted, GrantedUnheard, Failed, PointerDown, ForgetHint,
       BatchEnds, Fetch, OthersWrite, editorVars, editor
  <1> QED BY <1>1, <1>2, <1>3, <1>4, <1>5, <1>6, <1>7, <1>8

\* What the page sends from rows that are up to date is refused for none but
\* the reasons that the property names (useScheduleDrag.ts:160 and :183,
\* useScheduleResize.ts:44, ScheduleDetailPanel.tsx:123): for a user who may do
\* it and a place within the fetched window (SchedulesPage.tsx:54-62), its checks
\* are as strict as the conflict check of the API, for every window, every grid,
\* every set of permissions and any number of requests under way.
THEOREM RefusalsAreExplained == EditorSpec => []RefusedOnlyIfOutdated
  <1>1. EditorInit => SureCalls /\ SureLoop
    BY DEF EditorInit, SureCalls, SureLoop
  <1>2. EditorInv /\ SureCalls /\ SureLoop /\ [EditorNext]_editorVars => SureCalls' /\ SureLoop'
    BY StepKeepsSureCalls, StepKeepsSureLoop
  <1>3. SureCalls /\ SureLoop => RefusedOnlyIfOutdated
    BY DEF SureCalls, SureLoop, RefusedOnlyIfOutdated, Excused
  <1> QED BY <1>1, <1>2, <1>3, EditorIsSound, PTL DEF EditorSpec
=============================================================================
