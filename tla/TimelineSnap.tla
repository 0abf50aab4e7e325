---------------------------- MODULE TimelineSnap ----------------------------
(***************************************************************************)
(* Where the schedule editor of the admin web puts a programme that is     *)
(* dropped or resized near others (features/schedule/utils/                *)
(* timeline-snap.util.ts and schedule-position.util.ts): on a grid, or     *)
(* against the edge of a neighbour that is close enough.  The neighbours   *)
(* are a set of slots of one channel, the moved programme not among them.  *)
(***************************************************************************)
EXTENDS ScheduleRules

CONSTANTS
    Minute,         \* the seconds of a minute
    Grid,           \* the seconds between two lines of the grid, 5 minutes
    SnapMinutes     \* how many minutes away an edge still attracts, 10

ASSUME SnapAssumption ==
    /\ Minute \in Nat \ {0}
    /\ Grid \in Nat \ {0}
    /\ SnapMinutes \in Nat
    /\ Grid <= SnapMinutes * Minute

Distance(t, u) == IF t < u THEN u - t ELSE t - u

Earliest(times) == CHOOSE t \in times : \A u \in times : t <= u

\* snapTime: Math.round of the number of grid lines, halves up.
OnGrid(t) == ((2 * t + Grid) \div (2 * Grid)) * Grid

\* diffMinutes: dayjs drops the part of a minute that is left over.
MinutesApart(t, u) == Distance(t, u) \div Minute

\* The threshold of applyScheduleSnap.
Near(t, u) == MinutesApart(t, u) <= SnapMinutes

\* The threshold of applyEdgeSnap, which counts milliseconds.
Within(t, u) == Distance(t, u) <= SnapMinutes * Minute

\* findNearestEdge: the first of the nearest ones in the order of the list,
\* which is that of the start times.
Nearest(edges, t) ==
    CHOOSE e \in edges :
        \A f \in edges :
            \/ Distance(e, t) < Distance(f, t)
            \/ Distance(e, t) = Distance(f, t) /\ e <= f

\* applyScheduleSnap: where a programme of length d dropped at t goes.  The
\* neighbours are sought around its place on the grid; the next one is
\* measured from the place after the snap to the previous one, and wins.
ScheduleSnap(others, t, d) ==
    LET onGrid == OnGrid(t)
        before == {a.stop : a \in EndedBy(others, onGrid)}
        after  == {a.start : a \in {b \in others : b.start >= onGrid + d}}
        toPrevious == before # {} /\ Near(Latest(before), onGrid)
        start  == IF toPrevious THEN Latest(before) ELSE onGrid
        toNext == after # {} /\ Near(Earliest(after), start + d)
    IN [start   |-> IF toNext THEN Earliest(after) - d ELSE start,
        snapped |-> toPrevious \/ toNext]

\* handleDragEnd: the drop starts from the place where the ghost was shown
\* and snaps once more.
DropPlace(others, t, d) ==
    ScheduleSnap(others, ScheduleSnap(others, t, d).start, d)

\* getDurationSeconds is never negative.
Length(start, stop) == IF stop < start THEN 0 ELSE stop - start

\* The second half of applyEdgeSnap and of applyResizeEdgeSnap: the stop goes
\* to the nearest start of another programme, be it before the own start.
StopSnap(others, start, d) ==
    LET edges == {e \in {a.start : a \in others} : Within(e, start + d)}
        stop  == IF edges = {} THEN start + d ELSE Nearest(edges, start + d)
    IN [start |-> start, stop |-> stop,
        duration |-> IF edges = {} THEN d ELSE Length(start, stop)]

\* applyEdgeSnap
EdgeSnap(others, t, d) ==
    LET edges == {e \in {a.stop : a \in others} : Within(e, t)}
    IN StopSnap(others, IF edges = {} THEN t ELSE Nearest(edges, t), d)

\* widthToDuration: on the grid, one step at least.
GridDuration(d) == IF OnGrid(d) < Grid THEN Grid ELSE OnGrid(d)

\* applyResizeEdgeSnap
ResizeSnap(others, start, d) == StopSnap(others, start, GridDuration(d))
=============================================================================
