--------------------------- MODULE ScheduleRules ---------------------------
(***************************************************************************)
(* The pure rules of the schedule domain: what the validation, overlap,    *)
(* auto-snap and gap services of apps/api/src/modules/schedules compute    *)
(* from a slot and from the schedules of one channel.  A slot is a record  *)
(* with the fields start, stop and duration, in seconds; the validation    *)
(* floors the difference of two timestamps to seconds, so a time of the    *)
(* model is a whole second.                                                *)
(***************************************************************************)
EXTENDS Integers

\* findOverlaps: half-open intervals, startTime < stop and stopTime > start.
Overlaps(a, b) == a.start < b.stop /\ a.stop > b.start

\* validateTimeRange
ValidRange(a) == a.start < a.stop

\* validateDuration
ValidDuration(a) == a.duration > 0

\* validateDurationMatchesRange
DurationMatchesRange(a) == a.stop - a.start = a.duration

\* What create, update and publish all demand of the slot they work on.
WellFormed(a) == ValidRange(a) /\ ValidDuration(a) /\ DurationMatchesRange(a)

Latest(times) == CHOOSE t \in times : \A u \in times : u <= t

\* findPreviousSchedule: among slots (a set), those over by time t.
EndedBy(slots, t) == {a \in slots : a.stop <= t}

\* Mutant: the operands of ?? are swapped and the requested start wins.
SnapStartAsRequested(slots, t) == t

\* resolveAutoSnap: the start moves back to the end of the last slot that is
\* over by then, however long ago that was; without one it stays.
SnapStart(slots, t) ==
    IF EndedBy(slots, t) = {} THEN t
    ELSE Latest({a.stop : a \in EndedBy(slots, t)})

\* detectGaps: the warning GAP_BEFORE for a slot placed among the others.
GapBefore(slots, a) ==
    /\ EndedBy(slots, a.start) # {}
    /\ Latest({b.stop : b \in EndedBy(slots, a.start)}) < a.start
=============================================================================
