------------------------------ MODULE Timeline ------------------------------
(***************************************************************************)
(* What the schedule module promises: a table of slots in which an edit    *)
(* is one step that is granted only if it leaves the channel free of       *)
(* double bookings.  No request, no second reader, no version, no audit    *)
(* row: those belong to ScheduleService, which is shown to implement this  *)
(* specification when its calls do not run into each other.                *)
(***************************************************************************)
EXTENDS ScheduleRules

CONSTANTS
    ScheduleIds,    \* the names a slot can have
    Channels,       \* the TV channels
    Horizon,        \* the last second of the modelled day
    Null            \* the value of a name that no slot has

VARIABLE slots      \* slots[s] is the slot named s, or Null

Times == 0 .. Horizon
Durations == 1 .. Horizon
Statuses == {"DRAFT", "PUBLISHED", "CANCELLED"}

Slot == [channel : Channels, start : Times, stop : Times,
         duration : Durations, status : Statuses]

TypeOK == slots \in [ScheduleIds -> Slot \cup {Null}]

IsLive(s) == slots[s] # Null /\ slots[s].status # "CANCELLED"

\* Slot a can be booked under the name s: it is well formed and no other
\* slot that is not cancelled overlaps it on its channel.
Bookable(s, a) ==
    /\ WellFormed(a)
    /\ \A t \in ScheduleIds \ {s} :
         IsLive(t) /\ slots[t].channel = a.channel => ~Overlaps(slots[t], a)

Init == slots = [s \in ScheduleIds |-> Null]

\* A new slot starts as a draft.
Book(s) ==
    /\ slots[s] = Null
    /\ \E a \in Slot :
         /\ a.status = "DRAFT"
         /\ Bookable(s, a)
         /\ slots' = [slots EXCEPT ![s] = a]

\* An edit moves a live slot and may take back its publication or cancel it;
\* it never publishes it.
Edit(s) ==
    /\ IsLive(s)
    /\ \E a \in Slot :
         /\ a.status = "PUBLISHED" => slots[s].status = "PUBLISHED"
         /\ Bookable(s, a)
         /\ slots' = [slots EXCEPT ![s] = a]

Publish(s) ==
    /\ IsLive(s)
    /\ Bookable(s, slots[s])
    /\ slots' = [slots EXCEPT ![s].status = "PUBLISHED"]

Cancel(s) ==
    /\ slots[s] # Null
    /\ slots' = [slots EXCEPT ![s].status = "CANCELLED"]

Next == \E s \in ScheduleIds : Book(s) \/ Edit(s) \/ Publish(s) \/ Cancel(s)

Spec == Init /\ [][Next]_slots
=============================================================================
