------------------------- MODULE MCScheduleService -------------------------
(* Instances of ScheduleService for the model checker.                     *)
EXTENDS ScheduleService, TLC

Body(channel, start, stop, duration, autoSnap) ==
    [channel |-> channel, start |-> start, stop |-> stop,
     duration |-> duration, autoSnap |-> autoSnap]

Patch(channel, start, stop, duration, status) ==
    [channel |-> channel, start |-> start, stop |-> stop,
     duration |-> duration, status |-> status]

\* All bodies with a start, and a duration or a stop, snapped or not.
AllCreateDtos ==
    {b \in CreateDto : b.duration # Null \/ b.stop # Null}

\* Every subset of the fields of a body, with every value.
AllUpdateDtos == UpdateDto

\* Enough to collide, to touch and to snap.
FewCreateDtos ==
    {Body(c, t, Null, d, FALSE) : c \in Channels, t \in {0, 1}, d \in {1, 2}}

\* Each field alone.
FewUpdateDtos ==
    {Patch(Null, t, Null, Null, Null) : t \in {0, 1}}
      \cup {Patch(Null, Null, t, Null, Null) : t \in {2}}
      \cup {Patch(Null, Null, Null, d, Null) : d \in {1}}
      \cup {Patch(Null, Null, Null, Null, x) : x \in Statuses}

Symmetric == Permutations(Handlers) \cup Permutations(ScheduleIds) \cup Permutations(Channels)
=============================================================================
