-------------------------- MODULE MCTimelineEditor --------------------------
(***************************************************************************)
(* An instance of TimelineEditor: eight seconds, two to the minute, of     *)
(* which the page fetches the first three; a grid of three that divides    *)
(* neither, edges that attract from two minutes away, further than a step  *)
(* of the grid as in the code, programmes that end off the grid, and a     *)
(* page of two rows for three of them.                                     *)
(***************************************************************************)
EXTENDS TimelineEditor, TLC

CONSTANTS c1, s1, s2, s3, k1

Filled(start, d, status) == [start |-> start, duration |-> d, status |-> status]

\* Across the grid, and shorter than its step.
FewOffers ==
    {[channel |-> c1, start |-> 1, stop |-> 4, duration |-> 3, status |-> "DRAFT"],
     [channel |-> c1, start |-> 0, stop |-> 1, duration |-> 1, status |-> "DRAFT"]}

\* Beyond the window.
FewForms == {Filled(3, 5, "DRAFT"), Filled(3, 5, "PUBLISHED")}

Symmetric == Permutations(ScheduleIds)
=============================================================================
