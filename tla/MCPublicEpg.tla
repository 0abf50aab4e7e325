---------------------------- MODULE MCPublicEpg ----------------------------
(* Instances of PublicEpg for the model checker.                           *)
EXTENDS PublicEpg, TLC

\* One slot of one second on any channel.
OneSlot ==
    {[channel |-> c, start |-> 0, stop |-> Null, duration |-> 1, autoSnap |-> FALSE] :
        c \in Channels}

NoChange ==
    [channel |-> Null, start |-> Null, stop |-> Null, duration |-> Null, status |-> Null]

\* A move to another channel, and a publication taken back.
Moves == {[NoChange EXCEPT !.channel = c] : c \in Channels}
MovesAndDrafts == Moves \cup {[NoChange EXCEPT !.status = "DRAFT"]}

Interchangeable ==
    Permutations(Handlers) \cup Permutations(ScheduleIds)
      \cup Permutations(Channels) \cup Permutations(Readers)
=============================================================================
