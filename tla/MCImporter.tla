---------------------------- MODULE MCImporter ----------------------------
(* Instances of Importer for the model checker.                            *)
EXTENDS Importer, TLC

CONSTANTS c1, c2, e1, e2, e3, title

\* Two mapped channels and an identifier nobody knows.
EveryEpgId == {e1, e2, e3}
Known == (e1 :> c1) @@ (e2 :> c2) @@ (e3 :> Null)

Programme(epgId, start, stop, duration) ==
    [epgId |-> epgId, title |-> title, start |-> start, stop |-> stop, duration |-> duration]

\* Every row of an hour of two seconds whose stop, if it has one, agrees with
\* its duration, if it has one.
ConsistentRows ==
    {r \in FileRow :
        /\ r.stop # Null /\ r.duration # Null => r.stop - r.start = r.duration
        /\ r.stop = Null /\ r.duration # Null => r.start + r.duration \in Times}

\* Files of one programme in every format.
SingleRowFiles == {[source |-> f, rows |-> <<r>>] : f \in Formats, r \in ConsistentRows}

\* Guides of two programmes of a second each that do not contradict each other.
TwoRowFiles ==
    LET shows == {Programme(e, t, t + 1, Null) : e \in EveryEpgId, t \in {0, 1}} IN
    {[source |-> "XMLTV", rows |-> <<r, q>>] :
        <<r, q>> \in {pair \in shows \X shows :
                       pair[1].epgId # pair[2].epgId \/ pair[1].start # pair[2].start}}

SoundFiles == SingleRowFiles \cup TwoRowFiles

ASSUME FilesAreSound == ProgrammesApart /\ DurationsAgree

OneSlot == [channel : {c1}, start : {0}, stop : {Null}, duration : {1}, autoSnap : {FALSE}]
NoBodies == {}

Interchangeable == Permutations(ScheduleIds)
===========================================================================
