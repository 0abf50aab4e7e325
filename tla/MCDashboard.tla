---------------------------- MODULE MCDashboard ----------------------------
(***************************************************************************)
(* Two channels and three programmes.  On the first channel one programme  *)
(* covers the start of another, and the third one follows the first: an    *)
(* overlap without a gap, or a gap when the first is not there.  On the    *)
(* second there are a programme without a length and a cancelled one.  A   *)
(* list takes one or two pages, and may grow while it is read.             *)
(***************************************************************************)
EXTENDS Dashboard

R(c, start, stop, status) == [channel |-> c, start |-> start, stop |-> stop, status |-> status]

\* Written while the lists are read: one that goes before all others.
MCRows == {R(1, 0, 3, "DRAFT")}

StoredRows ==
    MCRows \cup {R(1, 1, 2, "DRAFT"), R(1, 3, 4, "PUBLISHED"),
                R(2, 2, 2, "DRAFT"), R(2, 1, 3, "CANCELLED")}

\* Rows are created in the order of their ids; no two are the same.
MCTables ==
    {t \in [Ids -> StoredRows \cup {Null}] :
        \A s, u \in Ids : s < u /\ t[u] # Null => t[s] \notin {t[u], Null}}
=============================================================================
