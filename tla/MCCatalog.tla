----------------------------- MODULE MCCatalog -----------------------------
(***************************************************************************)
(* Instances of Catalog: one channel on air and one to be created, one     *)
(* epgId for both of them to want, bodies that name the asset or change    *)
(* its URLs.                                                               *)
(***************************************************************************)
EXTENDS Catalog, TLC

CONSTANTS h1, h2, r1, c1, c2, a1, a2, s1, e1, n1, n2

OneScheduleChannel == s1 :> c1

\* POST and PUT with the epgId, PUT that takes it back or turns the channel on.
EpgIdBodies ==
    {[epgId |-> e1, active |-> Absent], [epgId |-> Null, active |-> Absent],
     [epgId |-> Absent, active |-> TRUE]}

OneUrl == [u \in Urls |-> IF u = "hls" THEN "given" ELSE "absent"]
NamingBodies ==
    {[name |-> n1, urls |-> OneUrl],
     [name |-> n2, urls |-> [u \in Urls |-> "absent"]]}

\* Every way to treat the two URLs.
UrlBodies == [name : {n1, Absent}, urls : [Urls -> {"given", "null", "absent"}]]

Symmetry == Permutations({h1, h2})
=============================================================================
