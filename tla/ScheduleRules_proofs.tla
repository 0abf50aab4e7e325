------------------------- MODULE ScheduleRules_proofs -------------------------
(***************************************************************************)
(* What the searches of ScheduleRules return: the latest of some times is  *)
(* one of them, and auto-snap neither leaves the day nor spoils a place    *)
(* that was free.                                                          *)
(***************************************************************************)
EXTENDS ScheduleRules, WellFoundedInduction, TLAPS

\* A set of natural numbers has a least one.
LEMMA LeastNat ==
    ASSUME NEW T \in SUBSET Nat, T # {}
    PROVE  \E x \in T : \A y \in T : x <= y
  <1> DEFINE R == {p \in Nat \X Nat : p[1] < p[2]}
  <1>1. R = OpToRel(<, Nat)
    BY DEF OpToRel
  <1>2. IsWellFoundedOn(R, Nat)
    BY <1>1, NatLessThanWellFounded
  <1>3. \A x, y \in Nat : y < x => <<y, x>> \in R
    OBVIOUS
  <1> HIDE DEF R
  <1>4. PICK x \in T : \A y \in T : <<y, x>> \notin R
    BY <1>2, WFMin
  <1>5. ASSUME NEW y \in T PROVE x <= y
    <2>1. x \in Nat /\ y \in Nat
      OBVIOUS
    <2>2. ~(y < x)
      BY <1>3, <1>4, <2>1
    <2> QED BY <2>1, <2>2
  <1> QED BY <1>5

\* Latest finds the latest of some times of a day, whatever the day's length:
\* the search of findPreviousSchedule and resolveAutoSnap has an answer.
LEMMA LatestIsMaximum ==
    ASSUME NEW S, NEW b \in Nat, S \subseteq 0 .. b, S # {}
    PROVE  Latest(S) \in S /\ \A u \in S : u <= Latest(S)
  <1> DEFINE T == {n \in Nat : \E s \in S : n = b - s}
  <1>1. \A s \in S : s \in Nat /\ s <= b
    OBVIOUS
  <1>2. T # {} /\ T \in SUBSET Nat
    <2>1. PICK s \in S : TRUE
      OBVIOUS
    <2>2. b - s \in T
      BY <1>1
    <2> QED BY <2>2
  <1>3. PICK x \in T : \A y \in T : x <= y
    BY <1>2, LeastNat
  <1>4. PICK s \in S : x = b - s
    BY <1>3
  <1>5. \A u \in S : b - u \in T
    BY <1>1
  <1>6. \A u \in S : u <= s
    BY <1>1, <1>3, <1>4, <1>5
  <1> QED BY <1>6 DEF Latest

\* Auto-snap (resolveAutoSnap) stays within the day, never moves a start later,
\* and leaves a place free that was free: what overlaps the snapped place
\* overlapped the requested one.
LEMMA SnapStartKeepsFree ==
    ASSUME NEW S, NEW b \in Nat, NEW t \in 0 .. b, NEW d \in Int,
           \A x \in S : x.stop \in 0 .. b /\ x.start \in Int
    PROVE  /\ SnapStart(S, t) \in 0 .. b
           /\ SnapStart(S, t) <= t
           /\ \A x \in S :
                x.start < SnapStart(S, t) + d /\ x.stop > SnapStart(S, t)
                    => x.start < t + d /\ x.stop > t
  <1> DEFINE E == EndedBy(S, t)
             stops == {a.stop : a \in E}
  <1>1. CASE E = {}
    BY <1>1 DEF SnapStart
  <1>2. CASE E # {}
    <2>1. stops \subseteq 0 .. b /\ stops # {}
      BY <1>2 DEF EndedBy
    <2>2. Latest(stops) \in stops /\ \A u \in stops : u <= Latest(stops)
      BY <2>1, LatestIsMaximum
    <2>3. SnapStart(S, t) = Latest(stops)
      BY <1>2 DEF SnapStart
    <2>4. Latest(stops) <= t /\ Latest(stops) \in 0 .. b
      BY <2>1, <2>2 DEF EndedBy
    <2>5. ASSUME NEW x \in S,
                 x.start < Latest(stops) + d, x.stop > Latest(stops)
          PROVE  x.start < t + d /\ x.stop > t
      <3>1. x.stop \in Int /\ x.start \in Int
        OBVIOUS
      <3>2. x.stop > t
        <4>1. SUFFICES ASSUME x.stop <= t PROVE FALSE
          BY <3>1
        <4>2. x \in E
          BY <4>1 DEF EndedBy
        <4>3. x.stop <= Latest(stops)
          BY <2>2, <4>2
        <4> QED BY <2>4, <2>5, <3>1, <4>3
      <3> QED BY <2>4, <2>5, <3>1, <3>2
    <2> QED BY <2>3, <2>4, <2>5
  <1> QED BY <1>1, <1>2
=============================================================================
