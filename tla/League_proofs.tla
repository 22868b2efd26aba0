---------------------------- MODULE League_proofs ----------------------------
(***************************************************************************)
(* The pick order of a league of any size: every pick number belongs to    *)
(* exactly one seat in exactly one round, the round RoundOf names, and the *)
(* simulator's search finds that seat.                                     *)
(***************************************************************************)
EXTENDS League, WellFoundedInduction, TLAPS

\* A whole number of rounds apart is at least one round apart: what turns "same
\* pick" into "same round".
LEMMA WholeRounds ==
    ASSUME NEW T \in Nat, NEW q \in Nat, NEW r \in Nat, q < r
    PROVE  q * T + T <= r * T
<1> DEFINE k == r - (q + 1)
<1>1. k \in Nat /\ r = (q + 1) + k
  OBVIOUS
<1>2. r * T = (q + 1) * T + k * T
  BY <1>1
<1>3. k * T >= 0
  BY <1>1
<1> QED
  BY <1>2, <1>3

LEMMA RoundsDoNotOverlap ==
    ASSUME NEW T \in Nat, NEW q \in Nat, NEW r \in Nat,
           NEW x \in 1..T, NEW y \in 1..T, q * T + x = r * T + y
    PROVE  q = r /\ x = y
<1>1. q * T \in Int /\ r * T \in Int
  OBVIOUS
<1>2. q < r => q * T + T <= r * T
  BY WholeRounds
<1>3. r < q => r * T + T <= q * T
  BY WholeRounds
<1>4. q = r
  BY <1>1, <1>2, <1>3
<1> QED
  BY <1>1, <1>4

LEMMA DivisionInRounds ==
    ASSUME NEW T \in Nat \ {0}, NEW p \in Nat \ {0}
    PROVE  /\ (p - 1) \div T \in Nat
           /\ \E x \in 1..T : p = ((p - 1) \div T) * T + x
<1> DEFINE q == (p - 1) \div T
           m == (p - 1) % T
<1>1. q \in Int /\ m \in 0..(T - 1)
  OBVIOUS
<1>2. p - 1 = T * q + m
  OBVIOUS
<1>3. q >= 0
  BY <1>1, <1>2
<1>4. m + 1 \in 1..T /\ p = q * T + (m + 1)
  BY <1>1, <1>2
<1> QED
  BY <1>1, <1>3, <1>4
LEMMA TotalPicksIsNat ==
    ASSUME NEW L \in LeagueSettings
    PROVE  /\ TotalPicks(L) \in Nat \ {0}
           /\ L.teams \in Nat \ {0} /\ L.rounds \in Nat \ {0}
<1>1. L.teams \in 2..32 /\ L.rounds \in Nat \ {0}
  BY DEF LeagueSettings
<1>2. \A a, b \in Nat \ {0} : a * b \in Nat \ {0}
  OBVIOUS
<1> QED
  BY <1>1, <1>2 DEF TotalPicks

\* The place of a seat in a round, counted from the first pick of the round, in
\* the direction the round is drafted in.
Place(L, slot, round) ==
    IF L.type = "SNAKE" /\ round % 2 = 0 THEN L.teams - slot + 1 ELSE slot

LEMMA PlaceIsASeat ==
    ASSUME NEW L \in LeagueSettings, NEW s \in Seats(L), NEW r \in Nat \ {0}
    PROVE  /\ Place(L, s, r) \in Seats(L)
           /\ Place(L, Place(L, s, r), r) = s
           /\ PickNumber(L, s, r) = (r - 1) * L.teams + Place(L, s, r)
  BY TotalPicksIsNat DEF Place, Seats, PickNumber

\* pick_number gives every pick to one seat and one round only: two seats, or one
\* seat in two rounds, never share an overall pick.
THEOREM PickNumberIsInjective ==
    ASSUME NEW L \in LeagueSettings,
           NEW s1 \in Seats(L), NEW r1 \in 1..L.rounds,
           NEW s2 \in Seats(L), NEW r2 \in 1..L.rounds,
           PickNumber(L, s1, r1) = PickNumber(L, s2, r2)
    PROVE  s1 = s2 /\ r1 = r2
<1>0. L.teams \in Nat \ {0} /\ L.rounds \in Nat \ {0}
  BY TotalPicksIsNat
<1> DEFINE x == Place(L, s1, r1)
           y == Place(L, s2, r2)
<1>1. /\ x \in Seats(L) /\ Place(L, x, r1) = s1 /\ PickNumber(L, s1, r1) = (r1 - 1) * L.teams + x
      /\ y \in Seats(L) /\ Place(L, y, r2) = s2 /\ PickNumber(L, s2, r2) = (r2 - 1) * L.teams + y
  BY <1>0, PlaceIsASeat
<1>2. r1 - 1 = r2 - 1 /\ x = y
  <2> HIDE DEF x, y
  <2>1. x \in 1..L.teams /\ y \in 1..L.teams
    BY <1>1 DEF Seats
  <2>2. r1 - 1 \in Nat /\ r2 - 1 \in Nat /\ L.teams \in Nat
    BY <1>0
  <2>3. (r1 - 1) * L.teams + x = (r2 - 1) * L.teams + y
    BY <1>1
  <2> QED
    BY <2>1, <2>2, <2>3, RoundsDoNotOverlap
<1>3. r1 = r2
  BY <1>0, <1>2
<1> QED
  BY <1>1, <1>2, <1>3

\* Every pick of every seat is a pick of the draft.
THEOREM PickNumberIsInRange ==
    ASSUME NEW L \in LeagueSettings, NEW s \in Seats(L), NEW r \in 1..L.rounds
    PROVE  PickNumber(L, s, r) \in 1..TotalPicks(L)
<1>0. L.teams \in Nat \ {0} /\ L.rounds \in Nat \ {0}
  BY TotalPicksIsNat
<1>1. /\ Place(L, s, r) \in 1..L.teams
      /\ PickNumber(L, s, r) = (r - 1) * L.teams + Place(L, s, r)
  BY <1>0, PlaceIsASeat DEF Seats
<1>2. (r - 1) * L.teams + L.teams <= L.rounds * L.teams
  <2>1. r - 1 \in Nat /\ r - 1 < L.rounds
    BY <1>0
  <2> QED
    BY <1>0, <2>1, WholeRounds
<1>3. (r - 1) * L.teams >= 0 /\ (r - 1) * L.teams \in Int /\ L.rounds * L.teams \in Int
  BY <1>0
<1> QED
  BY <1>0, <1>1, <1>2, <1>3 DEF TotalPicks

\* No pick of the draft is without an owner: the seat at the right place of round
\* RoundOf has it, so the simulator's search never comes back empty.
THEOREM EveryPickIsOwned ==
    ASSUME NEW L \in LeagueSettings, NEW p \in 1..TotalPicks(L)
    PROVE  /\ RoundOf(L, p) \in 1..L.rounds
           /\ \E s \in Seats(L) : PickNumber(L, s, RoundOf(L, p)) = p
<1>0. L.teams \in Nat \ {0} /\ L.rounds \in Nat \ {0} /\ TotalPicks(L) \in Nat
  BY TotalPicksIsNat
<1> DEFINE q == (p - 1) \div L.teams
<1>1. /\ q \in Nat
      /\ \E x \in 1..L.teams : p = q * L.teams + x
  <2>1. p \in Nat \ {0}
    BY <1>0
  <2> QED
    BY <1>0, <2>1, DivisionInRounds
<1>2. PICK x \in 1..L.teams : p = q * L.teams + x
  BY <1>1
<1> HIDE DEF q
<1>3. q < L.rounds
  <2> SUFFICES ASSUME L.rounds <= q PROVE FALSE
    BY <1>0, <1>1
  <2>1. L.rounds * L.teams <= q * L.teams
    <3>1. CASE L.rounds = q
      BY <3>1, <1>0, <1>1
    <3>2. CASE L.rounds < q
      <4>1. L.rounds * L.teams + L.teams <= q * L.teams
        BY <3>2, <1>0, <1>1, WholeRounds
      <4>2. L.rounds * L.teams \in Int /\ q * L.teams \in Int
        BY <1>0, <1>1
      <4> QED
        BY <4>1, <4>2, <1>0
    <3> QED
      BY <3>1, <3>2, <1>0, <1>1
  <2>2. L.rounds * L.teams \in Int /\ q * L.teams \in Int
    BY <1>0, <1>1
  <2> QED
    BY <2>1, <2>2, <1>0, <1>2 DEF TotalPicks
<1>4. RoundOf(L, p) = q + 1 /\ q + 1 \in 1..L.rounds
  BY <1>0, <1>1, <1>3 DEF RoundOf, q
<1>5. /\ Place(L, x, q + 1) \in Seats(L)
      /\ PickNumber(L, Place(L, x, q + 1), q + 1) = q * L.teams + x
  <2>1. x \in Seats(L) /\ q + 1 \in Nat \ {0}
    BY <1>1, <1>2 DEF Seats
  <2>2. Place(L, x, q + 1) \in Seats(L) /\ Place(L, Place(L, x, q + 1), q + 1) = x
    BY <2>1, PlaceIsASeat
  <2>3. PickNumber(L, Place(L, x, q + 1), q + 1)
          = ((q + 1) - 1) * L.teams + Place(L, Place(L, x, q + 1), q + 1)
    BY <2>1, <2>2, PlaceIsASeat
  <2> QED
    BY <2>2, <2>3, <1>1
<1> QED
  BY <1>2, <1>4, <1>5
\* The seat the simulator puts on the clock is the owner of the pick, and no other
\* seat is.
THEOREM ClockFindsTheOwner ==
    ASSUME NEW L \in LeagueSettings, NEW p \in 1..TotalPicks(L)
    PROVE  /\ SlotOnTheClock(L, p) \in Seats(L)
           /\ \A s \in Seats(L), r \in 1..L.rounds :
                 PickNumber(L, s, r) = p <=> s = SlotOnTheClock(L, p) /\ r = RoundOf(L, p)
<1> DEFINE owners == {s \in Seats(L) : PickNumber(L, s, RoundOf(L, p)) = p}
<1>1. RoundOf(L, p) \in 1..L.rounds
  BY EveryPickIsOwned
<1>2. PICK o \in Seats(L) : PickNumber(L, o, RoundOf(L, p)) = p
  BY EveryPickIsOwned
<1>3. owners = {o}
  BY <1>1, <1>2, PickNumberIsInjective
<1>4. Min({o}) = o
  BY <1>2 DEF Min, Seats
<1>5. SlotOnTheClock(L, p) = o
  BY <1>3, <1>4 DEF SlotOnTheClock
<1>6. ASSUME NEW s \in Seats(L), NEW r \in 1..L.rounds, PickNumber(L, s, r) = p
      PROVE  s = o /\ r = RoundOf(L, p)
  BY <1>1, <1>2, <1>6, PickNumberIsInjective
<1> QED
  BY <1>2, <1>5, <1>6

\* A set of naturals with a member has a least one, and that is what Min chooses.
LEMMA MinOfNaturals ==
    ASSUME NEW S \in SUBSET Nat, S # {}
    PROVE  Min(S) \in S /\ \A y \in S : Min(S) <= y
<1>1. PICK x \in S : \A y \in S : ~ (<<y, x>> \in OpToRel(<, Nat))
  BY NatLessThanWellFounded, WFMin
<1>2. \A y \in S : x <= y
  <2> SUFFICES ASSUME NEW y \in S, y < x PROVE FALSE
    OBVIOUS
  <2>1. <<y, x>> \in OpToRel(<, Nat)
    BY DEF OpToRel
  <2> QED
    BY <1>1, <2>1
<1> QED
  BY <1>2 DEF Min
=============================================================================
