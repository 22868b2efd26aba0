------------------------------- MODULE League -------------------------------
(***************************************************************************)
(* Draft geometry of fhe.core.league.LeagueSettings: which seat makes      *)
(* which overall pick.  Everything here is a pure function of a league, a  *)
(* record with the fields the pick order depends on.  `rounds' is the      *)
(* value of total_rounds: the configured rounds or, by default, the number *)
(* of roster slots.                                                        *)
(***************************************************************************)
EXTENDS Integers, FiniteSetsExt

DraftTypes == {"SNAKE", "LINEAR", "AUCTION"}

\* The leagues __post_init__ accepts.
LeagueSettings == [teams : 2..32, rounds : Nat \ {0}, type : DraftTypes]

\* pick_number raises for an auction, so the pick order exists only for these.
Ordered(L) == L.type # "AUCTION"

\* Python's None, where a pick number or a distance is due: both are naturals.
None == -1

TotalPicks(L) == L.rounds * L.teams

Seats(L) == 1..L.teams

\* Mutated: the reversed seat is counted from zero.
SnakeOffByOne(L, slot, round) ==
    (round - 1) * L.teams
        + IF L.type = "SNAKE" /\ round % 2 = 0 THEN L.teams - slot ELSE slot

\* A snake reverses on even rounds.
PickNumber(L, slot, round) ==
    (round - 1) * L.teams
        + IF L.type = "SNAKE" /\ round % 2 = 0 THEN L.teams - slot + 1 ELSE slot

\* One pick per round, in round order.
PicksForSlot(L, slot) == [r \in 1..L.rounds |-> PickNumber(L, slot, r)]

\* Mutated: the scan accepts `after' itself.
NextPickInclusive(L, slot, after) ==
    LET picks == PicksForSlot(L, slot)
        later == {r \in DOMAIN picks : picks[r] >= after}
    IN  IF later = {} THEN None ELSE picks[Min(later)]

\* The scan stops at the first round whose pick lies after `after'.
NextPickForSlot(L, slot, after) ==
    LET picks == PicksForSlot(L, slot)
        later == {r \in DOMAIN picks : picks[r] > after}
    IN  IF later = {} THEN None ELSE picks[Min(later)]

\* Mutated: the current pick is not a candidate.
PicksUntilTurnAfter(L, slot, current) ==
    LET next == NextPickForSlot(L, slot, current)
    IN  IF next = None THEN None ELSE next - current

PicksUntilNextTurn(L, slot, current) ==
    LET next == NextPickForSlot(L, slot, current - 1)
    IN  IF next = None THEN None ELSE next - current

\* Mutated: pick numbers counted from zero.
RoundFromZero(L, pick) == pick \div L.teams + 1

RoundOf(L, pick) == (pick - 1) \div L.teams + 1

\* MockDraftSimulator finds the seat on the clock by trying every seat.
SlotOnTheClock(L, pick) ==
    LET owners == {s \in Seats(L) : PickNumber(L, s, RoundOf(L, pick)) = pick}
    IN  IF owners = {} THEN None ELSE Min(owners)
=============================================================================
