------------------------------- MODULE Lineup -------------------------------
(***************************************************************************)
(* The lineup of a league: which position a slot takes                     *)
(* (src/fhe/core/types.py), how many players of each position the league   *)
(* starts and so who is replacement level (src/fhe/core/league.py), and    *)
(* what a roster still needs (src/fhe/core/draft/roster.py).  A lineup is  *)
(* a sequence of slots.  Fractions are counted in ten-thousandths.         *)
(***************************************************************************)
EXTENDS Integers, Sequences, FiniteSets, FiniteSetsExt

Unit == 10000

Valued     == {"QB", "RB", "WR", "TE"}
Rosterable == Valued \cup {"K", "DEF"}

Eligible(slot) ==
    CASE slot \in Rosterable -> {slot}
      [] slot = "FLEX"       -> {"RB", "WR", "TE"}
      [] slot = "REC_FLEX"   -> {"WR", "TE"}
      [] slot = "WRRB_FLEX"  -> {"WR", "RB"}
      [] slot = "SUPER_FLEX" -> Valued
      [] slot = "BN"         -> Rosterable
      [] OTHER               -> {}

(* A provider's token; one nobody recognises is kept, as a slot for nobody. *)
ParseSlot(token) ==
    CASE token = "BENCH"                    -> "BN"
      [] token \in {"DST", "D/ST"}          -> "DEF"
      [] token \in {"SUPERFLEX", "SFLEX"}   -> "SUPER_FLEX"
      [] token = "WRRB"                     -> "WRRB_FLEX"
      [] token \in Rosterable \cup {"FLEX", "REC_FLEX", "WRRB_FLEX", "SUPER_FLEX",
                                    "BN", "IR", "TAXI"} -> token
      [] OTHER                              -> "UNKNOWN"

FromTokens(tokens) == [n \in DOMAIN tokens |-> ParseSlot(tokens[n])]

IsStarting(slot) == slot \notin {"BN", "IR", "TAXI", "UNKNOWN"}

Starting(lineup) == {n \in DOMAIN lineup : IsStarting(lineup[n])}

(* Starting slots only this position fills. *)
Dedicated(lineup, position) ==
    Cardinality({n \in Starting(lineup) : Eligible(lineup[n]) = {position}})

-----------------------------------------------------------------------------
(* Replacement level.                                                       *)

SuperflexQbShare == 8500

(* `share' of a slot split over positions by their dedicated slots. *)
Distribute(lineup, positions, position, share) ==
    LET total == FoldSet(LAMBDA p, sum : Dedicated(lineup, p) + sum, 0, positions)
    IN  CASE position \notin positions -> 0
          [] position \in positions /\ total = 0 -> share \div Cardinality(positions)
          [] OTHER -> (share * Dedicated(lineup, position)) \div total

FlexShare(lineup, slot, position) ==
    CASE Cardinality(Eligible(slot)) <= 1 -> 0
      [] slot = "SUPER_FLEX" ->
            IF position = "QB" THEN SuperflexQbShare
            ELSE Distribute(lineup, Eligible(slot) \ {"QB"}, position,
                            Unit - SuperflexQbShare)
      [] OTHER -> Distribute(lineup, Eligible(slot), position, Unit)

FlexAllocation(lineup, position) ==
    FoldSet(LAMBDA n, sum : FlexShare(lineup, lineup[n], position) + sum,
            0, Starting(lineup))

(* To the nearest whole number, a half to the even one. *)
Rounded(x) ==
    LET whole == x \div Unit
        half  == 2 * (x % Unit)
    IN  IF half > Unit \/ (half = Unit /\ whole % 2 = 1) THEN whole + 1 ELSE whole

(* The rank, within his position, of the player who is replacement level. *)
ReplacementRank(teams, lineup, position) ==
    Max({1, Rounded(teams * (Unit * Dedicated(lineup, position)
                                + FlexAllocation(lineup, position)))})

-----------------------------------------------------------------------------
(* Roster need.                                                             *)

FillPriority(slot) ==
    CASE slot \in Rosterable                -> 0
      [] slot \in {"REC_FLEX", "WRRB_FLEX"} -> 1
      [] slot = "FLEX"                      -> 2
      [] slot = "SUPER_FLEX"                -> 3
      [] OTHER                              -> 9

(* A bug the priorities are there to prevent: the slots as the league lists *)
(* them.                                                                    *)
AsListed(lineup) == SelectSeq(lineup, IsStarting)

(* The members of S in a strict order. *)
InOrder(S, Before(_, _)) ==
    [n \in 1..Cardinality(S) |->
        CHOOSE x \in S : Cardinality({y \in S : Before(y, x)}) = n - 1]

(* Most restrictive first, in the league's order among equals. *)
FillsBefore(lineup, m, n) ==
    \/ FillPriority(lineup[m]) < FillPriority(lineup[n])
    \/ FillPriority(lineup[m]) = FillPriority(lineup[n]) /\ m < n

InFillOrder(lineup) ==
    LET order == InOrder(Starting(lineup), LAMBDA m, n : FillsBefore(lineup, m, n))
    IN  [k \in 1..Len(order) |-> lineup[order[k]]]

Held(drafted, position) == Cardinality({n \in DOMAIN drafted : drafted[n] = position})

(* Who fills a slot: of the positions with somebody left, one with the most *)
(* left; among equals the first that iterating the set gives, an order that *)
(* hashing fixes for the life of the process.                               *)
Consumed(slot, left, hash) ==
    LET able == {p \in Eligible(slot) : left[p] > 0}
        most == {p \in able : \A q \in able : left[q] <= left[p]}
    IN  CHOOSE p \in most : \A q \in most : hash[p] <= hash[q]

(* One slot of the greedy fill: what is left of the roster, and the slots   *)
(* nobody fills.                                                            *)
FillSlot(before, slot, hash) ==
    IF \A p \in Eligible(slot) : before.left[p] = 0
    THEN [before EXCEPT !.unfilled = Append(@, slot)]
    ELSE [before EXCEPT !.left[Consumed(slot, before.left, hash)] = @ - 1]

Fill(lineup, drafted, hash) ==
    LET slots == InFillOrder(lineup)
        step[n \in 0..Len(slots)] ==
            IF n = 0
            THEN [left |-> [p \in Rosterable |-> Held(drafted, p)], unfilled |-> <<>>]
            ELSE FillSlot(step[n - 1], slots[n], hash)
    IN  step[Len(slots)]

Opens(unfilled, position) == \E n \in DOMAIN unfilled : position \in Eligible(unfilled[n])

(* How urgent a position is, in ten-thousandths: a dedicated slot is open,  *)
(* a flex is, or this would be depth; and a stacked position is redundant.  *)
Need(lineup, drafted, unfilled, position) ==
    LET value == CASE \E n \in DOMAIN unfilled : Eligible(unfilled[n]) = {position} -> 10000
                   [] Opens(unfilled, position) -> 5500
                   [] OTHER                     -> 1500
        stacked == Held(drafted, position) - Dedicated(lineup, position) >= 2
    IN  IF stacked THEN Min({value, 500}) ELSE value

ComputeRosterNeed(lineup, drafted, hash) ==
    LET unfilled == Fill(lineup, drafted, hash).unfilled
    IN  [unfilled |-> unfilled,
         need |-> [p \in Rosterable |-> Need(lineup, drafted, unfilled, p)]]

-----------------------------------------------------------------------------
(* What a roster can cover at all: the largest number of starting slots its *)
(* players can fill together, by Koenig's theorem the smallest number of    *)
(* players and slots that touch every eligible pair.                        *)
Coverable(lineup, drafted) ==
    LET Outside(P)  == Cardinality({n \in DOMAIN drafted : drafted[n] \notin P})
        Touching(P) == Cardinality({n \in Starting(lineup) :
                                       Eligible(lineup[n]) \cap P # {}})
    IN  Min({Outside(P) + Touching(P) : P \in SUBSET {drafted[n] : n \in DOMAIN drafted}})

(* Whether the fill leaves open no slot the roster could cover. *)
FillsAll(lineup, drafted, hash) ==
    Len(Fill(lineup, drafted, hash).unfilled)
        = Cardinality(Starting(lineup)) - Coverable(lineup, drafted)
=============================================================================
