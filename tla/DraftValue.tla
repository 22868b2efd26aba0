----------------------------- MODULE DraftValue -----------------------------
(***************************************************************************)
(* What the draft engine knows of one player: his value over replacement   *)
(* (core/draft/vorp.py), his tier and how scarce his position is           *)
(* (scarcity.py), whether he lasts until the next turn (survival.py), and  *)
(* the evidence about his role (core/usage.py, depth.py, rookies.py,       *)
(* schedule.py).  A pool is a sequence of players.  Points and picks are   *)
(* counted in hundredths, fractions in ten-thousandths, rounded down where *)
(* the code rounds to the nearest.                                         *)
(***************************************************************************)
EXTENDS Lineup, TLC

CONSTANTS
    Unknown,        \* Python's None: a datum nobody has
    NormalTail(_, _, _) \* the normal survival function: math.erfc, in ten-thousandths

HasProjection(p) == p.projected # Unknown

Clamp(low, high, x) == Max({low, Min({high, x})})

-----------------------------------------------------------------------------
(* Value over replacement.                                                  *)

(* The projections of a position, the largest first. *)
Projected(pool, position) ==
    LET theirs == {n \in DOMAIN pool : pool[n].position = position /\ HasProjection(pool[n])}
        More(m, n) == \/ pool[m].projected > pool[n].projected
                      \/ pool[m].projected = pool[n].projected /\ m < n
        order == InOrder(theirs, More)
    IN  [k \in DOMAIN order |-> pool[order[k]].projected]

(* The projection at the league's replacement rank, the worst there is when *)
(* the pool is shallower than that.                                         *)
ReplacementPoints(pool, teams, lineup, position) ==
    LET ranked == Projected(pool, position)
    IN  IF ranked = <<>> THEN 0
        ELSE ranked[Min({ReplacementRank(teams, lineup, position), Len(ranked)})]

ValueOver(points, p) ==
    IF HasProjection(p) THEN p.projected - points[p.position] ELSE Unknown

BestValueIn(pool, points) ==
    LET values == {ValueOver(points, pool[n]) : n \in DOMAIN pool} \ {Unknown}
    IN  IF values = {} THEN 0 ELSE Max(values)

(* The baseline of a pool: replacement level at each position, and the      *)
(* largest value anybody in it has.                                         *)
ComputeReplacementBaseline(pool, teams, lineup) ==
    LET points == [q \in Rosterable |-> ReplacementPoints(pool, teams, lineup, q)]
    IN  [points |-> points, most |-> BestValueIn(pool, points)]

(* The bug the signed range cured: everybody below replacement is worth the *)
(* same nothing.                                                            *)
NormalisedAtZero(value, most) ==
    IF value = Unknown \/ most <= 0 THEN 0 ELSE Clamp(0, Unit, (Unit * value) \div most)

NormaliseVorp(value, most) ==
    IF value = Unknown \/ most <= 0 THEN 0 ELSE Clamp(-Unit, Unit, (Unit * value) \div most)

-----------------------------------------------------------------------------
(* Tiers and scarcity.                                                      *)

MinTierGap     == 400
MaxTieredDepth == 60

(* Twice the median of a sequence of gaps. *)
TwiceMedian(gaps) ==
    LET sorted == SortSeq(gaps, LAMBDA x, y : x < y)
        k == Len(gaps)
    IN  IF k = 0 THEN 0 ELSE sorted[(k + 1) \div 2] + sorted[k \div 2 + 1]

(* A ranking cut into value tiers.  A tier ends where the drop is large,     *)
(* and large against the typical one.                                       *)
TiersOf(ranked) ==
    LET gaps      == [n \in 1..(Len(ranked) - 1) |-> ranked[n] - ranked[n + 1]]
        threshold == Max({MinTierGap, TwiceMedian(gaps)})
        ends      == {n \in DOMAIN gaps : gaps[n] >= threshold} \cup {Len(ranked)}
        starts    == {1} \cup {n + 1 : n \in ends \ {Len(ranked)}}
    IN  IF ranked = <<>> THEN <<>>
        ELSE [t \in 1..Cardinality(ends) |->
                LET first == CHOOSE n \in starts :
                                Cardinality({m \in starts : m < n}) = t - 1
                IN  SubSeq(ranked, first, Min({n \in ends : n >= first}))]

(* The tiers of a position: the projections in each, best first.            *)
BuildTiers(pool, position) ==
    LET everyone == Projected(pool, position)
    IN  TiersOf(SubSeq(everyone, 1, Min({MaxTieredDepth, Len(everyone)})))

Startable(pool, points, positions) ==
    Cardinality({n \in DOMAIN pool :
        /\ pool[n].position \in positions /\ HasProjection(pool[n])
        /\ pool[n].projected > points[pool[n].position]})

(* How fast a position goes: its share of the picks until the next turn,    *)
(* against the size of its best tier.                                       *)
ScarcityOf(pool, points, wait, position) ==
    LET starters == Startable(pool, points, {position})
        all      == Startable(pool, points, Valued)
        tiers    == BuildTiers(pool, position)
        size     == IF tiers = <<>> THEN 0 ELSE Len(tiers[1])
        gone     == IF all = 0 THEN 0 ELSE (100 * wait * starters) \div all
    IN  [starters |-> starters, size |-> size,
         dropoff |-> IF Len(tiers) > 1 THEN tiers[1][size] - tiers[2][1] ELSE Unknown,
         index |-> CASE size > 0                   -> Min({Unit, (100 * gone) \div size})
                     [] size = 0 /\ starters = 0   -> Unit
                     [] OTHER                      -> 0]

ComputeScarcity(pool, points, wait) ==
    [q \in Valued |-> ScarcityOf(pool, points, wait, q)]

-----------------------------------------------------------------------------
(* Survival to the next turn.                                               *)

DefaultSigma(adp) == Clamp(300, 4000, (adp * 32) \div 100)

(* A faller is anchored where he is, with the larger dispersion. *)
Sigma(adp, stdev, anchor) ==
    CASE stdev = Unknown \/ stdev <= 0 -> DefaultSigma(anchor)
      [] stdev # Unknown /\ stdev > 0 /\ anchor > adp -> Max({stdev, DefaultSigma(anchor)})
      [] OTHER -> stdev

(* The chance he is taken at pick k or later, as things are `now'.          *)
Beyond(p, now, k) ==
    LET anchor == Max({p.adp, 100 * now})
    IN  NormalTail(100 * k - 50, anchor, Sigma(p.adp, p.stdev, anchor))

(* The chance he is there at pick `next', given that he is there `now'.     *)
SurvivalProbability(p, now, next) ==
    CASE p.adp = Unknown \/ next = Unknown -> Unknown
      [] p.adp # Unknown /\ next # Unknown /\ next <= now -> Unit
      [] OTHER -> IF Beyond(p, now, now) = 0 THEN Clamp(0, Unit, Beyond(p, now, next))
                  ELSE Clamp(0, Unit, (Unit * Beyond(p, now, next)) \div Beyond(p, now, now))

TakeNowProbability(survival) == IF survival = Unknown THEN Unknown ELSE Unit - survival

-----------------------------------------------------------------------------
(* Evidence about a role.                                                   *)

IsMeasured(usage) == usage.games # Unknown /\ usage.games >= 4

CorroboratingShare(position) ==
    CASE position = "QB" -> 8500 [] position = "RB" -> 5500
      [] position = "WR" -> 8000 [] position = "TE" -> 7500

OpportunitySupport(usage, position) ==
    IF ~IsMeasured(usage) \/ usage.snaps = Unknown \/ position \notin Valued THEN Unknown
    ELSE Min({Unit, (Unit * usage.snaps) \div CorroboratingShare(position)})

GamesInSeason == 17

ProductionSupport(usage, position, projected) ==
    IF \/ position \in {"K", "DEF"} \/ ~IsMeasured(usage) \/ usage.perGame = Unknown
       \/ projected = Unknown \/ projected <= 0
    THEN Unknown
    ELSE Min({Unit, (Unit * GamesInSeason * usage.perGame) \div projected})

(* Below a real scoring rate the spread means nothing. *)
Volatility(usage) ==
    IF \/ usage = Unknown \/ ~IsMeasured(usage) \/ usage.spread = Unknown
       \/ usage.perGame = Unknown \/ usage.perGame < 300
    THEN Unknown ELSE (Unit * usage.spread) \div usage.perGame

Ladder(position) ==
    CASE position = "QB" -> <<10000, 1500>>
      [] position = "RB" -> <<10000, 6500, 2500>>
      [] position = "WR" -> <<10000, 9000, 6000, 2500>>
      [] position = "TE" -> <<10000, 3500>>
      [] OTHER           -> <<>>

RoleSupport(chart) ==
    IF chart.rank \in DOMAIN Ladder(chart.position)
    THEN Ladder(chart.position)[chart.rank] ELSE 1000

(* The best evidence there is that a projection is well founded. *)
Support(p) ==
    LET measured == IF p.usage = Unknown THEN {}
                    ELSE {OpportunitySupport(p.usage, p.position),
                          ProductionSupport(p.usage, p.position, p.projected)}
        listed   == IF p.chart = Unknown THEN {} ELSE {RoleSupport(p.chart)}
        signals  == (measured \cup listed) \ {Unknown}
    IN  IF signals = {} THEN Unknown ELSE Max(signals)

RankedTeams == 30

(* What the staff a rookie landed with is worth; an unknown one, nothing.   *)
Boost(landing) ==
    IF \/ landing.seasons = 0 \/ landing.touches = Unknown
       \/ landing.rank = Unknown \/ landing.rank > RankedTeams
    THEN 0
    ELSE (250 * (RankedTeams + 1 - landing.rank)) \div RankedTeams
            + IF landing.workhorse THEN 100 ELSE 0

(* How generous the playoff opponents are, against the average defence.     *)
Difficulty(playoffs) ==
    IF \/ playoffs.weeks < 2 \/ playoffs.allowed = Unknown
       \/ playoffs.average = Unknown \/ playoffs.average <= 0
    THEN Unknown ELSE (Unit * playoffs.allowed) \div playoffs.average
=============================================================================
