---------------------------- MODULE DraftEngine ----------------------------
(***************************************************************************)
(* The scoring of a draft board (src/fhe/core/draft/engine.py): one        *)
(* operator per signed component, their sum, the two passes that rank the  *)
(* board, and the label of each player.  A context `c' is what             *)
(* DraftContext holds: the available players, the baseline, the scarcity,  *)
(* the roster's need, the picks, and the byes of the roster.  Wording is   *)
(* left out; of the reasons, only which components are the largest.        *)
(***************************************************************************)
EXTENDS DraftValue

(* The product's opinion. *)
Weight == [vorp |-> 40, scarcity |-> 12, need |-> 20, adp |-> 6, urgency |-> 10,
           health |-> 20, bye |-> 4, lateRound |-> 30, unsupported |-> 10, playoffs |-> 8]

AdpValueScale        == 2400
NoProjectionScoreCap == 3500

Points(weight, fraction) == (weight * fraction) \div 100

Norm(p, c) == NormaliseVorp(ValueOver(c.baseline.points, p), c.most)

VorpPoints(p, c) == Points(Weight.vorp, Norm(p, c))

ScarcityPoints(p, c) ==
    IF p.position \in DOMAIN c.scarcity
    THEN Points(Weight.scarcity, c.scarcity[p.position].index) ELSE 0

NeedPoints(p, c) == Points(Weight.need, c.need[p.position])

(* The bug that paid for ignorance: a rank nothing earned is compared with  *)
(* the market all the same.                                                 *)
AdpValueAnyway(p, rank) ==
    IF rank = Unknown \/ p.adp = Unknown THEN Unknown ELSE p.adp - 100 * rank

(* How much later the market takes him than this model ranks him; nothing   *)
(* without a rank, or without a projection to have earned it.               *)
AdpValue(p, rank) ==
    IF rank = Unknown \/ p.adp = Unknown \/ ~HasProjection(p) THEN Unknown
    ELSE p.adp - 100 * rank

AdpPoints(p, rank) ==
    LET value == AdpValue(p, rank)
        Share(v) == Points(Weight.adp, Min({Unit, (Unit * v) \div AdpValueScale}))
    IN  CASE value = Unknown                    -> 0
          [] value # Unknown /\ value >= 100    -> Share(value)
          [] value # Unknown /\ value <= -100   -> -Share(-value)
          [] OTHER                              -> 0

(* Never a bonus: the part of the projection nothing supports is discounted *)
(* for a player above replacement.                                          *)
UnsupportedPoints(p, c) ==
    LET support == Support(p)
        short   == Points(Weight.unsupported, Unit - support)
    IN  IF support # Unknown /\ Norm(p, c) > 0 /\ short >= 5 THEN -short ELSE 0

LandingPoints(p) ==
    IF p.rookie /\ p.landing # Unknown THEN Boost(p.landing) ELSE 0

PlayoffPoints(p) ==
    LET difficulty == IF p.playoffs = Unknown THEN Unknown ELSE Difficulty(p.playoffs)
        points     == Points(Weight.playoffs, difficulty - Unit)
    IN  IF difficulty = Unknown \/ points \in -4..4 THEN 0 ELSE points

Survival(p, c) == SurvivalProbability(p, c.now, c.next)
TakeNow(p, c)  == TakeNowProbability(Survival(p, c))

(* A player about to be taken is urgent in proportion to his value. *)
UrgencyPoints(p, c) ==
    IF TakeNow(p, c) = Unknown \/ Norm(p, c) <= 0 THEN 0
    ELSE Points(Weight.urgency, (TakeNow(p, c) * Norm(p, c)) \div Unit)

HealthPoints(p) == IF p.health = Unknown THEN 0 ELSE -(Weight.health * p.health.risk)

LateRoundPositions == {"K", "DEF"}

(* Kickers and defences wait until the picks left are the slots they have   *)
(* to fill, and one.                                                        *)
LateRoundPoints(p, c) ==
    LET open == Cardinality({n \in DOMAIN c.unfilled :
                                p.position \in Eligible(c.unfilled[n])})
    IN  IF p.position \in LateRoundPositions /\ c.left # Unknown /\ c.left - open > 1
        THEN -(100 * Weight.lateRound) ELSE 0

ByePoints(p, c) ==
    LET shared == Cardinality({n \in DOMAIN c.byes : c.byes[n] = p.bye})
    IN  IF p.bye = Unknown \/ shared < 2 THEN 0
        ELSE -((100 * Weight.bye * Min({4, shared})) \div 4)

Components(p, c, rank) ==
    [value_over_replacement |-> VorpPoints(p, c),
     positional_scarcity    |-> ScarcityPoints(p, c),
     roster_need            |-> NeedPoints(p, c),
     adp_value              |-> AdpPoints(p, rank),
     unsupported_projection |-> UnsupportedPoints(p, c),
     rookie_landing_spot    |-> LandingPoints(p),
     playoff_schedule       |-> PlayoffPoints(p),
     next_pick_urgency      |-> UrgencyPoints(p, c),
     health_adjustment      |-> HealthPoints(p),
     late_round_position    |-> LateRoundPoints(p, c),
     bye_collision          |-> ByePoints(p, c)]

(* A player nobody projects is capped. *)
ScorePlayer(p, c, rank) ==
    LET total == VorpPoints(p, c) + ScarcityPoints(p, c) + NeedPoints(p, c)
                    + AdpPoints(p, rank) + UnsupportedPoints(p, c) + LandingPoints(p)
                    + PlayoffPoints(p) + UrgencyPoints(p, c) + HealthPoints(p)
                    + LateRoundPoints(p, c) + ByePoints(p, c)
    IN  IF HasProjection(p) THEN total ELSE Min({total, NoProjectionScoreCap})

(* The first rule that applies: risk vetoes value, urgency beats patience.  *)
Classify(rank, m, projected) ==
    LET rules ==
          << <<m.risk # Unknown /\ m.risk >= 70, "AVOID">>,
             <<m.risk # Unknown /\ m.risk >= 45, "DISCOUNT_RISK">>,
             <<~projected, "LIKELY_AVAILABLE_LATER">>,
             <<m.adpValue # Unknown /\ m.adpValue <= -1500, "REACH">>,
             <<rank = 1 /\ (m.takeNow = Unknown \/ m.takeNow >= 5500), "DRAFT_NOW">>,
             <<m.adpValue # Unknown /\ m.adpValue >= 1200, "STRONG_VALUE">>,
             <<m.survival # Unknown /\ m.survival >= 7500, "LIKELY_AVAILABLE_LATER">>,
             <<rank = 1, "DRAFT_NOW">>,
             <<rank <= 3, "STRONG_VALUE">>,
             <<TRUE, "LIKELY_AVAILABLE_LATER">> >>
        applies == {n \in DOMAIN rules : rules[n][1]}
    IN  rules[Min(applies)][2]

(* The components a player's reasons speak of: the four largest, and the    *)
(* chance to wait when that is the advice.                                  *)
Reasons(parts, label, survival) ==
    LET present == {name \in DOMAIN parts : parts[name] # 0}
        size == [name \in present |-> IF parts[name] < 0 THEN -parts[name] ELSE parts[name]]
    IN  {name \in present : Cardinality({o \in present : size[o] > size[name]}) < 4}
            \cup (IF label = "LIKELY_AVAILABLE_LATER" /\ survival # Unknown
                  THEN {"survival"} ELSE {})

-----------------------------------------------------------------------------
(* Pass one: each player with the rank he has before the market has its     *)
(* say.  The sort is stable, so equals stay in the pool's order.            *)
Provisional(c) ==
    LET first == {[at |-> n, score |-> ScorePlayer(c.available[n], c, Unknown)]
                  : n \in DOMAIN c.available}
        Ahead(x, y) == x.score > y.score \/ (x.score = y.score /\ x.at < y.at)
    IN  {[player |-> c.available[x.at],
          rank   |-> 1 + Cardinality({y \in first : Ahead(y, x)})] : x \in first}

Recommendation(p, c, rank, provisional) ==
    LET metrics == [risk     |-> IF p.health = Unknown THEN Unknown ELSE p.health.risk,
                    adpValue |-> AdpValue(p, provisional),
                    survival |-> Survival(p, c), takeNow |-> TakeNow(p, c)]
        label   == Classify(rank, metrics, HasProjection(p))
    IN  [uuid |-> p.uuid, position |-> p.position, rank |-> rank,
         score |-> ScorePlayer(p, c, provisional),
         vorp |-> ValueOver(c.baseline.points, p), risk |-> metrics.risk,
         adpValue |-> metrics.adpValue, label |-> label,
         reasons |-> Reasons(Components(p, c, provisional), label, metrics.survival)]

(* The scale is the pre-draft one, the board's own only where that is       *)
(* nothing.                                                                 *)
OnScale(context) ==
    [context EXCEPT !.most =
        IF context.baseline.most > 0 THEN context.baseline.most
        ELSE BestValueIn(context.available, context.baseline.points)]

(* Pass two, best first: the score, then the earlier ADP, then the key.     *)
RankBoard(context) ==
    LET c == OnScale(context)
        scored == {[player |-> x.player, prior |-> x.rank,
                    score |-> ScorePlayer(x.player, c, x.rank)] : x \in Provisional(c)}
        Adp(x) == IF x.player.adp = Unknown THEN 100000000 ELSE x.player.adp
        Ahead(x, y) ==
            \/ x.score > y.score
            \/ x.score = y.score /\ Adp(x) < Adp(y)
            \/ x.score = y.score /\ Adp(x) = Adp(y) /\ x.player.uuid < y.player.uuid
        placed == {[player |-> x.player, prior |-> x.prior,
                    rank |-> 1 + Cardinality({y \in scored : Ahead(y, x)})] : x \in scored}
        ranked == {Recommendation(x.player, c, x.rank, x.prior) : x \in placed}
    IN  InOrder(ranked, LAMBDA x, y : x.rank < y.rank)
=============================================================================
