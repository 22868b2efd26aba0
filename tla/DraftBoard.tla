----------------------------- MODULE DraftBoard -----------------------------
(***************************************************************************)
(* The war-room view of a draft: evaluate_draft (core/draft/service.py)    *)
(* puts the engine's context together from the draft and the pool,         *)
(* build_board (core/draft/board.py) picks the headlines and the alerts,   *)
(* and the payload (api/services/board_builder.py, api/mappers.py) is what *)
(* of it a client is sent.                                                 *)
(***************************************************************************)
EXTENDS DraftEngine, DraftRecord

CONSTANTS
    BoardDepth,      \* how many ranked players a client is sent (120)
    MinPerPosition,  \* ... and how many of each position at least (8)
    RecentPicks      \* how many picks the ticker shows (12)

(* The one of a set of ranked players who comes first by Better, the higher *)
(* ranked among equals; Unknown when there is none.                         *)
Headline(ranked, candidates, Better(_, _)) ==
    LET best == {r \in candidates : \A s \in candidates : ~Better(s, r)}
    IN  IF candidates = {} THEN Unknown ELSE ranked[Min(best)].uuid

(* `who` is the player behind each ranked entry.                            *)
(* Safe is available and steady, both measured; where nobody's steadiness   *)
(* is measured, available alone.                                            *)
PickSafest(ranked, who) ==
    LET Spread(r) == Volatility(who[r].usage)
        sound     == {r \in DOMAIN ranked : /\ ranked[r].risk # Unknown
                                            /\ ranked[r].risk <= 25
                                            /\ who[r].health.confidence >= 5000}
        measured  == {r \in sound : Spread(r) # Unknown}
        steady    == {r \in measured : Spread(r) <= 4500}
        Steadier(r, s) ==
            \/ ranked[r].score > ranked[s].score
            \/ ranked[r].score = ranked[s].score /\ Spread(r) < Spread(s)
        Sounder(r, s)  ==
            \/ ranked[r].score > ranked[s].score
            \/ ranked[r].score = ranked[s].score /\ ranked[r].risk < ranked[s].risk
    IN  IF measured # {} THEN Headline(ranked, steady, Steadier)
        ELSE Headline(ranked, sound, Sounder)

(* Upside is youth, an early career, or big weeks. *)
PickUpside(ranked, who) ==
    LET Young(p)  == p.age # Unknown /\ p.age <= 25
        Early(p)  == p.experience # Unknown /\ p.experience <= 3
        Swings(p) == Volatility(p.usage) # Unknown /\ Volatility(p.usage) >= 6000
        able == {r \in DOMAIN ranked : /\ ranked[r].vorp # Unknown
                                       /\ \/ Young(who[r]) \/ Early(who[r])
                                          \/ Swings(who[r])}
        Better(r, s) == \/ ranked[r].vorp > ranked[s].vorp
                        \/ ranked[r].vorp = ranked[s].vorp /\ ranked[r].score > ranked[s].score
    IN  Headline(ranked, able, Better)

PickBestValue(ranked) ==
    LET able == {r \in DOMAIN ranked : ranked[r].adpValue # Unknown /\ ranked[r].adpValue > 0}
        Better(r, s) ==
            \/ ranked[r].adpValue > ranked[s].adpValue
            \/ ranked[r].adpValue = ranked[s].adpValue /\ ranked[r].score > ranked[s].score
    IN  Headline(ranked, able, Better)

MaxAlerts == 6

(* What the board warns of, the most severe first: the turn coming up, a    *)
(* tier about to end, a position run dry, players fallen past their price.  *)
BuildAlerts(ranked, scarcity, wait) ==
    LET Cliff(q) == /\ scarcity[q].size \in 1..2
                    /\ scarcity[q].dropoff # Unknown /\ scarcity[q].dropoff >= 1500
        Faller(r) == r <= 15 /\ ranked[r].adpValue # Unknown /\ ranked[r].adpValue >= 1200
        byPosition == <<"QB", "RB", "WR", "TE">>
        cliffs   == SelectSeq(byPosition, Cliff)
        dry      == SelectSeq(byPosition, LAMBDA q : ~Cliff(q) /\ scarcity[q].starters = 0)
        fallers  == SelectSeq([r \in DOMAIN ranked |-> r], Faller)
        all == (IF wait \in 1..3 THEN <<[key |-> "pick_approaching", of |-> wait]>> ELSE <<>>)
               \o [n \in DOMAIN cliffs |-> [key |-> "tier_cliff", of |-> cliffs[n]]]
               \o [n \in DOMAIN dry |-> [key |-> "position_exhausted", of |-> dry[n]]]
               \o [n \in DOMAIN fallers |-> [key |-> "faller", of |-> ranked[fallers[n]].uuid]]
    IN  SubSeq(all, 1, Min({MaxAlerts, Len(all)}))

-----------------------------------------------------------------------------
(* The board of draft D as the user's seat sees it (Unknown: no seat).      *)

(* Part of a list is a function of the places it kept. *)
Available(D, pool) ==
    [n \in {m \in DOMAIN pool : pool[m].uuid \notin DOMAIN D.owner} |-> pool[n]]

(* The seat's players the pool knows, in the order they were picked. *)
Mine(D, pool, seat) ==
    LET uuids == IF seat = Unknown THEN <<>> ELSE D.rosters[seat]
        With(u) == {p \in Range(pool) : p.uuid = u}
    IN  [n \in {m \in DOMAIN uuids : With(uuids[m]) # {}} |-> CHOOSE p \in With(uuids[n]) : TRUE]

Positions(players) == [n \in DOMAIN players |-> players[n].position]

Byes(players) ==
    [n \in {m \in DOMAIN players : players[m].bye # Unknown} |-> players[n].bye]

OrElse(x, default) == IF x = None THEN default ELSE x

(* The bug a static baseline avoids: value is measured among those left. *)
BaselineAmongLeft(pool, available, lineup, baseline) ==
    ComputeReplacementBaseline(available, TheLeague.teams, lineup)

(* The baseline of an evaluation: the one the session keeps, or the pool's. *)
BaselineUsed(pool, available, lineup, baseline) ==
    IF baseline # Unknown THEN baseline
    ELSE ComputeReplacementBaseline(pool, TheLeague.teams, lineup)

(* What the engine is told. *)
DraftContext(D, pool, seat, baseline, lineup, hash) ==
    LET available == Available(D, pool)
        used    == BaselineUsed(pool, available, lineup, baseline)
        current == CurrentPick(D)
        roster  == Mine(D, pool, seat)
        need    == ComputeRosterNeed(lineup, Positions(roster), hash)
        wait    == IF seat = Unknown \/ current = None THEN None
                   ELSE PicksUntilNextTurn(TheLeague, seat, current)
        next    == IF seat = Unknown \/ current = None THEN None
                   ELSE NextPickForSlot(TheLeague, seat, current - 1)
        left    == IF seat = Unknown THEN Unknown
                   ELSE Cardinality({r \in 1..TheLeague.rounds :
                            PickNumber(TheLeague, seat, r) >= OrElse(current, 1)})
    IN  [available |-> available, baseline |-> used, most |-> used.most,
         scarcity |-> ComputeScarcity(available, used.points, OrElse(wait, 0)),
         need |-> need.need, unfilled |-> need.unfilled,
         now |-> OrElse(current, TotalPicks(TheLeague)), wait |-> wait,
         next |-> IF next = None THEN Unknown ELSE next,
         byes |-> Byes(roster), left |-> left]

BuildBoard(ranked, context) ==
    LET who == [r \in DOMAIN ranked |->
                   CHOOSE p \in Range(context.available) : p.uuid = ranked[r].uuid]
    IN  [ranked |-> ranked, context |-> context,
         best   |-> IF ranked = <<>> THEN Unknown ELSE ranked[1].uuid,
         safest |-> PickSafest(ranked, who), upside |-> PickUpside(ranked, who),
         value  |-> PickBestValue(ranked),
         alerts |-> BuildAlerts(ranked, context.scarcity, context.wait)]

(* The boards an evaluation may give: the one.  (Bound variables, so that   *)
(* each part is computed once.)                                             *)
EvaluateDraft(D, pool, seat, baseline, lineup, hash) ==
    UNION {{BuildBoard(ranked, context) : ranked \in {RankBoard(context)}}
           : context \in {DraftContext(D, pool, seat, baseline, lineup, hash)}}

-----------------------------------------------------------------------------
(* The payload.                                                             *)

(* The bug the floor is there for: the board is cut by rank alone. *)
TopOnly(ranked) == SubSeq(ranked, 1, Min({BoardDepth, Len(ranked)}))

(* The top of the board and a few of each position, still in rank order.    *)
Transmitted(ranked) ==
    LET included == {n \in DOMAIN ranked :
            \/ n <= BoardDepth
            \/ Cardinality({m \in 1..(n - 1) : ranked[m].position = ranked[n].position})
                  < MinPerPosition}
        order == InOrder(included, LAMBDA m, n : m < n)
    IN  [k \in DOMAIN order |-> ranked[order[k]]]

(* One slot of the lineup a client is shown: the best projected player who  *)
(* is left and may fill it.                                                 *)
SeatSlot(before, slot, roster) ==
    LET Worth(n) == IF HasProjection(roster[n]) THEN roster[n].projected ELSE 0
        Before(m, n) == Worth(m) > Worth(n) \/ (Worth(m) = Worth(n) /\ m < n)
        able == {n \in before.left : roster[n].position \in Eligible(slot)}
    IN  IF able = {} THEN [before EXCEPT !.unfilled = Append(@, slot)]
        ELSE [before EXCEPT !.left =
                 @ \ {CHOOSE n \in able : \A m \in able : ~Before(m, n)}]

(* A lineup filled slot by slot.                                            *)
Arranged(lineup, roster) ==
    LET slots == InFillOrder(lineup)
        step[k \in 0..Len(slots)] ==
            IF k = 0 THEN [left |-> DOMAIN roster, unfilled |-> <<>>]
            ELSE SeatSlot(step[k - 1], slots[k], roster)
    IN  step[Len(slots)]

(* The lineup's holes, and the slots it says are open: those the engine     *)
(* counts where the lineup has no hole.                                     *)
RosterOut(lineup, roster, hash) ==
    LET arranged == Arranged(lineup, roster)
    IN  [bench |-> arranged.left, holes |-> arranged.unfilled,
         unfilled |-> IF arranged.unfilled # <<>> THEN arranged.unfilled
                      ELSE ComputeRosterNeed(lineup, Positions(roster), hash).unfilled]

RoundShown(board) == (board.context.now - 1) \div TheLeague.teams + 1

(* The last picks, newest first. *)
Ticker(D) ==
    LET made == InOrder(DOMAIN D.picks, LAMBDA m, n : m > n)
    IN  [n \in 1..Min({RecentPicks, Len(made)}) |-> D.picks[made[n]].player]

BuildBoardPayload(board, D, pool, seat, lineup, hash) ==
    [sent |-> Transmitted(board.ranked), round |-> RoundShown(board), recent |-> Ticker(D),
     roster |-> IF seat = Unknown THEN Unknown
                ELSE RosterOut(lineup, Mine(D, pool, seat), hash),
     \* "this ranking rests on roster need and scarcity alone"
     blind |-> \A n \in DOMAIN pool : ~HasProjection(pool[n]) /\ pool[n].adp = Unknown]
=============================================================================
