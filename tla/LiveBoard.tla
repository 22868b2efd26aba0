------------------------------ MODULE LiveBoard ------------------------------
(***************************************************************************)
(* The board of one followed draft as it goes: the provider reports picks  *)
(* by its own ids, each is recorded under the internal player the id map   *)
(* gives it or under a placeholder, and the board is evaluated again       *)
(* (api/services/draft_session.py, worker/draft_poller.py).  A reconnect   *)
(* brings a fresh pool and a new baseline; a restart brings a new process, *)
(* with another order for the members of a set.                            *)
(***************************************************************************)
EXTENDS DraftBoard

CONSTANTS
    Pools,      \* the player pools a load may give
    Lineups,    \* the lineups a league may have
    UserSeats,  \* the seats the user may have; Unknown for none
    Hashes,     \* the orders a process may iterate positions in
    IdMap       \* sleeper id -> internal player, as loaded at the connect

(* What is known of a player is a number; whether anything is, is not.      *)
IsPlayer(p) ==
    LET Given(x) == x # Unknown
        Number(x) == Given(x) => x \in Int
    IN  /\ DOMAIN p = {"uuid", "sleeper", "position", "projected", "adp", "stdev", "health",
                       "usage", "chart", "rookie", "landing", "playoffs", "bye", "age",
                       "experience"}
        /\ p.uuid \in Int /\ p.position \in Rosterable /\ p.rookie \in BOOLEAN
        /\ Number(p.projected) /\ Number(p.adp) /\ Number(p.stdev)
        /\ Given(p.health) => p.health.risk \in Int
        /\ Given(p.usage) => /\ Number(p.usage.games) /\ Number(p.usage.snaps)
                             /\ Number(p.usage.perGame)
        /\ Given(p.chart) => p.chart.rank \in Int
        /\ Given(p.landing) => /\ Number(p.landing.rank)
                               /\ p.landing.workhorse \in BOOLEAN
        /\ Given(p.playoffs) => /\ Number(p.playoffs.allowed)
                                /\ Number(p.playoffs.average)

(* A pool names each player once, and the tail of a distribution is a share *)
(* of it.                                                                   *)
ASSUME PoolsAssumption ==
    /\ Unknown \notin Int
    /\ \A p \in Pools :
          /\ Len(p) \in Nat /\ DOMAIN p = 1..Len(p)
          /\ \A n \in DOMAIN p : IsPlayer(p[n])
          /\ \A m, n \in DOMAIN p : p[m].uuid = p[n].uuid => m = n
          /\ \A n \in DOMAIN p : p[n].adp # Unknown =>
                \A now, k \in PickNumbers : Beyond(p[n], now, k) \in 0..Unit

ASSUME SessionAssumption ==
    /\ \A l \in Lineups : Len(l) \in Nat /\ DOMAIN l = 1..Len(l)
    /\ Hashes \subseteq [Rosterable -> Int]
    /\ UserSeats \subseteq Seats(TheLeague) \cup {Unknown}
    /\ BoardDepth \in Nat /\ MinPerPosition \in Nat

VARIABLES
    lineup, seat, pool,   \* what the session was registered with
    draft,                \* its DraftState
    baseline, hash,
    board                 \* last_board

boardVars == <<lineup, seat, pool, draft, baseline, hash, board>>

(* The player a pick names; one the map does not know gets a placeholder, a *)
(* key no player has.                                                       *)
ToDomainPlayer(x) == IF x \in DOMAIN IdMap THEN IdMap[x] ELSE -x

Evaluated(D, p, b, h) == EvaluateDraft(D, p, seat, b, lineup, h)

BaselineOf(p) == ComputeReplacementBaseline(p, TheLeague.teams, lineup)

Registered(p) == pool' = p /\ baseline' = BaselineOf(p)

BoardInit ==
    /\ lineup \in Lineups /\ seat \in UserSeats /\ pool \in Pools /\ hash \in Hashes
    /\ draft = EmptyDraft
    /\ baseline = BaselineOf(pool)
    /\ board \in EvaluateDraft(EmptyDraft, pool, seat, baseline, lineup, hash)

(* The next pick, of any player the provider still has. *)
PickMade(x) ==
    /\ CurrentPick(draft) # None
    /\ ToDomainPlayer(x) \notin DOMAIN draft.owner
    /\ LET no == CurrentPick(draft) IN
       draft' = ApplyPick(draft, [no |-> no, slot |-> SlotOnTheClock(TheLeague, no),
                                  player |-> ToDomainPlayer(x)])
    /\ UNCHANGED <<lineup, seat, pool, baseline, hash>>
    /\ board' \in Evaluated(draft', pool, baseline, hash)

(* connect_sleeper_draft once more: the pool is loaded again. *)
Reconnect ==
    /\ \E p \in Pools : Registered(p)
    /\ UNCHANGED <<lineup, seat, draft, hash>>
    /\ board' \in Evaluated(draft, pool', baseline', hash)

(* Another process rebuilds the session (one with the same order does what  *)
(* a reconnect does).                                                       *)
RestartSession ==
    /\ hash' \in Hashes \ {hash}
    /\ \E p \in Pools : Registered(p)
    /\ UNCHANGED <<lineup, seat, draft>>
    /\ board' \in Evaluated(draft, pool', baseline', hash')

BoardNext == (\E x \in Players : PickMade(x)) \/ Reconnect \/ RestartSession

BoardSpec == BoardInit /\ [][BoardNext]_boardVars

-----------------------------------------------------------------------------
Known(u) == CHOOSE p \in {pool[n] : n \in DOMAIN pool} : p.uuid = u

(* Same but for his projection: nothing about a role, which a projection is *)
(* held against, is known of either.                                        *)
Twins(p, q) ==
    /\ HasProjection(p) /\ HasProjection(q)
    /\ p.usage = Unknown /\ p.chart = Unknown
    /\ [p EXCEPT !.uuid = 0, !.sleeper = 0, !.projected = 0]
          = [q EXCEPT !.uuid = 0, !.sleeper = 0, !.projected = 0]

RankedByProjection(Better(_, _)) ==
    LET who == [r \in DOMAIN board.ranked |-> Known(board.ranked[r].uuid)]
    IN  \A r, s \in DOMAIN who :
            Twins(who[r], who[s]) /\ Better(board.ranked[r].vorp, board.ranked[s].vorp)
            => r < s

(* As many ten-thousandths of the best player's value always show in the    *)
(* value component, which is rounded to a hundredth of a point.             *)
Grain == 3

(* Of two players alike in all but their projections, the better projected  *)
(* is never ranked below the other, not even when both are below            *)
(* replacement and the market says the same of both.  Better by more than   *)
(* the rounding hides; and what the other is further below replacement than *)
(* the best player of the pool is above does not count.                     *)
BetterProjectionRanksHigher ==
    LET most == board.context.most
    IN  RankedByProjection(LAMBDA v, w : Unit * (v - Max({w, -most})) > Grain * most)

(* "Flattening every sub-replacement player removed all ordering": without  *)
(* that proviso.                                                            *)
OrderSurvivesBelowReplacement == RankedByProjection(LAMBDA v, w : v > w)

(* Missing data invents no value: what the market says of a player nobody   *)
(* projects gives his score nothing and takes nothing from it.  It still    *)
(* settles who is first among equal scores.                                 *)
MissingDataInventsNothing ==
    \A r \in DOMAIN board.ranked :
        LET p == Known(board.ranked[r].uuid)
        IN  ~HasProjection(p) =>
                \A k \in 1..Len(board.ranked) :
                    board.ranked[r].score
                        = ScorePlayer([p EXCEPT !.adp = Unknown], board.context, k)

(* "Ranked by market signal alone", "by ADP alone": of two players nobody   *)
(* projects, the one the market takes earlier is ranked higher.  The code   *)
(* says so and does not keep it: scarcity and need count for them as well.  *)
UnprojectedByMarketAlone ==
    LET who == [r \in DOMAIN board.ranked |-> Known(board.ranked[r].uuid)]
        Market(r) == ~HasProjection(who[r]) /\ who[r].adp # Unknown
    IN  \A r, s \in DOMAIN who :
            Market(r) /\ Market(s) /\ who[r].adp < who[s].adp => r < s

(* A client can look for any position the board has, and gets the ranking   *)
(* it was sent: nobody sent is out of order, and a position with players is *)
(* never empty.                                                             *)
NoPositionLooksEmpty ==
    LET sent == BuildBoardPayload(board, draft, pool, seat, lineup, hash).sent
        Of(list, q) == Cardinality({n \in DOMAIN list : list[n].position = q})
    IN  /\ \A m, n \in DOMAIN sent : m < n => sent[m].rank < sent[n].rank
        /\ \A q \in Rosterable :
              Of(sent, q) >= Min({MinPerPosition, Of(board.ranked, q)})

(* Two flexes that overlap and neither of which holds the other. *)
Overlapping == \E m, n \in DOMAIN lineup :
    /\ IsStarting(lineup[m]) /\ IsStarting(lineup[n])
    /\ Eligible(lineup[m]) \cap Eligible(lineup[n]) # {}
    /\ ~ Eligible(lineup[m]) \subseteq Eligible(lineup[n])
    /\ ~ Eligible(lineup[n]) \subseteq Eligible(lineup[m])

Roster == Positions(Mine(draft, pool, seat))

(* Where no two flexes overlap, the greedy fill reports no need the roster  *)
(* could cover, in any process, and the lineup a user is shown has the      *)
(* holes the engine reasoned about.                                         *)
NeedIsExactWhenNested ==
    ~Overlapping =>
        /\ FillsAll(lineup, Roster, hash)
        /\ seat # Unknown =>
              LET shown == RosterOut(lineup, Mine(draft, pool, seat), hash)
              IN  shown.holes = board.context.unfilled /\ shown.unfilled = shown.holes

(* "That ordering is what makes the result correct." *)
NeedIsExact == FillsAll(lineup, Roster, hash)

(* A drafted player is off the board, whoever the map knows him as. *)
PickedPlayersLeaveTheBoard ==
    \A x \in Players : ToDomainPlayer(x) \in DOMAIN draft.owner =>
        \A r \in DOMAIN board.ranked : Known(board.ranked[r].uuid).sleeper # x

(* "An unknown player can never top the board on missing data." *)
UnknownNeverTops ==
    board.ranked # <<>> /\ (\E n \in DOMAIN board.ranked : HasProjection(Known(board.ranked[n].uuid)))
        => HasProjection(Known(board.ranked[1].uuid))

(* A pick changes nobody's value: what a player is worth over replacement   *)
(* is fixed by the pool, however the board thins out.                       *)
ValueIsSteady ==
    [][pool' = pool =>
          \A r \in DOMAIN board.ranked, s \in DOMAIN board'.ranked :
              board.ranked[r].uuid = board'.ranked[s].uuid =>
                  board.ranked[r].vorp = board'.ranked[s].vorp]_boardVars
=============================================================================
