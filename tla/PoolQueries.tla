---------------------------- MODULE PoolQueries ----------------------------
(***************************************************************************)
(* The questions api/services/player_pool.py asks of the database to build *)
(* a draft pool. A table is a set of rows; a mean is a sum and the number  *)
(* it is over, its rounding left out. A question whose answer hangs on the *)
(* order the database returns equal rows in has several answers.           *)
(***************************************************************************)
EXTENDS Integers, FiniteSetsExt, TLC

CONSTANTS
    Null,
    PlayoffWeeks,
    MeaningfulTouches   \* what a rookie with a real role reaches in a season

ScoringFormats == {"ppr", "half_ppr", "standard"}

ASSUME NullAssumption == Null \notin ScoringFormats /\ Null \notin Int

SeasonLong == 0
HistorySeasons == 3
PoolPositions == {"QB", "RB", "WR", "TE", "K", "DEF"}
RookieTouchPositions == {"QB", "RB", "WR", "TE"}

\* Every way to pick one candidate for each key; only the ties leave a choice.
Picks(keys, Candidates(_)) ==
    LET tied == {key \in keys : \A x \in Candidates(key) : Candidates(key) # {x}}
        only(key) == CHOOSE x \in Candidates(key) : TRUE
    IN  {[key \in keys |-> IF key \in tied THEN choice[key] ELSE only(key)] :
            choice \in {f \in [tied -> UNION {Candidates(key) : key \in tied}] :
                          \A key \in tied : f[key] \in Candidates(key)}}

\* One row per player of those that come last in the order, which is what a
\* dict keeps of rows read in that order.
LastOfEach(rows, date) ==
    LET last(p) == {row \in rows : row.player = p /\ ~\E other \in rows :
                                        other.player = p /\ other[date] > row[date]}
    IN  Picks({row.player : row \in rows}, last)

Total(rows, Value(_)) == MapThenSumSet(Value, rows)

\* SQL's avg leaves the nulls out, and is null over nothing.
Mean(rows, Value(_)) ==
    LET told == {row \in rows : Value(row) # Null}
    IN  IF told = {} THEN Null ELSE [sum |-> Total(told, Value), over |-> Cardinality(told)]

\* A sum with a null in it is null.
Plus(a, b) == IF Null \in {a, b} THEN Null ELSE a + b

Greater(a, b) == a.sum * b.over > b.sum * a.over

-----------------------------------------------------------------------------
(* Who is in the pool *)

HasValue(row, player, season) == row.player = player /\ row.season = season

MarketAdp(adp, player, season) ==
    LET quoted == {row.adp : row \in {r \in adp : HasValue(r, player, season)}}
    IN  IF quoted = {} THEN Null ELSE Min(quoted)

Relevant(store, player, season) ==
    \E row \in store.projections \cup store.adp : HasValue(row, player, season)

\* Nulls come last, whatever the database makes of them by itself.
Sooner(a, b) == a # Null /\ (b = Null \/ a < b)

AheadByPopularity(store, season, p, q) == Sooner(p.popularity, q.popularity)

\* The market first, then the provider's popularity.
Ahead(store, season, p, q) ==
    LET fits(x)   == IF Relevant(store, x.id, season) THEN 0 ELSE 1
        market(x) == MarketAdp(store.adp, x.id, season)
    IN  \/ fits(p) < fits(q)
        \/ /\ fits(p) = fits(q)
           /\ \/ Sooner(market(p), market(q))
              \/ market(p) = market(q) /\ Sooner(p.popularity, q.popularity)

SelectPlayers(store, season, limit) ==
    LET active == {p \in store.players : p.active /\ p.position \in PoolPositions}
        size   == Min({limit, Cardinality(active)})
    IN  {chosen \in kSubset(size, active) :
            \A p \in chosen, q \in active \ chosen : ~Ahead(store, season, q, p)}

-----------------------------------------------------------------------------
(* What they are projected for and drafted at *)

Fallbacks(wanted) ==
    CASE wanted = "half_ppr" -> <<"ppr", "standard">>
      [] wanted = "ppr"      -> <<"half_ppr", "standard">>
      [] OTHER               -> <<"half_ppr", "ppr">>

ResolveScoringFormat(available, wanted) ==
    LET next == Fallbacks(wanted)
    IN  CASE wanted \in available  -> wanted
          [] wanted \notin available /\ next[1] \in available -> next[1]
          [] available \cap {wanted, next[1]} = {} /\ next[2] \in available -> next[2]
          [] OTHER -> wanted

Swapped(chosen, wanted) == IF chosen = wanted THEN Null ELSE chosen

OneFamily(rows, wanted, date) ==
    LET chosen == ResolveScoringFormat({row.format : row \in rows}, wanted)
    IN  {[values |-> kept, swap |-> Swapped(chosen, wanted)] :
            kept \in LastOfEach({row \in rows : row.format = chosen}, date)}

\* The gaps filled player by player, from whatever family there is.
LatestFilledIn(store, ids, season, wanted) ==
    {[values |-> kept, swap |-> Null] :
        kept \in LastOfEach({row \in store.projections : row.player \in ids
                                 /\ row.season = season /\ row.week = SeasonLong}, "ingested")}

LatestProjections(store, ids, season, wanted) ==
    OneFamily({row \in store.projections : row.player \in ids /\ row.season = season
                                              /\ row.week = SeasonLong},
              wanted, "ingested")

LatestAdp(store, ids, season, wanted) ==
    OneFamily({row \in store.adp : row.player \in ids /\ row.season = season},
              wanted, "snapshot")

-----------------------------------------------------------------------------
(* Their health *)

CurrentHealth(store, ids) ==
    LET rows == {row \in store.health : row.player \in ids}
    IN  [p \in {row.player : row \in rows} |-> CHOOSE row \in rows : row.player = p]

\* The events whose region is known, of this season and the three before.
InjuryHistory(store, ids, season) ==
    LET rows == {row \in store.injuries :
                    /\ row.player \in ids /\ row.region # Null
                    /\ row.season \in (season - HistorySeasons)..season}
    IN  [p \in {row.player : row \in rows} |-> {row \in rows : row.player = p}]

-----------------------------------------------------------------------------
(* What they did last season *)

Lines(store, ids, season) ==
    {row \in store.stats : row.player \in ids /\ row.season = season /\ row.type = "REG"}
Snaps(store, ids, season, column) ==
    {row \in store.snaps : row.player \in ids /\ row.season = season /\ row[column] # Null}

Exposure(lines, snaps, p) ==
    LET own   == {row \in lines : row.player = p}
        taken == {row \in snaps : row.player = p}
    IN  [games   |-> IF own = {} THEN Null ELSE Cardinality(own),
         snaps   |-> Mean(taken, LAMBDA row : row.snaps),
         carries |-> Mean(own, LAMBDA row : row.carries),
         targets |-> Mean(own, LAMBDA row : row.targets)]

\* Snaps and production have each their own games; either is exposure enough.
Workload(store, ids, season) ==
    LET lines == Lines(store, ids, season)
        snaps == Snaps(store, ids, season, "snaps")
    IN  [p \in {row.player : row \in lines \cup snaps} |-> Exposure(lines, snaps, p)]

\* The population variance, from the mean and the mean of the squares.
Variance(points, squares) ==
    IF points = Null THEN Null
    ELSE [sum  |-> Max({0, squares.sum * points.over - points.sum * points.sum}),
          over |-> points.over * points.over]

\* A share above one and a half is a percentage.
AsFraction(share) ==
    IF share # Null /\ 2 * share.sum > 3 * share.over
    THEN [share EXCEPT !.over = 100 * @] ELSE share

UsageOf(store, ids, season, format) ==
    LET lines  == Lines(store, ids, season)
        shares == Snaps(store, ids, season, "share")
        of(p)  == {row \in lines : row.player = p}
        points(row) == row.points[format]
    IN  [p \in {row.player : row \in lines} |->
           [games   |-> Cardinality(of(p)),
            touches |-> Mean(of(p), LAMBDA row : Plus(row.carries, row.targets)),
            share   |-> AsFraction(Mean({row \in shares : row.player = p},
                                       LAMBDA row : row.share)),
            points  |-> Mean(of(p), points),
            spread  |-> Variance(Mean(of(p), points),
                                 Mean(of(p), LAMBDA row : points(row) * points(row)))]]

DepthChart(store, ids, season) ==
    LastOfEach({row \in store.charts : row.player \in ids /\ row.season = season
                                         /\ row.week = SeasonLong /\ row.rank # Null},
               "observed")

-----------------------------------------------------------------------------
(* The situation they are in *)

PositionOf(store, player) == (CHOOSE p \in store.players : p.id = player).position

\* What each defence allowed to each position, and its average over defences.
Allowed(store, season, format) ==
    LET lines == {row \in store.stats : row.season = season /\ row.type = "REG"
                                          /\ row.opponent # Null}
        pairs == {<<row.opponent, PositionOf(store, row.player)>> : row \in lines}
        mean(pair) == Mean({row \in lines : row.opponent = pair[1]
                                              /\ PositionOf(store, row.player) = pair[2]},
                           LAMBDA row : row.points[format])
    IN  [pair \in {q \in pairs : mean(q) # Null} |-> mean(pair)]

PlayoffSchedule(store, allowed, season) ==
    LET games  == {g \in store.games : g.season = season /\ g.type = "REG"
                                         /\ g.week \in PlayoffWeeks}
        facing(team) == {[week |-> g.week, team |-> g.away] : g \in {h \in games : h.home = team}}
                        \cup
                        {[week |-> g.week, team |-> g.home] : g \in {h \in games : h.away = team}}
        measured(team, position) == {f \in facing(team) : <<f.team, position>> \in DOMAIN allowed}
        teams  == {g.home : g \in games} \cup {g.away : g \in games}
        keys   == {key \in teams \X {pair[2] : pair \in DOMAIN allowed} :
                      measured(key[1], key[2]) # {}}
    IN  [key \in keys |->
           [covered   |-> Cardinality(measured(key[1], key[2])),
            opponents |-> facing(key[1]),
            faced     |-> {<<f.week, allowed[<<f.team, key[2]>>]>> : f \in measured(key[1], key[2])},
            league    |-> {<<pair[1], allowed[pair]>> : pair \in {q \in DOMAIN allowed : q[2] = key[2]}}]]

\* The coach of most of a team's games is its coach of the season.
CoachedGames(games, year, team, coach) ==
    Cardinality({g \in games : g.season = year /\ g.home = team /\ g.homeCoach = coach})
    + Cardinality({g \in games : g.season = year /\ g.away = team /\ g.awayCoach = coach})

Coaches(store) ==
    LET games == {g \in store.games : g.type = "REG"}
        who   == ({g.homeCoach : g \in games} \cup {g.awayCoach : g \in games}) \ {Null}
        led(key, coach) == CoachedGames(games, key[1], key[2], coach)
        keys  == {key \in {g.season : g \in games}
                          \X ({g.home : g \in games} \cup {g.away : g \in games}) :
                      \E coach \in who : led(key, coach) > 0}
        most(key) == {coach \in who : \A other \in who : led(key, coach) >= led(key, other)}
    IN  Picks(keys, most)

EverySpell(coachOf, season, team) ==
    {year \in {key[1] : key \in DOMAIN coachOf} :
        year < season /\ <<year, team>> \in DOMAIN coachOf
                      /\ coachOf[<<year, team>>] = coachOf[<<season, team>>]}

\* The seasons before this one that he has coached the team without a break.
Tenure(coachOf, season, team) ==
    {year \in {key[1] : key \in DOMAIN coachOf} :
        year < season /\ \A y \in year..season :
            <<y, team>> \in DOMAIN coachOf /\ coachOf[<<y, team>>] = coachOf[<<season, team>>]}

Touched(row) == Plus(row.carries, row.receptions)
TouchesOf(rows) == Total(rows, Touched)

\* What each rookie of a season carried and caught for a team.
RookieTouches(store) ==
    LET rookie(row) == \E p \in store.players :
                          /\ p.id = row.player /\ p.rookie = row.season
                          /\ p.position \in RookieTouchPositions
        lines == {row \in store.stats : /\ row.type = "REG" /\ row.team # Null
                                         /\ rookie(row) /\ Touched(row) # Null}
        keys  == {[season |-> row.season, team |-> row.team, player |-> row.player] : row \in lines}
    IN  {[key |-> key,
          touches |-> TouchesOf({row \in lines : /\ row.season = key.season /\ row.team = key.team
                                                  /\ row.player = key.player})] : key \in keys}

Amount(t) == t.touches
AllTouches(touches) == Total(touches, Amount)

LandingSpot(coachOf, touches, season, team, ranked, rank) ==
    LET years == Tenure(coachOf, season, team)
        under == {t \in touches : t.key.team = team /\ t.key.season \in years}
    IN  [coach     |-> coachOf[<<season, team>>],
         seasons   |-> Cardinality(years),
         average   |-> IF years = {} THEN Null
                       ELSE [sum |-> AllTouches(under), over |-> Cardinality(years)],
         rank      |-> rank,
         ranked    |-> ranked,
         workhorse |-> \E t \in under : /\ t.key.season = Max(years)
                                        /\ t.touches >= MeaningfulTouches]

\* Every team with a coach, those he has had a season with ranked by it.
RookieOpportunity(store, coachOf, season) ==
    LET teams   == {key[2] : key \in {k \in DOMAIN coachOf : k[1] = season}}
        measured == {t \in teams : Tenure(coachOf, season, t) # {}}
        touches == RookieTouches(store)
        spot(t, rank) == LandingSpot(coachOf, touches, season, t, Cardinality(measured), rank)
        ranks   == {f \in [measured -> 1..Cardinality(measured)] :
                       \A s, t \in measured : s # t =>
                          /\ f[s] # f[t]
                          /\ Greater(spot(s, Null).average, spot(t, Null).average) => f[s] < f[t]}
    IN  {[t \in teams |-> spot(t, IF t \in measured THEN f[t] ELSE Null)] : f \in ranks}
=============================================================================
