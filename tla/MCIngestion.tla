----------------------------- MODULE MCIngestion -----------------------------
(* Two players and a namesake, one of them without an nflverse id until the *)
(* crosswalk or the index learns it, and one id both of them claim.         *)
EXTENDS Ingestion

CONSTANTS NA

MCNullTokens == {None, NA}
MCSuffixes   == {"jr"}
MCFantasyPositions == {"RB", "WR"}

Entry(sleeper, name, team, gsis) ==
    [sleeper |-> sleeper, name |-> name, position |-> "RB", team |-> team,
     gsis |-> gsis, status |-> IF sleeper = 1 THEN "OUT" ELSE None]

Rookie  == Entry(1, <<"smith", "jr">>, "SEA", NA)
Veteran == Entry(2, <<"jones">>, "DEN", 20)
Double  == Entry(3, <<"jones">>, "DEN", 20)

Early == Crosswalk(<<[sleeper |-> 1, ids |-> [pfr_id |-> 7, espn_id |-> 5]]>>)
Later == Crosswalk(<<[sleeper |-> 1, ids |-> [gsis_id |-> NA, pfr_id |-> 7]],
                     [sleeper |-> 1, ids |-> [gsis_id |-> 10, pfr_id |-> 8, espn_id |-> 5]]>>)
Table == Index({[gsis |-> 20, name |-> <<"jones">>, position |-> "RB", team |-> "DEN",
                 ids |-> [pfr_id |-> 7]],
                [gsis |-> NA, name |-> <<"smith">>, position |-> "RB", team |-> "SEA",
                 ids |-> [pfr_id |-> NA]]})
Draftee == {[gsis |-> 10, name |-> <<"smith">>, position |-> "RB", team |-> "SEA",
             ids |-> [pfr_id |-> NA]]}

Payload(rows, crosswalk, index) == [rows |-> rows, crosswalk |-> crosswalk, index |-> index]

Stat(gsis, week, value) ==
    [joinId |-> gsis, position |-> "RB", week |-> week, value |-> value,
     injury |-> value, practice |-> IF week = None THEN None ELSE value]

Listing(dt, gsis, rank) ==
    [dt |-> dt, joinId |-> gsis, position |-> "RB", rank |-> rank]

Game(game, season, week) ==
    [game |-> game, season |-> season, week |-> week, type |-> "REG", value |-> 7]

Line(name, team, week, value) ==
    [sleeper |-> None, gsis |-> None, name |-> name, position |-> "RB", team |-> team,
     nameTeam |-> None, week |-> week, value |-> value]

Sheet(rows) == [rows |-> rows, columns |-> {"position", "team"}, default |-> None]

Only(rows) == [rows |-> rows]

MCFrames(kind) ==
    CASE kind = "players" ->
            {Payload(<<>>, NoIds, {}),
             Payload(<<Rookie, Veteran>>, Early, Table),
             Payload(<<Veteran, Rookie>>, Later, Draftee),
             Payload(<<Double, Rookie, Veteran>>, NoIds, Draftee)}
      [] kind \in {"injuries", "weekly_stats"} ->
            {Only(<<Stat(20, 1, 1), Stat(20, 1, 2), Stat(10, None, 3), Stat(99, 2, 4),
                    Stat(NA, 2, 5), Stat(20, 9, 6)>>)}
      [] kind = "snap_counts"  -> {Only(<<Stat(7, 1, 1), Stat(8, 1, 2)>>)}
      [] kind = "depth_charts" ->
            {Only(<<Listing(1, 10, 1), Listing(2, 20, 2), Listing(2, 20, 1),
                    Listing(2, 10, None), Listing(2, NA, 3)>>),
             Only(<<Listing(3, 10, 1)>>)}
      [] kind = "schedule"     ->
            {Only(<<Game(1, Season, 1), Game(2, Season, 2), Game(3, Season, 99), Game(4, 1, 1)>>),
             Only(<<Game(1, Season, 1)>>)}
      [] OTHER ->
            {Sheet(<<Line(<<"smith">>, "SEA", 1, 5), Line(<<"smith">>, None, 99, 6),
                     Line(<<"jones">>, "NYG", None, 7), Line(None, "SEA", 1, 8)>>),
             Sheet(<<>>)}

MCBatches(slot) ==
    IF slot = "cli"
    THEN {<<"players">>, <<"injuries">>, <<"weekly_stats", "snap_counts">>,
          <<"depth_charts">>, <<"schedule">>}
    ELSE {<<"adp">>, <<"projections">>}

MCFloor(kind) == IF kind = "players" THEN 1 ELSE 0
=============================================================================
