---------------------------- MODULE MCPlayerPool ----------------------------
(* A popular back nobody values, a defence with a market and no popularity, *)
(* a rookie and a receiver; values in three families, the projections' and  *)
(* the market's at first two others than the league's; a coach with a spell *)
(* before this one.                                                         *)
EXTENDS PlayerPool

Man(id, position, popularity, team, rookie) ==
    [id |-> id, position |-> position, popularity |-> popularity, team |-> team,
     rookie |-> rookie, active |-> TRUE]

Projection(player, format, ingested) ==
    [player |-> player, season |-> 5, week |-> 0, format |-> format, source |-> "csv",
     ingested |-> ingested, points |-> 9]
Quote(player, format, snapshot, adp) ==
    [player |-> player, season |-> 5, format |-> format, source |-> "csv",
     snapshot |-> snapshot, adp |-> adp]
Played(player, season, team, opponent, touches) ==
    [player |-> player, season |-> season, week |-> 1, source |-> "nfl", type |-> "REG",
     team |-> team, opponent |-> opponent, carries |-> touches, receptions |-> 1, targets |-> 2,
     points |-> [ppr |-> 3, half_ppr |-> 2, standard |-> 1]]
Match(season, homeCoach) ==
    [season |-> season, week |-> 2, type |-> "REG", home |-> "SEA", away |-> "DEN",
     homeCoach |-> homeCoach, awayCoach |-> "pat"]

Peopled ==
    [players |-> {Man("back", "RB", 1, "DEN", 4), Man("defence", "DEF", Null, "SEA", Null),
                  Man("rookie", "WR", 2, "SEA", 5)},
     projections |-> {Projection("rookie", "standard", 1)},
     adp         |-> {Quote("defence", "ppr", 1, 4)},
     health      |-> {},
     injuries    |-> {[player |-> "rookie", season |-> 4, week |-> 1, source |-> "nfl", region |-> Null]},
     stats       |-> {Played("back", 4, "SEA", "DEN", 2),
                     [Played("back", 4, "SEA", "DEN", Null) EXCEPT !.week = 2]},
     snaps       |-> {[player |-> "rookie", season |-> 4, week |-> 1, source |-> "nfl",
                       snaps |-> 30, share |-> 80]},
     charts      |-> {[player |-> "back", season |-> 5, week |-> 0, source |-> "nfl", rank |-> 1,
                       observed |-> 3]},
     games       |-> {Match(2, "kim"), Match(3, "lee"), Match(4, "kim"), Match(5, "kim"),
                     [Match(3, "kim") EXCEPT !.week = 1], [Match(1, "kim") EXCEPT !.awayCoach = Null]}]

MCFirstStores == {Peopled, [Peopled EXCEPT !.players = {}]}

Batch(table, rows) == [table |-> table, rows |-> rows]

MCImports ==
    {Batch("projections", {Projection("rookie", "half_ppr", 2)}),
     Batch("projections", {Projection("back", "ppr", 2)}),
     Batch("adp", {Quote("rookie", "standard", 2, 3)}),
     Batch("adp", {Quote("rookie", "half_ppr", 2, 3), Quote("defence", "half_ppr", 2, 3)}),
     Batch("stats", {Played("back", 4, "SEA", "DEN", 6)}),
     Batch("health", {[player |-> "rookie", designation |-> "OUT"]})}
=============================================================================
