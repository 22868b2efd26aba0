----------------------------- MODULE DatasetRows -----------------------------
(***************************************************************************)
(* What each dataset job makes of the rows it reads                        *)
(* (src/fhe/data/ingest): which it keeps, under which key, how many it     *)
(* rejects and how many it cannot place.  A frame is a sequence of rows in *)
(* the file's order; `map` is the external-id map the job loaded.          *)
(***************************************************************************)
EXTENDS Identity

CONSTANTS
    MaxWeek,            \* the last week of a season (23)
    FantasyPositions,   \* the positions a draft is about
    MinRegularGames,    \* below this a season's schedule is a truncated file
    MinChartRows        \* below this a depth chart is a partial one

SeasonLongWeek == 0

WeekIn(w) == w \in 1..MaxWeek

(* The rows of `usable` that come first under their key: what the `seen`    *)
(* sets of the loops keep.                                                  *)
FirstOfKey(usable, key) ==
    {i \in usable : \A j \in usable : j < i => key[j] # key[i]}

Joined(frame, map) == {i \in DOMAIN frame : CleanToken(frame[i].joinId) \in DOMAIN map}
NoJoinId(frame)    == {i \in DOMAIN frame : CleanToken(frame[i].joinId) = None}
Unplaced(frame, map) ==
    {i \in DOMAIN frame \ (Joined(frame, map) \cup NoJoinId(frame)) :
        frame[i].position \in FantasyPositions}

Row(table, uuid, season, week, value) ==
    [table |-> table, uuid |-> uuid, season |-> season, week |-> week, value |-> value]

(* Weekly production: keyed by player and week, a row without a real week   *)
(* is rejected.                                                             *)
Weekly(table, frame, map, season) ==
    LET Dated   == {i \in Joined(frame, map) : WeekIn(frame[i].week)}
        kept    == FirstOfKey(Dated, [i \in Dated |-> <<map[frame[i].joinId], frame[i].week>>])
    IN  [rows |-> {Row(table, map[frame[i].joinId], season, frame[i].week, frame[i].value)
                   : i \in kept},
         rejected   |-> Cardinality(NoJoinId(frame)) + Cardinality(Joined(frame, map) \ kept),
         unresolved |-> Cardinality(Unplaced(frame, map)),
         read |-> Len(frame), refused |-> FALSE]

WeeklyStats(frame, map, season) == Weekly("weekly_stats", frame, map, season)
SnapCounts(frame, map, season)  == Weekly("snap_counts", frame, map, season)

(* Injury reports: a report without a week is season-long, and one row may  *)
(* be both a game designation and a practice report, each kept once.        *)
Injuries(frame, map, season) ==
    LET Week(i)  == IF frame[i].week = None THEN SeasonLongWeek ELSE frame[i].week
        Dated    == {i \in Joined(frame, map) : frame[i].week = None \/ WeekIn(frame[i].week)}
        key      == [i \in Dated |-> <<map[frame[i].joinId], Week(i)>>]
        Reported  == {i \in Dated : frame[i].injury # None}
        Practised == {i \in Dated : frame[i].practice # None}
        injured   == FirstOfKey(Reported, key)
        practised == FirstOfKey(Practised, key)
    IN  [rows |-> {Row("injury_events", map[frame[i].joinId], season, Week(i),
                       frame[i].injury) : i \in injured}
                  \cup
                  {Row("practice_reports", map[frame[i].joinId], season, Week(i),
                       frame[i].practice) : i \in practised},
         rejected |-> Cardinality(NoJoinId(frame)) + Cardinality(Joined(frame, map) \ Dated)
                          + Cardinality(Reported \ injured)
                          + Cardinality(Practised \ practised),
         unresolved |-> Cardinality(Unplaced(frame, map)),
         read |-> Len(frame), refused |-> FALSE]

(* The listing kept of a player charted more than once. *)
BestListing(listings, frame) ==
    CHOOSE i \in listings : \A j \in listings : frame[i].rank <= frame[j].rank

(* The latest depth chart of a season: one listing per player. *)
DepthChart(frame, map, season) ==
    LET Current == {i \in DOMAIN frame : \A j \in DOMAIN frame : frame[j].dt <= frame[i].dt}
        Fantasy == {i \in Current : frame[i].position \in FantasyPositions}
        Ranked  == {i \in Fantasy : /\ i \in Joined(frame, map)
                                    /\ frame[i].rank # None}
        Listings(u) == {i \in Ranked : map[frame[i].joinId] = u}
        Charted == {map[frame[i].joinId] : i \in Ranked}
    IN  [rows |-> {Row("depth_charts", u, season, SeasonLongWeek,
                       frame[BestListing(Listings(u), frame)].rank) : u \in Charted},
         rejected |-> Cardinality(Fantasy) - Cardinality(Charted),
         unresolved |-> 0,
         read |-> Cardinality(Current), refused |-> Cardinality(Fantasy) \in 1..(MinChartRows - 1)]

(* The schedule of the seasons asked for: an unusable game is rejected, a   *)
(* season with only some of its games refuses the whole file.               *)
Schedule(frame, seasons) ==
    LET Wanted == {i \in DOMAIN frame : frame[i].season \in seasons}
        Usable == {i \in Wanted : /\ CleanToken(frame[i].game) # None
                                  /\ WeekIn(frame[i].week)}
        Regular(s) == {i \in Usable : frame[i].season = s /\ frame[i].type = "REG"}
    IN  [rows |-> {Row("schedule", <<"game", frame[i].game>>, frame[i].season, frame[i].week,
                       frame[i].value) : i \in Usable},
         rejected |-> Cardinality(Wanted \ Usable),
         unresolved |-> 0,
         read |-> Cardinality(Wanted), refused |-> \E s \in seasons : Cardinality(Regular(s)) \in 1..(MinRegularGames - 1)]

-----------------------------------------------------------------------------
(* Uploaded files.  A row names a player by id, or by name and position.    *)

(* The one member of a set of candidates, or nobody. *)
TheOnly(candidates) ==
    IF Cardinality(candidates) = 1 THEN CHOOSE u \in candidates : TRUE ELSE None

(* Which player a row means, among the ids and players one query read: an   *)
(* id that is present decides alone, a team narrows the name, and a name    *)
(* matching several players is nobody's.                                    *)
Match(row, ids, players) ==
    LET OwnerOf(system, id) ==
            TheOnly({e.uuid : e \in {x \in ids : x.system = system /\ x.id = id}})
        name     == NormalizeName(CleanToken(row.name))
        Anywhere == {u \in DOMAIN players : /\ players[u].name = name
                                            /\ players[u].position = row.position}
        OnTeam   == {u \in Anywhere : row.team # None /\ players[u].team = row.team}
    IN  CASE CleanToken(row.sleeper) # None -> OwnerOf("sleeper_id", row.sleeper)
          [] CleanToken(row.sleeper) = None /\ CleanToken(row.gsis) # None ->
                OwnerOf("gsis_id", row.gsis)
          [] OTHER -> IF name = <<>> THEN None
                      ELSE IF OnTeam # {} THEN TheOnly(OnTeam) ELSE TheOnly(Anywhere)

(* Average draft positions: the first valid row of a player. *)
Adp(rows, ids, players, season) ==
    LET Who(i)  == Match(rows[i], ids, players)
        Valid   == {i \in DOMAIN rows : Who(i) # None /\ rows[i].value # None}
        kept    == FirstOfKey(Valid, [i \in Valid |-> Who(i)])
    IN  [rows |-> {Row("adp", Who(i), season, SeasonLongWeek, rows[i].value) : i \in kept},
         rejected |-> Cardinality(DOMAIN rows \ kept),
         unresolved |-> 0,
         read |-> Len(rows), refused |-> FALSE]

(* Projections: a week outside the season makes the row season-long. *)
Projections(rows, ids, players, season) ==
    LET Who(i)  == Match(rows[i], ids, players)
        Week(i) == IF WeekIn(rows[i].week) THEN rows[i].week ELSE SeasonLongWeek
        Valid   == {i \in DOMAIN rows : Who(i) # None /\ rows[i].value # None}
        kept    == FirstOfKey(Valid, [i \in Valid |-> <<Who(i), Week(i)>>])
    IN  [rows |-> {Row("projections", Who(i), season, Week(i), rows[i].value) : i \in kept},
         rejected |-> Cardinality(DOMAIN rows \ kept),
         unresolved |-> 0,
         read |-> Len(rows), refused |-> FALSE]

(* A licensed export turned into the file the imports read: rows without a  *)
(* name, a position (the column's, else the one supplied) or a number are   *)
(* skipped; the team is the column's, or the one at the end of the name.    *)
Converted(export, columns, default) ==
    LET Position(r) == IF "position" \in columns THEN r.position ELSE default
        Team(r)     == IF "team" \in columns THEN r.team ELSE r.nameTeam
        Usable(r)   == r.name # None /\ Position(r) # None /\ r.value # None
        Turn(r)     == [sleeper |-> None, gsis |-> None, name |-> r.name,
                        position |-> Position(r), team |-> Team(r),
                        week |-> None, value |-> r.value]
        usable      == SelectSeq(export, Usable)
    IN  [i \in DOMAIN usable |-> Turn(usable[i])]

ConvertProjections(export, columns, default) == Converted(export, columns, default)
ConvertAdp(export, columns)                  == Converted(export, columns, None)
=============================================================================
