---------------------------- MODULE SchemaTables ----------------------------
(***************************************************************************)
(* The database's schema, three times: what the migrations build, what the *)
(* models say it is, and the keys the upserts rely on.                     *)
(*                                                                         *)
(* A table is its unique keys, the nullable columns among them, the tables *)
(* it references, the columns later migrations add, and the SQL function   *)
(* that dates its rows; plain columns, types and indexes are left out.     *)
(***************************************************************************)
EXTENDS Naturals, Sequences

LOCAL INSTANCE SequencesExt

Relation(name, keys, refs) ==
    [table |-> name, keys |-> keys, loose |-> {}, refs |-> refs, added |-> {},
     clock |-> "CURRENT_TIMESTAMP"]

\* A table with a serial id, and a key of its own that may have nullable columns.
Keyed(name, key, refs) == Relation(name, {{"id"}, key}, refs)
Loosely(table, columns) == [table EXCEPT !.loose = columns]

PlayerWeek == {"player_uuid", "season", "week", "source"}
PerWeek(name) == Keyed(name, PlayerWeek, {"players"})

-----------------------------------------------------------------------------
(* The first revision creates its tables in this order. *)

FirstRoots ==
    <<Relation("data_ingestion_runs", {{"id"}}, {}),
      Relation("data_quality_results", {{"id"}}, {}),
      Loosely(Keyed("fantasy_leagues", {"provider_league_id", "source"}, {}),
              {"provider_league_id"}),
      Loosely(Keyed("player_identity_conflicts", {"sleeper_id", "reason"}, {}), {"sleeper_id"}),
      Relation("players", {{"player_uuid"}}, {})>>

NextRoots ==
    <<Keyed("provider_sync_state", {"provider", "dataset"}, {}),
      Relation("seasons", {{"season"}}, {}),
      Relation("teams", {{"abbreviation"}}, {})>>

MarketTables ==
    <<Keyed("adp_snapshots",
            {"player_uuid", "season", "scoring_format", "source", "snapshot_date"}, {"players"}),
      Keyed("availability_predictions",
            {"player_uuid", "model_version", "season", "week", "horizon_weeks"}, {"players"}),
      Relation("current_player_health", {{"player_uuid"}}, {"players"}),
      PerWeek("depth_chart_snapshots"),
      Loosely(Keyed("drafts", {"provider_draft_id", "source"}, {"fantasy_leagues"}),
              {"provider_draft_id"})>>

OutlookTables ==
    <<Keyed("fantasy_projections",
            {"player_uuid", "season", "week", "scoring_format", "source"}, {"players"}),
      Keyed("fantasy_rankings",
            {"player_uuid", "season", "roster_signature", "computed_at"}, {"players"}),
      Keyed("fantasy_rosters", {"league_id", "roster_id"}, {"fantasy_leagues"}),
      Keyed("health_score_snapshots", {"player_uuid", "model_version", "computed_at"},
            {"players"}),
      PerWeek("injury_events")>>

HistoryTables ==
    <<Relation("player_external_ids",
            {{"id"}, {"player_uuid", "system"}, {"system", "external_id"}}, {"players"}),
      PerWeek("player_weekly_stats"), PerWeek("practice_reports"), PerWeek("snap_counts")>>

DraftTables ==
    <<Loosely(Relation("draft_picks",
                    {{"id"}, {"draft_id", "pick_no"}, {"draft_id", "player_uuid"}},
                    {"drafts", "players"}),
              {"player_uuid"}),
      Keyed("draft_recommendation_snapshots", {"draft_id", "pick_no"}, {"drafts"}),
      Keyed("draft_slots", {"draft_id", "draft_slot"}, {"drafts"}),
      Keyed("roster_players", {"roster_pk", "player_uuid"}, {"players", "fantasy_rosters"})>>

\* The second revision's table, whose rows the server dates with another function.
ScheduledGames ==
    [Keyed("scheduled_games", {"provider_game_id", "source"}, {}) EXCEPT !.clock = "now()"]

RookieColumnsAlone ==
    <<<<"players", "rookie_season">>, <<"players", "draft_year">>, <<"players", "draft_round">>,
      <<"players", "draft_pick">>>>

\* The columns of the third, all nullable.
RookieColumns ==
    <<<<"players", "rookie_season">>, <<"players", "draft_year">>, <<"players", "draft_round">>,
      <<"players", "draft_pick">>, <<"scheduled_games", "home_coach">>,
      <<"scheduled_games", "away_coach">>>>

FirstTables ==
    FirstRoots \o NextRoots \o MarketTables \o OutlookTables \o HistoryTables \o DraftTables

Newest == 3

Order(op, on, what) == [op |-> op, on |-> on, what |-> what]
CreateTable(table) == Order("create", table.table, {table})
DropTable(table)   == Order("drop", table.table, {table})
AddColumn(column)  == Order("add", column[1], {column[2]})
DropColumn(column) == Order("remove", column[1], {column[2]})

Each(Op(_), list) == [i \in DOMAIN list |-> Op(list[i])]

Upgrade(revision) ==
    CASE revision = 1 -> Each(CreateTable, FirstTables)
      [] revision = 2 -> <<CreateTable(ScheduledGames)>>
      [] revision = 3 -> Each(AddColumn, RookieColumns)

DropAsCreated == Each(DropTable, FirstTables)

DropFirstTables == Each(DropTable, Reverse(FirstTables))

Downgrade(revision) ==
    CASE revision = 1 -> DropFirstTables
      [] revision = 2 -> <<DropTable(ScheduledGames)>>
      [] revision = 3 -> Each(DropColumn, Reverse(RookieColumns))

-----------------------------------------------------------------------------
(* The models, as their classes declare them. *)

LeagueModels ==
    {Loosely(Keyed("fantasy_leagues", {"provider_league_id", "source"}, {}),
             {"provider_league_id"}),
     Loosely(Keyed("drafts", {"provider_draft_id", "source"}, {"fantasy_leagues"}),
             {"provider_draft_id"}),
     Keyed("draft_slots", {"draft_id", "draft_slot"}, {"drafts"})}

PickModels ==
    {Loosely([Keyed("draft_picks", {"draft_id", "pick_no"}, {"drafts", "players"})
                 EXCEPT !.keys = @ \cup {{"draft_id", "player_uuid"}}],
             {"player_uuid"}),
     Keyed("fantasy_rosters", {"league_id", "roster_id"}, {"fantasy_leagues"}),
     Keyed("roster_players", {"roster_pk", "player_uuid"}, {"players", "fantasy_rosters"}),
     Keyed("draft_recommendation_snapshots", {"draft_id", "pick_no"}, {"drafts"})}

FootballModels ==
    {PerWeek("player_weekly_stats"), PerWeek("snap_counts"), PerWeek("depth_chart_snapshots"),
     [Keyed("scheduled_games", {"provider_game_id", "source"}, {})
         EXCEPT !.added = {"home_coach", "away_coach"}]}

FantasyModels ==
    {Keyed("fantasy_projections",
           {"player_uuid", "season", "week", "scoring_format", "source"}, {"players"}),
     Keyed("adp_snapshots",
           {"player_uuid", "season", "scoring_format", "source", "snapshot_date"}, {"players"}),
     Keyed("fantasy_rankings", {"player_uuid", "season", "roster_signature", "computed_at"},
           {"players"})}

ReportModels ==
    {PerWeek("injury_events"), PerWeek("practice_reports"),
     Relation("current_player_health", {{"player_uuid"}}, {"players"})}

ForecastModels ==
    {Keyed("health_score_snapshots", {"player_uuid", "model_version", "computed_at"},
           {"players"}),
     Keyed("availability_predictions",
           {"player_uuid", "model_version", "season", "week", "horizon_weeks"}, {"players"})}

PipelineModels ==
    {Relation("data_ingestion_runs", {{"id"}}, {}), Relation("data_quality_results", {{"id"}}, {}),
     Keyed("provider_sync_state", {"provider", "dataset"}, {})}

PlayerModels ==
    {[Relation("players", {{"player_uuid"}}, {})
         EXCEPT !.added = {"rookie_season", "draft_year", "draft_round", "draft_pick"}],
     Relation("player_external_ids",
           {{"id"}, {"system", "external_id"}, {"player_uuid", "system"}}, {"players"}),
     Loosely(Keyed("player_identity_conflicts", {"sleeper_id", "reason"}, {}), {"sleeper_id"}),
     Relation("teams", {{"abbreviation"}}, {}), Relation("seasons", {{"season"}}, {})}

Models ==
    UNION {LeagueModels, PickModels, FootballModels, FantasyModels, ReportModels,
           ForecastModels, PipelineModels, PlayerModels}

-----------------------------------------------------------------------------
(* What each upsert names as its conflict, and the nullable columns of it  *)
(* that its caller always fills.                                           *)

Target(name, key, filled) == [table |-> name, key |-> key, filled |-> filled]

Upserts ==
    {Target("draft_picks", {"draft_id", "pick_no"}, {}),
     Target("fantasy_leagues", {"provider_league_id", "source"}, {"provider_league_id"}),
     Target("drafts", {"provider_draft_id", "source"}, {"provider_draft_id"}),
     Target("players", {"player_uuid"}, {}),
     Target("player_external_ids", {"player_uuid", "system"}, {}),
     Target("current_player_health", {"player_uuid"}, {}),
     Target("player_identity_conflicts", {"sleeper_id", "reason"}, {"sleeper_id"}),
     Target("adp_snapshots",
            {"player_uuid", "season", "scoring_format", "source", "snapshot_date"}, {}),
     Target("fantasy_projections",
            {"player_uuid", "season", "week", "scoring_format", "source"}, {}),
     Target("scheduled_games", {"provider_game_id", "source"}, {})}
    \cup {Target(name, PlayerWeek, {}) :
             name \in {"depth_chart_snapshots", "injury_events", "practice_reports",
                       "player_weekly_stats", "snap_counts"}}
=============================================================================
