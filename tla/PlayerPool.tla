----------------------------- MODULE PlayerPool -----------------------------
(***************************************************************************)
(* Loading a draft pool (api/services/player_pool.py): one question after  *)
(* another in one session, each of which sees what was committed by then,  *)
(* while imports commit in between.                                        *)
(***************************************************************************)
EXTENDS PoolQueries, Sequences

CONSTANTS
    DraftSeason, Wanted, PoolLimit,
    FirstStores,    \* what may be in the tables before the first import
    Imports         \* the batches that may come: [table, rows]

VARIABLES
    store,   \* the tables
    asking,  \* the question that comes next
    held,    \* the answers so far
    built     \* the pool just built, and what is said of it

\* The tables, and those an import may write to.
Tables == {"players", "projections", "adp", "health", "injuries", "stats", "snaps", "charts", "games"}
Imported == Tables \ {"players", "games"}

\* What the weekly statistics count is not negative: _number leaves such cells out.
IsLine(row) == row.carries \in Nat \cup {Null} /\ row.receptions \in Nat \cup {Null}

ASSUME LimitAssumption ==
    PoolLimit \in Nat /\ DraftSeason \in Int /\ MeaningfulTouches \in Nat
ASSUME StoresAssumption ==
    \A first \in FirstStores :
        /\ DOMAIN first = Tables /\ \A table \in Tables : IsFiniteSet(first[table])
        /\ \A g \in first.games : g.season \in Int
        /\ Null \notin first.projections \cup first.adp
        /\ \A row \in first.stats : IsLine(row)
ASSUME ImportsAssumption ==
    \A batch \in Imports :
        /\ batch.table \in Imported /\ IsFiniteSet(batch.rows) /\ Null \notin batch.rows
        /\ batch.table = "stats" => \A row \in batch.rows : IsLine(row)

poolVars == <<store, asking, held, built>>

Questions ==
    <<"players", "projections", "adp", "health", "history", "workload", "usage", "depth",
      "allowed", "playoff", "coaches", "landing", "build">>

Nothing == [player \in {} |-> Null]

PoolInit ==
    /\ store \in FirstStores
    /\ asking = 1 /\ held = Nothing /\ built = Null

\* The key on which an import updates a row that is there already.
KeyOf(table, row) ==
    CASE table = "projections" -> <<row.player, row.season, row.week, row.format, row.source>>
      [] table = "adp"         -> <<row.player, row.season, row.format, row.source, row.snapshot>>
      [] table = "health"      -> <<row.player>>
      [] table \in {"stats", "snaps", "charts", "injuries"} ->
            <<row.player, row.season, row.week, row.source>>

Import ==
    \E batch \in Imports :
        LET new  == {KeyOf(batch.table, row) : row \in batch.rows}
            kept == {row \in store[batch.table] : KeyOf(batch.table, row) \notin new}
        IN  /\ store' = [store EXCEPT ![batch.table] = kept \cup batch.rows]
            /\ store' # store
            /\ UNCHANGED <<asking, held, built>>

-----------------------------------------------------------------------------
(* The load *)

Ask(question, answers) ==
    /\ Questions[asking] = question
    /\ \E answer \in answers :
          held' = [q \in DOMAIN held \cup {question} |-> IF q = question THEN answer ELSE held[q]]
    /\ asking' = asking + 1 /\ built' = Null
    /\ UNCHANGED store

Ids == {p.id : p \in held["players"]}
LastSeason == DraftSeason - 1

AskPlayers     == Ask("players", SelectPlayers(store, DraftSeason, PoolLimit))
AskProjections == Ask("projections", LatestProjections(store, Ids, DraftSeason, Wanted))
AskAdp         == Ask("adp", LatestAdp(store, Ids, DraftSeason, Wanted))
AskHealth      == Ask("health", {CurrentHealth(store, Ids)})
AskHistory     == Ask("history", {InjuryHistory(store, Ids, DraftSeason)})
AskWorkload    == Ask("workload", {Workload(store, Ids, LastSeason)})
AskUsage       == Ask("usage", {UsageOf(store, Ids, LastSeason, Wanted)})
AskDepth       == Ask("depth", DepthChart(store, Ids, DraftSeason))
AskAllowed     == Ask("allowed", {Allowed(store, LastSeason, Wanted)})
AskPlayoff     == Ask("playoff", {PlayoffSchedule(store, held["allowed"], DraftSeason)})
AskCoaches     == Ask("coaches", Coaches(store))
AskLanding     == Ask("landing", RookieOpportunity(store, held["coaches"], DraftSeason))

Of(answers, key) == IF key \in DOMAIN answers THEN answers[key] ELSE Null

IsRookie(p) == p.rookie = DraftSeason

Draftable(p) ==
    [projection |-> Of(held["projections"].values, p.id),
     adp        |-> Of(held["adp"].values, p.id),
     health     |-> Of(held["health"], p.id),
     injuries   |-> Of(held["history"], p.id),
     workload   |-> Of(held["workload"], p.id),
     usage      |-> Of(held["usage"], p.id),
     depth      |-> Of(held["depth"], p.id),
     isRookie   |-> IsRookie(p),
     landing    |-> IF IsRookie(p) THEN Of(held["landing"], p.team) ELSE Null,
     playoff    |-> Of(held["playoff"], <<p.team, p.position>>)]

\* A swap of the projections is told first.
ToldSwap(projections, adp) == IF projections.swap # Null THEN projections.swap ELSE adp.swap

Warnings(players, swap) ==
    LET missing(field) == \A id \in DOMAIN players : players[id][field] = Null
    IN  IF DOMAIN players = {} THEN {"no players"}
        ELSE {field \in {"projection", "adp", "health"} : missing(field)}
             \cup IF swap # Null THEN {"swapped"} ELSE {}

Built(players, swap) ==
    [players |-> players, swap |-> swap, warnings |-> Warnings(players, swap)]

Build ==
    /\ Questions[asking] = "build"
    /\ LET with(id) == CHOOSE p \in held["players"] : p.id = id
       IN  built' = Built([id \in Ids |-> Draftable(with(id))],
                         ToldSwap(held["projections"], held["adp"]))
    /\ asking' = 1 /\ held' = Nothing
    /\ UNCHANGED store

\* With nobody to ask about, nothing more is asked.
BuildEmpty ==
    /\ Questions[asking] = "projections" /\ held["players"] = {}
    /\ built' = Built(Nothing, Null)
    /\ asking' = 1 /\ held' = Nothing
    /\ UNCHANGED store

AskTheRest ==
    /\ Questions[asking] # "players" => held["players"] # {}
    /\ \/ AskPlayers \/ AskProjections \/ AskAdp \/ AskHealth \/ AskHistory \/ AskWorkload
       \/ AskUsage \/ AskDepth \/ AskAllowed \/ AskPlayoff \/ AskCoaches \/ AskLanding

PoolNext == Import \/ AskTheRest \/ Build \/ BuildEmpty

PoolSpec == PoolInit /\ [][PoolNext]_poolVars

-----------------------------------------------------------------------------
(* What is promised *)

Families(pool, field) ==
    {pool.players[id][field].format :
        id \in {i \in DOMAIN pool.players : pool.players[i][field] # Null}}

Foreign(pool, field) == Families(pool, field) \ {Wanted}

ToldApart(pool) ==
    LET told == IF Foreign(pool, "projection") # {} THEN Foreign(pool, "projection")
                ELSE Foreign(pool, "adp")
    IN  /\ Cardinality(Families(pool, "projection")) <= 1
        /\ Cardinality(Families(pool, "adp")) <= 1
        /\ IF told = {} THEN pool.swap = Null
           ELSE told = {pool.swap} /\ "swapped" \in pool.warnings

\* All projections of a pool are of one scoring family and all its draft
\* positions are, whatever was imported during the load.  A pool that says
\* nothing has the league's own; what it says is the projections' family or,
\* where those are the league's own, that of the draft positions.
FamiliesAreToldApart == built # Null => ToldApart(built)

\* "The whole pool reads one family": not kept, as projections and draft positions
\* resolve theirs apart.
WholePoolReadsOneFamily ==
    built # Null =>
        Cardinality(Families(built, "projection") \cup Families(built, "adp")) <= 1

\* Anyone who had a projection or a draft position before the load survives
\* the cut, as long as all who have one fit.
TheMarketSurvivesTheCut ==
    LET now == {p \in store.players : /\ p.active /\ p.position \in PoolPositions
                                      /\ Relevant(store, p.id, DraftSeason)}
        before(p) == \A first \in FirstStores : Relevant(first, p.id, DraftSeason)
    IN  built # Null /\ Cardinality(now) <= PoolLimit =>
            \A p \in now : before(p) => p.id \in DOMAIN built.players

Follows(spot, coachOf, team) ==
    /\ spot.coach = coachOf[<<DraftSeason, team>>]
    /\ \A k \in 1..spot.seasons : coachOf[<<DraftSeason - k, team>>] = spot.coach
    /\ (spot.rank = Null) = (spot.seasons = 0)
    /\ spot.workhorse => spot.average.sum >= MeaningfulTouches

\* A rookie's landing spot speaks of unbroken seasons under the coach he will
\* play for, and a workhorse among them shows in the average.
LandingSpotsFollowTheCoach ==
    asking = Len(Questions) =>
        \A team \in DOMAIN held["landing"] :
            Follows(held["landing"][team], held["coaches"], team)
=============================================================================
