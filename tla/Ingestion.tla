------------------------------ MODULE Ingestion ------------------------------
(***************************************************************************)
(* The ingestion jobs (src/fhe/data/ingest): a run is opened and committed *)
(* as RUNNING, the provider is awaited, the id map is read in a session of *)
(* its own, the rows are written in one transaction of several upserts,    *)
(* and the run is closed.  A command line job and an upload may be at work *)
(* at once; either process may be killed anywhere.                         *)
(***************************************************************************)
EXTENDS DatasetRows

CONSTANTS
    Slots,           \* where jobs run: the command line, the web process
    Batches(_),      \* the sequences of datasets a slot is asked for
    Frames(_),       \* the answers a provider, or an upload, may give
    Floor(_),        \* the fewest rows a job accepts
    Season,
    MaxRuns          \* bound: ingestion runs ever opened

VARIABLES
    db,      \* the tables: players, ids, health, conflicts, rows
    runs,    \* data_ingestion_runs: the status of each run, in order
    job,     \* what each slot is doing
    killed   \* the runs whose process died

ingestVars == <<db, runs, job, killed>>

Tables(kind) ==
    CASE kind = "players"  -> {"players", "ids", "health", "conflicts"}
      [] kind = "injuries" -> {"injury_events", "practice_reports"}
      [] OTHER             -> {kind}

Datasets == {"players", "injuries", "weekly_stats", "snap_counts", "depth_charts",
             "schedule", "adp", "projections"}

(* The tables a slot may be asked to write: the commands load what the      *)
(* public providers publish, the uploads what only a file can hold; the     *)
(* jobs of one slot follow one another.                                     *)
Loads(s) == UNION {UNION {Tables(batch[i]) : i \in DOMAIN batch} : batch \in Batches(s)}

ASSUME SlotsAssumption ==
    /\ \A s \in Slots : Batches(s) \subseteq Seq(Datasets)
    /\ \A s, t \in Slots : s # t => Loads(s) \cap Loads(t) = {}

(* The payload is a sequence of entries, each under a provider id of its    *)
(* own, or none.                                                            *)
ASSUME PayloadAssumption ==
    \A f \in Frames("players") :
        LET named == {i \in DOMAIN f.rows : CleanToken(f.rows[i].sleeper) # None}
        IN  /\ Len(f.rows) \in Nat /\ DOMAIN f.rows = 1..Len(f.rows)
            /\ \A i \in named : f.rows[i].sleeper \in Nat
            /\ \A i, j \in named : f.rows[i].sleeper = f.rows[j].sleeper => i = j

Idle == [stage |-> "idle", todo |-> <<>>]

IngestInit ==
    /\ db = [players |-> <<>>, ids |-> {}, health |-> <<>>, conflicts |-> {}, rows |-> {}]
    /\ runs = <<>>
    /\ job = [s \in Slots |-> Idle]
    /\ killed = {}

Kind(s) == job[s].todo[1]

(* A command names its datasets; an upload is one. *)
Ask(s) ==
    /\ job[s].stage = "idle" /\ job[s].todo = <<>>
    /\ \E batch \in Batches(s) :
          job' = [job EXCEPT ![s] = [stage |-> "idle", todo |-> batch]]
    /\ UNCHANGED <<db, runs, killed>>

(* The run is committed as RUNNING before any work. *)
Open(s) ==
    /\ job[s].stage = "idle" /\ job[s].todo # <<>> /\ Len(runs) < MaxRuns
    /\ runs' = Append(runs, "RUNNING")
    /\ job' = [job EXCEPT ![s] = [stage |-> "fetch", todo |-> job[s].todo,
                                  run |-> Len(runs) + 1, base |-> db]]
    /\ UNCHANGED <<db, killed>>

(* An error inside the job closes the run as FAILED and goes on up: the     *)
(* rest of the batch is never tried.                                        *)
Failed(s) ==
    /\ runs' = [runs EXCEPT ![job[s].run] = "FAILED"]
    /\ job' = [job EXCEPT ![s] = Idle]

(* A bug: only a provider's error is caught, so a refusal leaves the run    *)
(* open.                                                                    *)
LeftOpen(s) ==
    /\ runs' = runs
    /\ job' = [job EXCEPT ![s] = Idle]

(* A payload, a file or a frame too small to be true is refused. *)
Refused(s) == Failed(s)

ProviderFails(s) ==
    /\ job[s].stage = "fetch"
    /\ Failed(s)
    /\ UNCHANGED <<db, killed>>

Fetch(s) ==
    /\ job[s].stage = "fetch"
    /\ \E f \in Frames(Kind(s)) :
          IF Len(f.rows) < Floor(Kind(s)) THEN Refused(s)
          ELSE /\ job' = [job EXCEPT ![s] =
                     [stage |-> "map", todo |-> job[s].todo, run |-> job[s].run,
                      base |-> job[s].base, frame |-> f]]
               /\ runs' = runs
    /\ UNCHANGED <<db, killed>>

(* {external id: player} of one system, as one query reads it. *)
IdMap(system) ==
    [i \in {e.id : e \in {x \in db.ids : x.system = system}} |->
        (CHOOSE e \in db.ids : e.system = system /\ e.id = i).uuid]

Rows(kind, frame) ==
    CASE kind = "injuries"     -> Injuries(frame.rows, IdMap("gsis_id"), Season)
      [] kind = "weekly_stats" -> WeeklyStats(frame.rows, IdMap("gsis_id"), Season)
      [] kind = "snap_counts"  -> SnapCounts(frame.rows, IdMap("pfr_id"), Season)
      [] kind = "depth_charts" -> DepthChart(frame.rows, IdMap("gsis_id"), Season)
      [] kind = "schedule"     -> Schedule(frame.rows, {Season})
      [] kind = "adp"          -> Adp(ConvertAdp(frame.rows, frame.columns),
                                      db.ids, db.players, Season)
      [] kind = "projections"  -> Projections(
                                      ConvertProjections(frame.rows, frame.columns, frame.default),
                                      db.ids, db.players, Season)
      [] OTHER -> Scan(frame.rows, FantasyPositions, frame.crosswalk, frame.index)

(* The maps are read and every row is judged; a dataset may still be        *)
(* refused as a whole.                                                      *)
Judge(s) ==
    /\ job[s].stage = "map"
    /\ LET made == Rows(Kind(s), job[s].frame)
       IN IF made.refused THEN Refused(s)
          ELSE /\ job' = [job EXCEPT ![s] =
                     [stage |-> "write", todo |-> job[s].todo, run |-> job[s].run,
                      base |-> job[s].base, frame |-> job[s].frame, made |-> made,
                      left |-> IF Kind(s) = "players"
                               THEN <<"players", "ids", "health", "conflicts">> ELSE <<"rows">>,
                      txn |-> db]]
               /\ runs' = runs
    /\ UNCHANGED <<db, killed>>

-----------------------------------------------------------------------------
(* One transaction, an upsert at a time.                                    *)

ByPlayer(rows) == [u \in {r.uuid : r \in rows} |-> CHOOSE r \in rows : r.uuid = u]

(* player_external_ids conflicts on (player, system) only: the statement    *)
(* fails when another player still holds the (system, id) of a row.         *)
Collides(ids, new) ==
    \E n \in new : \E o \in ids :
        /\ o.system = n.system /\ o.id = n.id /\ o.uuid # n.uuid
        /\ ~ \E m \in new : m.uuid = o.uuid /\ m.system = o.system /\ m.at < n.at

PutIds(ids, new) ==
    {o \in ids : ~ \E n \in new : n.uuid = o.uuid /\ n.system = o.system}
        \cup {[system |-> n.system, id |-> n.id, uuid |-> n.uuid] : n \in new}

PutRows(rows, new) ==
    {r \in rows : ~ \E n \in new : /\ n.table = r.table /\ n.uuid = r.uuid
                                   /\ n.season = r.season /\ n.week = r.week} \cup new

Upserted(txn, table, made) ==
    LET seen == ByPlayer(made.health)
    IN  CASE table = "players"   -> [txn EXCEPT !.players = ByPlayer(made.players) @@ @]
          [] table = "ids"       -> [txn EXCEPT !.ids = PutIds(@, made.ids)]
          [] table = "health"    -> [txn EXCEPT !.health =
                                        [u \in DOMAIN seen |-> seen[u].designation] @@ @]
          [] table = "conflicts" -> [txn EXCEPT !.conflicts = @ \cup made.conflicts]
          [] OTHER               -> [txn EXCEPT !.rows = PutRows(@, made.rows)]

(* A bug: a commit per table. *)
ExposedAtOnce(s, txn) ==
    [table \in DOMAIN db |->
        IF table = job[s].left[1] THEN txn[table] ELSE db[table]]

(* What other sessions see after an upsert of an open transaction: nothing. *)
Exposed(s, txn) == db

Upsert(s) ==
    /\ job[s].stage = "write" /\ job[s].left # <<>>
    /\ LET table == job[s].left[1]
           txn   == Upserted(job[s].txn, table, job[s].made)
       IN IF table = "ids" /\ Collides(job[s].txn.ids, job[s].made.ids)
          THEN /\ Failed(s)
               /\ db' = db
          ELSE /\ job' = [job EXCEPT ![s].txn = txn, ![s].left = Tail(@)]
               /\ db' = Exposed(s, txn)
               /\ runs' = runs
    /\ UNCHANGED killed

(* The transaction commits; the counters of the run are still to be stored. *)
Commit(s) ==
    /\ job[s].stage = "write" /\ job[s].left = <<>>
    /\ db' = IF Kind(s) = "players" THEN [job[s].txn EXCEPT !.rows = db.rows]
             ELSE [db EXCEPT !.rows = PutRows(@, job[s].made.rows)]
    /\ job' = [job EXCEPT ![s] = [stage |-> "close", todo |-> job[s].todo,
                                  run |-> job[s].run, made |-> job[s].made]]
    /\ UNCHANGED <<runs, killed>>

(* Reading nothing is no success. *)
Status(made) ==
    CASE made.read = 0                        -> "FAILED"
      [] made.read # 0 /\ made.rejected # 0   -> "PARTIAL"
      [] OTHER                                -> "SUCCESS"

Close(s) ==
    /\ job[s].stage = "close"
    /\ runs' = [runs EXCEPT ![job[s].run] = Status(job[s].made)]
    /\ job' = [job EXCEPT ![s] = [stage |-> "idle", todo |-> Tail(job[s].todo)]]
    /\ UNCHANGED <<db, killed>>

(* The process is killed, or the command cancelled: what was committed      *)
(* stays, the run row with it, the open transaction does not.               *)
Kill(s) ==
    /\ job[s].stage \notin {"idle"}
    /\ killed' = killed \cup {job[s].run}
    /\ job' = [job EXCEPT ![s] = Idle]
    /\ UNCHANGED <<db, runs>>

SlotNext(s) ==
    Ask(s) \/ Open(s) \/ ProviderFails(s) \/ Fetch(s) \/ Judge(s) \/ Upsert(s)
        \/ Commit(s) \/ Close(s) \/ Kill(s)

IngestNext == \E s \in Slots : SlotNext(s)

IngestSpec == IngestInit /\ [][IngestNext]_ingestVars

-----------------------------------------------------------------------------
(* Nobody sees half a sync: until a job commits, its tables read as they    *)
(* did when it opened, and a job that failed or was killed before that      *)
(* leaves no trace of itself.                                               *)
HalfASyncIsNeverSeen ==
    \A s \in Slots : job[s].stage \in {"fetch", "map", "write"} =>
        /\ Kind(s) = "players" =>
              /\ db.players = job[s].base.players /\ db.ids = job[s].base.ids
              /\ db.health = job[s].base.health /\ db.conflicts = job[s].base.conflicts
        /\ {r \in db.rows : r.table \in Tables(Kind(s))}
              = {r \in job[s].base.rows : r.table \in Tables(Kind(s))}

(* A run that reads RUNNING is one somebody is working on, or one whose     *)
(* process died: no error inside a job leaves its run open.                 *)
RunningMeansAtWork ==
    \A r \in DOMAIN runs : runs[r] = "RUNNING" =>
        r \in killed \/ \E s \in Slots : job[s].stage # "idle" /\ job[s].run = r

Owners(made) == {[system |-> n.system, id |-> n.id, uuid |-> n.uuid] : n \in made.ids}

Orders(rows) ==
    LET places == DOMAIN rows
    IN  {[i \in places |-> rows[order[i]]] :
            order \in {f \in [places -> places] : \A i \in places : \E j \in places : f[j] = i}}

(* No two entries of a payload are the same internal player. *)
OneEntryEach(f) ==
    LET outcome == Outcomes(f.rows, f.crosswalk, f.index)
        known   == Known(f.rows, FantasyPositions, outcome)
    IN  FirstEntries(known, outcome) = known

(* Who owns a contested external id does not depend on the order of the     *)
(* payload (of two entries of one internal player the first is kept, so     *)
(* there the order does decide).                                            *)
OwnersIgnoreOrder ==
    \A s \in Slots : job[s].stage = "write" /\ Kind(s) = "players" =>
        LET f == job[s].frame
        IN  OneEntryEach(f) =>
                \A rows \in Orders(f.rows) :
                    Owners(Scan(rows, FantasyPositions, f.crosswalk, f.index))
                        = Owners(job[s].made)

(* A sync never falls over on the ids it writes: a contested id is settled  *)
(* and reported "instead of crashing the sync".                             *)
SyncNeverCollides ==
    \A s \in Slots :
        job[s].stage = "write" /\ job[s].left # <<>> =>
            ~ (job[s].left[1] = "ids" /\ Collides(job[s].txn.ids, job[s].made.ids))
=============================================================================
