------------------------------- MODULE Schema -------------------------------
(***************************************************************************)
(* One database as it is upgraded, lowered, seeded, ingested into and      *)
(* killed, while one image of the API or another serves from it. On        *)
(* PostgreSQL a whole command is one transaction; on SQLite every          *)
(* statement is final.                                                     *)
(***************************************************************************)
EXTENDS SchemaTables

LOCAL INSTANCE SequencesExt

VARIABLES
    dialect,
    work,         \* what a connection at work sees: [tables, version]
    visible,      \* what the others see: the same when no transaction is open
    command,      \* "none", "upgrade", "downgrade", "seed" or "ingest"
    orders,       \* the statements it has left
    released,     \* the newest revision in the image that is released
    serving       \* the revision the serving API was built for, 0 while none serves

schemaVars == <<dialect, work, visible, command, orders, released, serving>>

SchemaInit ==
    /\ dialect \in {"postgresql", "sqlite"}
    /\ work = [tables |-> {}, version |-> 0]
    /\ visible = work
    /\ command = "none" /\ orders = <<>>
    /\ released = 1 /\ serving = 0

Transactional == dialect = "postgresql"

NameOf(table) == table.table
Named(tables, name) == {t \in tables : t.table = name}

\* What the database does of its own accord with a statement it cannot run.
CanRun(tables, order) ==
    LET here == Named(tables, order.on)
    IN  CASE order.op = "create" ->
                 /\ here = {}
                 /\ Transactional => \A t \in order.what : t.refs \subseteq {NameOf(u) : u \in tables}
          [] order.op = "drop" ->
                 /\ here # {}
                 /\ Transactional => \A u \in tables \ here : order.on \notin u.refs
          [] order.op = "add"    -> \E t \in here : order.what \cap t.added = {}
          [] order.op = "remove" -> \E t \in here : order.what \subseteq t.added

Effect(tables, order) ==
    LET here == Named(tables, order.on)
    IN  (tables \ here) \cup
        CASE order.op = "create" -> order.what
          [] order.op = "drop"   -> {}
          [] order.op = "add"    -> {[t EXCEPT !.added = @ \cup order.what] : t \in here}
          [] order.op = "remove" -> {[t EXCEPT !.added = @ \ order.what] : t \in here}

AsUpgradedTo[revision \in 0..Newest] ==
    IF revision = 0 THEN {}
    ELSE FoldLeft(Effect, AsUpgradedTo[revision - 1], Upgrade(revision))

\* The tables an image's models describe: of the images before the newest, what
\* their migrations build.
ImageModels(image) ==
    IF image = Newest THEN Models
    ELSE {[t EXCEPT !.clock = "CURRENT_TIMESTAMP"] : t \in AsUpgradedTo[image]}

-----------------------------------------------------------------------------
(* alembic upgrade head, alembic downgrade -1, fhe seed, ingest and quality *)

StartUpgrade ==
    /\ command = "none" /\ work.version < released
    /\ command' = "upgrade" /\ orders' = Upgrade(work.version + 1)
    /\ UNCHANGED <<dialect, work, visible, released, serving>>

\* An operator lowers the schema beneath an image only after rolling it back.
StartDowngrade ==
    /\ command = "none" /\ work.version > serving
    /\ command' = "downgrade" /\ orders' = Downgrade(work.version)
    /\ UNCHANGED <<dialect, work, visible, released, serving>>

\* create_all goes down the tables of the image's models, referenced ones first, and
\* creates those that are missing; it never looks at a column.
CreateAllPlan(tables, image) ==
    LET models  == ImageModels(image)
        missing == SelectSeq(Each(NameOf, <<ScheduledGames>> \o FirstTables),
                             LAMBDA name : Named(models, name) # {} /\ Named(tables, name) = {})
        model(name) == CHOOSE m \in models : m.table = name
    IN  [i \in DOMAIN missing |-> CreateTable(model(missing[i]))]

\* fhe seed is no more than this; each fhe ingest and fhe quality begins with it.
StartCreateAll ==
    /\ command = "none" /\ command' \in {"seed", "ingest"}
    /\ \E image \in 1..released : orders' = CreateAllPlan(work.tables, image)
    /\ UNCHANGED <<dialect, work, visible, released, serving>>

Statement ==
    /\ orders # <<>> /\ CanRun(work.tables, Head(orders))
    /\ work' = [work EXCEPT !.tables = Effect(@, Head(orders))]
    /\ visible' = IF Transactional THEN visible ELSE work'
    /\ orders' = Tail(orders)
    /\ UNCHANGED <<dialect, command, released, serving>>

\* The stamp is the last write of a revision.
NewStamp ==
    CASE command = "upgrade"   -> work.version + 1
      [] command = "downgrade" -> work.version - 1
      [] OTHER                 -> work.version

Finish ==
    /\ command # "none" /\ orders = <<>>
    /\ work' = [work EXCEPT !.version = NewStamp]
    /\ IF command = "upgrade" /\ NewStamp < released
       THEN /\ orders' = Upgrade(NewStamp + 1)
            /\ visible' = IF Transactional THEN visible ELSE work'
            /\ UNCHANGED command
       ELSE /\ command' = "none" /\ visible' = work'
            /\ UNCHANGED orders
    /\ UNCHANGED <<dialect, released, serving>>

\* A statement that raises, or a process that dies: the open transaction goes.
Abort ==
    /\ command # "none"
    /\ work' = visible
    /\ command' = "none" /\ orders' = <<>>
    /\ UNCHANGED <<dialect, visible, released, serving>>

-----------------------------------------------------------------------------
(* The images of the API *)

Release ==
    /\ released < Newest /\ command = "none"
    /\ released' = released + 1
    /\ UNCHANGED <<dialect, work, visible, command, orders, serving>>

DeployUnmigrated ==
    /\ command = "none" /\ serving # released
    /\ serving' = released
    /\ UNCHANGED <<dialect, work, visible, command, orders, released>>

\* A release serves once its pre-deploy upgrade has gone through.
Deploy ==
    /\ command = "none" /\ visible.version = released /\ serving # released
    /\ serving' = released
    /\ UNCHANGED <<dialect, work, visible, command, orders, released>>

RollBack ==
    /\ \E older \in 1..(serving - 1) : serving' = older
    /\ UNCHANGED <<dialect, work, visible, command, orders, released>>

SchemaNext ==
    \/ StartUpgrade \/ StartDowngrade \/ StartCreateAll
    \/ Statement \/ Finish \/ Abort
    \/ Release \/ Deploy \/ RollBack

SchemaSpec == SchemaInit /\ [][SchemaNext]_schemaVars

\* A deployment that is never seeded.
DeploymentSpec == SchemaInit /\ [][SchemaNext /\ command' # "seed"]_schemaVars

-----------------------------------------------------------------------------
(* What is promised *)

Shape(table) == [table EXCEPT !.clock = "any"]
Shapes(tables) == {Shape(t) : t \in tables}

\* On the production database, a schema stamped with the newest revision is
\* the one the models describe, and every upsert names a key of it that no
\* null can slip past.
HeadIsTheModels ==
    Transactional /\ visible.version = Newest =>
        /\ Shapes(visible.tables) = Shapes(Models)
        /\ \A u \in Upserts : \E t \in Named(visible.tables, u.table) :
              u.key \in t.keys /\ u.key \cap t.loose \subseteq u.filled

\* The image that serves finds every table, key and column it was built for,
\* and no key or reference that its inserts would break, also while a newer
\* release is migrating and after a roll-back to an older image.
ImagesFindTheirSchema ==
    Transactional /\ serving # 0 =>
        \A t \in AsUpgradedTo[serving] : \E u \in visible.tables :
            /\ u.table = t.table /\ u.keys = t.keys /\ u.refs = t.refs
            /\ t.added \subseteq u.added

\* A command that cannot run its next statement has met tables that no migration
\* made, so ones of a create_all, run before the upgrade that makes them: nothing
\* that was killed or undone before is in its way.
OnlyCreateAllIsInTheWay ==
    Transactional /\ orders # <<>> /\ ~CanRun(work.tables, Head(orders)) =>
        \E t \in visible.tables : t \notin AsUpgradedTo[visible.version]

\* create_all is "used by `seed` for a throwaway local database. A real deployment
\* uses Alembic": where an image serves and nobody seeds, migrations made the tables.
\* Not kept, as every ingest begins with create_all.
DeploymentUsesAlembic ==
    Transactional /\ serving # 0 => visible.tables \subseteq AsUpgradedTo[visible.version]

\* What dates a row on each of the two: SQLite has no function now.
Clocks == IF Transactional THEN {"CURRENT_TIMESTAMP", "now()"} ELSE {"CURRENT_TIMESTAMP"}

\* Both databases are supported: every table that stands can date its rows,
\* so an insert that leaves the date to the server goes through.
RowsAreDatedOnBoth == \A t \in visible.tables : t.clock \in Clocks
=============================================================================
