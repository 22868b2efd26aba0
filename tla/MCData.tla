------------------------------- MODULE MCData -------------------------------
(***************************************************************************)
(* Where the program's data come from and where they are put: the files of *)
(* the public providers, the licensed calls, the ingestion of players and  *)
(* their rows, the schema of the database. Each behaviour is of one.       *)
(***************************************************************************)
EXTENDS AssetCache, LicensedCalls, MCIngestion, Schema

VARIABLE which

vars == <<which, cacheVars, licenceVars, ingestVars, schemaVars>>

Init ==
    /\ CacheInit /\ LicenceInit /\ IngestInit /\ SchemaInit
    /\ which \in {"file", "licence", "ingestion", "schema"}
    /\ which # "file" => provider = "sleeper"
    /\ which # "schema" => dialect = "sqlite"

KeepOthers(own) ==
    /\ own # "file" => UNCHANGED cacheVars
    /\ own # "licence" => UNCHANGED licenceVars
    /\ own # "ingestion" => UNCHANGED ingestVars
    /\ own # "schema" => UNCHANGED schemaVars

Next ==
    /\ UNCHANGED which /\ KeepOthers(which)
    /\ \/ which = "file" /\ CacheNext
       \/ which = "licence" /\ LicenceNext
       \/ which = "ingestion" /\ IngestNext
       \/ which = "schema" /\ SchemaNext

Spec == Init /\ [][Next]_vars
=============================================================================
