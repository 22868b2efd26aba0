----------------------------- MODULE AssetCache -----------------------------
(***************************************************************************)
(* The file a provider keeps one download in: SleeperProvider's player     *)
(* universe (get_all_players) or one asset of NflverseProvider             *)
(* (fetch_asset and the parse after it), read and refreshed by several     *)
(* processes that may die.  A refresh is written under a temporary name,   *)
(* which the processes share, and renamed.                                 *)
(*                                                                         *)
(* A body is good, or bad (it does not match its contract), or torn (a     *)
(* write not finished).                                                    *)
(***************************************************************************)
EXTENDS Naturals, FiniteSets

CONSTANTS Processes, MaxAge    \* MaxAge: the cache's, in ticks

ASSUME AgeAssumption == MaxAge \in Nat

VARIABLES
    provider,     \* "sleeper" or "nflverse": whose file this is
    store, age,   \* the body under each of the two names; the age of "file"
    proc,         \* per process: where it is, what it fetched, the name its open file has
    served,       \* what the last read of a process gave it
    met           \* history: two processes were refreshing at once

cacheVars == <<provider, store, age, proc, served, met>>

NoFile == "none"

AtRest == [pc |-> "idle", body |-> NoFile, into |-> NoFile]

\* Parsing: what is not good is an error of the caller's, never a value.
Served(body) == IF body = "good" THEN "good" ELSE "data_error"

\* sleeper looks at a body before it uses the file or replaces it; nflverse stores
\* what it was sent and parses it afterwards.
Accepts(body) == provider = "nflverse" \/ body = "good"

\* Mutated: the body is written under the cache's own name.
InPlace == "file"

WritesInto == "tmp"

CacheInit ==
    /\ provider \in {"sleeper", "nflverse"}
    /\ store = [tmp |-> NoFile, file |-> NoFile] /\ age = 0
    /\ proc = [p \in Processes |-> AtRest]
    /\ served = [p \in Processes |-> NoFile]
    /\ met = FALSE

Refreshing(p) == proc[p].pc \in {"writing", "written"}

\* A file fresh enough and usable is read; otherwise, or when forced, a request is sent.
Look(p) ==
    /\ proc[p].pc = "idle"
    /\ \/ /\ store["file"] # NoFile /\ age <= MaxAge /\ Accepts(store["file"])
          /\ served' = [served EXCEPT ![p] = Served(store["file"])]
          /\ UNCHANGED proc
       \/ /\ proc' = [proc EXCEPT ![p].pc = "asked"]
          /\ UNCHANGED served
    /\ UNCHANGED <<provider, store, age, met>>

\* A body to be stored truncates the temporary file; one refused is an error.
Answered(p, body) ==
    /\ proc[p].pc = "asked"
    /\ \/ /\ Accepts(body)
          /\ proc' = [proc EXCEPT ![p] = [pc |-> "writing", body |-> body, into |-> WritesInto]]
          /\ store' = [store EXCEPT ![WritesInto] = "torn"]
          /\ met' = (met \/ \E q \in Processes : Refreshing(q))
          /\ UNCHANGED served
       \/ /\ ~ Accepts(body)
          /\ served' = [served EXCEPT ![p] = "data_error"]
          /\ proc' = [proc EXCEPT ![p] = AtRest]
          /\ UNCHANGED <<store, met>>
    /\ UNCHANGED <<provider, age>>

Unanswered(p) ==
    /\ proc[p].pc = "asked"
    /\ proc' = [proc EXCEPT ![p] = AtRest]
    /\ served' = [served EXCEPT ![p] = "unavailable"]
    /\ UNCHANGED <<provider, store, age, met>>

\* The write ends, in the file that was opened, whatever its name is now.
Written(p) ==
    /\ proc[p].pc = "writing"
    /\ store' = [store EXCEPT ![proc[p].into] = proc[p].body]
    /\ proc' = [proc EXCEPT ![p].pc = "written"]
    /\ UNCHANGED <<provider, age, served, met>>

\* The rename takes along whoever still writes under the temporary name, and fails
\* when another process has renamed it already.
Renamed(p) ==
    /\ proc[p].pc = "written"
    /\ \/ /\ store["tmp"] # NoFile
          /\ store' = [tmp |-> NoFile, file |-> store["tmp"]]
          /\ age' = 0
          /\ served' = [served EXCEPT ![p] = Served(proc[p].body)]
          /\ proc' = [q \in Processes |->
                IF q = p THEN AtRest
                ELSE IF proc[q].into = "tmp" THEN [proc[q] EXCEPT !.into = "file"] ELSE proc[q]]
       \/ /\ store["tmp"] = NoFile
          /\ served' = [served EXCEPT ![p] = "file_missing"]
          /\ proc' = [proc EXCEPT ![p] = AtRest]
          /\ UNCHANGED <<store, age>>
    /\ UNCHANGED <<provider, met>>

\* The process dies: what it was writing stays as it is.
Dies(p) ==
    /\ proc[p].pc # "idle"
    /\ proc' = [proc EXCEPT ![p] = AtRest]
    /\ UNCHANGED <<provider, store, age, served, met>>

Ages ==
    /\ age <= MaxAge
    /\ age' = age + 1
    /\ UNCHANGED <<provider, store, proc, served, met>>

CacheNext ==
    \/ Ages
    \/ \E p \in Processes :
          \/ Look(p) \/ Unanswered(p) \/ Written(p) \/ Renamed(p) \/ Dies(p)
          \/ \E body \in {"good", "bad"} : Answered(p, body)

CacheSpec == CacheInit /\ [][CacheNext]_cacheVars

-----------------------------------------------------------------------------
\* "Write via a temporary file so an interrupted write cannot leave a truncated
\* cache": wherever a process dies, only two refreshes that met under the temporary
\* name can leave a torn file under the cache's.
TornOnlyWhereTwoMet == store["file"] = "torn" => met

\* base.py:102, "a malformed response must never be allowed to overwrite known-good
\* state": a good file gives way only to a good one, or to a torn one.
GoodStateIsKept ==
    [][store["file"] = "good" => store'["file"] \in {"good", "torn"}]_cacheVars
=============================================================================
