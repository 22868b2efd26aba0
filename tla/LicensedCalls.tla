---------------------------- MODULE LicensedCalls ----------------------------
(***************************************************************************)
(* FantasyProsProvider: licensed calls made by several tasks that share a  *)
(* provider, its daily budget on disk (_DailyBudget), its lock with the    *)
(* spacing of calls, and its response cache.  The process may be restarted,*)
(* a write may fail, and a response may be slow or useless.  A day is      *)
(* DayLength ticks.                                                        *)
(***************************************************************************)
EXTENDS Naturals, FiniteSets

CONSTANTS Tasks, Keys,
          Limit,        \* fantasypros_max_calls_per_day
          Spacing,      \* fantasypros_min_seconds_between_calls, in ticks
          CacheLife,    \* fantasypros_cache_hours, in ticks
          DayLength,
          LastTick      \* bound: when the clock stops

ASSUME LicenceAssumption == {Limit, DayLength} \subseteq Nat \ {0} /\ Spacing \in Nat
ASSUME TasksAssumption == IsFiniteSet(Tasks)

VARIABLES
    now,
    budget,      \* _day and _used of the process; Unread until _load
    disk,        \* the same in daily_budget.json
    lastCall,    \* _last_call_monotonic
    task,        \* per task: where it is, and the key it asks for
    cache,       \* per key: when its file was written and whether it holds players
    given,       \* per task: what its last request was given
    counted,     \* today's calls as the provider counts them
    lost         \* history: a restart lost calls of today

licenceVars == <<now, budget, disk, lastCall, task, cache, given, counted, lost>>

Never == 1000000

Day(t) == t \div DayLength

Unread == [day |-> Never, used |-> 0]

Resting == [pc |-> "idle", key |-> CHOOSE k \in Keys : TRUE]

\* _load: what the file says, or zero when it is missing or cannot be read.
Loaded == IF budget = Unread THEN disk ELSE budget

UsedToday == IF Loaded.day = Day(now) THEN Loaded.used ELSE 0

Spent == [day |-> Day(now), used |-> UsedToday + 1]

\* Mutated: only a usable response is charged.
ChargedIfUsable(outcome) == IF outcome = "players" THEN Spent ELSE budget

Charged(outcome) == Spent

Fresh(key) == cache[key].at # Never /\ now - cache[key].at <= CacheLife

LicenceInit ==
    /\ now = 0 /\ budget = Unread /\ disk = Unread
    /\ lastCall = Never /\ counted = 0 /\ lost = FALSE
    /\ task = [t \in Tasks |-> Resting]
    /\ cache = [k \in Keys |-> [at |-> Never, players |-> FALSE]]
    /\ given = [t \in Tasks |-> "nothing"]

\* The head of _get, up to the lock: the cache first, then the budget.
AskData(t, key) ==
    /\ task[t].pc = "idle"
    /\ \/ /\ Fresh(key)
          /\ given' = [given EXCEPT ![t] = IF cache[key].players THEN "players" ELSE "data_error"]
          /\ UNCHANGED <<task, budget>>
       \/ /\ ~ Fresh(key) /\ UsedToday >= Limit
          /\ given' = [given EXCEPT ![t] = "quota_exceeded"]
          /\ budget' = Loaded
          /\ UNCHANGED task
       \/ /\ ~ Fresh(key) /\ UsedToday < Limit
          /\ task' = [task EXCEPT ![t] = [pc |-> "queued", key |-> key]]
          /\ budget' = Loaded
          /\ UNCHANGED given
    /\ UNCHANGED <<now, disk, lastCall, cache, counted, lost>>

\* The lock is free, the spacing has passed: the request is sent.  (Bound: what
\* follows a loss is not followed.)
Send(t) ==
    /\ ~ lost
    /\ task[t].pc = "queued" /\ \A u \in Tasks : task[u].pc # "calling"
    /\ lastCall = Never \/ now - lastCall >= Spacing
    /\ task' = [task EXCEPT ![t].pc = "calling"]
    /\ counted' = counted + 1
    /\ UNCHANGED <<now, budget, disk, lastCall, cache, given, lost>>

\* The response, or its failure: spent either way, and written where the disk lets
\* it; a JSON payload is cached before anybody looks for its players.
Respond(t, outcome) ==
    /\ task[t].pc = "calling"
    /\ lastCall' = now
    /\ budget' = Charged(outcome)
    /\ disk' \in {disk, Charged(outcome)}
    /\ \/ /\ outcome \in {"players", "no_players"}
          /\ cache' \in {cache, [cache EXCEPT ![task[t].key] =
                                   [at |-> now, players |-> outcome = "players"]]}
       \/ outcome \in {"not_json", "error"} /\ UNCHANGED cache
    /\ given' = [given EXCEPT ![t] =
          CASE outcome = "players" -> "players" [] outcome = "error" -> "unavailable"
            [] OTHER -> "data_error"]
    /\ task' = [task EXCEPT ![t] = Resting]
    /\ UNCHANGED <<now, counted, lost>>

\* The process ends, perhaps in the middle of writing the counter, and another starts.
Restart ==
    /\ budget' = Unread /\ lastCall' = Never
    /\ disk' \in {disk, Unread}
    /\ task' = [t \in Tasks |-> Resting]
    /\ lost' = (lost \/ (counted > 0 /\ disk' # [day |-> Day(now), used |-> counted]))
    /\ UNCHANGED <<now, cache, given, counted>>

Second ==
    /\ now < LastTick
    /\ now' = now + 1
    /\ counted' = IF Day(now') = Day(now) THEN counted ELSE 0
    /\ UNCHANGED <<budget, disk, lastCall, task, cache, given, lost>>

LicenceNext ==
    \/ Restart \/ Second
    \/ \E t \in Tasks :
          \/ Send(t)
          \/ \E k \in Keys : AskData(t, k)
          \/ \E o \in {"players", "no_players", "not_json", "error"} : Respond(t, o)

LicenceSpec == LicenceInit /\ [][LicenceNext]_licenceVars

-----------------------------------------------------------------------------
\* "Both ceilings are enforced", of the day: through midnights, failures and restarts
\* that lose nothing, the provider never counts more calls than the licence allows and
\* the tasks that had passed the check before the last one was spent.
LicenceKeptButForWaiters == ~ lost => counted < Limit + Cardinality(Tasks)
=============================================================================
