---------------------------- MODULE PollerManager ----------------------------
(***************************************************************************)
(* fhe.api.services.poller_manager.PollerManager: one poller task per      *)
(* draft, started by connecting and recovering, stopped by disconnecting   *)
(* and by shutdown.                                                        *)
(*                                                                         *)
(* start has no suspension point and is one step.  stop awaits the task    *)
(* for ten seconds behind a shield: what it does afterwards is a step of   *)
(* its own, as is the done-callback of a task, which the event loop runs   *)
(* an iteration after the task is done.                                    *)
(***************************************************************************)
EXTENDS Integers, FiniteSets, Functions

CONSTANTS Drafts,
          Tasks,        \* bound: the tasks ever started
          Handlers,     \* requests calling stop concurrently
          Lifespan,     \* the caller of stop_all
          MaxPollers,   \* MAX_CONCURRENT_POLLERS
          NoTask

ASSUME CapAssumption == MaxPollers \in Nat
ASSUME CallerAssumption == Lifespan \notin Handlers
ASSUME TaskAssumption == NoTask \notin Tasks

Callers == Handlers \cup {Lifespan}

VARIABLES
    running,   \* _running: the task each followed draft is tracked by
    task,      \* where each task is in its life
    draftOf,   \* the draft each started task polls
    asked,     \* tasks whose poller was asked to stop
    caller,    \* what each caller of stop is at
    waitsFor,  \* the task it captured
    toStop,    \* stop_all: drafts of its snapshot not stopped yet
    phase      \* "open", "closing", "closed", or "failed": stop_all raised

calls == <<caller, waitsFor>>
vars == <<running, task, draftOf, asked, calls, toStop, phase>>

\* "returned" and "raised" are done tasks whose callback has not run yet.
Alive == {"polling", "cancelled"}
Done == {"returned", "raised"}
Lives == {"unborn", "over"} \cup Alive \cup Done

Of(d) == {t \in Tasks : task[t] \in Alive /\ draftOf[t] = d}

\* Mutated: the entry is set to None instead of being removed.
EntryToNone(f, d) == [f EXCEPT ![d] = NoTask]

Without(f, d) == Restrict(f, DOMAIN f \ {d})

Init == /\ running = <<>>
        /\ task = [t \in Tasks |-> "unborn"]
        /\ draftOf = <<>>
        /\ asked = {}
        /\ caller = [c \in Callers |-> "idle"]
        /\ waitsFor = [c \in Callers |-> NoTask]
        /\ toStop = {} /\ phase = "open"

-----------------------------------------------------------------------------
\* Mutated: connecting twice starts twice.
NeverTracked(d) == FALSE

TrackedAlive(d) == d \in DOMAIN running /\ task[running[d]] \in Alive

BelowTheLimit == Cardinality(DOMAIN running) < MaxPollers

\* start: the existing poller's status is returned, TooManyDraftsError raised
\* (neither changes anything), or a task created and tracked.
Start(d) ==
    /\ phase = "open"
    /\ ~TrackedAlive(d)
    /\ BelowTheLimit
    /\ \E t \in Tasks :
          /\ task[t] = "unborn" /\ t = CHOOSE new \in Tasks : task[new] = "unborn"
          /\ task' = [task EXCEPT ![t] = "polling"]
          /\ draftOf' = [x \in DOMAIN draftOf \cup {t} |-> IF x = t THEN d ELSE draftOf[x]]
          /\ running' = [x \in DOMAIN running \cup {d} |-> IF x = d THEN t ELSE running[x]]
    /\ UNCHANGED <<asked, calls, toStop, phase>>

\* run ends, by itself or asked to: COMPLETE, FAILED and STOPPED return, an
\* exception raises; a cancelled task winds down.
Finish(t) ==
    /\ \/ task[t] = "polling" /\ task' \in {[task EXCEPT ![t] = e] : e \in Done}
       \/ task[t] = "cancelled" /\ task' = [task EXCEPT ![t] = "raised"]
    /\ UNCHANGED <<running, draftOf, asked, calls, toStop, phase>>

WithoutEntry(t) == Without(running, draftOf[t])

\* The exception of the task passes through stop: for stop_all that is the end.
Aborts(t) == task[t] = "raised" /\ caller[Lifespan] = "waiting" /\ waitsFor[Lifespan] = t

\* The done-callbacks run: the draft's entry goes, whoever's it is by now, and
\* the shield wakes the callers that wait.
Callback(t) ==
    /\ task[t] \in Done
    /\ task' = [task EXCEPT ![t] = "over"]
    /\ running' = WithoutEntry(t)
    /\ caller' = [c \in Callers |->
                    IF caller[c] = "waiting" /\ waitsFor[c] = t
                    THEN (IF task[t] = "returned" THEN "resuming" ELSE "idle") ELSE caller[c]]
    /\ phase' = IF Aborts(t) THEN "failed" ELSE phase
    /\ UNCHANGED <<draftOf, asked, waitsFor, toStop>>

\* stop: nothing is tracked and it returns False; the task is done already and
\* is awaited without a suspension; or it is asked to stop and waited for.
StopBegins(c, d) ==
    LET t == running[d]
    IN  /\ caller[c] = "idle" /\ d \in DOMAIN running
        /\ asked' = asked \cup {t}
        /\ IF task[t] \in Done
           THEN /\ running' = IF task[t] = "returned" THEN Without(running, d) ELSE running
                /\ UNCHANGED calls
           ELSE /\ caller' = [caller EXCEPT ![c] = "waiting"]
                /\ waitsFor' = [waitsFor EXCEPT ![c] = t]
                /\ UNCHANGED running

Disconnect(c, d) ==
    /\ phase = "open" /\ c \in Handlers
    /\ StopBegins(c, d)
    /\ UNCHANGED <<task, draftOf, toStop, phase>>

\* Mutated: a wedged task is left to itself.
LeavesItRunning(t) == task

Cancelled(t) == IF task[t] = "polling" THEN [task EXCEPT ![t] = "cancelled"] ELSE task

\* Ten seconds pass, or the task was awaited to its end: the entry goes, whoever's
\* it is by now.
StopEnds(c) ==
    LET t == waitsFor[c]
    IN  /\ \/ caller[c] = "waiting" /\ task' = Cancelled(t)
           \/ caller[c] = "resuming" /\ UNCHANGED task
        /\ running' = Without(running, draftOf[t])
        /\ caller' = [caller EXCEPT ![c] = "idle"]
        /\ UNCHANGED <<draftOf, asked, waitsFor, toStop, phase>>

-----------------------------------------------------------------------------
\* stop_all, once requests are no longer served: a snapshot of the drafts, then
\* one stop after the other.
ShutDown == /\ phase = "open" /\ \A c \in Callers : caller[c] = "idle"
            /\ phase' = "closing"
            /\ toStop' = DOMAIN running
            /\ UNCHANGED <<running, task, draftOf, asked, calls>>

\* Mutated: the draft is not taken off the list.
EveryTime(d) == toStop

Rest(d) == toStop \ {d}

StopNext == /\ phase = "closing" /\ caller[Lifespan] = "idle"
            /\ \E d \in toStop :
                  /\ toStop' = Rest(d)
                  /\ IF d \in DOMAIN running
                     THEN /\ StopBegins(Lifespan, d)
                          /\ phase' = IF task[running[d]] = "raised" THEN "failed" ELSE phase
                     ELSE UNCHANGED <<running, asked, calls, phase>>
            /\ UNCHANGED <<task, draftOf>>

AllStopped == /\ phase = "closing" /\ toStop = {} /\ caller[Lifespan] = "idle"
              /\ phase' = "closed"
              /\ UNCHANGED <<running, task, draftOf, asked, calls, toStop>>

Next == \/ \E d \in Drafts : Start(d)
        \/ \E t \in Tasks : Finish(t) \/ Callback(t)
        \/ \E c \in Handlers, d \in Drafts : Disconnect(c, d)
        \/ \E c \in Callers : StopEnds(c)
        \/ ShutDown \/ StopNext \/ AllStopped

Spec == Init /\ [][Next]_vars

\* The event loop runs its callbacks and timers, and a cancelled task winds
\* down.  A polling task need never end by itself.
Fairness ==
    /\ \A t \in Tasks : /\ WF_vars(Callback(t))
                        /\ WF_vars(task[t] = "cancelled" /\ Finish(t))
    /\ \A c \in Callers : WF_vars(StopEnds(c))
    /\ WF_vars(StopNext) /\ WF_vars(AllStopped)

FairSpec == Spec /\ Fairness

-----------------------------------------------------------------------------
TypeOK ==
    /\ running \in UNION {[S -> Tasks] : S \in SUBSET Drafts}
    /\ task \in [Tasks -> Lives]
    /\ draftOf \in [{t \in Tasks : task[t] # "unborn"} -> Drafts]
    /\ asked \subseteq DOMAIN draftOf
    /\ caller \in [Callers -> {"idle", "waiting", "resuming"}]
    /\ waitsFor \in [Callers -> Tasks \cup {NoTask}]
    /\ \A c \in Callers : caller[c] # "idle" => waitsFor[c] \in DOMAIN draftOf
    /\ toStop \subseteq Drafts
    /\ phase \in {"open", "closing", "closed", "failed"}

\* An entry is of a task of its own draft that is alive or about to have its
\* callback run: no place below the limit is held by a poller that is gone,
\* and no two drafts share one.
EntriesAreLive ==
    \A d \in DOMAIN running :
        draftOf[running[d]] = d /\ task[running[d]] \in Alive \cup Done

\* A poller asked to stop does end, wedged or not: the caller that asked
\* cancels it after ten seconds.
AskedPollersEnd == \A t \in Tasks : t \in asked ~> task[t] \notin Alive

\* Shutdown does not hang on a wedged poller, in whatever order pollers end.
ShutdownEnds == phase = "closing" ~> phase \in {"closed", "failed"}

\* "A draft can never end up with two pollers hammering the provider."
OnePollerPerDraft ==
    \A d \in Drafts : Cardinality({t \in Of(d) : task[t] = "polling"}) <= 1
=============================================================================
