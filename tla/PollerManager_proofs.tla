------------------------ MODULE PollerManager_proofs ------------------------
(***************************************************************************)
(* The poller manager for any number of drafts, tasks and callers.         *)
(*                                                                         *)
(* The type needs EntriesAreLive beside it: what a stop takes out of an    *)
(* entry must be a task that was started.  One poller per draft is not     *)
(* inductive: the step that could break it is the removal of an entry by   *)
(* draft id.  The strengthening, Exclusive, says on whose behalf such a    *)
(* removal can be: while no connect has overlapped an ending, a polling    *)
(* task is tracked, it shares its draft with no task that ends, and with   *)
(* no task a stop waits for but itself.                                    *)
(***************************************************************************)
EXTENDS PollerOverlap, FiniteSetTheorems, TLAPS

\* What both stops have in common: the entry's task is a started one of the draft.
LEMMA StopBeginsType ==
    ASSUME TypeOK, EntriesAreLive, NEW c \in Callers, NEW d \in Drafts, StopBegins(c, d)
    PROVE  /\ running' \in UNION {[S -> Tasks] : S \in SUBSET Drafts}
           /\ asked' \subseteq DOMAIN draftOf
           /\ caller' \in [Callers -> {"idle", "waiting", "resuming"}]
           /\ waitsFor' \in [Callers -> Tasks \cup {NoTask}]
           /\ \A x \in Callers : caller'[x] # "idle" => waitsFor'[x] \in DOMAIN draftOf
<1> DEFINE t == running[d]
<1>1. t \in Tasks /\ t \in DOMAIN draftOf /\ task[t] \in Alive \cup Done
  BY DEF StopBegins, TypeOK, EntriesAreLive, Alive, Done
<1>2. asked' \subseteq DOMAIN draftOf
  BY <1>1 DEF StopBegins, TypeOK
<1>3. CASE task[t] \in Done
  <2>1. running' \in UNION {[S -> Tasks] : S \in SUBSET Drafts}
    BY <1>3 DEF StopBegins, TypeOK, Without, Restrict
  <2> QED
    BY <1>2, <1>3, <2>1 DEF StopBegins, TypeOK, calls
<1>4. CASE task[t] \notin Done
  <2>1. /\ caller' = [caller EXCEPT ![c] = "waiting"]
        /\ waitsFor' = [waitsFor EXCEPT ![c] = t]
        /\ running' = running
    BY <1>4 DEF StopBegins
  <2> QED
    BY <1>1, <1>2, <2>1 DEF TypeOK
<1> QED
  BY <1>3, <1>4

LEMMA StepKeepsType == TypeOK /\ EntriesAreLive /\ [Next]_vars => TypeOK'
<1> SUFFICES ASSUME TypeOK, EntriesAreLive, [Next]_vars
             PROVE  TypeOK'
  OBVIOUS
<1> USE TaskAssumption, CallerAssumption DEF Lives, Alive, Done
<1>1. ASSUME NEW d \in Drafts, Start(d)
      PROVE  TypeOK'
  <2> PICK t \in Tasks :
        /\ task[t] = "unborn"
        /\ task' = [task EXCEPT ![t] = "polling"]
        /\ draftOf' = [x \in DOMAIN draftOf \cup {t} |-> IF x = t THEN d ELSE draftOf[x]]
        /\ running' = [x \in DOMAIN running \cup {d} |-> IF x = d THEN t ELSE running[x]]
    BY <1>1 DEF Start
  <2>1. UNCHANGED <<asked, calls, toStop, phase>>
    BY <1>1 DEF Start
  <2>2. running' \in UNION {[S -> Tasks] : S \in SUBSET Drafts}
    <3>1. DOMAIN running \cup {d} \in SUBSET Drafts
      BY DEF TypeOK
    <3>2. running' \in [DOMAIN running \cup {d} -> Tasks]
      BY DEF TypeOK
    <3> QED
      BY <3>1, <3>2
  <2>3. /\ task' \in [Tasks -> Lives]
        /\ {x \in Tasks : task'[x] # "unborn"} = DOMAIN draftOf \cup {t}
    BY DEF TypeOK
  <2>4. draftOf' \in [DOMAIN draftOf \cup {t} -> Drafts]
    BY DEF TypeOK
  <2> QED
    BY <2>1, <2>2, <2>3, <2>4 DEF TypeOK, calls
<1>2. ASSUME NEW t \in Tasks, Finish(t)
      PROVE  TypeOK'
  BY <1>2 DEF TypeOK, Finish, calls, Callers
<1>3. ASSUME NEW t \in Tasks, Callback(t)
      PROVE  TypeOK'
  <2>1. running' \in UNION {[S -> Tasks] : S \in SUBSET Drafts}
    <3> DEFINE S == DOMAIN running \ {draftOf[t]}
    <3>1. running' = [x \in S |-> running[x]]
      BY <1>3 DEF Callback, WithoutEntry, Without, Restrict
    <3>2. running \in [DOMAIN running -> Tasks] /\ S \in SUBSET Drafts
      BY DEF TypeOK
    <3>3. [x \in S |-> running[x]] \in [S -> Tasks]
      BY <3>2
    <3> QED
      BY <3>1, <3>2, <3>3
  <2>2. /\ task' \in [Tasks -> Lives]
        /\ {x \in Tasks : task'[x] # "unborn"} = {x \in Tasks : task[x] # "unborn"}
    BY <1>3 DEF TypeOK, Callback
  <2>3. /\ caller' \in [Callers -> {"idle", "waiting", "resuming"}]
        /\ \A c \in Callers : caller'[c] # "idle" => caller[c] # "idle"
    BY <1>3 DEF TypeOK, Callback
  <2>4. phase' \in {"open", "closing", "closed", "failed"}
    BY <1>3 DEF TypeOK, Callback
  <2>5. UNCHANGED <<draftOf, asked, waitsFor, toStop>>
    BY <1>3 DEF Callback
  <2> QED
    BY <2>1, <2>2, <2>3, <2>4, <2>5 DEF TypeOK
<1>4. ASSUME NEW c \in Handlers, NEW d \in Drafts, Disconnect(c, d)
      PROVE  TypeOK'
  <2>1. c \in Callers /\ StopBegins(c, d)
    BY <1>4 DEF Disconnect, Callers
  <2> QED
    BY <1>4, <2>1, StopBeginsType DEF TypeOK, Disconnect
<1>5. ASSUME NEW c \in Callers, StopEnds(c)
      PROVE  TypeOK'
  BY <1>5 DEF TypeOK, StopEnds, Cancelled, Without, Restrict, Callers
<1>6. CASE ShutDown
  BY <1>6 DEF TypeOK, ShutDown, calls
<1>7. CASE StopNext
  <2> PICK d \in toStop :
        /\ toStop' = Rest(d)
        /\ IF d \in DOMAIN running
           THEN /\ StopBegins(Lifespan, d)
                /\ phase' = IF task[running[d]] = "raised" THEN "failed" ELSE phase
           ELSE UNCHANGED <<running, asked, calls, phase>>
    BY <1>7 DEF StopNext
  <2>1. d \in Drafts /\ toStop' \subseteq Drafts /\ UNCHANGED <<task, draftOf>>
    BY <1>7 DEF StopNext, Rest, TypeOK
  <2>2. CASE d \in DOMAIN running
    <3>1. StopBegins(Lifespan, d) /\ phase' \in {phase, "failed"}
      BY <2>2
    <3> QED
      BY <2>1, <3>1, StopBeginsType DEF TypeOK, Callers
  <2>3. CASE d \notin DOMAIN running
    BY <2>1, <2>3 DEF TypeOK, calls
  <2> QED
    BY <2>2, <2>3
<1>8. CASE AllStopped
  BY <1>8 DEF TypeOK, AllStopped, calls
<1>9. CASE UNCHANGED vars
  BY <1>9 DEF TypeOK, vars, calls
<1> QED
  BY <1>1, <1>2, <1>3, <1>4, <1>5, <1>6, <1>7, <1>8, <1>9 DEF Next

\* A stop adds no entry and changes none.
LEMMA StopBeginsOnlyRemoves ==
    ASSUME NEW c, NEW d, StopBegins(c, d)
    PROVE  /\ DOMAIN running' \subseteq DOMAIN running
           /\ \A x \in DOMAIN running' : running'[x] = running[x]
BY DEF StopBegins, Without, Restrict

LEMMA StepKeepsEntriesLive == TypeOK /\ EntriesAreLive /\ [Next]_vars => EntriesAreLive'
<1> SUFFICES ASSUME TypeOK, EntriesAreLive, [Next]_vars
             PROVE  EntriesAreLive'
  OBVIOUS
<1> USE DEF Alive, Done
<1>1. ASSUME NEW d \in Drafts, Start(d)
      PROVE  EntriesAreLive'
  BY <1>1 DEF TypeOK, EntriesAreLive, Start
<1>2. ASSUME NEW t \in Tasks, Finish(t)
      PROVE  EntriesAreLive'
  BY <1>2 DEF TypeOK, EntriesAreLive, Finish
<1>3. ASSUME NEW t \in Tasks, Callback(t)
      PROVE  EntriesAreLive'
  BY <1>3 DEF TypeOK, EntriesAreLive, Callback, WithoutEntry, Without, Restrict
<1>4. ASSUME NEW c \in Handlers, NEW d \in Drafts, Disconnect(c, d)
      PROVE  EntriesAreLive'
  BY <1>4, StopBeginsOnlyRemoves DEF EntriesAreLive, Disconnect
<1>5. ASSUME NEW c \in Callers, StopEnds(c)
      PROVE  EntriesAreLive'
  BY <1>5 DEF TypeOK, EntriesAreLive, StopEnds, Cancelled, Without, Restrict
<1>6. CASE ShutDown \/ AllStopped \/ UNCHANGED vars
  BY <1>6 DEF EntriesAreLive, ShutDown, AllStopped, vars
<1>7. CASE StopNext
  <2>1. UNCHANGED <<task, draftOf>>
    BY <1>7 DEF StopNext
  <2>2. /\ DOMAIN running' \subseteq DOMAIN running
        /\ \A x \in DOMAIN running' : running'[x] = running[x]
    BY <1>7, StopBeginsOnlyRemoves DEF StopNext
  <2> QED
    BY <2>1, <2>2 DEF EntriesAreLive
<1> QED
  BY <1>1, <1>2, <1>3, <1>4, <1>5, <1>6, <1>7 DEF Next

LEMMA InitIsTyped == Init => TypeOK /\ EntriesAreLive
<1> SUFFICES ASSUME Init PROVE TypeOK /\ EntriesAreLive
  OBVIOUS
<1>1. DOMAIN running = {} /\ DOMAIN draftOf = {}
  BY DEF Init
<1> QED
  BY <1>1 DEF Init, TypeOK, EntriesAreLive, Lives, Callers

\* The manager's state keeps its type, and an entry of _running is always of a
\* live task of its own draft or of one whose callback is due.
THEOREM TypeCorrect == Spec => []TypeOK
<1> QED
  BY InitIsTyped, StepKeepsType, StepKeepsEntriesLive, PTL DEF Spec

\* No place below the limit is held by a poller that is gone.
THEOREM EntriesStayLive == Spec => []EntriesAreLive
<1> QED
  BY InitIsTyped, StepKeepsType, StepKeepsEntriesLive, PTL DEF Spec

-----------------------------------------------------------------------------
LEMMA HistoryStepIsAStep == [HistoryNext]_history => [Next]_vars
<1> SUFFICES ASSUME [HistoryNext]_history
             PROVE  [Next]_vars
  OBVIOUS
<1>1. ASSUME NEW d \in Drafts, Connect(d)
      PROVE  [Next]_vars
  BY <1>1 DEF Connect, Next
<1>2. CASE Others
  BY <1>2 DEF Others, Next
<1>3. CASE UNCHANGED history
  BY <1>3 DEF history
<1> QED
  BY <1>1, <1>2, <1>3 DEF HistoryNext

\* The specification with the history variable implements the manager's: what
\* is shown of the one holds for the other.
THEOREM HistoriesChangeNothing == HistorySpec => Spec
<1>1. HistoryInit => Init
  BY DEF HistoryInit
<1> QED
  BY <1>1, HistoryStepIsAStep, PTL DEF HistorySpec, Spec

Exclusive ==
    ~overlapped =>
        /\ \A u \in Polling : draftOf[u] \in DOMAIN running /\ running[draftOf[u]] = u
        /\ \A u \in Polling, t \in DOMAIN draftOf :
              task[t] \in Done \cup {"cancelled"} => draftOf[t] # draftOf[u]
        /\ \A u \in Polling, c \in Callers :
              caller[c] # "idle" /\ draftOf[waitsFor[c]] = draftOf[u] => waitsFor[c] = u
        /\ \A c \in Callers : caller[c] = "resuming" => task[waitsFor[c]] = "over"

LEMMA ConnectKeepsExclusive ==
    ASSUME TypeOK, Exclusive, NEW d \in Drafts, Connect(d)
    PROVE  Exclusive'
<1> SUFFICES ASSUME ~overlapped, ~Ending(d)
             PROVE  Exclusive'
  BY DEF Connect, Exclusive
<1> USE DEF Alive, Done
<1>1. CASE UNCHANGED vars
  BY <1>1 DEF Exclusive, vars, calls, Polling
<1>2. CASE Start(d)
  <2>1. PICK t \in Tasks :
          /\ task[t] = "unborn"
          /\ task' = [task EXCEPT ![t] = "polling"]
          /\ draftOf' = [x \in DOMAIN draftOf \cup {t} |-> IF x = t THEN d ELSE draftOf[x]]
          /\ running' = [x \in DOMAIN running \cup {d} |-> IF x = d THEN t ELSE running[x]]
    BY <1>2 DEF Start
  <2>2. t \notin DOMAIN draftOf
    BY <2>1 DEF TypeOK
  <2>3. Polling' = Polling \cup {t}
    BY <2>1 DEF Polling, TypeOK
  <2>4. \A u \in Polling : u \in DOMAIN draftOf /\ draftOf'[u] = draftOf[u] /\ draftOf[u] # d
    <3> SUFFICES ASSUME NEW u \in Polling
                 PROVE  u \in DOMAIN draftOf /\ draftOf'[u] = draftOf[u] /\ draftOf[u] # d
      OBVIOUS
    <3>1. u \in DOMAIN draftOf
      BY DEF TypeOK, Polling
    <3>2. draftOf[u] # d
      BY <1>2 DEF Exclusive, Start, TrackedAlive, Polling
    <3> QED
      BY <2>1, <2>2, <3>1, <3>2
  <2>5. \A u \in Polling' : draftOf'[u] \in DOMAIN running' /\ running'[draftOf'[u]] = u
    BY <2>1, <2>3, <2>4 DEF Exclusive
  <2>6. ASSUME NEW u \in Polling', NEW x \in DOMAIN draftOf', task'[x] \in Done \cup {"cancelled"}
        PROVE  draftOf'[x] # draftOf'[u]
    <3>1. x \in DOMAIN draftOf /\ task[x] \in Done \cup {"cancelled"} /\ draftOf'[x] = draftOf[x]
      BY <2>1, <2>2, <2>6 DEF TypeOK
    <3>2. draftOf[x] # d
      BY <3>1 DEF Ending
    <3> QED
      BY <2>1, <2>3, <2>4, <3>1, <3>2 DEF Exclusive
  <2>7. ASSUME NEW u \in Polling', NEW c \in Callers,
               caller'[c] # "idle", draftOf'[waitsFor'[c]] = draftOf'[u]
        PROVE  waitsFor'[c] = u
    <3>1. caller[c] # "idle" /\ waitsFor'[c] = waitsFor[c] /\ waitsFor[c] \in DOMAIN draftOf
      BY <1>2, <2>7 DEF Start, calls, TypeOK
    <3>2. draftOf'[waitsFor[c]] = draftOf[waitsFor[c]] /\ draftOf[waitsFor[c]] # d
      BY <2>1, <2>2, <3>1 DEF Ending
    <3>3. u # t
      BY <2>1, <2>7, <3>1, <3>2
    <3>4. u \in Polling /\ draftOf[waitsFor[c]] = draftOf[u]
      BY <2>3, <2>4, <2>7, <3>1, <3>2, <3>3
    <3> QED
      BY <3>1, <3>4 DEF Exclusive
  <2>8. \A c \in Callers : caller'[c] = "resuming" => task'[waitsFor'[c]] = "over"
    BY <1>2, <2>1 DEF Exclusive, Start, calls, TypeOK
  <2> QED
    BY <2>5, <2>6, <2>7, <2>8 DEF Exclusive
<1> QED
  BY <1>1, <1>2 DEF Connect

LEMMA EndKeepsExclusive ==
    ASSUME TypeOK, Exclusive, NEW t \in Tasks, Finish(t), UNCHANGED overlapped
    PROVE  Exclusive'
<1> SUFFICES ASSUME ~overlapped
             PROVE  Exclusive'
  BY DEF Exclusive
<1> USE DEF Alive, Done
<1>1. /\ task[t] \in {"polling", "cancelled"}
      /\ \E e \in Done : task' = [task EXCEPT ![t] = e]
      /\ UNCHANGED <<running, draftOf, asked, calls>>
  BY DEF Finish
<1>2. Polling' = Polling \ {t}
  BY <1>1 DEF Polling, TypeOK
<1>3. \A u \in Polling' : draftOf[t] # draftOf[u]
  BY <1>1, <1>2 DEF Exclusive, Polling, TypeOK
<1>4. \A c \in Callers : caller'[c] = "resuming" => task'[waitsFor'[c]] = "over"
  BY <1>1 DEF Exclusive, calls, TypeOK
<1> QED
  BY <1>1, <1>2, <1>3, <1>4 DEF Exclusive, calls, TypeOK

\* A removal by draft id is harmless if no polling task is of that draft.
LEMMA CallbackKeepsExclusive ==
    ASSUME TypeOK, Exclusive, NEW t \in Tasks, Callback(t), UNCHANGED overlapped
    PROVE  Exclusive'
<1> SUFFICES ASSUME ~overlapped
             PROVE  Exclusive'
  BY DEF Exclusive
<1> USE DEF Alive, Done
<1>1. /\ t \in DOMAIN draftOf
      /\ task' = [task EXCEPT ![t] = "over"]
      /\ UNCHANGED <<draftOf, waitsFor>>
      /\ Polling' = Polling
  BY DEF Callback, Polling, TypeOK
<1>2. \A u \in Polling : draftOf[t] # draftOf[u]
  BY <1>1 DEF Exclusive, Callback
<1>3. \A u \in Polling : draftOf[u] \in DOMAIN running' /\ running'[draftOf[u]] = u
  BY <1>2 DEF Exclusive, Callback, WithoutEntry, Without, Restrict
<1>4. \A c \in Callers : caller'[c] # "idle" => caller[c] # "idle"
  BY DEF Callback
<1>5. \A c \in Callers : caller'[c] = "resuming" => task'[waitsFor'[c]] = "over"
  BY <1>1 DEF Exclusive, Callback, TypeOK
<1> QED
  BY <1>1, <1>3, <1>4, <1>5 DEF Exclusive, TypeOK

LEMMA StopBeginsKeepsExclusive ==
    ASSUME TypeOK, EntriesAreLive, Exclusive, NEW c \in Callers, NEW d \in Drafts,
           StopBegins(c, d), UNCHANGED <<task, draftOf, overlapped>>
    PROVE  Exclusive'
<1> SUFFICES ASSUME ~overlapped
             PROVE  Exclusive'
  BY DEF Exclusive
<1> USE DEF Alive, Done
<1> DEFINE t == running[d]
<1>1. t \in Tasks /\ t \in DOMAIN draftOf /\ draftOf[t] = d /\ Polling' = Polling
  BY DEF StopBegins, TypeOK, EntriesAreLive, Polling
<1>2. \A u \in Polling : draftOf[u] = d => t = u
  BY DEF Exclusive
<1>3. CASE task[t] \in Done
  <2>1. \A u \in Polling : draftOf[u] # d
    BY <1>1, <1>3 DEF Exclusive
  <2>2. \A u \in Polling : draftOf[u] \in DOMAIN running' /\ running'[draftOf[u]] = u
    BY <1>3, <2>1 DEF Exclusive, StopBegins, Without, Restrict
  <2>3. UNCHANGED calls
    BY <1>3 DEF StopBegins
  <2> QED
    BY <1>1, <2>2, <2>3 DEF Exclusive, calls
<1>4. CASE task[t] \notin Done
  <2>1. /\ caller' = [caller EXCEPT ![c] = "waiting"]
        /\ waitsFor' = [waitsFor EXCEPT ![c] = t]
        /\ running' = running
    BY <1>4 DEF StopBegins
  <2>2. ASSUME NEW u \in Polling, NEW x \in Callers,
               caller'[x] # "idle", draftOf[waitsFor'[x]] = draftOf[u]
        PROVE  waitsFor'[x] = u
    BY <1>1, <1>2, <2>1, <2>2 DEF Exclusive, TypeOK
  <2>3. \A x \in Callers : caller'[x] = "resuming" => task'[waitsFor'[x]] = "over"
    BY <2>1 DEF Exclusive, TypeOK
  <2> QED
    BY <1>1, <2>1, <2>2, <2>3 DEF Exclusive
<1> QED
  BY <1>3, <1>4

LEMMA StopEndKeepsExclusive ==
    ASSUME TypeOK, Exclusive, NEW c \in Callers, StopEnds(c), UNCHANGED overlapped
    PROVE  Exclusive'
<1> SUFFICES ASSUME ~overlapped
             PROVE  Exclusive'
  BY DEF Exclusive
<1> USE DEF Alive, Done
<1> DEFINE t == waitsFor[c]
<1>1. /\ t \in Tasks /\ t \in DOMAIN draftOf
      /\ \/ task' = task /\ (caller[c] = "waiting" => task[t] # "polling")
         \/ task[t] = "polling" /\ task' = [task EXCEPT ![t] = "cancelled"]
      /\ UNCHANGED <<draftOf, waitsFor>>
  BY DEF StopEnds, Cancelled, TypeOK
<1>2. \A u \in Polling : draftOf[t] = draftOf[u] => t = u
  BY DEF Exclusive, StopEnds
<1>3. \A x \in Callers : caller'[x] # "idle" => caller[x] # "idle"
  BY DEF StopEnds, TypeOK
<1>4. Polling' \subseteq Polling
  BY <1>1 DEF Polling, TypeOK
<1>5. \A u \in Polling' : draftOf[u] # draftOf[t]
  <2> SUFFICES ASSUME NEW u \in Polling', draftOf[u] = draftOf[t]
               PROVE  FALSE
    OBVIOUS
  <2>1. t = u /\ t \in Polling
    BY <1>2, <1>4
  <2>2. caller[c] = "resuming"
    BY <1>1, <2>1 DEF StopEnds, Polling, TypeOK
  <2> QED
    BY <2>1, <2>2 DEF Exclusive, Polling
<1>6. \A u \in Polling' : draftOf[u] \in DOMAIN running' /\ running'[draftOf[u]] = u
  BY <1>4, <1>5 DEF Exclusive, StopEnds, Without, Restrict
<1>7. \A u \in Polling', x \in DOMAIN draftOf :
          task'[x] \in Done \cup {"cancelled"} => draftOf[x] # draftOf[u]
  BY <1>1, <1>4, <1>5 DEF Exclusive, TypeOK
<1>8. \A x \in Callers : caller'[x] = "resuming" => task'[waitsFor'[x]] = "over"
  BY <1>1 DEF Exclusive, StopEnds, TypeOK
<1> QED
  BY <1>1, <1>3, <1>4, <1>6, <1>7, <1>8 DEF Exclusive

LEMMA StepKeepsExclusive ==
    TypeOK /\ EntriesAreLive /\ Exclusive /\ [HistoryNext]_history => Exclusive'
<1> SUFFICES ASSUME TypeOK, EntriesAreLive, Exclusive, [HistoryNext]_history
             PROVE  Exclusive'
  OBVIOUS
<1>1. ASSUME NEW d \in Drafts, Connect(d)
      PROVE  Exclusive'
  BY <1>1, ConnectKeepsExclusive
<1>2. ASSUME NEW t \in Tasks, Finish(t), UNCHANGED overlapped
      PROVE  Exclusive'
  BY <1>2, EndKeepsExclusive
<1>3. ASSUME NEW c \in Handlers, NEW d \in Drafts, Disconnect(c, d), UNCHANGED overlapped
      PROVE  Exclusive'
  BY <1>3, StopBeginsKeepsExclusive DEF Disconnect, Callers
<1>4. ASSUME NEW t \in Tasks, Callback(t), UNCHANGED overlapped
      PROVE  Exclusive'
  BY <1>4, CallbackKeepsExclusive
<1>5. ASSUME NEW c \in Callers, StopEnds(c), UNCHANGED overlapped
      PROVE  Exclusive'
  BY <1>5, StopEndKeepsExclusive
<1>6. ASSUME StopNext, UNCHANGED overlapped
      PROVE  Exclusive'
  <2>1. UNCHANGED <<task, draftOf>>
    BY <1>6 DEF StopNext
  <2>2. CASE \E d \in Drafts : StopBegins(Lifespan, d)
    BY <1>6, <2>1, <2>2, StopBeginsKeepsExclusive DEF Callers
  <2>3. CASE UNCHANGED <<running, calls>>
    BY <1>6, <2>1, <2>3 DEF Exclusive, Polling, calls
  <2> QED
    BY <1>6, <2>2, <2>3 DEF StopNext, TypeOK
<1>7. ASSUME ShutDown \/ AllStopped \/ UNCHANGED history, UNCHANGED overlapped
      PROVE  Exclusive'
  <2>1. UNCHANGED <<running, task, draftOf, calls>>
    BY <1>7 DEF ShutDown, AllStopped, history, vars
  <2> QED
    BY <1>7, <2>1 DEF Exclusive, Polling, calls
<1> QED
  BY <1>1, <1>2, <1>3, <1>4, <1>5, <1>6, <1>7 DEF HistoryNext, Others, history

LEMMA InitIsExclusive == HistoryInit => Exclusive
BY DEF HistoryInit, Init, Exclusive, Polling

\* While no connect overlaps an ending, no draft has two pollers.
THEOREM OnePoller == HistorySpec => []OnePollerUnlessOverlapped
<1>1. Exclusive => OnePollerUnlessOverlapped
  BY DEF Exclusive, OnePollerUnlessOverlapped
<1>2. HistoryInit => Init
  BY DEF HistoryInit
<1> QED
  BY <1>1, <1>2, InitIsTyped, InitIsExclusive, HistoryStepIsAStep, StepKeepsType,
     StepKeepsEntriesLive, StepKeepsExclusive, PTL DEF HistorySpec

\* While no connect overlaps an ending, the manager tracks every poller.
THEOREM EveryPollerIsTracked == HistorySpec => []EveryPollerTrackedUnlessOverlapped
<1>1. Exclusive => EveryPollerTrackedUnlessOverlapped
  BY DEF Exclusive, EveryPollerTrackedUnlessOverlapped
<1>2. HistoryInit => Init
  BY DEF HistoryInit
<1> QED
  BY <1>1, <1>2, InitIsTyped, InitIsExclusive, HistoryStepIsAStep, StepKeepsType,
     StepKeepsEntriesLive, StepKeepsExclusive, PTL DEF HistorySpec

-----------------------------------------------------------------------------
\* start is the only step that adds an entry, and it counts them first.
EntriesWithinLimit == IsFiniteSet(DOMAIN running) /\ Cardinality(DOMAIN running) <= MaxPollers

LEMMA StepKeepsLimit ==
    TypeOK /\ EntriesWithinLimit /\ [Next]_vars => EntriesWithinLimit'
<1> SUFFICES ASSUME TypeOK, EntriesWithinLimit, [Next]_vars
             PROVE  EntriesWithinLimit'
  OBVIOUS
<1>1. ASSUME DOMAIN running' \subseteq DOMAIN running
      PROVE  EntriesWithinLimit'
  <2>1. /\ IsFiniteSet(DOMAIN running')
        /\ Cardinality(DOMAIN running') <= Cardinality(DOMAIN running)
    BY <1>1, FS_Subset DEF EntriesWithinLimit
  <2>2. Cardinality(DOMAIN running') \in Nat /\ Cardinality(DOMAIN running) \in Nat
    BY <2>1, FS_CardinalityType DEF EntriesWithinLimit
  <2> QED
    BY <2>1, <2>2, CapAssumption DEF EntriesWithinLimit
<1>2. ASSUME NEW d \in Drafts, Start(d)
      PROVE  EntriesWithinLimit'
  <2>1. DOMAIN running' = DOMAIN running \cup {d} /\ Cardinality(DOMAIN running) < MaxPollers
    BY <1>2 DEF Start, BelowTheLimit
  <2>2. Cardinality(DOMAIN running) \in Nat
    BY FS_CardinalityType DEF EntriesWithinLimit
  <2>3. IsFiniteSet(DOMAIN running')
        /\ Cardinality(DOMAIN running')
             = IF d \in DOMAIN running THEN Cardinality(DOMAIN running)
                                       ELSE Cardinality(DOMAIN running) + 1
    BY <2>1, FS_AddElement DEF EntriesWithinLimit
  <2> QED
    BY <2>1, <2>2, <2>3, CapAssumption DEF EntriesWithinLimit
<1>3. CASE \E t \in Tasks : Finish(t) \/ Callback(t)
  BY <1>1, <1>3 DEF Finish, Callback, WithoutEntry, Without, Restrict
<1>4. CASE \E c \in Handlers, d \in Drafts : Disconnect(c, d)
  BY <1>1, <1>4, StopBeginsOnlyRemoves DEF Disconnect
<1>5. CASE \E c \in Callers : StopEnds(c)
  BY <1>1, <1>5 DEF StopEnds, Without, Restrict
<1>6. CASE StopNext
  BY <1>1, <1>6, StopBeginsOnlyRemoves DEF StopNext
<1>7. CASE ShutDown \/ AllStopped \/ UNCHANGED vars
  BY <1>1, <1>7 DEF ShutDown, AllStopped, vars
<1> QED
  BY <1>2, <1>3, <1>4, <1>5, <1>6, <1>7 DEF Next

LEMMA TrackedPollersAreWithinLimit ==
    ASSUME TypeOK, Exclusive, EntriesWithinLimit
    PROVE  PollersWithinLimitUnlessOverlapped
<1> SUFFICES ASSUME ~overlapped
             PROVE  Cardinality(Polling) <= MaxPollers
  BY DEF PollersWithinLimitUnlessOverlapped
<1> DEFINE tracked == {running[d] : d \in DOMAIN running}
<1>1. IsFiniteSet(tracked) /\ Cardinality(tracked) <= Cardinality(DOMAIN running)
  <2>1. running \in Surjection(DOMAIN running, tracked)
    BY DEF Surjection, TypeOK
  <2> QED
    BY <2>1, FS_Surjection DEF EntriesWithinLimit
<1>2. Polling \subseteq tracked
  BY DEF Exclusive
<1>3. IsFiniteSet(Polling) /\ Cardinality(Polling) <= Cardinality(tracked)
  BY <1>1, <1>2, FS_Subset
<1>4. /\ Cardinality(Polling) \in Nat /\ Cardinality(tracked) \in Nat
      /\ Cardinality(DOMAIN running) \in Nat
  BY <1>1, <1>3, FS_CardinalityType DEF EntriesWithinLimit
<1> QED
  BY <1>1, <1>3, <1>4, CapAssumption DEF EntriesWithinLimit

\* While no connect overlaps an ending, no more pollers run than the limit allows.
THEOREM TheLimitHolds == HistorySpec => []PollersWithinLimitUnlessOverlapped
<1>1. HistoryInit => Init
  BY DEF HistoryInit
<1>2. Init => EntriesWithinLimit
  <2> SUFFICES ASSUME Init PROVE EntriesWithinLimit
    OBVIOUS
  <2>1. DOMAIN running = {}
    BY DEF Init
  <2> QED
    BY <2>1, FS_EmptySet, CapAssumption DEF EntriesWithinLimit
<1> QED
  BY <1>1, <1>2, InitIsTyped, InitIsExclusive, HistoryStepIsAStep, StepKeepsType,
     StepKeepsEntriesLive, StepKeepsExclusive, StepKeepsLimit,
     TrackedPollersAreWithinLimit, PTL DEF HistorySpec
=============================================================================
