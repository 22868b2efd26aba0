----------------------------- MODULE Data_proofs -----------------------------
(***************************************************************************)
(* What holds of the data the program fetches, for any number of           *)
(* processes, tasks and jobs: only refreshes that meet tear a cached file, *)
(* the licence is kept but for the tasks that had passed the check, a run  *)
(* that reads RUNNING is at work or was killed, and the order of a payload *)
(* decides no owner of an id.                                              *)
(***************************************************************************)
EXTENDS AssetCache, LicensedCalls, Ingestion, FiniteSetTheorems, WellFoundedInduction, TLAPS

-----------------------------------------------------------------------------
(* The cached file *)

ProcTyped ==
    proc \in [Processes -> [pc : {"idle", "asked", "writing", "written"},
                            body : {NoFile, "good", "bad"},
                            into : {NoFile, "tmp", "file"}]]

\* While no two refreshes have met, the one there may be writes under the temporary
\* name, what it has written is there, and nothing torn is under the cache's.
Alone ==
    /\ \A p, q \in Processes : Refreshing(p) /\ Refreshing(q) => p = q
    /\ \A p \in Processes : Refreshing(p) => proc[p].into = "tmp" /\ proc[p].body # NoFile
    /\ \A p \in Processes : proc[p].pc = "written" => store["tmp"] = proc[p].body
    /\ store["file"] # "torn"

CacheInv ==
    /\ ProcTyped
    /\ DOMAIN store = {"tmp", "file"}
    /\ met \in BOOLEAN
    /\ ~met => Alone

\* Nobody refreshes and nothing is torn.
LEMMA CacheInvInit ==
    CacheInit => CacheInv
<1> SUFFICES ASSUME CacheInit PROVE CacheInv
  OBVIOUS
<1>1. ProcTyped /\ DOMAIN store = {"tmp", "file"} /\ met \in BOOLEAN
  BY DEF CacheInit, ProcTyped, AtRest
<1>2. \A p \in Processes : proc[p].pc = "idle"
  BY DEF CacheInit, AtRest
<1>3. Alone
  BY <1>2 DEF CacheInit, Alone, Refreshing, NoFile
<1> QED
  BY <1>1, <1>3 DEF CacheInv

\* Only a refresh that begins beside another one ends the order there is.
LEMMA CacheInvStep ==
    CacheInv /\ [CacheNext]_cacheVars => CacheInv'
<1> SUFFICES ASSUME CacheInv, [CacheNext]_cacheVars PROVE CacheInv'
  OBVIOUS
<1>1. ProcTyped /\ DOMAIN store = {"tmp", "file"} /\ met \in BOOLEAN /\ (~met => Alone)
  BY DEF CacheInv
<1>2. ASSUME UNCHANGED <<store, proc, met>> PROVE CacheInv'
  BY <1>1, <1>2 DEF CacheInv, ProcTyped, Alone, Refreshing
<1>3. ASSUME NEW p \in Processes, UNCHANGED <<store, met>>, proc' = [proc EXCEPT ![p] = AtRest]
      PROVE  CacheInv'
  <2>1. ProcTyped'
    BY <1>1, <1>3 DEF ProcTyped, AtRest
  <2>2. proc'[p].pc = "idle" /\ \A q \in Processes : q # p => proc'[q] = proc[q]
    BY <1>1, <1>3 DEF ProcTyped, AtRest
  <2>3. ASSUME Alone PROVE Alone'
    BY <1>3, <2>2, <2>3 DEF Alone, Refreshing
  <2> QED
    BY <1>1, <1>3, <2>1, <2>3 DEF CacheInv
<1>4. ASSUME NEW p \in Processes, Look(p) PROVE CacheInv'
  <2>1. CASE UNCHANGED proc
    BY <1>2, <1>4, <2>1 DEF Look
  <2>2. CASE proc' = [proc EXCEPT ![p].pc = "asked"]
    <3>1. proc[p].pc = "idle" /\ UNCHANGED <<store, met>>
      BY <1>4 DEF Look
    <3>2. ProcTyped' /\ proc'[p].pc = "asked" /\ \A q \in Processes : q # p => proc'[q] = proc[q]
      BY <1>1, <2>2 DEF ProcTyped
    <3>3. ASSUME Alone PROVE Alone'
      BY <3>1, <3>2, <3>3 DEF Alone, Refreshing
    <3> QED
      BY <1>1, <3>1, <3>2, <3>3 DEF CacheInv
  <2> QED
    BY <1>4, <2>1, <2>2 DEF Look
<1>5. ASSUME NEW p \in Processes, NEW body \in {"good", "bad"}, Answered(p, body)
      PROVE  CacheInv'
  <2>1. CASE ~ Accepts(body)
    BY <1>3, <1>5, <2>1 DEF Answered
  <2>2. CASE Accepts(body)
    <3>1. /\ proc[p].pc = "asked"
          /\ proc' = [proc EXCEPT ![p] = [pc |-> "writing", body |-> body, into |-> "tmp"]]
          /\ store' = [store EXCEPT !["tmp"] = "torn"]
          /\ met' = (met \/ \E q \in Processes : Refreshing(q))
      BY <1>5, <2>2 DEF Answered, WritesInto
    <3>2. ProcTyped' /\ DOMAIN store' = {"tmp", "file"} /\ met' \in BOOLEAN
      BY <1>1, <3>1 DEF ProcTyped
    <3>3. /\ proc'[p] = [pc |-> "writing", body |-> body, into |-> "tmp"]
          /\ \A q \in Processes : q # p => proc'[q] = proc[q]
          /\ store'["file"] = store["file"]
      BY <1>1, <3>1 DEF ProcTyped
    <3>4. ASSUME ~met' PROVE Alone'
      <4>1. Alone /\ \A q \in Processes : ~Refreshing(q)
        BY <1>1, <3>1, <3>4
      <4>2. \A q \in Processes : q # p => ~(proc'[q].pc \in {"writing", "written"})
        BY <3>3, <4>1 DEF Refreshing
      <4> QED
        BY <3>3, <4>1, <4>2 DEF Alone, Refreshing, NoFile
    <3> QED
      BY <3>2, <3>4 DEF CacheInv
  <2> QED
    BY <2>1, <2>2
<1>6. ASSUME NEW p \in Processes, Unanswered(p) \/ Dies(p) PROVE CacheInv'
  BY <1>3, <1>6 DEF Unanswered, Dies
<1>7. ASSUME NEW p \in Processes, Written(p) PROVE CacheInv'
  <2>1. /\ proc[p].pc = "writing" /\ UNCHANGED met
        /\ store' = [store EXCEPT ![proc[p].into] = proc[p].body]
        /\ proc' = [proc EXCEPT ![p].pc = "written"]
    BY <1>7 DEF Written
  <2>2. ProcTyped' /\ DOMAIN store' = {"tmp", "file"}
    BY <1>1, <2>1 DEF ProcTyped
  <2>3. /\ proc'[p].pc = "written" /\ proc'[p].body = proc[p].body /\ proc'[p].into = proc[p].into
        /\ \A q \in Processes : q # p => proc'[q] = proc[q]
    BY <1>1, <2>1 DEF ProcTyped
  <2>4. ASSUME Alone PROVE Alone'
    <3>1. Refreshing(p) /\ proc[p].into = "tmp" /\ \A q \in Processes : Refreshing(q) => q = p
      BY <2>1, <2>4 DEF Alone, Refreshing
    <3>2. store'["tmp"] = proc[p].body /\ store'["file"] = store["file"]
      BY <1>1, <2>1, <3>1
    <3>3. \A q \in Processes : Refreshing(q)' => q = p
      BY <2>3, <3>1 DEF Refreshing
    <3> QED
      BY <2>3, <2>4, <3>1, <3>2, <3>3 DEF Alone, Refreshing
  <2> QED
    BY <1>1, <2>1, <2>2, <2>4 DEF CacheInv
<1>8. ASSUME NEW p \in Processes, Renamed(p) PROVE CacheInv'
  <2>1. CASE store["tmp"] = NoFile
    BY <1>3, <1>8, <2>1 DEF Renamed
  <2>2. CASE store["tmp"] # NoFile
    <3>1. /\ proc[p].pc = "written" /\ UNCHANGED met
          /\ store' = [tmp |-> NoFile, file |-> store["tmp"]]
          /\ proc' = [q \in Processes |->
                IF q = p THEN AtRest
                ELSE IF proc[q].into = "tmp" THEN [proc[q] EXCEPT !.into = "file"] ELSE proc[q]]
      BY <1>8, <2>2 DEF Renamed
    <3>2. ProcTyped' /\ DOMAIN store' = {"tmp", "file"}
      BY <1>1, <3>1 DEF ProcTyped, AtRest
    <3>3. proc'[p].pc = "idle" /\ \A q \in Processes : q # p => proc'[q].pc = proc[q].pc
      BY <1>1, <3>1 DEF ProcTyped, AtRest
    <3>4. ASSUME Alone PROVE Alone'
      <4>1. store["tmp"] = proc[p].body /\ proc[p].body \in {NoFile, "good", "bad"}
        BY <1>1, <3>1, <3>4 DEF Alone, ProcTyped
      <4>2. \A q \in Processes : Refreshing(q) => q = p
        BY <3>1, <3>4 DEF Alone, Refreshing
      <4>3. \A q \in Processes : ~(proc'[q].pc \in {"writing", "written"})
        BY <3>3, <4>2 DEF Refreshing
      <4> QED
        BY <3>1, <4>1, <4>3 DEF Alone, Refreshing, NoFile
    <3> QED
      BY <1>1, <3>1, <3>2, <3>4 DEF CacheInv
  <2> QED
    BY <2>1, <2>2
<1>9. CASE Ages
  BY <1>2, <1>9 DEF Ages
<1>10. CASE UNCHANGED cacheVars
  BY <1>2, <1>10 DEF cacheVars
<1> QED
  BY <1>4, <1>5, <1>6, <1>7, <1>8, <1>9, <1>10 DEF CacheNext

\* TornOnlyWhereTwoMet for any number of processes: wherever one dies, a torn file under
\* the cache's name takes two refreshes that met under the temporary one.
THEOREM OnlyMeetingTears == CacheSpec => []TornOnlyWhereTwoMet
<1>1. CacheInv => TornOnlyWhereTwoMet
  BY DEF CacheInv, Alone, TornOnlyWhereTwoMet
<1> QED
  BY <1>1, CacheInvInit, CacheInvStep, PTL DEF CacheSpec

-----------------------------------------------------------------------------
(* The licensed calls *)

Queued == {t \in Tasks : task[t].pc = "queued"}
Calling == {t \in Tasks : task[t].pc = "calling"}

\* What the provider counts beyond what the budget holds is the call under way, and
\* each task that waits had passed the check before the last call was spent.
LicenceInv ==
    /\ DOMAIN task = Tasks /\ \A t \in Tasks : {"pc", "key"} \subseteq DOMAIN task[t]
    /\ budget.used \in Nat /\ disk.used \in Nat /\ counted \in Nat
    /\ Cardinality(Calling) <= 1
    /\ ~lost => /\ counted <= UsedToday + Cardinality(Calling)
                /\ counted + Cardinality(Queued) < Limit + Cardinality(Tasks)

\* The sets of tasks are finite and count as sets do.
LEMMA Counting ==
    /\ \A A \in SUBSET Tasks : IsFiniteSet(A) /\ Cardinality(A) \in Nat
    /\ \A A, B \in SUBSET Tasks : A \subseteq B => Cardinality(A) <= Cardinality(B)
    /\ \A A, B \in SUBSET Tasks : A \cap B = {} =>
          Cardinality(A) + Cardinality(B) <= Cardinality(Tasks)
    /\ \A A \in SUBSET Tasks : \A t \in A : Cardinality(A \ {t}) = Cardinality(A) - 1
    /\ \A A \in SUBSET Tasks : \A t \in Tasks \ A : Cardinality(A \cup {t}) = Cardinality(A) + 1
    /\ Cardinality({}) = 0
    /\ Limit \in Nat /\ Limit > 0
<1>1. IsFiniteSet(Tasks)
  BY TasksAssumption
<1>2. \A A \in SUBSET Tasks : IsFiniteSet(A) /\ Cardinality(A) \in Nat
  BY <1>1, FS_Subset, FS_CardinalityType
<1>3. \A A, B \in SUBSET Tasks : A \subseteq B => Cardinality(A) <= Cardinality(B)
  BY <1>2, FS_Subset
<1>4. ASSUME NEW A \in SUBSET Tasks, NEW B \in SUBSET Tasks, A \cap B = {}
      PROVE  Cardinality(A) + Cardinality(B) <= Cardinality(Tasks)
  <2>1. Cardinality(A \cup B) = Cardinality(A) + Cardinality(B) - Cardinality(A \cap B)
    BY <1>2, FS_Union
  <2>2. Cardinality(A \cap B) = 0 /\ Cardinality(A \cup B) <= Cardinality(Tasks)
    BY <1>3, <1>4, FS_EmptySet
  <2> QED
    BY <1>2, <2>1, <2>2
<1>5. \A A \in SUBSET Tasks : \A t \in A : Cardinality(A \ {t}) = Cardinality(A) - 1
  BY <1>2, FS_RemoveElement
<1>6. \A A \in SUBSET Tasks : \A t \in Tasks \ A : Cardinality(A \cup {t}) = Cardinality(A) + 1
  BY <1>2, FS_AddElement
<1> QED
  BY <1>2, <1>3, <1>4, <1>5, <1>6, FS_EmptySet, LicenceAssumption

\* No call is counted and no task waits.
LEMMA LicenceInvInit ==
    LicenceInit => LicenceInv
<1> SUFFICES ASSUME LicenceInit PROVE LicenceInv
  OBVIOUS
<1>1. /\ DOMAIN task = Tasks
      /\ \A t \in Tasks : {"pc", "key"} \subseteq DOMAIN task[t] /\ task[t].pc = "idle"
  BY DEF LicenceInit, Resting
<1>2. Queued = {} /\ Calling = {}
  BY <1>1 DEF Queued, Calling
<1>3. budget.used \in Nat /\ disk.used \in Nat /\ counted = 0 /\ UsedToday \in Nat
  BY DEF LicenceInit, Unread, UsedToday, Loaded
<1>4. Cardinality(Tasks) \in Nat
  BY TasksAssumption, FS_CardinalityType
<1> QED
  BY <1>1, <1>2, <1>3, <1>4, Counting DEF LicenceInv

\* The budget of the day is a number.
LEMMA UsedIsANumber ==
    LicenceInv => UsedToday \in Nat
BY DEF LicenceInv, UsedToday, Loaded

\* The check, against a budget that lags by the call under way.
LEMMA AskingKeepsTheLicence ==
    ASSUME LicenceInv, NEW t \in Tasks, NEW key \in Keys, AskData(t, key)
    PROVE  LicenceInv'
<1>1. UNCHANGED <<now, disk, counted, lost>> /\ counted \in Nat /\ UsedToday \in Nat
  BY UsedIsANumber DEF AskData, LicenceInv
<1>2. /\ Loaded' = Loaded /\ UsedToday' = UsedToday
      /\ budget'.used \in Nat /\ disk'.used \in Nat
  <2>1. CASE budget' = budget
    BY <1>1, <2>1 DEF Loaded, UsedToday, Day, LicenceInv
  <2>2. CASE budget' = Loaded
    <3>1. Loaded' = Loaded
      BY <1>1, <2>2 DEF Loaded
    <3> QED
      BY <1>1, <2>2, <3>1 DEF Loaded, UsedToday, Day, LicenceInv
  <2> QED
    BY <2>1, <2>2 DEF AskData
<1>3. CASE UNCHANGED task
  <2>1. Queued' = Queued /\ Calling' = Calling
    BY <1>3 DEF Queued, Calling
  <2> QED
    BY <1>1, <1>2, <1>3, <2>1 DEF LicenceInv
<1>4. CASE UsedToday < Limit /\ task' = [task EXCEPT ![t] = [pc |-> "queued", key |-> key]]
  <2>1. DOMAIN task' = Tasks /\ \A u \in Tasks : {"pc", "key"} \subseteq DOMAIN task'[u]
    BY <1>4 DEF LicenceInv
  <2>2. /\ task'[t].pc = "queued" /\ task[t].pc = "idle"
        /\ \A u \in Tasks : u # t => task'[u] = task[u]
    BY <1>4 DEF LicenceInv, AskData
  <2>3. Calling' = Calling /\ Queued' \in SUBSET Tasks /\ Calling \in SUBSET Tasks
        /\ Queued' \cap Calling = {}
    BY <2>2 DEF Queued, Calling
  <2>4. Cardinality(Queued') + Cardinality(Calling) <= Cardinality(Tasks)
    BY <2>3, Counting
  <2>5. Cardinality(Queued') \in Nat /\ Cardinality(Calling) \in Nat /\ Cardinality(Tasks) \in Nat
    BY <2>3, Counting
  <2>6. ~lost => counted <= UsedToday + Cardinality(Calling)
    BY DEF LicenceInv
  <2>7. ~lost => counted + Cardinality(Queued') < Limit + Cardinality(Tasks)
    BY <1>1, <1>4, <2>4, <2>5, <2>6, Counting
  <2> QED
    BY <1>1, <1>2, <2>1, <2>3, <2>6, <2>7 DEF LicenceInv
<1> QED
  BY <1>3, <1>4 DEF AskData

\* The lock: one call at a time, and its task no longer waits.
LEMMA SendingKeepsTheLicence ==
    ASSUME LicenceInv, NEW t \in Tasks, Send(t)
    PROVE  LicenceInv'
<1>1. /\ ~lost /\ task[t].pc = "queued" /\ \A u \in Tasks : task[u].pc # "calling"
      /\ task' = [task EXCEPT ![t].pc = "calling"] /\ counted' = counted + 1
      /\ UNCHANGED <<now, budget, disk, lost>>
  BY DEF Send
<1>2. DOMAIN task' = Tasks /\ \A u \in Tasks : {"pc", "key"} \subseteq DOMAIN task'[u]
  BY <1>1 DEF LicenceInv
<1>3. task'[t].pc = "calling" /\ \A u \in Tasks : u # t => task'[u] = task[u]
  BY <1>1 DEF LicenceInv
<1>4. Calling = {} /\ Calling' = {} \cup {t} /\ Queued' = Queued \ {t} /\ t \in Queued
  BY <1>1, <1>3 DEF Calling, Queued
<1>5. Cardinality(Calling) = 0 /\ Cardinality(Calling') = 1
      /\ Cardinality(Queued') = Cardinality(Queued) - 1 /\ Cardinality(Queued) \in Nat
  <2>1. Queued \in SUBSET Tasks /\ {} \in SUBSET Tasks /\ t \in Tasks \ {}
    BY DEF Queued
  <2>2. Cardinality({} \cup {t}) = Cardinality({}) + 1
    BY <2>1, Counting
  <2> QED
    BY <1>4, <2>1, <2>2, Counting
<1>6. UsedToday' = UsedToday /\ UsedToday \in Nat
  BY <1>1, UsedIsANumber DEF UsedToday, Loaded, Day
<1>7. counted \in Nat /\ counted <= UsedToday + 0 /\ Cardinality(Tasks) \in Nat
      /\ counted + Cardinality(Queued) < Limit + Cardinality(Tasks)
  BY <1>1, <1>5, Counting DEF LicenceInv
<1> QED
  BY <1>1, <1>2, <1>5, <1>6, <1>7, Counting DEF LicenceInv

\* Every response is charged, so the budget has caught up when the lock is free.
LEMMA RespondingKeepsTheLicence ==
    ASSUME LicenceInv, NEW t \in Tasks, NEW outcome, Respond(t, outcome)
    PROVE  LicenceInv'
<1>1. /\ task[t].pc = "calling" /\ task' = [task EXCEPT ![t] = Resting]
      /\ budget' = Spent /\ disk' \in {disk, Spent} /\ UNCHANGED <<now, counted, lost>>
  BY DEF Respond, Charged
<1>2. DOMAIN task' = Tasks /\ \A u \in Tasks : {"pc", "key"} \subseteq DOMAIN task'[u]
  BY <1>1 DEF LicenceInv, Resting
<1>3. task'[t].pc = "idle" /\ \A u \in Tasks : u # t => task'[u] = task[u]
  BY <1>1 DEF LicenceInv, Resting
<1>4. Queued' = Queued /\ Calling' = Calling \ {t} /\ t \in Calling
  BY <1>1, <1>3 DEF Calling, Queued
<1>5. Cardinality(Calling') = Cardinality(Calling) - 1 /\ Cardinality(Calling) \in Nat
  <2>1. Calling \in SUBSET Tasks
    BY DEF Calling
  <2> QED
    BY <1>4, <2>1, Counting
<1>6. UsedToday \in Nat /\ Spent.used = UsedToday + 1 /\ Spent.day = Day(now) /\ Spent # Unread
  BY UsedIsANumber DEF Spent, Unread
<1>7. UsedToday' = UsedToday + 1
  <2>1. Loaded' = Spent
    BY <1>1, <1>6 DEF Loaded, Unread
  <2> QED
    BY <1>1, <1>6, <2>1 DEF UsedToday, Day
<1>8. budget'.used \in Nat /\ disk'.used \in Nat
  BY <1>1, <1>6 DEF LicenceInv
<1>9. counted \in Nat /\ Cardinality(Calling) <= 1
      /\ (~lost => counted <= UsedToday + Cardinality(Calling))
      /\ (~lost => counted + Cardinality(Queued) < Limit + Cardinality(Tasks))
  BY DEF LicenceInv
<1>10. Cardinality(Calling') <= 1
       /\ (~lost => counted <= (UsedToday + 1) + (Cardinality(Calling) - 1))
  BY <1>5, <1>6, <1>9
<1> QED
  BY <1>1, <1>2, <1>4, <1>5, <1>7, <1>8, <1>9, <1>10 DEF LicenceInv

\* A restart that loses nothing finds today's calls in the file.
LEMMA RestartingKeepsTheLicence ==
    ASSUME LicenceInv, Restart
    PROVE  LicenceInv'
<1>1. /\ budget' = Unread /\ disk' \in {disk, Unread} /\ task' = [t \in Tasks |-> Resting]
      /\ lost' = (lost \/ (counted > 0 /\ disk' # [day |-> Day(now), used |-> counted]))
      /\ UNCHANGED <<now, counted>>
  BY DEF Restart
<1>2. DOMAIN task' = Tasks
      /\ \A t \in Tasks : {"pc", "key"} \subseteq DOMAIN task'[t] /\ task'[t].pc = "idle"
  BY <1>1 DEF Resting
<1>3. Queued' = {} /\ Calling' = {}
  BY <1>2 DEF Queued, Calling
<1>4. budget'.used \in Nat /\ disk'.used \in Nat /\ counted \in Nat
  BY <1>1 DEF Unread, LicenceInv
<1>5. Loaded' = disk' /\ UsedToday' = IF disk'.day = Day(now) THEN disk'.used ELSE 0
  BY <1>1 DEF Loaded, UsedToday, Day
<1>6. ASSUME ~lost' PROVE counted <= UsedToday' + 0
  <2>1. CASE counted = 0
    BY <1>4, <1>5, <2>1
  <2>2. CASE counted # 0
    <3>1. counted > 0
      BY <1>4, <2>2
    <3>2. disk' = [day |-> Day(now), used |-> counted]
      BY <1>1, <1>6, <3>1, Zenon
    <3>3. UsedToday' = counted
      BY <1>5, <3>2
    <3> QED
      BY <1>4, <3>3
  <2> QED
    BY <2>1, <2>2
<1>7. ASSUME ~lost' PROVE counted + 0 < Limit + Cardinality(Tasks)
  <2>1. counted + Cardinality(Queued) < Limit + Cardinality(Tasks)
    BY <1>1, <1>7 DEF LicenceInv
  <2>2. Cardinality(Queued) \in Nat /\ Cardinality(Tasks) \in Nat
    BY Counting DEF Queued
  <2> QED
    BY <1>4, <2>1, <2>2, Counting
<1> QED
  BY <1>1, <1>2, <1>3, <1>4, <1>6, <1>7, Counting DEF LicenceInv

\* Midnight: the provider counts from nothing, whatever the file says.
LEMMA SecondKeepsTheLicence ==
    ASSUME LicenceInv, Second
    PROVE  LicenceInv'
<1>1. /\ counted' = IF Day(now') = Day(now) THEN counted ELSE 0
      /\ UNCHANGED <<budget, disk, task, lost>> /\ counted \in Nat
  BY DEF Second, LicenceInv
<1>2. Queued' = Queued /\ Calling' = Calling /\ Loaded' = Loaded
  BY <1>1 DEF Queued, Calling, Loaded
<1>3. Cardinality(Queued) \in Nat /\ Cardinality(Calling) \in Nat /\ Cardinality(Tasks) \in Nat
  BY Counting DEF Queued, Calling
<1>4. UsedToday' \in Nat /\ (Day(now') = Day(now) => UsedToday' = UsedToday)
  BY <1>1, <1>2 DEF UsedToday, LicenceInv, Loaded, Day
<1>5. CASE Day(now') = Day(now)
  BY <1>1, <1>2, <1>4, <1>5 DEF LicenceInv
<1>6. CASE Day(now') # Day(now)
  <2>1. counted' = 0
    BY <1>1, <1>6
  <2>2. 0 <= UsedToday' + Cardinality(Calling)
    BY <1>3, <1>4
  <2>3. ~lost => 0 + Cardinality(Queued) < Limit + Cardinality(Tasks)
    <3>1. ~lost => counted + Cardinality(Queued) < Limit + Cardinality(Tasks)
      BY DEF LicenceInv
    <3> QED
      BY <1>1, <1>3, <3>1, Counting
  <2> QED
    BY <1>1, <1>2, <2>1, <2>2, <2>3 DEF LicenceInv
<1> QED
  BY <1>5, <1>6

\* LicenceKeptButForWaiters for any limit, spacing and number of tasks: through midnights,
\* failures and restarts that lose nothing, what _DailyBudget lets pass beyond the
\* licence is at most the tasks that wait behind the lock.
THEOREM LicenceIsKept == LicenceSpec => []LicenceKeptButForWaiters
<1>1. LicenceInv => LicenceKeptButForWaiters
  <2> SUFFICES ASSUME LicenceInv, ~lost PROVE counted < Limit + Cardinality(Tasks)
    BY DEF LicenceKeptButForWaiters
  <2>1. counted + Cardinality(Queued) < Limit + Cardinality(Tasks) /\ counted \in Nat
    BY DEF LicenceInv
  <2>2. Cardinality(Queued) \in Nat /\ Cardinality(Tasks) \in Nat
    BY Counting DEF Queued
  <2> QED
    BY <2>1, <2>2, Counting
<1>2. LicenceInv /\ [LicenceNext]_licenceVars => LicenceInv'
  <2> SUFFICES ASSUME LicenceInv, [LicenceNext]_licenceVars PROVE LicenceInv'
    OBVIOUS
  <2>1. CASE UNCHANGED licenceVars
    <3>1. Queued' = Queued /\ Calling' = Calling /\ UsedToday' = UsedToday
      BY <2>1 DEF licenceVars, Queued, Calling, UsedToday, Loaded, Day
    <3> QED
      BY <2>1, <3>1 DEF licenceVars, LicenceInv
  <2> QED
    BY <2>1, AskingKeepsTheLicence, SendingKeepsTheLicence, RespondingKeepsTheLicence,
       RestartingKeepsTheLicence, SecondKeepsTheLicence DEF LicenceNext
<1> QED
  BY <1>1, <1>2, LicenceInvInit, PTL DEF LicenceSpec

-----------------------------------------------------------------------------
(* The ingestion jobs *)

Stores == {"players", "ids", "health", "conflicts", "rows"}
Statuses == {"RUNNING", "FAILED", "PARTIAL", "SUCCESS"}
Stages == {"idle", "fetch", "map", "write", "close"}

\* What a slot has still to do is of its own datasets, and a job at work has one, and a
\* run of its own.
JobInv(s) ==
    /\ job[s].stage \in Stages
    /\ job[s].todo \in Seq(Datasets)
    /\ \A i \in DOMAIN job[s].todo : Tables(job[s].todo[i]) \subseteq Loads(s)
    /\ job[s].stage # "idle" => job[s].todo # <<>> /\ job[s].run \in DOMAIN runs

\* An open transaction is of the whole database, and its rows are of the job's tables.
OpenInv(s) ==
    job[s].stage = "write" =>
        /\ {"stage", "todo", "run", "base", "made", "left", "txn"} \subseteq DOMAIN job[s]
        /\ DOMAIN job[s].txn = Stores
        /\ Kind(s) # "players" => \A r \in job[s].made.rows : r.table \in Tables(Kind(s))

\* What the tables of a job at work held when it opened is what they hold.
Unseen(s) ==
    job[s].stage \in {"fetch", "map", "write"} =>
        /\ Kind(s) = "players" =>
              /\ db.players = job[s].base.players /\ db.ids = job[s].base.ids
              /\ db.health = job[s].base.health /\ db.conflicts = job[s].base.conflicts
        /\ {r \in db.rows : r.table \in Tables(Kind(s))}
              = {r \in job[s].base.rows : r.table \in Tables(Kind(s))}

IngestInv ==
    /\ DOMAIN job = Slots
    /\ DOMAIN db = Stores
    /\ runs \in Seq(Statuses)
    /\ \A s \in Slots : JobInv(s) /\ OpenInv(s) /\ Unseen(s)
    /\ RunningMeansAtWork

\* The rows a job makes are of the table its file is for.
LEMMA WeeklyRows ==
    ASSUME NEW table, NEW frame, NEW map, NEW season, NEW r \in Weekly(table, frame, map, season).rows
    PROVE  r.table = table
<1>1. PICK u, w, v : r = Row(table, u, season, w, v)
  BY Zenon DEF Weekly
<1> QED
  BY <1>1 DEF Row

\* An injury report makes rows of its two tables.
LEMMA InjuryRows ==
    ASSUME NEW frame, NEW map, NEW season, NEW r \in Injuries(frame, map, season).rows
    PROVE  r.table \in {"injury_events", "practice_reports"}
<1>1. \E u, w, v : r = Row("injury_events", u, season, w, v) \/ r = Row("practice_reports", u, season, w, v)
  BY Zenon DEF Injuries
<1> QED
  BY <1>1 DEF Row

\* A depth chart makes rows of its own table.
LEMMA DepthRows ==
    ASSUME NEW frame, NEW map, NEW season, NEW r \in DepthChart(frame, map, season).rows
    PROVE  r.table = "depth_charts"
<1>1. PICK u, w, v : r = Row("depth_charts", u, season, w, v)
  BY Zenon DEF DepthChart
<1> QED
  BY <1>1 DEF Row

\* So does a schedule,
LEMMA ScheduleRows ==
    ASSUME NEW frame, NEW seasons, NEW r \in Schedule(frame, seasons).rows
    PROVE  r.table = "schedule"
<1>1. PICK u, y, w, v : r = Row("schedule", u, y, w, v)
  BY Zenon DEF Schedule
<1> QED
  BY <1>1 DEF Row

\* an upload of draft positions,
LEMMA AdpRows ==
    ASSUME NEW frame, NEW ids, NEW players, NEW season, NEW r \in Adp(frame, ids, players, season).rows
    PROVE  r.table = "adp"
<1>1. PICK u, w, v : r = Row("adp", u, season, w, v)
  BY Zenon DEF Adp
<1> QED
  BY <1>1 DEF Row

\* and an upload of projections.
LEMMA ProjectionRows ==
    ASSUME NEW frame, NEW ids, NEW players, NEW season,
           NEW r \in Projections(frame, ids, players, season).rows
    PROVE  r.table = "projections"
<1>1. PICK u, w, v : r = Row("projections", u, season, w, v)
  BY Zenon DEF Projections
<1> QED
  BY <1>1 DEF Row

\* Every dataset but the players' makes rows of its own tables only.
LEMMA RowsAreOfTheKind ==
    ASSUME NEW kind \in Datasets \ {"players"}, NEW frame, NEW r \in Rows(kind, frame).rows
    PROVE  r.table \in Tables(kind)
<1>1. CASE kind = "injuries"
  BY <1>1, InjuryRows DEF Rows, Tables
<1>2. CASE kind \in {"weekly_stats", "snap_counts"}
  BY <1>2, WeeklyRows DEF Rows, WeeklyStats, SnapCounts, Tables
<1>3. CASE kind = "depth_charts"
  BY <1>3, DepthRows DEF Rows, Tables
<1>4. CASE kind = "schedule"
  BY <1>4, ScheduleRows DEF Rows, Tables
<1>5. CASE kind = "adp"
  BY <1>5, AdpRows DEF Rows, Tables
<1>6. CASE kind = "projections"
  BY <1>6, ProjectionRows DEF Rows, Tables
<1> QED
  BY <1>1, <1>2, <1>3, <1>4, <1>5, <1>6 DEF Datasets

\* Two slots never load the same table.
LEMMA SlotsShareNoTable ==
    ASSUME NEW s \in Slots, NEW t \in Slots, s # t, JobInv(s), JobInv(t),
           job[s].todo # <<>>, job[t].todo # <<>>
    PROVE  Tables(Kind(s)) \cap Tables(Kind(t)) = {}
<1>1. Tables(Kind(s)) \subseteq Loads(s) /\ Tables(Kind(t)) \subseteq Loads(t)
  BY DEF JobInv, Kind
<1> QED
  BY <1>1, SlotsAssumption

\* An upsert writes one of the tables, and there are no others.
LEMMA UpsertsKeepTheStores ==
    ASSUME NEW txn, NEW table, NEW made, DOMAIN txn = Stores
    PROVE  DOMAIN Upserted(txn, table, made) = Stores
  BY DEF Upserted

\* What is left of a batch is of the batch.
LEMMA TheRestIsAskedFor ==
    ASSUME NEW S, NEW q \in Seq(Datasets), q # <<>>,
           \A i \in DOMAIN q : Tables(q[i]) \subseteq S
    PROVE  Tail(q) \in Seq(Datasets) /\ \A i \in DOMAIN Tail(q) : Tables(Tail(q)[i]) \subseteq S
<1>1. Tail(q) \in Seq(Datasets)
  OBVIOUS
<1>2. ASSUME NEW i \in DOMAIN Tail(q) PROVE Tail(q)[i] = q[i + 1] /\ i + 1 \in DOMAIN q
  BY <1>2
<1> QED
  BY <1>1, <1>2

\* No run is open and no job is at work.
LEMMA IngestInvInit ==
    IngestInit => IngestInv
<1> SUFFICES ASSUME IngestInit PROVE IngestInv
  OBVIOUS
<1>1. DOMAIN job = Slots /\ DOMAIN db = Stores /\ runs = <<>>
  BY DEF IngestInit, Stores
<1>2. \A s \in Slots : job[s].stage = "idle" /\ job[s].todo = <<>>
  BY DEF IngestInit, Idle
<1>3. \A s \in Slots : OpenInv(s) /\ Unseen(s)
  BY <1>2 DEF OpenInv, Unseen
<1>4. ASSUME NEW s \in Slots PROVE JobInv(s)
  <2>1. job[s].stage = "idle" /\ job[s].todo = <<>> /\ <<>> \in Seq(Datasets)
    BY <1>2
  <2>2. \A i \in DOMAIN <<>> : Tables(<<>>[i]) \subseteq Loads(s)
    OBVIOUS
  <2> QED
    BY <2>1, <2>2 DEF JobInv, Stages
<1> QED
  BY <1>1, <1>3, <1>4 DEF IngestInv, RunningMeansAtWork

\* A step of one slot that leaves the database alone has to answer for that slot only.
LEMMA OneSlotMoves ==
    ASSUME IngestInv, NEW s \in Slots, DOMAIN job' = Slots,
           \A t \in Slots \ {s} : job'[t] = job[t],
           db' = db, runs' \in Seq(Statuses), DOMAIN runs \subseteq DOMAIN runs',
           JobInv(s)', OpenInv(s)', Unseen(s)', RunningMeansAtWork'
    PROVE  IngestInv'
<1>1. ASSUME NEW t \in Slots, t # s PROVE JobInv(t)' /\ OpenInv(t)' /\ Unseen(t)'
  <2>1. JobInv(t) /\ OpenInv(t) /\ Unseen(t) /\ job'[t] = job[t]
    BY <1>1 DEF IngestInv
  <2>2. JobInv(t)'
    BY <2>1 DEF JobInv
  <2>3. OpenInv(t)'
    BY <2>1 DEF OpenInv, Kind
  <2>4. Unseen(t)'
    BY <2>1 DEF Unseen, Kind
  <2> QED
    BY <2>2, <2>3, <2>4
<1>2. DOMAIN db' = Stores
  BY DEF IngestInv
<1> QED
  BY <1>1, <1>2 DEF IngestInv

\* A slot that goes on with its run leaves no run behind.
LEMMA WorkGoesOn ==
    ASSUME IngestInv, NEW s \in Slots, \A t \in Slots \ {s} : job'[t] = job[t],
           UNCHANGED <<runs, killed>>,
           job[s].stage # "idle" => job'[s].stage # "idle" /\ job'[s].run = job[s].run
    PROVE  RunningMeansAtWork'
<1> SUFFICES ASSUME NEW r \in DOMAIN runs, runs[r] = "RUNNING", r \notin killed
             PROVE  \E t \in Slots : job'[t].stage # "idle" /\ job'[t].run = r
  BY DEF RunningMeansAtWork
<1>1. PICK t \in Slots : job[t].stage # "idle" /\ job[t].run = r
  BY DEF IngestInv, RunningMeansAtWork
<1> QED
  BY <1>1

\* A slot that lets go of its run has closed it.
LEMMA WorkEnds ==
    ASSUME IngestInv, NEW s \in Slots, \A t \in Slots \ {s} : job'[t] = job[t],
           killed' = killed, job[s].stage # "idle",
           NEW status \in Statuses, status # "RUNNING",
           runs' = [runs EXCEPT ![job[s].run] = status]
    PROVE  RunningMeansAtWork' /\ runs' \in Seq(Statuses) /\ DOMAIN runs' = DOMAIN runs
<1>1. runs \in Seq(Statuses) /\ job[s].run \in DOMAIN runs
  BY DEF IngestInv, JobInv
<1>2. runs' \in Seq(Statuses) /\ DOMAIN runs' = DOMAIN runs
  BY <1>1
<1>3. \A r \in DOMAIN runs : runs'[r] = IF r = job[s].run THEN status ELSE runs[r]
  BY <1>1
<1>4. ASSUME NEW r \in DOMAIN runs, runs'[r] = "RUNNING", r \notin killed
      PROVE  \E t \in Slots : job'[t].stage # "idle" /\ job'[t].run = r
  <2>1. r # job[s].run /\ runs[r] = "RUNNING"
    BY <1>3, <1>4
  <2>2. PICK t \in Slots : job[t].stage # "idle" /\ job[t].run = r
    BY <1>4, <2>1 DEF IngestInv, RunningMeansAtWork
  <2> QED
    BY <2>1, <2>2
<1> QED
  BY <1>2, <1>4 DEF RunningMeansAtWork

\* A slot that is free has nothing to answer for but what it is asked next.
LEMMA FreeSlot ==
    ASSUME NEW s \in Slots, job'[s].stage = "idle", job'[s].todo \in Seq(Datasets),
           \A i \in DOMAIN job'[s].todo : Tables(job'[s].todo[i]) \subseteq Loads(s)
    PROVE  JobInv(s)' /\ OpenInv(s)' /\ Unseen(s)'
<1>1. JobInv(s)'
  BY DEF JobInv, Stages
<1>2. OpenInv(s)' /\ Unseen(s)'
  BY DEF OpenInv, Unseen
<1> QED
  BY <1>1, <1>2

\* A slot put back to rest answers for nothing.
LEMMA NothingIsAsked ==
    ASSUME NEW s \in Slots, job'[s] = Idle
    PROVE  JobInv(s)' /\ OpenInv(s)' /\ Unseen(s)'
<1>1. job'[s].stage = "idle" /\ job'[s].todo = <<>> /\ <<>> \in Seq(Datasets)
  BY DEF Idle
<1>2. \A i \in DOMAIN <<>> : Tables(<<>>[i]) \subseteq Loads(s)
  OBVIOUS
<1> QED
  BY <1>1, <1>2, FreeSlot

\* An error closes the run.
LEMMA FailingKeepsOrder ==
    ASSUME IngestInv, NEW s \in Slots, job[s].stage # "idle", Failed(s), UNCHANGED <<db, killed>>
    PROVE  IngestInv'
<1>1. DOMAIN job' = Slots /\ job'[s] = Idle /\ \A t \in Slots \ {s} : job'[t] = job[t]
  BY DEF IngestInv, Failed
<1>2. PICK status \in Statuses :
            status # "RUNNING" /\ runs' = [runs EXCEPT ![job[s].run] = status] /\ killed' = killed
  BY DEF Failed, Statuses
<1>3. RunningMeansAtWork' /\ runs' \in Seq(Statuses) /\ DOMAIN runs' = DOMAIN runs
  BY <1>1, <1>2, WorkEnds
<1>4. JobInv(s)' /\ OpenInv(s)' /\ Unseen(s)'
  BY <1>1, NothingIsAsked
<1> QED
  BY <1>1, <1>3, <1>4, OneSlotMoves

\* What a slot is asked for is of its own tables.
LEMMA AskingKeepsOrder ==
    ASSUME IngestInv, NEW s \in Slots, Ask(s)
    PROVE  IngestInv'
<1>1. PICK batch \in Batches(s) : job' = [job EXCEPT ![s] = [stage |-> "idle", todo |-> batch]]
  BY DEF Ask
<1>2. /\ DOMAIN job' = Slots /\ \A t \in Slots \ {s} : job'[t] = job[t]
      /\ job'[s].stage = "idle" /\ job'[s].todo = batch
  BY <1>1 DEF IngestInv
<1>3. batch \in Seq(Datasets) /\ \A i \in DOMAIN batch : Tables(batch[i]) \subseteq Loads(s)
  BY SlotsAssumption DEF Loads
<1>4. JobInv(s)' /\ OpenInv(s)' /\ Unseen(s)'
  BY <1>2, <1>3, FreeSlot
<1>5. db' = db /\ UNCHANGED <<runs, killed>> /\ job[s].stage = "idle" /\ runs \in Seq(Statuses)
  BY DEF Ask, IngestInv
<1>6. RunningMeansAtWork'
  BY <1>2, <1>5, WorkGoesOn
<1>7. runs' \in Seq(Statuses) /\ DOMAIN runs \subseteq DOMAIN runs'
  BY <1>5
<1> QED
  BY <1>2, <1>4, <1>5, <1>6, <1>7, OneSlotMoves

\* A job begins with the tables as they are and a run that it holds.
LEMMA OpeningKeepsOrder ==
    ASSUME IngestInv, NEW s \in Slots, Open(s)
    PROVE  IngestInv'
<1> DEFINE n == Len(runs) + 1
<1>1. /\ DOMAIN job' = Slots /\ \A t \in Slots \ {s} : job'[t] = job[t]
      /\ job'[s].stage = "fetch" /\ job'[s].todo = job[s].todo
      /\ job'[s].run = n /\ job'[s].base = db
  BY DEF Open, IngestInv
<1>2. /\ job[s].stage = "idle" /\ job[s].todo # <<>> /\ db' = db /\ killed' = killed
      /\ runs' = Append(runs, "RUNNING") /\ runs \in Seq(Statuses)
  BY DEF Open, IngestInv
<1>3. /\ runs' \in Seq(Statuses) /\ DOMAIN runs' = DOMAIN runs \cup {n}
      /\ \A r \in DOMAIN runs : runs'[r] = runs[r]
  <2>1. "RUNNING" \in Statuses
    BY DEF Statuses
  <2>2. runs' \in Seq(Statuses) /\ Len(runs') = Len(runs) + 1
    BY <1>2, <2>1
  <2> QED
    BY <1>2, <2>1, <2>2
<1>4. JobInv(s)'
  BY <1>1, <1>2, <1>3 DEF JobInv, Stages, IngestInv
<1>5. OpenInv(s)' /\ Unseen(s)'
  BY <1>1, <1>2 DEF OpenInv, Unseen
<1>6. ASSUME NEW r \in DOMAIN runs', runs'[r] = "RUNNING", r \notin killed'
      PROVE  \E t \in Slots : job'[t].stage # "idle" /\ job'[t].run = r
  <2>1. CASE r = n
    BY <1>1, <2>1
  <2>2. CASE r # n
    <3>1. r \in DOMAIN runs /\ runs[r] = "RUNNING" /\ r \notin killed
      BY <1>2, <1>3, <1>6, <2>2
    <3>2. PICK t \in Slots : job[t].stage # "idle" /\ job[t].run = r
      BY <3>1 DEF IngestInv, RunningMeansAtWork
    <3> QED
      BY <1>1, <1>2, <3>2
  <2> QED
    BY <2>1, <2>2
<1>7. RunningMeansAtWork'
  BY <1>6 DEF RunningMeansAtWork
<1> HIDE DEF n
<1> QED
  BY <1>1, <1>2, <1>3, <1>4, <1>5, <1>7, OneSlotMoves

\* What a step of a job at work that keeps its run, its batch and its base has to show.
LEMMA SteadyWork ==
    ASSUME IngestInv, NEW s \in Slots, job[s].stage \in {"fetch", "map", "write"},
           DOMAIN job' = Slots, \A t \in Slots \ {s} : job'[t] = job[t],
           job'[s].stage \in {"fetch", "map", "write"}, job'[s].todo = job[s].todo,
           job'[s].run = job[s].run, job'[s].base = job[s].base,
           UNCHANGED <<db, runs, killed>>, OpenInv(s)'
    PROVE  IngestInv'
<1>1. RunningMeansAtWork'
  BY WorkGoesOn
<1>2. JobInv(s) /\ Unseen(s) /\ runs \in Seq(Statuses)
  BY DEF IngestInv
<1>3. JobInv(s)'
  BY <1>2 DEF JobInv, Stages
<1>4. Unseen(s)'
  BY <1>2 DEF Unseen, Kind
<1> QED
  BY <1>1, <1>2, <1>3, <1>4, OneSlotMoves

\* An answer is kept, or refused and the run closed.
LEMMA FetchingKeepsOrder ==
    ASSUME IngestInv, NEW s \in Slots, Fetch(s)
    PROVE  IngestInv'
<1>1. job[s].stage = "fetch" /\ db' = db /\ killed' = killed
  BY DEF Fetch
<1>2. CASE Failed(s)
  BY <1>1, <1>2, FailingKeepsOrder
<1>3. ASSUME NEW f, runs' = runs,
             job' = [job EXCEPT ![s] =
                 [stage |-> "map", todo |-> job[s].todo, run |-> job[s].run,
                  base |-> job[s].base, frame |-> f]]
      PROVE  IngestInv'
  <2>1. /\ DOMAIN job' = Slots /\ \A t \in Slots \ {s} : job'[t] = job[t]
        /\ job'[s].stage = "map" /\ job'[s].todo = job[s].todo
        /\ job'[s].run = job[s].run /\ job'[s].base = job[s].base
    BY <1>3 DEF IngestInv
  <2>2. OpenInv(s)'
    BY <2>1 DEF OpenInv
  <2> QED
    BY <1>1, <1>3, <2>1, <2>2, SteadyWork
<1> QED
  BY <1>2, <1>3 DEF Fetch, Refused

\* The rows are of the job's tables and wait in a transaction of its own.
LEMMA JudgingKeepsOrder ==
    ASSUME IngestInv, NEW s \in Slots, Judge(s)
    PROVE  IngestInv'
<1>1. job[s].stage = "map" /\ db' = db /\ killed' = killed
  BY DEF Judge
<1>2. CASE Failed(s)
  BY <1>1, <1>2, FailingKeepsOrder
<1>3. ASSUME NEW made, NEW left, made = Rows(Kind(s), job[s].frame), runs' = runs,
             job' = [job EXCEPT ![s] =
                 [stage |-> "write", todo |-> job[s].todo, run |-> job[s].run,
                  base |-> job[s].base, frame |-> job[s].frame, made |-> made,
                  left |-> left, txn |-> db]]
      PROVE  IngestInv'
  <2>1. /\ DOMAIN job' = Slots /\ \A t \in Slots \ {s} : job'[t] = job[t]
        /\ job'[s].stage = "write" /\ job'[s].todo = job[s].todo
        /\ job'[s].run = job[s].run /\ job'[s].base = job[s].base
        /\ job'[s].made = made /\ job'[s].txn = db
        /\ DOMAIN job'[s] = {"stage", "todo", "run", "base", "frame", "made", "left", "txn"}
    BY <1>3 DEF IngestInv
  <2>2. Kind(s)' = Kind(s) /\ Kind(s) \in Datasets
    BY <1>1, <2>1 DEF Kind, IngestInv, JobInv
  <2>3. Kind(s) # "players" => \A r \in made.rows : r.table \in Tables(Kind(s))
    BY <1>3, <2>2, RowsAreOfTheKind
  <2>4. DOMAIN db = Stores
    BY DEF IngestInv
  <2>5. OpenInv(s)'
    BY <2>1, <2>2, <2>3, <2>4 DEF OpenInv
  <2> QED
    BY <1>1, <1>3, <2>1, <2>5, SteadyWork
<1> QED
  BY <1>2, <1>3 DEF Judge, Refused

\* An upsert writes to the transaction, which nobody else reads.
LEMMA UpsertingKeepsOrder ==
    ASSUME IngestInv, NEW s \in Slots, Upsert(s)
    PROVE  IngestInv'
<1>1. job[s].stage = "write" /\ killed' = killed /\ OpenInv(s)
  BY DEF Upsert, IngestInv
<1>2. ASSUME Failed(s), db' = db PROVE IngestInv'
  BY <1>1, <1>2, FailingKeepsOrder
<1>3. ASSUME NEW txn, txn = Upserted(job[s].txn, job[s].left[1], job[s].made), db' = db, runs' = runs,
             job' = [job EXCEPT ![s].txn = txn, ![s].left = Tail(@)]
      PROVE  IngestInv'
  <2>1. {"stage", "todo", "run", "base", "made", "left", "txn"} \subseteq DOMAIN job[s]
    BY <1>1 DEF OpenInv
  <2>2. DOMAIN job' = Slots /\ \A t \in Slots \ {s} : job'[t] = job[t]
    BY <1>3 DEF IngestInv
  <2>3. job'[s] = [job[s] EXCEPT !.txn = txn, !.left = Tail(job[s].left)]
    BY <1>3, <2>1 DEF IngestInv
  <2>4. /\ DOMAIN job'[s] = DOMAIN job[s] /\ job'[s].txn = txn
        /\ job'[s].stage = job[s].stage /\ job'[s].todo = job[s].todo
        /\ job'[s].run = job[s].run /\ job'[s].base = job[s].base /\ job'[s].made = job[s].made
    BY <2>1, <2>3
  <2>5. DOMAIN txn = Stores
    <3>1. DOMAIN job[s].txn = Stores
      BY <1>1 DEF OpenInv
    <3> QED
      BY <1>3, <3>1, UpsertsKeepTheStores
  <2>6. OpenInv(s)'
    BY <1>1, <2>1, <2>4, <2>5 DEF OpenInv, Kind
  <2> QED
    BY <1>1, <1>3, <2>2, <2>4, <2>6, SteadyWork
<1> QED
  BY <1>2, <1>3 DEF Upsert, Exposed

\* Writing one's own rows leaves those of every other table.
LEMMA OtherTablesAreLeft ==
    ASSUME NEW rows, NEW new, NEW own, NEW others, own \cap others = {},
           \A r \in new : r.table \in own
    PROVE  \A r : r.table \in others => (r \in PutRows(rows, new) <=> r \in rows)
<1> SUFFICES ASSUME NEW r, r.table \in others PROVE r \in PutRows(rows, new) <=> r \in rows
  OBVIOUS
<1>1. r \notin new /\ ~ \E n \in new : n.table = r.table
  OBVIOUS
<1> QED
  BY <1>1 DEF PutRows

\* What a commit writes is of its own tables: no other job at work sees any of it.
LEMMA CommittingShowsNobody ==
    ASSUME IngestInv, NEW s \in Slots, Commit(s), NEW t \in Slots, t # s
    PROVE  Unseen(t)'
<1>1. job' = [job EXCEPT ![s] = [stage |-> "close", todo |-> job[s].todo,
                                 run |-> job[s].run, made |-> job[s].made]]
  BY DEF Commit
<1>2. job'[t] = job[t]
  BY <1>1 DEF IngestInv
<1>3. JobInv(s) /\ JobInv(t) /\ OpenInv(s) /\ Unseen(t) /\ DOMAIN db = Stores /\ job[s].stage = "write"
  BY DEF IngestInv, Commit
<1> SUFFICES ASSUME job[t].stage \in {"fetch", "map", "write"} PROVE Unseen(t)'
  BY <1>2 DEF Unseen
<1>4. Tables(Kind(s)) \cap Tables(Kind(t)) = {}
  BY <1>3, SlotsShareNoTable DEF JobInv
<1>5. CASE Kind(s) = "players"
  <2>1. db' = [job[s].txn EXCEPT !.rows = db.rows] /\ DOMAIN job[s].txn = Stores
    BY <1>3, <1>5 DEF Commit, OpenInv
  <2>2. db'.rows = db.rows
    BY <2>1 DEF Stores
  <2>3. Kind(t) # "players"
    BY <1>4, <1>5 DEF Tables
  <2> QED
    BY <1>2, <1>3, <2>2, <2>3 DEF Unseen, Kind
<1>6. CASE Kind(s) # "players"
  <2>1. db' = [db EXCEPT !.rows = PutRows(db.rows, job[s].made.rows)]
    BY <1>3, <1>6 DEF Commit
  <2>2. /\ db'.players = db.players /\ db'.ids = db.ids /\ db'.health = db.health
        /\ db'.conflicts = db.conflicts /\ db'.rows = PutRows(db.rows, job[s].made.rows)
    BY <1>3, <2>1 DEF Stores
  <2>3. \A r \in job[s].made.rows : r.table \in Tables(Kind(s))
    BY <1>3, <1>6 DEF OpenInv
  <2>4. PICK own, others, rows, new :
            /\ own = Tables(Kind(s)) /\ others = Tables(Kind(t))
            /\ rows = db.rows /\ new = job[s].made.rows
    OBVIOUS
  <2>5. \A r : r.table \in others => (r \in PutRows(rows, new) <=> r \in rows)
    <3>1. own \cap others = {}
      BY <1>4, <2>4
    <3>2. \A r \in new : r.table \in own
      BY <2>3, <2>4
    <3> QED
      BY <3>1, <3>2, OtherTablesAreLeft
  <2>6. {r \in db'.rows : r.table \in Tables(Kind(t))} = {r \in db.rows : r.table \in Tables(Kind(t))}
    <3>1. db'.rows = PutRows(rows, new)
      BY <2>2, <2>4
    <3> QED
      BY <2>4, <2>5, <3>1
  <2> QED
    BY <1>2, <1>3, <2>2, <2>6 DEF Unseen, Kind
<1> QED
  BY <1>5, <1>6

\* A commit shows the rows and leaves the run to be closed.
LEMMA CommittingKeepsOrder ==
    ASSUME IngestInv, NEW s \in Slots, Commit(s)
    PROVE  IngestInv'
<1>1. /\ job' = [job EXCEPT ![s] = [stage |-> "close", todo |-> job[s].todo,
                                    run |-> job[s].run, made |-> job[s].made]]
      /\ UNCHANGED <<runs, killed>> /\ job[s].stage = "write"
  BY DEF Commit
<1>2. /\ DOMAIN job' = Slots /\ \A t \in Slots \ {s} : job'[t] = job[t]
      /\ job'[s].stage = "close" /\ job'[s].todo = job[s].todo /\ job'[s].run = job[s].run
  BY <1>1 DEF IngestInv
<1>3. RunningMeansAtWork'
  BY <1>1, <1>2, WorkGoesOn
<1>4. JobInv(s)' /\ OpenInv(s)' /\ Unseen(s)'
  <2>1. JobInv(s)
    BY DEF IngestInv
  <2>2. JobInv(s)'
    BY <1>1, <1>2, <2>1 DEF JobInv, Stages
  <2>3. OpenInv(s)' /\ Unseen(s)'
    BY <1>2 DEF OpenInv, Unseen
  <2> QED
    BY <2>2, <2>3
<1>5. ASSUME NEW t \in Slots, t # s PROVE JobInv(t)' /\ OpenInv(t)' /\ Unseen(t)'
  <2>1. JobInv(t) /\ OpenInv(t) /\ job'[t] = job[t]
    BY <1>2, <1>5 DEF IngestInv
  <2>2. JobInv(t)'
    BY <1>1, <2>1 DEF JobInv
  <2>3. OpenInv(t)'
    BY <2>1 DEF OpenInv, Kind
  <2> QED
    BY <1>5, <2>2, <2>3, CommittingShowsNobody
<1>6. DOMAIN db' = Stores
  <2>1. DOMAIN db = Stores /\ DOMAIN job[s].txn = Stores
    BY <1>1 DEF IngestInv, OpenInv
  <2> QED
    BY <1>1, <2>1 DEF Commit
<1>7. runs' \in Seq(Statuses)
  BY <1>1 DEF IngestInv
<1> QED
  BY <1>2, <1>3, <1>4, <1>5, <1>6, <1>7 DEF IngestInv

\* The run is closed and the batch goes on.
LEMMA ClosingKeepsOrder ==
    ASSUME IngestInv, NEW s \in Slots, Close(s)
    PROVE  IngestInv'
<1>1. /\ job' = [job EXCEPT ![s] = [stage |-> "idle", todo |-> Tail(job[s].todo)]]
      /\ UNCHANGED <<db, killed>> /\ job[s].stage = "close"
  BY DEF Close
<1>2. /\ DOMAIN job' = Slots /\ \A t \in Slots \ {s} : job'[t] = job[t]
      /\ job'[s].stage = "idle" /\ job'[s].todo = Tail(job[s].todo)
  BY <1>1 DEF IngestInv
<1>3. PICK status \in Statuses :
            status # "RUNNING" /\ runs' = [runs EXCEPT ![job[s].run] = status] /\ killed' = killed
  BY DEF Close, Status, Statuses
<1>4. RunningMeansAtWork' /\ runs' \in Seq(Statuses) /\ DOMAIN runs' = DOMAIN runs
  BY <1>1, <1>2, <1>3, WorkEnds
<1>5. /\ job[s].todo \in Seq(Datasets) /\ job[s].todo # <<>>
      /\ \A i \in DOMAIN job[s].todo : Tables(job[s].todo[i]) \subseteq Loads(s)
  BY <1>1 DEF IngestInv, JobInv
<1>6. JobInv(s)' /\ OpenInv(s)' /\ Unseen(s)'
  BY <1>2, <1>5, TheRestIsAskedFor, FreeSlot
<1> QED
  BY <1>1, <1>2, <1>4, <1>6, OneSlotMoves

\* A killed process leaves its run open and nothing else.
LEMMA KillingKeepsOrder ==
    ASSUME IngestInv, NEW s \in Slots, Kill(s)
    PROVE  IngestInv'
<1>1. /\ job' = [job EXCEPT ![s] = Idle] /\ killed' = killed \cup {job[s].run}
      /\ UNCHANGED <<db, runs>>
  BY DEF Kill
<1>2. DOMAIN job' = Slots /\ job'[s] = Idle /\ \A t \in Slots \ {s} : job'[t] = job[t]
  BY <1>1 DEF IngestInv
<1>3. JobInv(s)' /\ OpenInv(s)' /\ Unseen(s)'
  BY <1>2, NothingIsAsked
<1>4. ASSUME NEW r \in DOMAIN runs, runs[r] = "RUNNING", r \notin killed'
      PROVE  \E t \in Slots : job'[t].stage # "idle" /\ job'[t].run = r
  <2>1. PICK t \in Slots : job[t].stage # "idle" /\ job[t].run = r
    BY <1>1, <1>4 DEF IngestInv, RunningMeansAtWork
  <2> QED
    BY <1>1, <1>2, <1>4, <2>1
<1>5. RunningMeansAtWork' /\ runs' \in Seq(Statuses)
  BY <1>1, <1>4 DEF RunningMeansAtWork, IngestInv
<1> QED
  BY <1>1, <1>2, <1>3, <1>5, OneSlotMoves

\* Every step of every slot keeps the order.
LEMMA IngestInvStep ==
    IngestInv /\ [IngestNext]_ingestVars => IngestInv'
<1> SUFFICES ASSUME IngestInv, [IngestNext]_ingestVars PROVE IngestInv'
  OBVIOUS
<1>1. CASE UNCHANGED ingestVars
  <2>1. /\ DOMAIN job' = Slots /\ DOMAIN db' = Stores /\ runs' \in Seq(Statuses)
        /\ job' = job /\ db' = db /\ runs' = runs /\ killed' = killed
    BY <1>1 DEF ingestVars, IngestInv
  <2>2. ASSUME NEW s \in Slots PROVE JobInv(s)' /\ OpenInv(s)' /\ Unseen(s)'
    <3>1. JobInv(s) /\ OpenInv(s) /\ Unseen(s)
      BY DEF IngestInv
    <3> QED
      BY <2>1, <3>1 DEF JobInv, OpenInv, Unseen, Kind
  <2>3. RunningMeansAtWork'
    BY <2>1 DEF IngestInv, RunningMeansAtWork
  <2> QED
    BY <2>1, <2>2, <2>3 DEF IngestInv
<1>2. ASSUME NEW s \in Slots, ProviderFails(s) PROVE IngestInv'
  BY <1>2, FailingKeepsOrder DEF ProviderFails
<1> QED
  BY <1>1, <1>2, AskingKeepsOrder, OpeningKeepsOrder, FetchingKeepsOrder, JudgingKeepsOrder,
     UpsertingKeepsOrder, CommittingKeepsOrder, ClosingKeepsOrder, KillingKeepsOrder
     DEF IngestNext, SlotNext

\* RunningMeansAtWork for any slots, batches and answers: ingestion_run commits its row
\* as RUNNING first, and every way out of the job but a kill stores what became of it.
THEOREM RunningIsAtWork == IngestSpec => []RunningMeansAtWork
<1>1. IngestInv => RunningMeansAtWork
  BY DEF IngestInv
<1> QED
  BY <1>1, IngestInvInit, IngestInvStep, PTL DEF IngestSpec

\* HalfASyncIsNeverSeen for any slots that load different tables: a job's rows are read
\* by nobody before its one transaction commits, and a commit is of its own tables only.
THEOREM NobodySeesHalfASync == IngestSpec => []HalfASyncIsNeverSeen
<1>1. IngestInv => HalfASyncIsNeverSeen
  BY DEF IngestInv, Unseen, HalfASyncIsNeverSeen
<1> QED
  BY <1>1, IngestInvInit, IngestInvStep, PTL DEF IngestSpec

-----------------------------------------------------------------------------
(* Who owns an id *)

\* A set of numbers has a least one.
LEMMA NatHasLeast ==
    ASSUME NEW S \in SUBSET Nat, S # {}
    PROVE  \E n \in S : \A m \in S : n <= m
<1> DEFINE R == {pair \in Nat \X Nat : pair[1] < pair[2]}
<1>1. IsWellFoundedOn(R, Nat)
  BY NatLessThanWellFounded, Zenon DEF OpToRel
<1>2. PICK n \in S : \A m \in S : <<m, n>> \notin R
  <2> HIDE DEF R
  <2> QED
    BY <1>1, WFMin
<1>3. \A m \in S : ~(m < n)
  BY <1>2
<1> QED
  BY <1>3

\* Whoever wins a contested id is best identified, and of those the one with the
\* least provider id.
Beats(c, d) ==
    \/ c.confidence > d.confidence
    \/ c.confidence = d.confidence /\ c.sleeper <= d.sleeper
Wins(c, claims) == c \in claims /\ \A d \in claims : Beats(c, d)
Sound(claims) == \A c \in claims : c.confidence \in {0, 85, 97, 100} /\ c.sleeper \in Nat

\* There is a winner.
LEMMA WinnerWins ==
    ASSUME NEW claims, claims # {}, Sound(claims)
    PROVE  Wins(Winner(claims), claims)
<1> DEFINE doubts == {100 - c.confidence : c \in claims}
<1>1. doubts \in SUBSET Nat /\ doubts # {}
  BY DEF Sound
<1>2. PICK n \in doubts : \A m \in doubts : n <= m
  BY <1>1, NatHasLeast
<1> DEFINE best == {c \in claims : 100 - c.confidence = n}
           ids == {c.sleeper : c \in best}
<1>3. ids \in SUBSET Nat /\ ids # {}
  BY <1>2 DEF Sound
<1>4. PICK k \in ids : \A m \in ids : k <= m
  BY <1>3, NatHasLeast
<1>5. PICK c \in best : c.sleeper = k
  BY <1>4
<1>6. ASSUME NEW d \in claims PROVE Beats(c, d)
  <2>1. /\ c.confidence \in {0, 85, 97, 100} /\ d.confidence \in {0, 85, 97, 100}
        /\ c.sleeper \in Nat /\ d.sleeper \in Nat
    BY DEF Sound
  <2>2. 100 - c.confidence <= 100 - d.confidence
    BY <1>2
  <2>3. c.confidence = d.confidence => d \in best
    OBVIOUS
  <2>4. d \in best => c.sleeper <= d.sleeper
    BY <1>4, <1>5
  <2> HIDE DEF best
  <2> QED
    BY <2>1, <2>2, <2>3, <2>4 DEF Beats
<1> QED
  BY <1>6 DEF Wins, Winner, Beats

\* What two claims have in common that differ in their place only.
Same(c, d) ==
    /\ c.system = d.system /\ c.id = d.id /\ c.uuid = d.uuid
    /\ c.confidence = d.confidence /\ c.sleeper = d.sleeper

Owner(claims, c) ==
    [system |-> c.system, id |-> c.id, uuid |-> Winner(Rivals(claims, c)).uuid]

OwnersOf(claims) == {Owner(claims, c) : c \in claims}

\* Claims that differ in their places only, each player's under an id of his own.
Moved(C, D) ==
    /\ \A c, e \in C : c.sleeper = e.sleeper => c.uuid = e.uuid
    /\ \A c \in C : \E d \in D : Same(c, d)
    /\ \A d \in D : \E c \in C : Same(c, d)

\* The owners hang on the claims alone, wherever in the payload they were made.
LEMMA PlaceDecidesNothing ==
    ASSUME NEW C, NEW D, Sound(C), Sound(D), Moved(C, D)
    PROVE  OwnersOf(C) = OwnersOf(D)
<1>1. ASSUME NEW c \in C, NEW d \in D, Same(c, d)
      PROVE  Owner(C, c) = Owner(D, d)
  <2> DEFINE w == Winner(Rivals(C, c))
             v == Winner(Rivals(D, d))
  <2>1. Wins(w, Rivals(C, c))
    <3>1. c \in Rivals(C, c) /\ Sound(Rivals(C, c))
      BY DEF Rivals, Sound
    <3> QED
      BY <3>1, WinnerWins
  <2>2. Wins(v, Rivals(D, d))
    <3>1. d \in Rivals(D, d) /\ Sound(Rivals(D, d))
      BY DEF Rivals, Sound
    <3> QED
      BY <3>1, WinnerWins
  <2> HIDE DEF w, v
  <2>3. PICK u \in C : Same(u, v)
    BY <2>2 DEF Wins, Rivals, Moved
  <2>4. u \in Rivals(C, c)
    BY <1>1, <2>2, <2>3 DEF Wins, Rivals, Same
  <2>5. Beats(w, u)
    BY <2>1, <2>4 DEF Wins
  <2>6. Beats(u, w)
    <3>1. PICK x \in D : Same(w, x)
      BY <2>1 DEF Wins, Rivals, Moved
    <3>2. x \in Rivals(D, d)
      BY <1>1, <2>1, <3>1 DEF Wins, Rivals, Same
    <3>3. Beats(v, x)
      BY <2>2, <3>2 DEF Wins
    <3> QED
      BY <2>3, <3>1, <3>3 DEF Beats, Same
  <2>7. w.sleeper = u.sleeper
    <3>1. w \in C
      BY <2>1 DEF Wins, Rivals
    <3>2. /\ w.confidence \in Nat /\ u.confidence \in Nat
          /\ w.sleeper \in Nat /\ u.sleeper \in Nat
      BY <3>1 DEF Sound
    <3> QED
      BY <2>5, <2>6, <3>2 DEF Beats
  <2>8. w.uuid = v.uuid
    BY <2>1, <2>3, <2>7 DEF Wins, Rivals, Same, Moved
  <2> QED
    BY <1>1, <2>8 DEF Owner, Same, w, v
<1>2. \A o : o \in OwnersOf(C) <=> o \in OwnersOf(D)
  BY <1>1 DEF OwnersOf, Moved
<1> QED
  BY <1>2 DEF OwnersOf

\* What a claim of a place of the payload holds.
LEMMA ClaimsAreSound ==
    ASSUME NEW payload, NEW entries, NEW outcome,
           \A i \in entries : payload[i].sleeper \in Nat
    PROVE  Sound(ClaimsOf(entries, outcome, payload))
BY DEF Sound, ClaimsOf, Claim, Confidence

\* The owners of a scan are the winners of its claims.
LEMMA ScansOwners ==
    ASSUME NEW payload, NEW positions, NEW crosswalk, NEW index
    PROVE  LET outcome == Outcomes(payload, crosswalk, index)
               kept    == FirstEntries(Known(payload, positions, outcome), outcome)
               claims  == ClaimsOf(kept, outcome, payload)
           IN  Owners(Scan(payload, positions, crosswalk, index))
                   = OwnersOf(claims)
<1> DEFINE outcome == Outcomes(payload, crosswalk, index)
           kept    == FirstEntries(Known(payload, positions, outcome), outcome)
           claims  == ClaimsOf(kept, outcome, payload)
           place(c) == CHOOSE n \in {d.at : d \in Rivals(claims, c)} :
                          \A d \in Rivals(claims, c) : n <= d.at
           row(c) == [system |-> c.system, id |-> c.id,
                      uuid |-> Winner(Rivals(claims, c)).uuid, at |-> place(c)]
<1>1. Scan(payload, positions, crosswalk, index).ids = {row(c) : c \in claims}
  BY DEF Scan
<1>2. \A c : /\ row(c).system = c.system /\ row(c).id = c.id
               /\ row(c).uuid = Winner(Rivals(claims, c)).uuid
  OBVIOUS
<1> HIDE DEF claims, row
<1>3. \A c : [system |-> row(c).system, id |-> row(c).id, uuid |-> row(c).uuid] = Owner(claims, c)
  BY <1>2 DEF Owner
<1>4. \A n : n \in Scan(payload, positions, crosswalk, index).ids <=> \E c \in claims : n = row(c)
  BY <1>1
<1>5. Owners(Scan(payload, positions, crosswalk, index)) = OwnersOf(claims)
  BY <1>3, <1>4 DEF Owners, OwnersOf
<1> QED
  BY <1>5 DEF claims

\* Where no two entries are the same player, the claims of a payload in another order
\* are its claims at other places.
LEMMA OrderMovesClaims ==
    ASSUME NEW f \in Frames("players"), OneEntryEach(f), NEW rows \in Orders(f.rows)
    PROVE  Owners(Scan(rows, FantasyPositions, f.crosswalk, f.index))
             = Owners(Scan(f.rows, FantasyPositions, f.crosswalk, f.index))
<1> DEFINE outcome == Outcomes(f.rows, f.crosswalk, f.index)
           known   == Known(f.rows, FantasyPositions, outcome)
           claims  == ClaimsOf(FirstEntries(known, outcome), outcome, f.rows)
           outcome2 == Outcomes(rows, f.crosswalk, f.index)
           known2   == Known(rows, FantasyPositions, outcome2)
           claims2  == ClaimsOf(FirstEntries(known2, outcome2), outcome2, rows)
<1>1. PICK at \in [DOMAIN f.rows -> DOMAIN f.rows] :
        /\ \A i \in DOMAIN f.rows : \E j \in DOMAIN f.rows : at[j] = i
        /\ rows = [i \in DOMAIN f.rows |-> f.rows[at[i]]]
  BY DEF Orders
<1>2. /\ DOMAIN f.rows = 1..Len(f.rows) /\ Len(f.rows) \in Nat
      /\ \A i \in known : f.rows[i].sleeper \in Nat
      /\ \A i, j \in known : f.rows[i].sleeper = f.rows[j].sleeper => i = j
  BY PayloadAssumption DEF Known, InScope
<1>3. \A i, j \in DOMAIN f.rows : at[i] = at[j] => i = j
  <2>1. IsFiniteSet(DOMAIN f.rows)
    <3>1. 1 \in Int /\ Len(f.rows) \in Int
      BY <1>2
    <3>2. IsFiniteSet(1..Len(f.rows))
      BY <3>1, FS_Interval
    <3> QED
      BY <1>2, <3>2
  <2>2. at \in Surjection(DOMAIN f.rows, DOMAIN f.rows)
    BY <1>1 DEF Surjection
  <2>3. at \in Injection(DOMAIN f.rows, DOMAIN f.rows)
    BY <2>1, <2>2, FS_SurjSameCardinalityImpliesInj
  <2> QED
    BY <2>3 DEF Injection, IsInjective
<1>4. DOMAIN rows = DOMAIN f.rows /\ \A i \in DOMAIN rows : rows[i] = f.rows[at[i]]
  BY <1>1
<1>5. \A i \in DOMAIN rows : at[i] \in DOMAIN f.rows /\ outcome2[i] = outcome[at[i]]
  BY <1>1, <1>4 DEF Outcomes
<1> HIDE DEF outcome, outcome2
<1>6. \A i \in DOMAIN rows : i \in known2 <=> at[i] \in known
  BY <1>4, <1>5 DEF Known, InScope
<1>7. known \subseteq DOMAIN f.rows /\ known2 \subseteq DOMAIN rows
  BY DEF Known, InScope
<1>8. FirstEntries(known, outcome) = known
  BY DEF OneEntryEach, outcome
<1> HIDE DEF known, known2
<1>9. \A i, j \in known : outcome[i].uuid = outcome[j].uuid => i = j
  BY <1>2, <1>7, <1>8 DEF FirstEntries
<1>10. FirstEntries(known2, outcome2) = known2
  <2>1. ASSUME NEW i \in known2, NEW j \in known2, j < i
        PROVE  outcome2[j].uuid # outcome2[i].uuid
    <3>1. i \in Int /\ j \in Int /\ i # j
      BY <1>2, <1>4, <1>7, <2>1
    <3>2. at[i] \in known /\ at[j] \in known /\ at[i] # at[j]
      BY <1>3, <1>4, <1>6, <1>7, <3>1
    <3> QED
      BY <1>5, <1>7, <1>9, <3>2
  <2> QED
    BY <2>1 DEF FirstEntries
<1>11. /\ claims = ClaimsOf(known, outcome, f.rows)
       /\ claims2 = ClaimsOf(known2, outcome2, rows)
  BY <1>8, <1>10
<1>12. Sound(claims) /\ Sound(claims2)
  <2>1. \A i \in known2 : rows[i].sleeper \in Nat
    BY <1>2, <1>4, <1>6, <1>7
  <2> QED
    BY <1>2, <1>11, <2>1, ClaimsAreSound
<1>13. \A c, e \in claims : c.sleeper = e.sleeper => c.uuid = e.uuid
  BY <1>2, <1>11 DEF ClaimsOf, Claim
<1>14. ASSUME NEW i \in known2, NEW s
       PROVE  Same(Claim(s, at[i], outcome, f.rows), Claim(s, i, outcome2, rows))
  BY <1>4, <1>5, <1>7 DEF Same, Claim
<1>15. ASSUME NEW c \in claims PROVE \E d \in claims2 : Same(c, d)
  <2>1. PICK k \in known : \E s \in DOMAIN outcome[k].ids : c = Claim(s, k, outcome, f.rows)
    BY <1>11 DEF ClaimsOf
  <2>0. PICK s \in DOMAIN outcome[k].ids : c = Claim(s, k, outcome, f.rows)
    BY <2>1
  <2>2. PICK i \in known2 : at[i] = k
    BY <1>1, <1>4, <1>6, <1>7
  <2>3. Claim(s, i, outcome2, rows) \in claims2
    BY <1>5, <1>7, <1>11, <2>0, <2>2 DEF ClaimsOf
  <2> QED
    BY <1>14, <2>0, <2>2, <2>3
<1>16. ASSUME NEW d \in claims2 PROVE \E c \in claims : Same(c, d)
  <2>0. PICK i \in known2 : \E s \in DOMAIN outcome2[i].ids : d = Claim(s, i, outcome2, rows)
    BY <1>11 DEF ClaimsOf
  <2>1. PICK s \in DOMAIN outcome2[i].ids : d = Claim(s, i, outcome2, rows)
    BY <2>0
  <2>2. at[i] \in known /\ s \in DOMAIN outcome[at[i]].ids
    BY <1>5, <1>6, <1>7, <2>1
  <2>3. Claim(s, at[i], outcome, f.rows) \in claims
    BY <1>11, <2>2 DEF ClaimsOf
  <2> QED
    BY <1>14, <2>1, <2>3
<1>17. OwnersOf(claims) = OwnersOf(claims2)
  <2>1. \A c \in claims : \E d \in claims2 : Same(c, d)
    BY <1>15
  <2>2. \A d \in claims2 : \E c \in claims : Same(c, d)
    BY <1>16
  <2> HIDE DEF claims, claims2
  <2>3. Moved(claims, claims2)
    BY <1>13, <2>1, <2>2 DEF Moved
  <2> QED
    BY <1>12, <2>3, PlaceDecidesNothing
<1>18. Owners(Scan(f.rows, FantasyPositions, f.crosswalk, f.index)) = OwnersOf(claims)
  BY ScansOwners DEF outcome, known
<1>19. Owners(Scan(rows, FantasyPositions, f.crosswalk, f.index)) = OwnersOf(claims2)
  BY ScansOwners DEF outcome2, known2
<1> QED
  BY <1>17, <1>18, <1>19

\* What a players job makes is the scan of a payload the provider gave.
ScanOf(s) ==
    Kind(s) = "players" =>
        /\ job[s].stage \in {"map", "write"} => job[s].frame \in Frames("players")
        /\ job[s].stage = "write" =>
              job[s].made = Scan(job[s].frame.rows, FantasyPositions,
                                 job[s].frame.crosswalk, job[s].frame.index)

ScanInv == DOMAIN job = Slots /\ \A s \in Slots : ScanOf(s)

\* It is made in one step from the frame, and written as it was made.
LEMMA ScanInvStep == ScanInv /\ [IngestNext]_ingestVars => ScanInv'
<1> SUFFICES ASSUME ScanInv, [IngestNext]_ingestVars PROVE ScanInv'
  OBVIOUS
<1>1. CASE UNCHANGED ingestVars
  BY <1>1 DEF ScanInv, ScanOf, Kind, ingestVars
<1>2. CASE IngestNext
  <2>1. PICK s \in Slots : SlotNext(s)
    BY <1>2 DEF IngestNext
  <2>2. \E j : job' = [job EXCEPT ![s] = j] \/ job' = [job EXCEPT ![s].txn = j, ![s].left = Tail(@)]
    BY <2>1 DEF SlotNext, Ask, Open, ProviderFails, Fetch, Judge, Upsert, Commit, Close, Kill,
                Refused, Failed
  <2>3. DOMAIN job' = Slots /\ \A t \in Slots \ {s} : job'[t] = job[t]
    BY <2>2 DEF ScanInv
  <2>4. \A t \in Slots \ {s} : ScanOf(t)'
    BY <2>3 DEF ScanInv, ScanOf, Kind
  <2>5. ScanOf(s)'
    <3>1. job'[s].stage \notin {"map", "write"} => ScanOf(s)'
      BY DEF ScanOf
    <3>2. CASE Ask(s) \/ Open(s) \/ ProviderFails(s) \/ Commit(s) \/ Close(s) \/ Kill(s)
      BY <3>1, <3>2 DEF ScanInv, Ask, Open, ProviderFails, Commit, Close, Kill, Failed, Idle
    <3>3. CASE Fetch(s)
      BY <3>1, <3>3 DEF ScanInv, ScanOf, Fetch, Refused, Failed, Idle, Kind
    <3>4. CASE Judge(s)
      <4>1. CASE Failed(s)
        BY <3>1, <4>1 DEF ScanInv, Failed, Idle
      <4>2. CASE ~Failed(s)
        <5>1. /\ job[s].stage = "map"
              /\ job'[s].todo = job[s].todo /\ job'[s].frame = job[s].frame
              /\ job'[s].stage = "write"
              /\ job'[s].made = Rows(Kind(s), job[s].frame)
          BY <3>4, <4>2 DEF ScanInv, Judge, Refused
        <5>2. Kind(s) = "players" => job'[s].made = Scan(job[s].frame.rows, FantasyPositions,
                                               job[s].frame.crosswalk, job[s].frame.index)
          BY <5>1 DEF Rows
        <5> QED
          BY <5>1, <5>2 DEF ScanInv, ScanOf, Kind
      <4> QED
        BY <4>1, <4>2
    <3>5. CASE Upsert(s)
      <4>1. CASE Failed(s)
        BY <3>1, <4>1 DEF ScanInv, Failed, Idle
      <4>2. CASE ~Failed(s)
        <5>1. PICK txn : job' = [job EXCEPT ![s].txn = txn, ![s].left = Tail(@)]
          BY <3>5, <4>2 DEF Upsert
        <5>2. /\ job'[s].todo = job[s].todo /\ job'[s].frame = job[s].frame
              /\ job'[s].stage = job[s].stage /\ job'[s].made = job[s].made
          BY <5>1 DEF ScanInv
        <5> QED
          BY <5>2 DEF ScanInv, ScanOf, Kind
      <4> QED
        BY <4>1, <4>2
    <3> QED
      BY <2>1, <3>2, <3>3, <3>4, <3>5 DEF SlotNext
  <2> QED
    BY <2>3, <2>4, <2>5 DEF ScanInv
<1> QED
  BY <1>1, <1>2

\* OwnersIgnoreOrder for any payload, crosswalk and index: the claims are settled after
\* the loop, by confidence and then by the provider's id, so an order of the entries that
\* decides who is kept decides nothing else.
THEOREM OwnersIgnoreOrderHolds == IngestSpec => []OwnersIgnoreOrder
<1>1. IngestInit => ScanInv
  BY DEF IngestInit, Idle, ScanInv, ScanOf
<1>2. ScanInv => OwnersIgnoreOrder
  BY OrderMovesClaims DEF ScanInv, ScanOf, OwnersIgnoreOrder
<1> QED
  BY <1>1, <1>2, ScanInvStep, PTL DEF IngestSpec
=============================================================================
