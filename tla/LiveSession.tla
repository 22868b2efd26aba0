----------------------------- MODULE LiveSession -----------------------------
(***************************************************************************)
(* The session of one live draft: connect_sleeper_draft, register_live,    *)
(* recover_session and the eviction of sessions, beside the poller that    *)
(* feeds it.                                                               *)
(*                                                                         *)
(* A connect or a recovery is a request with five awaits: it reads the     *)
(* provider and the database, and registers what it read in one stretch.   *)
(* The provider lists picks 1..listed and changes none (LivePoller covers  *)
(* corrections), so a draft state is the number of picks it holds.  A      *)
(* session's identity is its DraftState object, as it is the poller's.     *)
(***************************************************************************)
EXTENDS Integers

CONSTANTS Requests,       \* requests connecting or recovering concurrently
          Objects,        \* DraftState objects: the session's and an evicted one's
          DraftSlots,     \* seats of the draft order
          Nothing,        \* also: no seat
          MaxPicks,
          MaxEvictions,   \* bound: times other drafts push this one out
          MaxRestarts     \* bound

ASSUME NothingAssumption == Nothing \notin Objects \cup Requests \cup DraftSlots
ASSUME BoundAssumption == MaxPicks \in Nat /\ MaxEvictions \in Nat /\ MaxRestarts \in Nat

VARIABLES
    listed, providerStatus, ordered, \* provider: picks, status, is the draft order set
    saved, savedSeat,                \* database: is there a draft row, and its seat
    rows, unwritten,                 \* draft_picks, and history: picks lost to it
    held, status, userSeat,          \* registry: the session's state, what it says
    picks,                           \* picks each object holds
    feeds, fresh,                    \* poller: the object it feeds, picks it is writing
    at, readStatus, readSeat, readPicks,   \* requests, and what they have read
    lock,                            \* the recovery that holds the draft's lock
    evictions, restarts,
    stranded,    \* history: the session was evicted while it was polled
    overlapped,  \* history: two requests were under way at once
    wrote,       \* history: the seat the last connect to write the row gave it
    due,         \* history: the seat the session held is to say
    finished     \* history: the poller of the session held said COMPLETE

provider == <<listed, providerStatus, ordered>>
database == <<saved, savedSeat, rows, unwritten>>
registry == <<held, status, userSeat, picks>>
poller == <<feeds, fresh>>
requests == <<at, readStatus, readSeat, readPicks, lock>>
bounds == <<evictions, restarts>>
histories == <<stranded, overlapped, wrote, due, finished>>
sessionVars == <<provider, database, registry, poller, requests, bounds, histories>>

Upper(m, n) == IF m > n THEN m ELSE n

Polled == feeds # Nothing

\* An object that is neither held nor fed is gone.
Alive(S) == [o \in Objects |-> IF o \in S THEN picks[o] ELSE 0]

SessionInit == /\ listed = 0 /\ providerStatus = "drafting" /\ ordered = FALSE
        /\ saved = FALSE /\ savedSeat = Nothing /\ rows = {} /\ unwritten = {}
        /\ held = Nothing /\ status = "none" /\ userSeat = Nothing
        /\ picks = [o \in Objects |-> 0]
        /\ feeds = Nothing /\ fresh = {}
        /\ at = [q \in Requests |-> "idle"]
        /\ readStatus = [q \in Requests |-> "none"]
        /\ readSeat = [q \in Requests |-> Nothing]
        /\ readPicks = [q \in Requests |-> 0]
        /\ lock = Nothing
        /\ evictions = 0 /\ restarts = 0
        /\ stranded = FALSE /\ overlapped = FALSE /\ finished = FALSE
        /\ wrote = Nothing /\ due = Nothing

-----------------------------------------------------------------------------
\* The provider: the order is drawn, picks are made, and the draft ends, with every
\* pick made or not.  "pre_draft" counts as "drafting": nothing tells them apart.
Room == /\ providerStatus = "drafting"
        /\ \/ ~ordered /\ ordered' = TRUE /\ UNCHANGED <<listed, providerStatus>>
           \/ /\ ordered /\ listed < MaxPicks /\ listed' = listed + 1
              /\ UNCHANGED <<providerStatus, ordered>>
           \/ providerStatus' = "complete" /\ UNCHANGED <<listed, ordered>>
        /\ UNCHANGED <<database, registry, poller, requests, bounds, histories>>

-----------------------------------------------------------------------------
Writes(S) == rows' = rows \cup S /\ unwritten' = unwritten \ S
WriteFails(S) == unwritten' = unwritten \cup (S \ rows) /\ UNCHANGED rows

UnderWay(q) == at[q] # "idle"

\* Requests under way besides q make an overlap.
Begins(q) == overlapped' = (overlapped \/ \E r \in Requests \ {q} : UnderWay(r))

SeatOrNone == DraftSlots \cup {Nothing}

\* connect: the draft is read, and the seat its order gives the user named, if one
\* is named and is in it.
ConnectBegins(q) ==
    /\ ~UnderWay(q) /\ at' = [at EXCEPT ![q] = "persist"]
    /\ readStatus' = [readStatus EXCEPT ![q] = providerStatus]
    /\ \E s \in SeatOrNone : readSeat' = [readSeat EXCEPT ![q] = IF ordered THEN s ELSE Nothing]
    /\ Begins(q)
    /\ UNCHANGED <<provider, database, registry, poller, readPicks, lock, bounds,
                   stranded, wrote, due, finished>>

\* A read finds no session: one recovery at a time takes the lock, looks again
\* and finds the draft row.
RecoveryBegins(q) ==
    /\ ~UnderWay(q) /\ lock = Nothing /\ held = Nothing /\ saved
    /\ lock' = q /\ at' = [at EXCEPT ![q] = "draft"]
    /\ readSeat' = [readSeat EXCEPT ![q] = savedSeat]
    /\ Begins(q)
    /\ UNCHANGED <<provider, database, registry, poller, readStatus, readPicks, bounds,
                   stranded, wrote, due, finished>>

\* The seat of a recovery is the one recorded: it knows no user.
ReadDraft(q) ==
    /\ at[q] = "draft" /\ at' = [at EXCEPT ![q] = "persist"]
    /\ readStatus' = [readStatus EXCEPT ![q] = providerStatus]
    /\ UNCHANGED <<provider, database, registry, poller, readSeat, readPicks, lock,
                   bounds, histories>>

\* Mutated: a recovery leaves no seat behind.
ForgetsSeat(q) == IF q = lock THEN Nothing ELSE readSeat[q]

SeatToSave(q) == readSeat[q]

Persist(q) ==
    /\ at[q] = "persist" /\ at' = [at EXCEPT ![q] = "picks"]
    /\ saved' = TRUE /\ savedSeat' = SeatToSave(q)
    /\ wrote' = IF lock = q THEN wrote ELSE readSeat[q]
    /\ UNCHANGED <<provider, rows, unwritten, registry, poller, readStatus, readSeat,
                   readPicks, lock, bounds, stranded, overlapped, due, finished>>

\* Mutated: connecting leaves it to the poller to record.
RecordsNothing(q) == {}

\* Mutated: one more pick than was read.
OnePickMore(q) == 1..(readPicks[q] + 1)

Seeded(q) == 1..readPicks[q]

ReadPicks(q) ==
    /\ at[q] = "picks" /\ at' = [at EXCEPT ![q] = "record"]
    /\ readPicks' = [readPicks EXCEPT ![q] = listed]
    /\ UNCHANGED <<provider, database, registry, poller, readStatus, readSeat, lock,
                   bounds, histories>>

\* The picks already made are written down; failing to is logged.
RecordSeed(q) ==
    /\ at[q] = "record" /\ at' = [at EXCEPT ![q] = "register"]
    /\ Writes(Seeded(q)) \/ WriteFails(Seeded(q))
    /\ UNCHANGED <<provider, saved, savedSeat, registry, poller, readStatus, readSeat,
                   readPicks, lock, bounds, histories>>

Ended(q) ==
    /\ at' = [at EXCEPT ![q] = "idle"]
    /\ readStatus' = [readStatus EXCEPT ![q] = "none"]
    /\ readSeat' = [readSeat EXCEPT ![q] = Nothing]
    /\ readPicks' = [readPicks EXCEPT ![q] = 0]
    /\ lock' = IF lock = q THEN Nothing ELSE lock

\* The provider fails, or the player pool is empty.
RequestFails(q) ==
    /\ at[q] \in {"draft", "persist", "picks"}
    /\ Ended(q)
    /\ UNCHANGED <<provider, database, registry, poller, bounds, histories>>

\* Mutated: the state just read replaces the one held.
Replaced(o, n) == [picks EXCEPT ![o] = n]

Merged(o, n) == [picks EXCEPT ![o] = Upper(picks[o], n)]

\* Mutated: a reconnect builds a session of its own.
AlwaysNew == Nothing

Existing == held

\* register_live, into the session there is or as a new one.
Register(q, o) ==
    /\ IF Existing = Nothing
       THEN /\ o \notin {held, feeds} /\ picks' = [picks EXCEPT ![o] = readPicks[q]]
            /\ finished' = FALSE
       ELSE /\ o = Existing /\ picks' = Merged(o, readPicks[q])
            /\ UNCHANGED finished
    /\ held' = o /\ status' = readStatus[q] /\ userSeat' = readSeat[q]
    /\ due' = IF lock = q THEN wrote ELSE readSeat[q]

\* The poller is started for the session, unless it runs, the draft is over, it
\* was not asked for or the process follows as many drafts as it may.
Follow(q, o) ==
    /\ UNCHANGED fresh
    /\ \/ feeds' = feeds
       \/ ~Polled /\ readStatus[q] # "complete" /\ feeds' = o

RequestEnds(q) ==
    /\ at[q] = "register"
    /\ \E o \in Objects : Register(q, o) /\ Follow(q, o)
    /\ Ended(q)
    /\ UNCHANGED <<provider, database, bounds, stranded, overlapped, wrote>>

-----------------------------------------------------------------------------
\* One poll: what is new is applied and then written down before it is told.
PollApplies ==
    /\ Polled /\ fresh = {} /\ listed > picks[feeds]
    /\ fresh' = (picks[feeds] + 1)..listed
    /\ picks' = [picks EXCEPT ![feeds] = listed]
    /\ UNCHANGED <<provider, database, held, status, userSeat, feeds, requests, bounds, histories>>

PollRecords ==
    /\ fresh # {} /\ fresh' = {}
    /\ Writes(fresh) \/ WriteFails(fresh)
    /\ UNCHANGED <<provider, saved, savedSeat, registry, feeds, requests, bounds, histories>>

\* The provider's status ends the poller, which tells the room and not the session.
DraftEnds ==
    /\ Polled /\ fresh = {} /\ providerStatus = "complete"
    /\ feeds' = Nothing /\ picks' = Alive({held})
    /\ finished' = (finished \/ feeds = held)
    /\ UNCHANGED <<provider, database, held, status, userSeat, fresh, requests, bounds, stranded,
                   overlapped, wrote, due>>

\* Failures and a disconnect end it too.
PollerEnds ==
    /\ Polled /\ feeds' = Nothing /\ picks' = Alive({held})
    /\ fresh' = {} /\ (Writes(fresh) \/ WriteFails(fresh))
    /\ UNCHANGED <<provider, saved, savedSeat, held, status, userSeat, requests, bounds,
                   histories>>

\* Another draft is registered while this one is among the longest untouched.
Evict ==
    /\ held # Nothing /\ evictions < MaxEvictions
    /\ evictions' = evictions + 1
    /\ held' = Nothing /\ status' = "none" /\ userSeat' = Nothing /\ due' = Nothing
    /\ picks' = Alive({feeds})
    /\ stranded' = (stranded \/ Polled) /\ finished' = FALSE
    /\ UNCHANGED <<provider, database, poller, requests, restarts, overlapped, wrote>>

Restart ==
    /\ restarts < MaxRestarts /\ restarts' = restarts + 1
    /\ held' = Nothing /\ status' = "none" /\ userSeat' = Nothing /\ due' = Nothing
    /\ feeds' = Nothing /\ fresh' = {} /\ (Writes(fresh) \/ WriteFails(fresh))
    /\ at' = [q \in Requests |-> "idle"] /\ lock' = Nothing
    /\ readStatus' = [q \in Requests |-> "none"]
    /\ readSeat' = [q \in Requests |-> Nothing] /\ readPicks' = [q \in Requests |-> 0]
    /\ picks' = Alive({}) /\ finished' = FALSE /\ stranded' = FALSE
    /\ UNCHANGED <<provider, saved, savedSeat, evictions, overlapped, wrote>>

-----------------------------------------------------------------------------
Request(q) == \/ ConnectBegins(q) \/ RecoveryBegins(q) \/ ReadDraft(q) \/ Persist(q)
              \/ ReadPicks(q) \/ RecordSeed(q) \/ RequestFails(q) \/ RequestEnds(q)

SessionNext == \/ Room \/ PollApplies \/ PollRecords \/ DraftEnds \/ PollerEnds \/ Evict \/ Restart
        \/ \E q \in Requests : Request(q)

SessionSpec == SessionInit /\ [][SessionNext]_sessionVars

-----------------------------------------------------------------------------
Statuses == {"drafting", "complete"}

ProviderOK == listed \in 0..MaxPicks /\ providerStatus \in Statuses

DatabaseOK == rows \subseteq 1..listed /\ unwritten \subseteq 1..listed

RegistryOK == /\ held \in Objects \cup {Nothing} /\ status \in Statuses \cup {"none"}
              /\ picks \in [Objects -> 0..listed]

PollerOK == feeds \in Objects \cup {Nothing} /\ fresh \subseteq 1..listed

RequestsOK ==
    /\ at \in [Requests -> {"idle", "draft", "persist", "picks", "record", "register"}]
    /\ readStatus \in [Requests -> Statuses \cup {"none"}]
    /\ readPicks \in [Requests -> 0..listed] /\ lock \in Requests \cup {Nothing}

BoundsOK == evictions \in 0..MaxEvictions /\ restarts \in 0..MaxRestarts

SeatsOK == /\ readSeat \in [Requests -> SeatOrNone]
           /\ {savedSeat, userSeat, wrote, due} \subseteq SeatOrNone

FlagsOK == {ordered, saved, stranded, overlapped, finished} \subseteq BOOLEAN

SessionTypeOK == /\ ProviderOK /\ DatabaseOK /\ RegistryOK /\ PollerOK /\ RequestsOK
          /\ BoundsOK /\ SeatsOK /\ FlagsOK

\* A board that is polled is the board that is read: connects and recoveries, in
\* whatever order they overlap, keep the poller's state the session's.
PollerFeedsTheBoard == Polled /\ held # Nothing => feeds = held

\* The same unless the session was evicted while it was polled.
PollerFeedsTheBoardUnlessStranded == ~stranded => PollerFeedsTheBoard

\* "A draft joined in the fourth round" keeps its record: every pick on the board
\* is written down, its write has failed, or the poller is writing it.
BoardIsWritten ==
    held # Nothing => 1..picks[held] \subseteq rows \cup unwritten \cup fresh

\* "State only moves forward": a reconnect that read the provider before the
\* poller did takes no pick off the board.
BoardNeverGoesBack ==
    [][held # Nothing /\ held' # Nothing => picks'[held'] >= picks[held]]_sessionVars

\* Recovery passes "the slot it already recorded" and "rebuilds a session without
\* knowing the user id": unless requests overlapped, a session says the seat its last
\* connect read, and one rebuilt, however often, the seat of the last connect to
\* write the row.  That connect may have failed since, or have named nobody.
SeatIsKept == ~overlapped /\ held # Nothing => userSeat = due

\* "Pick arithmetic alone would keep reporting it as live forever": a session
\* whose poller has ended with the draft says so.
FinishedIsComplete == finished => status = "complete"
=============================================================================
