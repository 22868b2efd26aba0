------------------------- MODULE LiveSession_proofs -------------------------
(***************************************************************************)
(* Theorems about LiveSession, for every number of requests, evictions and *)
(* restarts.  Each property has an invariant of its own beside SessionTypeOK.     *)
(***************************************************************************)
EXTENDS LiveSession, TLAPS

\* Every variable keeps its type, and the database, the boards and the requests
\* never hold a pick the provider does not list.
THEOREM TypeCorrect == SessionSpec => []SessionTypeOK
<1> USE NothingAssumption, BoundAssumption
    DEF Statuses, SessionTypeOK, provider, database, registry, poller, requests, bounds, histories
<1>1. SessionInit => SessionTypeOK
  <2>1. SessionInit => ProviderOK
    BY DEF SessionInit, ProviderOK
  <2>2. SessionInit => DatabaseOK
    BY DEF SessionInit, DatabaseOK
  <2>3. SessionInit => RegistryOK
    BY DEF SessionInit, RegistryOK
  <2>4. SessionInit => PollerOK
    BY DEF SessionInit, PollerOK
  <2>5. SessionInit => RequestsOK
    BY DEF SessionInit, RequestsOK
  <2>6. SessionInit => BoundsOK
    BY DEF SessionInit, BoundsOK
  <2>7. SessionInit => FlagsOK
    BY DEF SessionInit, FlagsOK
  <2>8. SessionInit => SeatsOK
    BY DEF SessionInit, SeatsOK, SeatOrNone
  <2> QED BY <2>1, <2>2, <2>3, <2>4, <2>5, <2>6, <2>7, <2>8
<1>2. SessionTypeOK /\ [SessionNext]_sessionVars => SessionTypeOK'
  <2> SUFFICES ASSUME SessionTypeOK, [SessionNext]_sessionVars PROVE SessionTypeOK'
    OBVIOUS
  <2>1. CASE Room
    <3>1. ProviderOK'
      BY <2>1 DEF Room, ProviderOK
    <3>2. DatabaseOK'
      BY <2>1 DEF Room, DatabaseOK, ProviderOK, PollerOK, RequestsOK
    <3>3. RegistryOK'
      BY <2>1 DEF Room, RegistryOK, ProviderOK, RequestsOK
    <3>4. PollerOK'
      BY <2>1 DEF Room, PollerOK, ProviderOK, RegistryOK
    <3>5. RequestsOK'
      BY <2>1 DEF Room, RequestsOK, ProviderOK
    <3>6. FlagsOK'
      BY <2>1 DEF Room, FlagsOK
    <3>7. BoundsOK'
      BY <2>1 DEF Room, BoundsOK
    <3>8. SeatsOK'
      BY <2>1 DEF Room, SeatsOK
    <3> QED BY <3>1, <3>2, <3>3, <3>4, <3>5, <3>6, <3>7, <3>8
  <2>2. CASE PollApplies
    <3>1. RegistryOK'
      <4>1. listed \in 0..listed
        BY DEF ProviderOK
      <4> QED
        BY <2>2, <4>1 DEF PollApplies, RegistryOK
    <3>2. PollerOK'
      BY <2>2 DEF PollApplies, Polled, PollerOK, ProviderOK, RegistryOK
    <3>3. ProviderOK' /\ DatabaseOK' /\ RequestsOK' /\ BoundsOK' /\ FlagsOK' /\ SeatsOK'
      BY <2>2 DEF PollApplies, ProviderOK, DatabaseOK, RequestsOK, BoundsOK, FlagsOK, SeatsOK
    <3> QED BY <3>1, <3>2, <3>3
  <2>3. CASE PollRecords
    <3>1. DatabaseOK'
      BY <2>3 DEF PollRecords, Writes, WriteFails, DatabaseOK, ProviderOK, PollerOK,
         RequestsOK
    <3>2. PollerOK'
      BY <2>3 DEF PollRecords, Writes, WriteFails, PollerOK, ProviderOK, RegistryOK
    <3>3. ProviderOK' /\ RegistryOK' /\ RequestsOK' /\ BoundsOK' /\ FlagsOK' /\ SeatsOK'
      BY <2>3 DEF PollRecords, ProviderOK, RegistryOK, RequestsOK, BoundsOK, FlagsOK, SeatsOK
    <3> QED BY <3>1, <3>2, <3>3
  <2>4. CASE DraftEnds
    <3>1. RegistryOK'
      BY <2>4 DEF DraftEnds, Polled, Alive, RegistryOK, ProviderOK, RequestsOK
    <3>2. PollerOK'
      BY <2>4 DEF DraftEnds, Polled, Alive, PollerOK, ProviderOK, RegistryOK
    <3>3. FlagsOK'
      BY <2>4 DEF DraftEnds, Polled, Alive, FlagsOK
    <3>4. ProviderOK' /\ DatabaseOK' /\ RequestsOK' /\ BoundsOK' /\ SeatsOK'
      BY <2>4 DEF DraftEnds, ProviderOK, DatabaseOK, RequestsOK, BoundsOK, SeatsOK
    <3> QED BY <3>1, <3>2, <3>3, <3>4
  <2>5. CASE PollerEnds
    <3>1. DatabaseOK'
      BY <2>5 DEF PollerEnds, Polled, Alive, Writes, WriteFails, DatabaseOK,
         ProviderOK, PollerOK, RequestsOK
    <3>2. RegistryOK'
      BY <2>5 DEF PollerEnds, Polled, Alive, Writes, WriteFails, RegistryOK,
         ProviderOK, RequestsOK
    <3>3. PollerOK'
      BY <2>5 DEF PollerEnds, Polled, Alive, Writes, WriteFails, PollerOK, ProviderOK,
         RegistryOK
    <3>4. ProviderOK' /\ RequestsOK' /\ BoundsOK' /\ FlagsOK' /\ SeatsOK'
      BY <2>5 DEF PollerEnds, ProviderOK, RequestsOK, BoundsOK, FlagsOK, SeatsOK
    <3> QED BY <3>1, <3>2, <3>3, <3>4
  <2>6. CASE Evict
    <3>1. RegistryOK'
      BY <2>6 DEF Evict, Polled, Alive, RegistryOK, ProviderOK, RequestsOK
    <3>2. BoundsOK'
      BY <2>6 DEF Evict, Polled, Alive, BoundsOK
    <3>3. FlagsOK'
      BY <2>6 DEF Evict, Polled, Alive, FlagsOK
    <3>4. ProviderOK' /\ DatabaseOK' /\ PollerOK' /\ RequestsOK'
      BY <2>6 DEF Evict, ProviderOK, DatabaseOK, PollerOK, RequestsOK
    <3>5. SeatsOK'
      BY <2>6 DEF Evict, SeatsOK, SeatOrNone
    <3> QED BY <3>1, <3>2, <3>3, <3>4, <3>5
  <2>7. CASE Restart
    <3>1. DatabaseOK'
      BY <2>7 DEF Restart, Alive, Writes, WriteFails, DatabaseOK, ProviderOK,
         PollerOK, RequestsOK
    <3>2. RegistryOK'
      BY <2>7 DEF Restart, Alive, Writes, WriteFails, RegistryOK, ProviderOK,
         RequestsOK
    <3>3. PollerOK'
      BY <2>7 DEF Restart, Alive, Writes, WriteFails, PollerOK, ProviderOK, RegistryOK
    <3>4. RequestsOK'
      BY <2>7 DEF Restart, Alive, Writes, WriteFails, RequestsOK, ProviderOK
    <3>5. BoundsOK'
      BY <2>7 DEF Restart, Alive, Writes, WriteFails, BoundsOK
    <3>6. FlagsOK'
      BY <2>7 DEF Restart, Alive, Writes, WriteFails, FlagsOK
    <3>7. ProviderOK'
      BY <2>7 DEF Restart, ProviderOK
    <3>8. SeatsOK'
      BY <2>7 DEF Restart, SeatsOK, SeatOrNone
    <3> QED BY <3>1, <3>2, <3>3, <3>4, <3>5, <3>6, <3>7, <3>8
  <2>8. ASSUME NEW q \in Requests, Request(q) PROVE SessionTypeOK'
    <3>1. CASE ConnectBegins(q)
      <4>1. RequestsOK'
        BY <3>1 DEF ConnectBegins, Begins, RequestsOK, ProviderOK
      <4>2. FlagsOK'
        BY <3>1 DEF ConnectBegins, Begins, FlagsOK
      <4>3. SeatsOK'
        BY <3>1 DEF ConnectBegins, Begins, SeatsOK, SeatOrNone
      <4>4. ProviderOK' /\ DatabaseOK' /\ RegistryOK' /\ PollerOK' /\ BoundsOK'
        BY <3>1 DEF ConnectBegins, ProviderOK, DatabaseOK, RegistryOK, PollerOK,
           BoundsOK
      <4> QED BY <4>1, <4>2, <4>3, <4>4
    <3>2. CASE RecoveryBegins(q)
      <4>1. RequestsOK'
        BY <3>2 DEF RecoveryBegins, Begins, RequestsOK, ProviderOK
      <4>2. FlagsOK'
        BY <3>2 DEF RecoveryBegins, Begins, FlagsOK
      <4>3. SeatsOK'
        BY <3>2 DEF RecoveryBegins, Begins, SeatsOK, SeatOrNone
      <4>4. ProviderOK' /\ DatabaseOK' /\ RegistryOK' /\ PollerOK' /\ BoundsOK'
        BY <3>2 DEF RecoveryBegins, ProviderOK, DatabaseOK, RegistryOK, PollerOK,
           BoundsOK
      <4> QED BY <4>1, <4>2, <4>3, <4>4
    <3>3. CASE ReadDraft(q)
      <4>1. RequestsOK'
        BY <3>3 DEF ReadDraft, RequestsOK, ProviderOK
      <4>2. ProviderOK' /\ DatabaseOK' /\ RegistryOK' /\ PollerOK' /\ BoundsOK' /\ FlagsOK' /\ SeatsOK'
        BY <3>3 DEF ReadDraft, ProviderOK, DatabaseOK, RegistryOK, PollerOK, BoundsOK,
           FlagsOK, SeatsOK
      <4> QED BY <4>1, <4>2
    <3>4. CASE Persist(q)
      <4>1. RequestsOK'
        BY <3>4 DEF Persist, SeatToSave, RequestsOK, ProviderOK
      <4>2. FlagsOK'
        BY <3>4 DEF Persist, SeatToSave, FlagsOK
      <4>3. SeatsOK'
        BY <3>4 DEF Persist, SeatToSave, SeatsOK
      <4>4. ProviderOK' /\ DatabaseOK' /\ RegistryOK' /\ PollerOK' /\ BoundsOK'
        BY <3>4 DEF Persist, ProviderOK, DatabaseOK, RegistryOK, PollerOK, BoundsOK
      <4> QED BY <4>1, <4>2, <4>3, <4>4
    <3>5. CASE ReadPicks(q)
      <4>1. RequestsOK'
        BY <3>5 DEF ReadPicks, RequestsOK, ProviderOK
      <4>2. ProviderOK' /\ DatabaseOK' /\ RegistryOK' /\ PollerOK' /\ BoundsOK' /\ FlagsOK' /\ SeatsOK'
        BY <3>5 DEF ReadPicks, ProviderOK, DatabaseOK, RegistryOK, PollerOK, BoundsOK,
           FlagsOK, SeatsOK
      <4> QED BY <4>1, <4>2
    <3>6. CASE RecordSeed(q)
      <4>1. DatabaseOK'
        <5>1. Seeded(q) \subseteq 1..listed
          BY DEF Seeded, RequestsOK, ProviderOK
        <5> QED
          BY <3>6, <5>1 DEF RecordSeed, Writes, WriteFails, DatabaseOK
      <4>2. RequestsOK'
        BY <3>6 DEF RecordSeed, Seeded, Writes, WriteFails, RequestsOK, ProviderOK
      <4>3. ProviderOK' /\ RegistryOK' /\ PollerOK' /\ BoundsOK' /\ FlagsOK' /\ SeatsOK'
        BY <3>6 DEF RecordSeed, ProviderOK, RegistryOK, PollerOK, BoundsOK, FlagsOK, SeatsOK
      <4> QED BY <4>1, <4>2, <4>3
    <3>7. CASE RequestFails(q)
      <4>1. RequestsOK'
        BY <3>7 DEF RequestFails, Ended, RequestsOK, ProviderOK
      <4>2. FlagsOK'
        BY <3>7 DEF RequestFails, Ended, FlagsOK
      <4>3. SeatsOK'
        BY <3>7 DEF RequestFails, Ended, SeatsOK, SeatOrNone
      <4>4. ProviderOK' /\ DatabaseOK' /\ RegistryOK' /\ PollerOK' /\ BoundsOK'
        BY <3>7 DEF RequestFails, ProviderOK, DatabaseOK, RegistryOK, PollerOK,
           BoundsOK
      <4> QED BY <4>1, <4>2, <4>3, <4>4
    <3>8. CASE RequestEnds(q)
      <4>1. RegistryOK'
        BY <3>8 DEF RequestEnds, Register, Follow, Merged, Upper, Existing, Ended,
           RegistryOK, ProviderOK, RequestsOK
      <4>2. PollerOK'
        BY <3>8 DEF RequestEnds, Register, Follow, Merged, Upper, Existing, Ended,
           PollerOK, ProviderOK, RegistryOK
      <4>3. RequestsOK'
        BY <3>8 DEF RequestEnds, Register, Follow, Merged, Upper, Existing, Ended,
           RequestsOK, ProviderOK
      <4>4. FlagsOK'
        BY <3>8 DEF RequestEnds, Register, Follow, Merged, Upper, Existing, Ended,
           FlagsOK
      <4>5. SeatsOK'
        BY <3>8 DEF RequestEnds, Register, Ended, SeatsOK, SeatOrNone
      <4>6. ProviderOK' /\ DatabaseOK' /\ BoundsOK'
        BY <3>8 DEF RequestEnds, ProviderOK, DatabaseOK, BoundsOK
      <4> QED BY <4>1, <4>2, <4>3, <4>4, <4>5, <4>6
    <3> QED BY <2>8, <3>1, <3>2, <3>3, <3>4, <3>5, <3>6, <3>7, <3>8 DEF Request
  <2>9. CASE UNCHANGED sessionVars
    BY <2>9 DEF sessionVars, ProviderOK, DatabaseOK, RegistryOK, PollerOK, RequestsOK, BoundsOK, FlagsOK, SeatsOK
  <2> QED BY <2>1, <2>2, <2>3, <2>4, <2>5, <2>6, <2>7, <2>8, <2>9 DEF SessionNext
<1> QED BY <1>1, <1>2, PTL DEF SessionSpec

-----------------------------------------------------------------------------
\* Unless it was stranded, the poller feeds the state the registry holds.
FeedsHeld == ~stranded => feeds = Nothing \/ feeds = held

\* However connects, recoveries, failures and restarts interleave, a session that
\* was not evicted while polled shows the board its poller writes.
THEOREM PollerFeedsTheBoardHolds == SessionSpec => []PollerFeedsTheBoardUnlessStranded
<1> USE DEF FeedsHeld, Polled, provider, database, registry, poller, requests, bounds, histories
<1>1. SessionInit => FeedsHeld
  BY DEF SessionInit
<1>2. FeedsHeld /\ [SessionNext]_sessionVars => FeedsHeld'
  <2> SUFFICES ASSUME FeedsHeld, [SessionNext]_sessionVars PROVE FeedsHeld'
    OBVIOUS
  <2>1. CASE Room \/ PollApplies \/ PollRecords
    BY <2>1 DEF Room, PollApplies, PollRecords
  <2>2. CASE DraftEnds \/ PollerEnds \/ Restart
    BY <2>2 DEF DraftEnds, PollerEnds, Restart
  <2>3. CASE Evict
    BY <2>3 DEF Evict
  <2>4. ASSUME NEW q \in Requests, RequestEnds(q) PROVE FeedsHeld'
    <3>1. PICK o \in Objects : Register(q, o) /\ Follow(q, o)
      BY <2>4 DEF RequestEnds
    <3>2. stranded' = stranded
      BY <2>4 DEF RequestEnds
    <3>3. held' = o /\ (held # Nothing => o = held)
      BY <3>1 DEF Register, Existing
    <3>4. feeds' = feeds \/ feeds' = o
      BY <3>1 DEF Follow
    <3> QED BY <3>2, <3>3, <3>4
  <2>5. ASSUME NEW q \in Requests, Request(q), ~RequestEnds(q) PROVE FeedsHeld'
    BY <2>5 DEF Request, ConnectBegins, RecoveryBegins, ReadDraft, Persist, ReadPicks,
                RecordSeed, RequestFails
  <2>6. CASE UNCHANGED sessionVars
    BY <2>6 DEF sessionVars
  <2> QED BY <2>1, <2>2, <2>3, <2>4, <2>5, <2>6 DEF SessionNext
<1>3. FeedsHeld => PollerFeedsTheBoardUnlessStranded
  BY DEF PollerFeedsTheBoardUnlessStranded, PollerFeedsTheBoard
<1> QED BY <1>1, <1>2, <1>3, PTL DEF SessionSpec

-----------------------------------------------------------------------------
\* Nothing that was known of a pick's row, or of its loss, is forgotten.
LEMMA WritesKeepTheKnown ==
    ASSUME NEW S, Writes(S) \/ WriteFails(S)
    PROVE  rows \cup unwritten \cup S \subseteq rows' \cup unwritten'
BY DEF Writes, WriteFails

\* The board is written, and so is what a request is about to put on it.
WrittenInv ==
    /\ BoardIsWritten
    /\ \A q \in Requests : at[q] = "register" => 1..readPicks[q] \subseteq rows \cup unwritten

\* Every pick on a board was written, is being written, or its write failed.
THEOREM BoardIsWrittenHolds == SessionSpec => []BoardIsWritten
<1> USE NothingAssumption, BoundAssumption
    DEF provider, database, registry, poller, requests, bounds, histories
<1>1. SessionInit => WrittenInv
  BY DEF SessionInit, WrittenInv, BoardIsWritten
<1>2. SessionTypeOK /\ WrittenInv /\ [SessionNext]_sessionVars => WrittenInv'
  <2> SUFFICES ASSUME SessionTypeOK, WrittenInv, [SessionNext]_sessionVars PROVE WrittenInv'
    OBVIOUS
  <2> USE DEF WrittenInv, BoardIsWritten
  <2>1. CASE Room \/ UNCHANGED sessionVars
    BY <2>1 DEF Room, sessionVars
  <2>2. CASE PollApplies
    <3>1. listed \in Nat /\ picks \in [Objects -> 0..listed] /\ feeds \in Objects
      BY <2>2 DEF PollApplies, Polled, SessionTypeOK, ProviderOK, RegistryOK, PollerOK
    <3>2. ASSUME held # Nothing
          PROVE  1..picks'[held] \subseteq rows \cup unwritten \cup fresh'
      <4>1. 1..picks[held] \subseteq rows \cup unwritten
        BY <2>2, <3>2 DEF PollApplies
      <4>2. CASE held = feeds
        BY <2>2, <3>1, <4>1, <4>2 DEF PollApplies
      <4>3. CASE held # feeds
        BY <2>2, <3>1, <4>1, <4>3 DEF PollApplies, SessionTypeOK, RegistryOK
      <4> QED BY <4>2, <4>3
    <3> QED BY <2>2, <3>2 DEF PollApplies
  <2>3. CASE PollRecords
    BY <2>3, WritesKeepTheKnown DEF PollRecords
  <2>4. CASE DraftEnds
    BY <2>4 DEF DraftEnds, Alive, SessionTypeOK, RegistryOK
  <2>5. CASE PollerEnds
    BY <2>5, WritesKeepTheKnown DEF PollerEnds, Alive, SessionTypeOK, RegistryOK
  <2>6. CASE Evict
    BY <2>6 DEF Evict
  <2>7. CASE Restart
    BY <2>7 DEF Restart
  <2>8. ASSUME NEW q \in Requests, Request(q) PROVE WrittenInv'
    <3>1. CASE ConnectBegins(q) \/ RecoveryBegins(q) \/ ReadDraft(q) \/ Persist(q) \/ ReadPicks(q)
      BY <3>1 DEF ConnectBegins, RecoveryBegins, ReadDraft, Persist, ReadPicks, SessionTypeOK, RequestsOK
    <3>2. CASE RecordSeed(q)
      BY <3>2, WritesKeepTheKnown DEF RecordSeed, Seeded, SessionTypeOK, RequestsOK
    <3>3. CASE RequestFails(q)
      BY <3>3 DEF RequestFails, Ended, SessionTypeOK, RequestsOK
    <3>4. CASE RequestEnds(q)
      <4>1. PICK o \in Objects : Register(q, o)
        BY <3>4 DEF RequestEnds
      <4>2. 1..readPicks[q] \subseteq rows \cup unwritten
        BY <3>4 DEF RequestEnds
      <4>3. held' = o /\ 1..picks'[o] \subseteq rows \cup unwritten \cup fresh
        BY <4>1, <4>2 DEF Register, Existing, Merged, Upper, SessionTypeOK, RegistryOK
      <4>4. UNCHANGED <<rows, unwritten, fresh>>
        BY <3>4 DEF RequestEnds, Follow
      <4>5. \A r \in Requests : at'[r] = "register" => r # q /\ at[r] = "register"
                                                       /\ readPicks'[r] = readPicks[r]
        BY <3>4 DEF RequestEnds, Ended, SessionTypeOK, RequestsOK
      <4> QED BY <4>3, <4>4, <4>5
    <3> QED BY <2>8, <3>1, <3>2, <3>3, <3>4 DEF Request
  <2> QED BY <2>1, <2>2, <2>3, <2>4, <2>5, <2>6, <2>7, <2>8 DEF SessionNext
<1>3. WrittenInv => BoardIsWritten
  BY DEF WrittenInv
<1> QED BY <1>1, <1>2, <1>3, TypeCorrect, PTL DEF SessionSpec

-----------------------------------------------------------------------------
\* No reconnect, with picks read however long ago, and no poll takes a pick off
\* the board of a session that stays.
THEOREM BoardNeverGoesBackHolds == SessionSpec => BoardNeverGoesBack
<1> USE NothingAssumption, BoundAssumption
    DEF provider, database, registry, poller, requests, bounds, histories
<1>1. SessionTypeOK /\ [SessionNext]_sessionVars
        => [held # Nothing /\ held' # Nothing => picks'[held'] >= picks[held]]_sessionVars
  <2> SUFFICES ASSUME SessionTypeOK, SessionNext, held # Nothing, held' # Nothing
               PROVE  picks'[held'] >= picks[held]
    OBVIOUS
  <2>1. held \in Objects /\ picks \in [Objects -> Nat] /\ listed \in Nat
    BY DEF SessionTypeOK, RegistryOK, ProviderOK
  <2>2. CASE Room \/ PollRecords
    BY <2>1, <2>2 DEF Room, PollRecords
  <2>3. CASE PollApplies
    BY <2>1, <2>3 DEF PollApplies
  <2>4. CASE DraftEnds \/ PollerEnds
    BY <2>1, <2>4 DEF DraftEnds, PollerEnds, Alive
  <2>5. CASE Evict \/ Restart
    BY <2>5 DEF Evict, Restart
  <2>6. ASSUME NEW q \in Requests, RequestEnds(q) PROVE picks'[held'] >= picks[held]
    <3>1. PICK o \in Objects : Register(q, o)
      BY <2>6 DEF RequestEnds
    <3>2. o = held /\ held' = held /\ picks' = Merged(held, readPicks[q])
      BY <3>1 DEF Register, Existing
    <3>3. readPicks[q] \in Nat
      BY DEF SessionTypeOK, RequestsOK, ProviderOK
    <3> QED BY <2>1, <3>2, <3>3 DEF Merged, Upper
  <2>7. ASSUME NEW q \in Requests, Request(q), ~RequestEnds(q)
        PROVE  picks'[held'] >= picks[held]
    BY <2>1, <2>7 DEF Request, ConnectBegins, RecoveryBegins, ReadDraft, Persist, ReadPicks,
                      RecordSeed, RequestFails
  <2> QED BY <2>2, <2>3, <2>4, <2>5, <2>6, <2>7 DEF SessionNext
<1> QED BY <1>1, TypeCorrect, PTL DEF SessionSpec, BoardNeverGoesBack

-----------------------------------------------------------------------------
\* While requests have not overlapped there is one at most.  The row has the seat of
\* the last connect to write it; a recovery read it there, a connect past its write
\* put it there; and the session says the seat due.
SeatInv ==
    ~overlapped =>
        /\ \A q, r \in Requests : UnderWay(q) /\ UnderWay(r) => q = r
        /\ lock # Nothing => UnderWay(lock)
        /\ savedSeat = wrote
        /\ \A q \in Requests :
               q = lock \/ at[q] \in {"picks", "record", "register"} => readSeat[q] = savedSeat
        /\ held # Nothing => userSeat = due

\* A session says the seat its last connect read, and one rebuilt the seat of the last
\* connect to write the row, for any number of seats, evictions, restarts and
\* recoveries, as long as no two requests were under way at once.
THEOREM SeatIsKeptHolds == SessionSpec => []SeatIsKept
<1> USE NothingAssumption
    DEF UnderWay, provider, database, registry, poller, requests, bounds, histories
<1>1. SessionInit => SeatInv
  BY DEF SessionInit, SeatInv
<1>2. SessionTypeOK /\ SeatInv /\ [SessionNext]_sessionVars => SeatInv'
  <2> SUFFICES ASSUME SessionTypeOK, SeatInv, [SessionNext]_sessionVars, ~overlapped'
               PROVE  SeatInv'
    BY DEF SeatInv
  <2> USE DEF SeatInv
  <2>1. readSeat \in [Requests -> SeatOrNone]
    BY DEF SessionTypeOK, SeatsOK
  <2>2. /\ at \in [Requests -> {"idle", "draft", "persist", "picks", "record", "register"}]
        /\ lock \in Requests \cup {Nothing}
    BY DEF SessionTypeOK, RequestsOK
  <2>3. CASE Room \/ PollApplies \/ PollRecords \/ DraftEnds \/ PollerEnds \/ UNCHANGED sessionVars
    BY <2>3 DEF Room, PollApplies, PollRecords, DraftEnds, PollerEnds, sessionVars
  <2>4. CASE Evict \/ Restart
    BY <2>4 DEF Evict, Restart
  <2>5. ASSUME NEW q \in Requests, Request(q) PROVE SeatInv'
    <3>1. CASE ConnectBegins(q)
      BY <2>1, <2>2, <3>1 DEF ConnectBegins, Begins
    <3>2. CASE RecoveryBegins(q)
      BY <2>1, <2>2, <3>2 DEF RecoveryBegins, Begins
    <3>3. CASE ReadDraft(q)
      BY <2>2, <3>3 DEF ReadDraft
    <3>4. CASE Persist(q)
      BY <2>1, <2>2, <3>4 DEF Persist, SeatToSave
    <3>5. CASE ReadPicks(q) \/ RecordSeed(q)
      BY <2>2, <3>5 DEF ReadPicks, RecordSeed
    <3>6. CASE RequestFails(q)
      BY <2>1, <2>2, <3>6 DEF RequestFails, Ended
    <3>7. CASE RequestEnds(q)
      BY <2>1, <2>2, <3>7 DEF RequestEnds, Register, Ended
    <3> QED BY <2>5, <3>1, <3>2, <3>3, <3>4, <3>5, <3>6, <3>7 DEF Request
  <2> QED BY <2>3, <2>4, <2>5 DEF SessionNext
<1>3. SeatInv => SeatIsKept
  BY DEF SeatInv, SeatIsKept
<1> QED BY <1>1, <1>2, <1>3, TypeCorrect, PTL DEF SessionSpec
=============================================================================
