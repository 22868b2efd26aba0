-------------------------- MODULE LivePoller_proofs --------------------------
(***************************************************************************)
(* The live poller for every league, set of players and provider: its      *)
(* type, that what is told was written, and the safety part of the         *)
(* refinement of FollowedDraft.                                            *)
(*                                                                         *)
(* One invariant carries the last two.  Outside the cycle's last part the  *)
(* board shown is the draft; inside it the draft is the board shown and    *)
(* the picks applied, which are new to it; and a pick has been told once   *)
(* exactly when it is on the board shown.                                  *)
(***************************************************************************)
EXTENDS LivePoller, League_proofs

PickRecord == [no : PickNumbers, slot : Seats(TheLeague), player : Players]

\* A pick as the provider lists it, legal or not.
AnyPick == [no : Int, slot : Int, player : Players]

DraftValues == UNION {[N -> PickRecord] : N \in SUBSET PickNumbers}

RowValues == UNION {[N -> Players] : N \in SUBSET PickNumbers}

\* Of the legal picks of a set no two share a number.
NumbersAreUnique(S) == \A p, q \in S : Legal(p) /\ Legal(q) /\ p.no = q.no => p = q

TypeInv ==
    /\ board \in Seq(Players) /\ Len(board) <= TotalPicks(TheLeague)
    /\ providerStatus \in {"drafting", "complete"}
    /\ corrections \in 0..MaxCorrections
    /\ rows \in RowValues
    /\ pc \in Positions /\ status \in States
    /\ failures \in 0..MaxFailures /\ (pc # "done" => failures < MaxFailures)
    /\ phase \in 0..(MetadataEvery - 1)
    /\ lastDraft \in {Unknown, "drafting", "complete"}
    /\ draft \in DraftValues /\ shown \in DraftValues
    /\ response \subseteq AnyPick /\ NumbersAreUnique(response)
    /\ applied \subseteq PickRecord /\ unwritten \subseteq PickRecord
    /\ told \in [PickNumbers -> Nat]
    /\ completions \in Nat /\ stop \in BOOLEAN

\* Where the cycle's last part begins, the picks applied are what the draft has
\* and the board shown has not; elsewhere the two are the same.
GrownByApplied ==
    /\ \A n \in PickNumbers : n \in DOMAIN draft
            <=> n \in DOMAIN shown \/ \E p \in applied : p.no = n
    /\ \A p \in applied : p.no \notin DOMAIN shown /\ draft[p.no] = p

CycleInv ==
    /\ DOMAIN shown \subseteq DOMAIN draft
    /\ \A n \in DOMAIN shown : draft[n] = shown[n]
    /\ \A m, n \in DOMAIN draft : m # n => draft[m].player # draft[n].player
    /\ pc \in {"record", "publish"} => GrownByApplied
    /\ pc \notin {"record", "publish", "done"} => shown = draft
    /\ told = [n \in PickNumbers |-> IF n \in DOMAIN shown THEN 1 ELSE 0]

IsWritten(n, p) == \/ p \in unwritten
                   \/ n \in DOMAIN rows /\ rows[n] = p.player

\* What was shown, or is about to be, was written or its write failed.
WrittenInv ==
    /\ \A n \in DOMAIN shown : IsWritten(n, draft[n])
    /\ pc = "publish" => \A p \in applied : IsWritten(p.no, p)

IInv == TypeInv /\ CycleInv /\ WrittenInv

-----------------------------------------------------------------------------
(* What a response is, and what a batch applied comes to. *)

\* Picks are numbered from one.
LEMMA PickNumbersAreNat == PickNumbers \subseteq Nat \ {0}
  BY DEF PickNumbers

\* The provider lists each pick of its board once, under its seat.
LEMMA ListedIsSound ==
    ASSUME board \in Seq(Players), Len(board) <= TotalPicks(TheLeague)
    PROVE  Listed \subseteq AnyPick /\ \A p, q \in Listed : p.no = q.no => p = q
<1>1. TotalPicks(TheLeague) \in Nat
  BY TotalPicksIsNat, LeagueAssumption
<1>2. ASSUME NEW n \in DOMAIN board
      PROVE  n \in Int /\ board[n] \in Players /\ SlotOnTheClock(TheLeague, n) \in Int
  <2>1. n \in 1..TotalPicks(TheLeague) /\ board[n] \in Players
    BY <1>1
  <2>2. SlotOnTheClock(TheLeague, n) \in Seats(TheLeague)
    BY <2>1, ClockFindsTheOwner, LeagueAssumption
  <2> QED
    BY <2>1, <2>2, LeagueAssumption DEF Seats
<1> QED
  BY <1>2 DEF Listed, AnyPick

\* So does any answer, but for a stray pick, which is not legal.
LEMMA ResponsesAreSound ==
    ASSUME board \in Seq(Players), Len(board) <= TotalPicks(TheLeague), NEW r \in Responses
    PROVE  r \subseteq AnyPick /\ NumbersAreUnique(r)
<1>1. Listed \subseteq AnyPick /\ \A p, q \in Listed : p.no = q.no => p = q
  BY ListedIsSound
<1>2. \A p \in StrayPicks : p \in AnyPick /\ ~Legal(p)
  BY StrayAssumption DEF AnyPick
<1>3. r = {} \/ r = Listed \/ \E p \in StrayPicks : r = Listed \cup {p}
  BY DEF Responses
<1> QED
  BY <1>1, <1>2, <1>3 DEF NumbersAreUnique

\* The picks applied are legal, new by number and by player, and no two of them
\* share either.
LEMMA AppliedAreNew ==
    ASSUME NEW P \in DraftValues, NEW S \in SUBSET AnyPick, NumbersAreUnique(S)
    PROVE  LET A == AppliedOf(P, S)
           IN  /\ A \subseteq PickRecord /\ A \subseteq S
               /\ \A p \in A : Free(P, p)
               /\ \A p, q \in A : p.no = q.no \/ p.player = q.player => p = q
<1> DEFINE A == AppliedOf(P, S)
<1>1. \A p \in A : p \in S /\ Free(P, p) /\ FirstOfPlayer(P, S, p) /\ Legal(p)
  BY DEF AppliedOf
<1>2. ASSUME NEW p \in A PROVE p \in PickRecord
  BY <1>1 DEF Legal, PickRecord, AnyPick
<1>3. ASSUME NEW p \in A, NEW q \in A, p.player = q.player PROVE p.no = q.no
  <2>1. p.no <= q.no /\ q.no <= p.no
    BY <1>1, <1>3 DEF FirstOfPlayer
  <2>2. p.no \in Int /\ q.no \in Int
    BY <1>1 DEF AnyPick
  <2> QED
    BY <2>1, <2>2
<1>4. ASSUME NEW p \in A, NEW q \in A, p.no = q.no PROVE p = q
  BY <1>1, <1>4 DEF NumbersAreUnique
<1> QED
  BY <1>1, <1>2, <1>3, <1>4

\* A draft with new picks added is the draft and those picks.
LEMMA DraftGrows ==
    ASSUME NEW P \in DraftValues, NEW A \in SUBSET PickRecord,
           \A p \in A : Free(P, p),
           \A p, q \in A : p.no = q.no => p = q
    PROVE  LET D == WithPicks(P, A)
           IN  /\ D \in DraftValues
               /\ \A n : n \in DOMAIN D <=> n \in DOMAIN P \/ \E p \in A : p.no = n
               /\ \A n \in DOMAIN P : D[n] = P[n]
               /\ \A p \in A : p.no \notin DOMAIN P /\ D[p.no] = p
               /\ A = {} => D = P
<1> DEFINE D == WithPicks(P, A)
<1>1. PICK N \in SUBSET PickNumbers : P \in [N -> PickRecord]
  BY DEF DraftValues
<1>2. DOMAIN D = N \cup {p.no : p \in A}
  BY <1>1 DEF WithPicks
<1>3. \A n \in N : D[n] = P[n]
  BY <1>1 DEF WithPicks
<1>4. ASSUME NEW p \in A PROVE p.no \notin N /\ D[p.no] = p
  <2>1. p.no \notin N
    BY <1>1 DEF Free
  <2>2. (CHOOSE q \in A : q.no = p.no) = p
    OBVIOUS
  <2> QED
    BY <1>1, <2>1, <2>2 DEF WithPicks
<1>5. N \cup {p.no : p \in A} \in SUBSET PickNumbers
  BY DEF PickRecord
<1>6. D \in [N \cup {p.no : p \in A} -> PickRecord]
  <2>1. \A n \in N \cup {p.no : p \in A} : D[n] \in PickRecord
    BY <1>1, <1>3, <1>4
  <2> QED
    BY <1>1, <2>1 DEF WithPicks
<1>7. A = {} => D = P
  BY <1>1 DEF WithPicks
<1>8. D \in DraftValues
  BY <1>5, <1>6 DEF DraftValues
<1>9. /\ \A n : n \in DOMAIN D <=> n \in DOMAIN P \/ \E p \in A : p.no = n
      /\ \A n \in DOMAIN P : D[n] = P[n]
      /\ \A p \in A : p.no \notin DOMAIN P /\ D[p.no] = p
  <2> HIDE DEF D
  <2>1. DOMAIN P = N
    BY <1>1
  <2> QED
    BY <1>2, <1>3, <1>4, <2>1
<1> QED
  BY <1>7, <1>8, <1>9
-----------------------------------------------------------------------------
(* The type. *)

\* What the poller starts with is a sound draft, and no pick of it was told of or
\* written otherwise.
LEMMA InitialDraft ==
    ASSUME Init
    PROVE  /\ TypeInv /\ shown = draft
           /\ DOMAIN draft = DOMAIN rows /\ \A n \in DOMAIN draft : rows[n] = draft[n].player
           /\ \A m, n \in DOMAIN draft : m # n => draft[m].player # draft[n].player
<1>1. PICK k \in 0..1 : board \in [1..k -> Players]
  BY DEF Init
<1>2. board \in Seq(Players) /\ Len(board) = k /\ DOMAIN board = 1..k
  BY <1>1
<1>3. TotalPicks(TheLeague) \in Nat \ {0}
  BY TotalPicksIsNat, LeagueAssumption
<1>4. /\ Len(board) <= TotalPicks(TheLeague)
      /\ \A m, n \in DOMAIN board : m = n
      /\ DOMAIN board \subseteq PickNumbers
  BY <1>2, <1>3 DEF PickNumbers
<1>5. ASSUME NEW p \in Listed
      PROVE  p \in PickRecord /\ p.no \in DOMAIN board /\ p.player = board[p.no]
  <2>1. PICK n \in DOMAIN board :
           p = [no |-> n, slot |-> SlotOnTheClock(TheLeague, n), player |-> board[n]]
    BY DEF Listed
  <2>2. n \in PickNumbers /\ board[n] \in Players
    BY <1>1, <1>2, <1>4
  <2>3. SlotOnTheClock(TheLeague, n) \in Seats(TheLeague)
    BY <2>2, ClockFindsTheOwner, LeagueAssumption DEF PickNumbers
  <2> QED
    BY <2>1, <2>2, <2>3 DEF PickRecord
<1>6. ASSUME NEW n \in DOMAIN board PROVE \E p \in Listed : p.no = n
  <2> DEFINE p == [no |-> n, slot |-> SlotOnTheClock(TheLeague, n), player |-> board[n]]
  <2>1. p \in Listed
    BY DEF Listed
  <2>2. p.no = n
    OBVIOUS
  <2> QED
    BY <2>1, <2>2
<1>7. /\ <<>> \in DraftValues
      /\ \A p \in Listed : Free(<<>>, p)
      /\ \A p, q \in Listed : p.no = q.no => p = q
  <2>1. <<>> \in [{} -> PickRecord]
    OBVIOUS
  <2> QED
    BY <1>2, <1>4, <2>1, ListedIsSound DEF DraftValues, Free
<1>8. /\ draft \in DraftValues /\ \A n : n \in DOMAIN draft <=> \E p \in Listed : p.no = n
      /\ \A p \in Listed : draft[p.no] = p
  <2>1. Listed \in SUBSET PickRecord
    BY <1>5
  <2>2. PICK none, A : none = <<>> /\ A = Listed
    OBVIOUS
  <2>3. /\ none \in DraftValues /\ A \in SUBSET PickRecord
        /\ \A p \in A : Free(none, p)
        /\ \A p, q \in A : p.no = q.no => p = q
    BY <1>7, <2>1, <2>2
  <2>4. /\ WithPicks(none, A) \in DraftValues
        /\ \A n : n \in DOMAIN WithPicks(none, A)
                    <=> n \in DOMAIN none \/ \E p \in A : p.no = n
        /\ \A p \in A : WithPicks(none, A)[p.no] = p
    BY <2>3, DraftGrows
  <2>5. DOMAIN none = {}
    BY <2>2
  <2>6. draft = WithPicks(none, A)
    BY <2>2 DEF Init
  <2> QED
    BY <2>2, <2>4, <2>5, <2>6
<1>9. /\ DOMAIN draft = DOMAIN board
      /\ \A n \in DOMAIN draft : board[n] = draft[n].player
  <2>1. ASSUME NEW n \in DOMAIN board PROVE n \in DOMAIN draft
    BY <1>6, <1>8
  <2>2. ASSUME NEW n \in DOMAIN draft
        PROVE  n \in DOMAIN board /\ board[n] = draft[n].player
    <3>1. PICK p \in Listed : p.no = n
      BY <1>8
    <3> QED
      BY <1>5, <1>8, <3>1
  <2> QED
    BY <2>1, <2>2
<1>10. board \in RowValues
  BY <1>1, <1>2, <1>4 DEF RowValues
<1>11. /\ failures \in 0..MaxFailures /\ failures < MaxFailures
       /\ phase \in 0..(MetadataEvery - 1) /\ corrections \in 0..MaxCorrections
  BY PollerAssumption, EnvironmentAssumption DEF Init
<1>12. NumbersAreUnique({})
  BY DEF NumbersAreUnique
<1> QED
  BY <1>2, <1>4, <1>8, <1>9, <1>10, <1>11, <1>12 DEF Init, TypeInv, Positions, States

\* What the poller finds new in a response was not on its board.
LEMMA NewPicksAreNew ==
    ASSUME TypeInv
    PROVE  /\ NewPicks \subseteq PickRecord
           /\ \A p \in NewPicks : Free(draft, p)
           /\ \A p, q \in NewPicks : p.no = q.no \/ p.player = q.player => p = q
  BY AppliedAreNew DEF TypeInv, NewPicks

\* A batch adds to the board and keeps what is there.
LEMMA NewBoardGrows ==
    ASSUME TypeInv
    PROVE  /\ NewBoard \in DraftValues
           /\ \A n : n \in DOMAIN NewBoard <=> n \in DOMAIN draft \/ \E p \in NewPicks : p.no = n
           /\ \A n \in DOMAIN draft : NewBoard[n] = draft[n]
           /\ \A p \in NewPicks : p.no \notin DOMAIN draft /\ NewBoard[p.no] = p
           /\ NewPicks = {} => NewBoard = draft
<1>1. draft \in DraftValues
  BY DEF TypeInv
<1>2. /\ NewPicks \in SUBSET PickRecord
      /\ \A p \in NewPicks : Free(draft, p)
      /\ \A p, q \in NewPicks : p.no = q.no => p = q
  BY NewPicksAreNew
<1> QED
  BY <1>1, <1>2, DraftGrows DEF NewBoard

\* The rows written stay rows of legal pick numbers.
LEMMA WrittenIsRows ==
    ASSUME TypeInv
    PROVE  Written \in RowValues
<1>1. PICK N \in SUBSET PickNumbers : rows \in [N -> Players]
  BY DEF TypeInv, RowValues
<1> DEFINE M == N \cup {p.no : p \in applied}
<1>2. M \in SUBSET PickNumbers
  BY DEF TypeInv, PickRecord
<1>3. \A p \in applied : p.player \in Players
  BY DEF TypeInv, PickRecord
<1>4. \A n \in M : Written[n] \in Players
  <2> SUFFICES ASSUME NEW n \in M PROVE Written[n] \in Players
    OBVIOUS
  <2>1. CASE \E p \in applied : p.no = n
    <3>1. PICK p \in applied : p.no = n
      BY <2>1
    <3>2. (CHOOSE q \in applied : q.no = n) \in applied
      BY <3>1
    <3> QED
      BY <1>1, <1>3, <2>1, <3>2 DEF Written
  <2>2. CASE ~ \E p \in applied : p.no = n
    BY <1>1, <2>2 DEF Written
  <2> QED
    BY <2>1, <2>2
<1>5. Written \in [M -> Players]
  BY <1>1, <1>4 DEF Written
<1> QED
  BY <1>2, <1>5 DEF RowValues
\* The room keeps the types.
LEMMA RoomTyped ==
    ASSUME TypeInv, Room
    PROVE  TypeInv'
<1>1. /\ board' \in Seq(Players) /\ Len(board') <= TotalPicks(TheLeague)
      /\ providerStatus' \in {"drafting", "complete"}
      /\ corrections' \in 0..MaxCorrections
  <2>0. TotalPicks(TheLeague) \in Nat
    BY TotalPicksIsNat, LeagueAssumption
  <2>1. CASE RoomPicks
    BY <2>0, <2>1 DEF RoomPicks, TypeInv
  <2>2. CASE RoomCorrects
    BY <2>2, EnvironmentAssumption DEF RoomCorrects, TypeInv
  <2>3. CASE RoomCompletes
    BY <2>3 DEF RoomCompletes, TypeInv
  <2> QED
    BY <2>1, <2>2, <2>3 DEF Room
<1>2. UNCHANGED <<rows, unwritten, pc, status, failures, phase, lastDraft, response, applied,
                  draft, told, shown, completions, stop>>
  BY DEF Room, database, cycle, events
<1> QED
  BY <1>1, <1>2 DEF TypeInv, NumbersAreUnique, Legal

\* The steps that read and count, and touch neither draft nor record.
LEMMA ReadingTyped ==
    ASSUME TypeInv,
           \/ StopSeen \/ BeginPoll \/ ReadMetadata \/ ProviderFails \/ Wake \/ RequestStop
           \/ \E r \in Responses : ReadPicks(r)
    PROVE  TypeInv'
<1> USE DEF provider, database, cycle, events
<1>1. CASE StopSeen
  BY <1>1 DEF StopSeen, TypeInv, Positions, States, NumbersAreUnique, Legal
<1>2. CASE BeginPoll
  <2>1. (phase + 1) % MetadataEvery \in 0..(MetadataEvery - 1)
    BY PollerAssumption DEF TypeInv
  <2>2. NumbersAreUnique({})
    BY DEF NumbersAreUnique
  <2> QED
    BY <1>2, <2>1, <2>2 DEF BeginPoll, TypeInv, Positions, NumbersAreUnique, Legal
<1>3. CASE ReadMetadata
  BY <1>3 DEF ReadMetadata, TypeInv, Positions, NumbersAreUnique, Legal
<1>4. CASE ProviderFails
  BY <1>4, PollerAssumption DEF ProviderFails, TypeInv, Positions, States, NumbersAreUnique, Legal
<1>5. CASE Wake
  BY <1>5 DEF Wake, TypeInv, Positions, NumbersAreUnique, Legal
<1>6. CASE RequestStop
  BY <1>6 DEF RequestStop, TypeInv, NumbersAreUnique, Legal
<1>7. ASSUME NEW r \in Responses, ReadPicks(r)
      PROVE  TypeInv'
  <2>1. r \subseteq AnyPick /\ NumbersAreUnique(r)
    BY ResponsesAreSound DEF TypeInv
  <2> QED
    BY <1>7, <2>1 DEF ReadPicks, TypeInv, Positions, NumbersAreUnique, Legal
<1> QED
  BY <1>1, <1>2, <1>3, <1>4, <1>5, <1>6, <1>7

\* So do the steps after an answer, and a cancellation.
LEMMA WorkingTyped ==
    ASSUME TypeInv, Reconcile \/ Record \/ Publish \/ Cancel
    PROVE  TypeInv'
<1> USE DEF provider, database, cycle, events
<1>1. CASE Reconcile
  <2>1. NewPicks \subseteq PickRecord /\ NewBoard \in DraftValues
    BY NewPicksAreNew, NewBoardGrows
  <2>2. pc' \in {"done", "record", "publish"} /\ failures' = 0 /\ status' = "live"
    BY <1>1 DEF Reconcile, ClearedFailures
  <2> QED
    BY <1>1, <2>1, <2>2, PollerAssumption
       DEF Reconcile, TypeInv, Positions, States, NumbersAreUnique, Legal
<1>2. CASE Record
  BY <1>2, WrittenIsRows DEF Record, TypeInv, Positions, NumbersAreUnique, Legal
<1>3. CASE Publish
  <2>1. told' \in [PickNumbers -> Nat]
    BY <1>3 DEF Publish, TypeInv
  <2>2. shown' \in DraftValues
    BY <1>3 DEF Publish, TypeInv
  <2>3. /\ pc' \in {"done", "sleep"} /\ pc = "publish"
        /\ status' \in States /\ completions' \in Nat
    BY <1>3 DEF Publish, TypeInv, States
  <2> QED
    BY <1>3, <2>1, <2>2, <2>3 DEF Publish, TypeInv, Positions, NumbersAreUnique, Legal
<1>4. CASE Cancel
  BY <1>4, WrittenIsRows DEF Cancel, TypeInv, Positions, NumbersAreUnique, Legal
<1> QED
  BY <1>1, <1>2, <1>3, <1>4

\* And with them every step of the specification.
LEMMA TypeIsKept ==
    ASSUME TypeInv, [Next]_vars
    PROVE  TypeInv'
<1>1. CASE Next
  BY <1>1, RoomTyped, ReadingTyped, WorkingTyped DEF Next, Poll
<1>2. CASE UNCHANGED vars
  BY <1>2 DEF vars, provider, database, cycle, events, TypeInv, NumbersAreUnique, Legal
<1> QED
  BY <1>1, <1>2
-----------------------------------------------------------------------------
(* The cycle. *)

\* A batch makes a draft of a draft.
LEMMA DraftsAreDrafts ==
    ASSUME TypeInv
    PROVE  DOMAIN draft \subseteq PickNumbers /\ DOMAIN shown \subseteq PickNumbers
  BY DEF TypeInv, DraftValues

\* Nothing but Reconcile and Publish touches the draft, the board shown and what
\* was told.
LEMMA OtherStepsKeepTheCycle ==
    ASSUME IInv, UNCHANGED <<draft, shown, told, applied>>,
           \/ pc' \notin {"record", "publish"} /\ pc \notin {"record", "publish", "done"}
           \/ pc' = pc \/ pc' = "done"
           \/ pc = "record" /\ pc' = "publish"
    PROVE  CycleInv'
  BY DEF IInv, CycleInv, GrownByApplied

\* A poll begins with the board shown and the draft the same.
LEMMA BeginPollKeepsTheCycle ==
    ASSUME IInv, BeginPoll
    PROVE  CycleInv'
  BY DEF IInv, CycleInv, BeginPoll, events

\* The picks applied are what the draft gains on the board shown.
LEMMA ReconcileKeepsTheCycle ==
    ASSUME IInv, Reconcile
    PROVE  CycleInv' /\ WrittenInv'
<1>1. /\ pc = "reconcile" /\ shown = draft
      /\ draft' = NewBoard /\ applied' = NewPicks /\ told' = told /\ shown' = shown
      /\ rows' = rows /\ unwritten' = unwritten
      /\ pc' \in {"done", "record", "publish"}
      /\ pc' = "publish" => NewPicks = {}
  BY DEF Reconcile, IInv, CycleInv, events, database, ToRecord
<1>2. TypeInv
  BY DEF IInv
<1>3. /\ NewBoard \in DraftValues
      /\ \A n : n \in DOMAIN NewBoard <=> n \in DOMAIN draft \/ \E p \in NewPicks : p.no = n
      /\ \A n \in DOMAIN draft : NewBoard[n] = draft[n]
      /\ \A p \in NewPicks : p.no \notin DOMAIN draft /\ NewBoard[p.no] = p
  BY <1>2, NewBoardGrows
<1>4. /\ \A p \in NewPicks : Free(draft, p)
      /\ \A p, q \in NewPicks : p.no = q.no \/ p.player = q.player => p = q
  BY <1>2, NewPicksAreNew
<1>5. ASSUME NEW m \in DOMAIN NewBoard, NEW n \in DOMAIN NewBoard, m # n
      PROVE  NewBoard[m].player # NewBoard[n].player
  <2>1. \A k \in DOMAIN draft, p \in NewPicks : draft[k].player # p.player
    BY <1>4 DEF Free
  <2>2. \A j, k \in DOMAIN draft : j # k => draft[j].player # draft[k].player
    BY DEF IInv, CycleInv
  <2> QED
    BY <1>3, <1>4, <1>5, <2>1, <2>2
<1>6. GrownByApplied'
  BY <1>1, <1>3 DEF GrownByApplied
<1>7. CycleInv'
  <2>1. told = [n \in PickNumbers |-> IF n \in DOMAIN shown THEN 1 ELSE 0]
    BY DEF IInv, CycleInv
  <2> QED
    BY <1>1, <1>3, <1>5, <1>6, <2>1 DEF CycleInv
<1>8. WrittenInv'
  BY <1>1, <1>3 DEF IInv, WrittenInv, IsWritten
<1> QED
  BY <1>7, <1>8

\* The board shown becomes the draft, also where nothing was applied.
LEMMA PublishShowsTheDraft ==
    ASSUME IInv, Publish
    PROVE  /\ pc = "publish" /\ shown' = draft
           /\ told' = [n \in PickNumbers |-> IF n \in DOMAIN draft THEN 1 ELSE 0]
<1>1. /\ pc = "publish" /\ pc' \in {"done", "sleep"}
      /\ told' = [n \in PickNumbers |-> told[n] + IF \E p \in applied : p.no = n THEN 1 ELSE 0]
      /\ shown' = IF applied # {} THEN draft ELSE shown
      /\ draft' = draft /\ applied' = applied /\ rows' = rows /\ unwritten' = unwritten
  BY DEF Publish, PicksToTell, BoardChanged, database, cycle
<1>2. GrownByApplied
  BY <1>1 DEF IInv, CycleInv
<1>3. DOMAIN draft \subseteq PickNumbers /\ DOMAIN shown \subseteq PickNumbers
  BY DraftsAreDrafts DEF IInv
<1>4. shown' = draft
  <2>1. CASE applied # {}
    BY <1>1, <2>1
  <2>2. CASE applied = {}
    <3>1. DOMAIN draft = DOMAIN shown
      BY <1>2, <1>3, <2>2 DEF GrownByApplied
    <3>2. \A n \in DOMAIN shown : draft[n] = shown[n]
      BY DEF IInv, CycleInv
    <3>3. draft = [n \in DOMAIN draft |-> draft[n]] /\ shown = [n \in DOMAIN shown |-> shown[n]]
      BY DEF IInv, TypeInv, DraftValues
    <3>4. draft = shown
      BY <3>1, <3>2, <3>3
    <3> QED
      BY <1>1, <2>2, <3>4
  <2> QED
    BY <2>1, <2>2
<1>5. told' = [n \in PickNumbers |-> IF n \in DOMAIN draft THEN 1 ELSE 0]
  <2>1. told = [n \in PickNumbers |-> IF n \in DOMAIN shown THEN 1 ELSE 0]
    BY DEF IInv, CycleInv
  <2>2. \A n \in PickNumbers : ~ (n \in DOMAIN shown /\ \E p \in applied : p.no = n)
    BY <1>2 DEF GrownByApplied
  <2>3. ASSUME NEW n \in PickNumbers
        PROVE  told[n] + (IF \E p \in applied : p.no = n THEN 1 ELSE 0)
                  = IF n \in DOMAIN draft THEN 1 ELSE 0
    BY <1>2, <2>1, <2>2 DEF GrownByApplied
  <2> QED
    BY <1>1, <2>3
<1> QED
  BY <1>1, <1>4, <1>5

\* Telling them makes the two the same again, and each is told once.
LEMMA PublishKeepsTheCycle ==
    ASSUME IInv, Publish
    PROVE  CycleInv' /\ WrittenInv'
<1>1. /\ pc = "publish" /\ pc' \in {"done", "sleep"}
      /\ draft' = draft /\ applied' = applied /\ rows' = rows /\ unwritten' = unwritten
  BY DEF Publish, database, cycle
<1>2. GrownByApplied
  BY <1>1 DEF IInv, CycleInv
<1>3. DOMAIN draft \subseteq PickNumbers
  BY DraftsAreDrafts DEF IInv
<1>4. /\ shown' = draft
      /\ told' = [n \in PickNumbers |-> IF n \in DOMAIN draft THEN 1 ELSE 0]
  BY PublishShowsTheDraft
<1>6. CycleInv'
  BY <1>1, <1>4 DEF IInv, CycleInv
<1>7. WrittenInv'
  <2>1. ASSUME NEW n \in DOMAIN draft PROVE IsWritten(n, draft[n])
    <3>1. CASE n \in DOMAIN shown
      BY <3>1 DEF IInv, WrittenInv
    <3>2. CASE \E p \in applied : p.no = n
      BY <1>1, <1>2, <3>2 DEF IInv, WrittenInv, GrownByApplied
    <3> QED
      BY <1>2, <1>3, <3>1, <3>2 DEF GrownByApplied
  <2> QED
    BY <1>1, <1>4, <2>1 DEF WrittenInv, IsWritten
<1> QED
  BY <1>6, <1>7

-----------------------------------------------------------------------------
(* What is told was written. *)

\* Writing down the applied picks loses no pick written before: where a number is
\* written again it is for the pick the draft has there.
LEMMA WritingKeepsRecords ==
    ASSUME IInv, pc = "record", draft' = draft, shown' = shown, applied' = applied,
           \/ rows' = Written /\ unwritten' = unwritten
           \/ rows' = rows /\ unwritten' = unwritten \cup applied
    PROVE  /\ \A n \in DOMAIN shown : IsWritten(n, draft[n])'
           /\ \A p \in applied : IsWritten(p.no, p)'
<1>1. GrownByApplied
  BY DEF IInv, CycleInv
<1>2. \A p, q \in applied : p.no = q.no => p = q
  BY <1>1 DEF GrownByApplied
<1>3. CASE rows' = rows /\ unwritten' = unwritten \cup applied
  BY <1>3 DEF IInv, WrittenInv, IsWritten
<1>4. CASE rows' = Written /\ unwritten' = unwritten
  <2>1. ASSUME NEW p \in applied
        PROVE  p.no \in DOMAIN Written /\ Written[p.no] = p.player
    <3>1. (CHOOSE q \in applied : q.no = p.no) = p
      BY <1>2
    <3> QED
      BY <3>1 DEF Written
  <2>2. ASSUME NEW n \in DOMAIN shown, draft[n] \notin unwritten
        PROVE  n \in DOMAIN Written /\ Written[n] = draft[n].player
    <3>1. n \in DOMAIN rows /\ rows[n] = draft[n].player
      BY <2>2 DEF IInv, WrittenInv, IsWritten
    <3>2. ~ \E p \in applied : p.no = n
      BY <1>1, <2>2 DEF GrownByApplied
    <3> QED
      BY <3>1, <3>2 DEF Written
  <2> QED
    BY <1>4, <2>1, <2>2 DEF IsWritten
<1> QED
  BY <1>3, <1>4

\* Nothing written is unwritten, and what is about to be told was recorded first.
LEMMA WrittenInvIsKept ==
    ASSUME IInv, Next
    PROVE  WrittenInv'
<1> USE DEF provider, database, cycle, events
<1>1. CASE Reconcile
  BY <1>1, ReconcileKeepsTheCycle
<1>2. CASE Publish
  BY <1>2, PublishKeepsTheCycle
<1>3. CASE Record
  <2>1. /\ pc = "record" /\ draft' = draft /\ shown' = shown /\ applied' = applied
        /\ \/ rows' = Written /\ unwritten' = unwritten
           \/ rows' = rows /\ unwritten' = unwritten \cup applied
    BY <1>3 DEF Record
  <2> QED
    BY <2>1, WritingKeepsRecords DEF WrittenInv, IsWritten
<1>4. CASE Cancel /\ pc = "record"
  <2>1. /\ draft' = draft /\ shown' = shown /\ applied' = applied /\ pc' = "done"
        /\ \/ rows' = Written /\ unwritten' = unwritten
           \/ rows' = rows /\ unwritten' = unwritten \cup applied
    BY <1>4 DEF Cancel
  <2> QED
    BY <1>4, <2>1, WritingKeepsRecords DEF WrittenInv, IsWritten
<1>5. CASE Cancel /\ pc # "record"
  BY <1>5 DEF Cancel, IInv, WrittenInv, IsWritten
<1>6. CASE StopSeen \/ BeginPoll \/ ReadMetadata \/ ProviderFails \/ Wake \/ RequestStop
              \/ \E r \in Responses : ReadPicks(r)
  BY <1>6 DEF StopSeen, BeginPoll, ReadMetadata, ProviderFails, Wake, RequestStop, ReadPicks,
              IInv, WrittenInv, IsWritten
<1>7. CASE Room
  BY <1>7 DEF Room, IInv, WrittenInv, IsWritten
<1> QED
  BY <1>1, <1>2, <1>3, <1>4, <1>5, <1>6, <1>7 DEF Next, Poll

\* No step leaves the cycle, a cancellation or an error at any await included.
LEMMA CycleInvIsKept ==
    ASSUME IInv, Next
    PROVE  CycleInv'
<1> USE DEF provider, database, cycle, events
<1>1. CASE Reconcile
  BY <1>1, ReconcileKeepsTheCycle
<1>2. CASE Publish
  BY <1>2, PublishKeepsTheCycle
<1>3. CASE BeginPoll
  BY <1>3, BeginPollKeepsTheCycle
<1>4. CASE StopSeen \/ ReadMetadata \/ ProviderFails \/ Wake \/ RequestStop
              \/ \E r \in Responses : ReadPicks(r)
  BY <1>4, OtherStepsKeepTheCycle
     DEF StopSeen, ReadMetadata, ProviderFails, Wake, RequestStop, ReadPicks
<1>5. CASE Record \/ Cancel \/ Room
  BY <1>5, OtherStepsKeepTheCycle DEF Record, Cancel, Room
<1> QED
  BY <1>1, <1>2, <1>3, <1>4, <1>5 DEF Next, Poll

\* The three parts hold together.
LEMMA InvariantHolds == Spec => []IInv
<1>1. Init => IInv
  <2> SUFFICES ASSUME Init PROVE IInv
    OBVIOUS
  <2>1. /\ TypeInv /\ shown = draft /\ pc = "check"
        /\ \A n \in DOMAIN draft : n \in DOMAIN rows /\ rows[n] = draft[n].player
        /\ \A m, n \in DOMAIN draft : m # n => draft[m].player # draft[n].player
    BY InitialDraft DEF Init
  <2>2. told = [n \in PickNumbers |-> IF n \in DOMAIN shown THEN 1 ELSE 0]
    BY <2>1 DEF Init
  <2>3. CycleInv
    BY <2>1, <2>2 DEF CycleInv
  <2>4. WrittenInv
    BY <2>1 DEF WrittenInv, IsWritten
  <2> QED
    BY <2>1, <2>3, <2>4 DEF IInv
<1>2. IInv /\ [Next]_vars => IInv'
  <2> SUFFICES ASSUME IInv, [Next]_vars PROVE IInv'
    OBVIOUS
  <2>1. TypeInv'
    BY TypeIsKept DEF IInv
  <2>2. CASE Next
    BY <2>1, <2>2, CycleInvIsKept, WrittenInvIsKept DEF IInv
  <2>3. CASE UNCHANGED vars
    BY <2>1, <2>3 DEF vars, provider, database, cycle, events, IInv, CycleInv, WrittenInv,
                      GrownByApplied, IsWritten
  <2> QED
    BY <2>2, <2>3
<1> QED
  BY <1>1, <1>2, PTL DEF Spec

\* The live poller keeps its types: only picks of the draft, of known players, enter
\* the draft, the rows and the board shown, whatever the provider lists; and a poller
\* that has failed as often as it may has given up.
THEOREM TypeCorrect == Spec => []TypeOK
<1>1. IInv => TypeOK
  BY DEF IInv, TypeInv, TypeOK, DraftValues, RowValues, PickRecord, Range
<1> QED
  BY <1>1, InvariantHolds, PTL

\* A pick the browser has been told about is a pick that has been written down, or
\* whose write failed: through corrections, repeats, failing writes and cancellation.
THEOREM WhatIsToldIsWritten == Spec => []TellingMeansWritten
<1>1. IInv => TellingMeansWritten
  <2> SUFFICES ASSUME IInv, NEW n \in DOMAIN draft, told[n] > 0
               PROVE  IsWritten(n, draft[n])
    BY DEF TellingMeansWritten, IsWritten
  <2>1. n \in PickNumbers
    BY DraftsAreDrafts DEF IInv
  <2>2. n \in DOMAIN shown
    BY <2>1 DEF IInv, CycleInv
  <2> QED
    BY <2>2 DEF IInv, WrittenInv
<1> QED
  BY <1>1, InvariantHolds, PTL

\* Every pick on the board shown was told exactly once, and no other pick ever was.
ToldOnceWhenShown == told = [n \in PickNumbers |-> IF n \in DOMAIN shown THEN 1 ELSE 0]

\* The provider resends every pick on every poll; the room hears of each once, with the
\* board that shows it.
THEOREM EveryPickIsToldOnce == Spec => []ToldOnceWhenShown
<1>1. IInv => ToldOnceWhenShown
  BY DEF IInv, CycleInv, ToldOnceWhenShown
<1> QED
  BY <1>1, InvariantHolds, PTL

-----------------------------------------------------------------------------
(* The loop is a following of the draft: FollowedDraft, its fairness aside. *)

\* The players of a draft are a board FollowedDraft knows.
LEMMA BoardsAreBoards ==
    ASSUME NEW D \in DraftValues, \A m, n \in DOMAIN D : m # n => D[m].player # D[n].player
    PROVE  PlayersOf(D) \in Following!Boards
<1>1. PICK N \in SUBSET PickNumbers : D \in [N -> PickRecord]
  BY DEF DraftValues
<1>2. PlayersOf(D) \in [N -> Players]
  BY <1>1 DEF PlayersOf, PickRecord
<1>3. Following!IsInjective(PlayersOf(D))
  BY <1>1 DEF PlayersOf, Following!IsInjective
<1>4. PlayersOf(D) \in Following!Injection(N, Players)
  BY <1>2, <1>3 DEF Following!Injection
<1> QED
  BY <1>4 DEF Following!Boards

\* A poller starts as following does.
LEMMA StartsFollowing == Init => Following!Init
<1> SUFFICES ASSUME Init PROVE Following!Init
  OBVIOUS
<1>1. /\ TypeInv /\ shown = draft
      /\ \A m, n \in DOMAIN draft : m # n => draft[m].player # draft[n].player
  BY InitialDraft
<1>2. PlayersOf(draft) \in Following!Boards
  BY <1>1, BoardsAreBoards DEF TypeInv
<1>3. DOMAIN PlayersOf(draft) = DOMAIN draft
  BY DEF PlayersOf
<1>4. told = [n \in PickNumbers |-> IF n \in DOMAIN PlayersOf(draft) THEN 1 ELSE 0]
  BY <1>3 DEF Init
<1> QED
  BY <1>1, <1>2, <1>4 DEF Init, Following!Init, Running

\* The batch found is new, and the board with it holds the board before.
LEMMA ReconcileDiscovers ==
    ASSUME IInv, Reconcile
    PROVE  [Following!Next]_Following!vars
<1>1. /\ pc = "reconcile" /\ shown = draft
      /\ draft' = NewBoard /\ told' = told /\ shown' = shown /\ completions' = completions
      /\ pc' \in {"done", "record", "publish"}
  BY DEF Reconcile, IInv, CycleInv, events
<1>2. /\ \A n : n \in DOMAIN NewBoard <=> n \in DOMAIN draft \/ \E p \in NewPicks : p.no = n
      /\ \A n \in DOMAIN draft : NewBoard[n] = draft[n]
      /\ \A p \in NewPicks : p.no \notin DOMAIN draft
      /\ NewPicks = {} => NewBoard = draft
  BY NewBoardGrows DEF IInv
<1>3. Running /\ Running' \in BOOLEAN
  BY <1>1 DEF Running
<1>4. CASE NewPicks = {}
  <2>1. UNCHANGED <<PlayersOf(draft), PlayersOf(shown), told, completions>>
    BY <1>1, <1>2, <1>4
  <2> QED
    BY <1>3, <2>1 DEF Following!Next, Following!End, Following!vars
<1>5. CASE NewPicks # {}
  <2>1. PICK p \in NewPicks : TRUE
    BY <1>5
  <2>2. PlayersOf(draft)' # PlayersOf(draft)
    BY <1>1, <1>2, <2>1 DEF PlayersOf
  <2>3. PlayersOf(draft)' \in Following!Boards
    <3>1. /\ draft' \in DraftValues
          /\ \A m, n \in DOMAIN draft' : m # n => draft'[m].player # draft'[n].player
      BY ReconcileKeepsTheCycle, WorkingTyped DEF IInv, TypeInv, CycleInv
    <3> QED
      BY <3>1, BoardsAreBoards DEF PlayersOf
  <2>4. Following!Holds(PlayersOf(draft)', PlayersOf(draft))
    BY <1>1, <1>2 DEF PlayersOf, Following!Holds
  <2>5. Following!Discover
    BY <1>1, <1>3, <2>2, <2>3, <2>4 DEF Following!Discover
  <2> QED
    BY <1>1, <1>3, <2>5 DEF Following!Next
<1> QED
  BY <1>4, <1>5

\* What is told is exactly what the board known has and the board shown has not.
LEMMA PublishAnnounces ==
    ASSUME IInv, Publish
    PROVE  [Following!Next]_Following!vars
<1>1. /\ pc = "publish" /\ draft' = draft /\ pc' \in {"done", "sleep"}
      /\ \/ completions' = completions
         \/ completions' = completions + 1 /\ pc' = "done"
  BY DEF Publish, cycle
<1>2. /\ GrownByApplied /\ \A n \in DOMAIN shown : draft[n] = shown[n]
      /\ told = [n \in PickNumbers |-> IF n \in DOMAIN shown THEN 1 ELSE 0]
  BY <1>1 DEF IInv, CycleInv
<1>3. /\ shown' = draft
      /\ told' = [n \in PickNumbers |-> IF n \in DOMAIN draft THEN 1 ELSE 0]
  BY PublishShowsTheDraft
<1>4. /\ DOMAIN PlayersOf(draft) = DOMAIN draft /\ DOMAIN PlayersOf(shown) = DOMAIN shown
      /\ PlayersOf(draft)' = PlayersOf(draft) /\ PlayersOf(shown)' = PlayersOf(draft)
  BY <1>1, <1>3 DEF PlayersOf
<1>5. Running /\ Running' \in BOOLEAN /\ (pc' = "done" => ~Running')
  BY <1>1 DEF Running
<1>6. CASE PlayersOf(shown) = PlayersOf(draft)
  <2>1. DOMAIN shown = DOMAIN draft
    BY <1>4, <1>6
  <2>2. told' = told
    BY <1>2, <1>3, <2>1
  <2>3. UNCHANGED <<PlayersOf(draft), PlayersOf(shown), told>>
    BY <1>4, <1>6, <2>2
  <2>4. CASE completions' = completions
    BY <1>5, <2>3, <2>4 DEF Following!Next, Following!End, Following!vars
  <2>5. CASE completions' = completions + 1 /\ pc' = "done"
    BY <1>4, <1>5, <2>3, <2>5 DEF Following!Next, Following!End
  <2> QED
    BY <1>1, <2>4, <2>5
<1>7. CASE PlayersOf(shown) # PlayersOf(draft)
  <2>1. ASSUME NEW n \in PickNumbers
        PROVE  (IF n \in DOMAIN draft THEN 1 ELSE 0)
                  = told[n] + IF n \in DOMAIN draft \ DOMAIN shown THEN 1 ELSE 0
    BY <1>2 DEF GrownByApplied
  <2>2. told' = [n \in PickNumbers |->
                    told[n] + IF n \in DOMAIN PlayersOf(draft) \ DOMAIN PlayersOf(shown)
                              THEN 1 ELSE 0]
    BY <1>3, <1>4, <2>1
  <2>3. Following!Announce
    BY <1>4, <1>5, <1>7, <2>2 DEF Following!Announce
  <2> QED
    BY <1>1, <1>4, <1>5, <2>3 DEF Following!Next
<1> QED
  BY <1>6, <1>7

\* Any other step leaves the promise's state alone or ends the following.
LEMMA OtherStepsFollow ==
    ASSUME UNCHANGED <<draft, shown, told, completions>>, pc' = "done" \/ pc # "done",
           pc = "done" => pc' = "done"
    PROVE  [Following!Next]_Following!vars
<1>1. UNCHANGED <<PlayersOf(draft), PlayersOf(shown), told, completions>>
  BY DEF PlayersOf
<1>2. Running' = Running \/ (Running /\ ~Running')
  BY DEF Running
<1> QED
  BY <1>1, <1>2 DEF Following!Next, Following!End, Following!vars, Running

\* Every step of the poller is a step of following, or leaves it alone.
LEMMA StepsFollow ==
    ASSUME IInv, [Next]_vars
    PROVE  [Following!Next]_Following!vars
<1> USE DEF provider, database, cycle, events
<1>1. CASE Reconcile
  BY <1>1, ReconcileDiscovers
<1>2. CASE Publish
  BY <1>2, PublishAnnounces
<1>3. CASE StopSeen \/ BeginPoll \/ ReadMetadata \/ ProviderFails \/ Wake \/ RequestStop
              \/ \E r \in Responses : ReadPicks(r)
  BY <1>3, OtherStepsFollow
     DEF StopSeen, BeginPoll, ReadMetadata, ProviderFails, Wake, RequestStop, ReadPicks
<1>4. CASE Record \/ Cancel \/ Room
  BY <1>4, OtherStepsFollow DEF Record, Cancel, Room
<1>5. CASE UNCHANGED vars
  BY <1>5, OtherStepsFollow DEF vars
<1> QED
  BY <1>1, <1>2, <1>3, <1>4, <1>5 DEF Next, Poll

\* The loop of the poller is a following of the draft (KeepsItsPromise, its liveness
\* aside): whatever the provider resends, garbles, corrects or loses, and wherever the
\* task is stopped, picks are found in batches, a batch is announced whole before the
\* next is looked for, each pick is told once, and the end at most once and last.
THEOREM FollowsTheDraft == Spec => Following!SafeSpec
<1>1. Init => Following!Init
  BY StartsFollowing
<1>2. IInv /\ [Next]_vars => [Following!Next]_Following!vars
  BY StepsFollow
<1> QED
  BY <1>1, <1>2, InvariantHolds, PTL DEF Spec, Following!SafeSpec
=============================================================================
