----------------------------- MODULE Draft_proofs -----------------------------
(***************************************************************************)
(* What holds of a draft, for every league and however many rounds.        *)
(*                                                                         *)
(* The record, for every set of players and batches of any length: its     *)
(* type, the agreement of its two indexes and its rosters, and what no     *)
(* batch can undo.  The invariants are inductive one on top of the other:  *)
(* the agreement of the indexes needs the type, and the rosters need both, *)
(* because only then is a player new to the owner index new to every       *)
(* roster.                                                                 *)
(*                                                                         *)
(* The mock draft, for pools of any size: who picks, for whom, how long a  *)
(* seat waits, and that a draft is a function of its seed.  Everything     *)
(* rests on one lemma about the geometry, TurnIsOwned: the wait of a seat  *)
(* is zero exactly when the pick is its own.  The search for the seat on   *)
(* the clock is the other computation of the same thing                    *)
(* (ClockFindsTheOwner), so the two agree.                                 *)
(***************************************************************************)
EXTENDS BatchArrival, MockDraft, League_proofs, FiniteSetTheorems, SequenceTheorems

-----------------------------------------------------------------------------
(* The record *)

LEMMA GeometryIsNat ==
    /\ TotalPicks(TheLeague) \in Nat
    /\ TheLeague.teams \in Nat
<1>1. TheLeague.teams \in Nat /\ TheLeague.rounds \in Nat
  BY LeagueAssumption DEF LeagueSettings
<1> QED
  BY <1>1 DEF TotalPicks

\* What a pick that was applied is known to be: in range, and new to both indexes.
LEMMA AppliedIsNew ==
    ASSUME NEW D, NEW p, Outcome(D, p) = "APPLIED"
    PROVE  /\ p.no \in PickNumbers /\ p.slot \in Seats(TheLeague)
           /\ p.no \notin DOMAIN D.picks
           /\ p.player \notin DOMAIN D.owner
<1>1. ~Repeats(D, p) /\ ~Clashes(D, p)
  BY DEF Outcome
<1>2. Legal(p)
  BY <1>1 DEF Outcome
<1> QED
  BY <1>1, <1>2 DEF Repeats, Clashes, Legal

\* A step of the loop leaves the draft alone or adds one legal new pick to it.
LEMMA ApplyNextAddsOnePick ==
    ASSUME RecordTypeOK, ApplyNext
    PROVE  \/ draft' = draft
           \/ \E p \in ProviderPicks :
                 /\ p.no \in PickNumbers /\ p.slot \in Seats(TheLeague)
                 /\ p.no \notin DOMAIN draft.picks
                 /\ p.player \notin DOMAIN draft.owner
                 /\ draft' = WithPick(draft, p)
<1>1. PICK i \in todo : draft' = ApplyPick(draft, batch[i])
  BY DEF ApplyNext
<1>2. batch[i] \in ProviderPicks
  BY <1>1 DEF RecordTypeOK
<1>3. CASE Outcome(draft, batch[i]) = "APPLIED"
  BY <1>1, <1>2, <1>3, AppliedIsNew DEF ApplyPick
<1>4. CASE Outcome(draft, batch[i]) # "APPLIED"
  BY <1>1, <1>4 DEF ApplyPick
<1> QED
  BY <1>3, <1>4

LEMMA PickFields ==
    ASSUME NEW p \in ProviderPicks
    PROVE  p.no \in Int /\ p.slot \in Int /\ p.player \in Players
  BY PicksAssumption

DraftTypeOK ==
    draft \in [picks : UNION {[N -> ProviderPicks] : N \in SUBSET PickNumbers},
               owner : UNION {[X -> PickNumbers] : X \in SUBSET Players},
               rosters : [Seats(TheLeague) -> Seq(Players)]]

LEMMA TypeIsPreserved ==
    ASSUME RecordTypeOK, [RecordNext]_recordVars
    PROVE  RecordTypeOK'
<1>1. CASE ApplyNext
  <2>1. DraftTypeOK'
    <3>1. CASE draft' = draft
      BY <3>1 DEF RecordTypeOK, DraftTypeOK
    <3>2. ASSUME NEW p \in ProviderPicks, p.no \in PickNumbers, p.slot \in Seats(TheLeague),
                 draft' = WithPick(draft, p)
          PROVE  DraftTypeOK'
      <4>1. p.player \in Players
        BY PickFields
      <4>2. PICK N \in SUBSET PickNumbers : draft.picks \in [N -> ProviderPicks]
        BY DEF RecordTypeOK
      <4>3. PICK X \in SUBSET Players : draft.owner \in [X -> PickNumbers]
        BY DEF RecordTypeOK
      <4>4. draft'.picks \in [N \cup {p.no} -> ProviderPicks]
        BY <3>2, <4>2 DEF WithPick
      <4>5. draft'.owner \in [X \cup {p.player} -> PickNumbers]
        BY <3>2, <4>3 DEF WithPick
      <4>6. draft'.rosters \in [Seats(TheLeague) -> Seq(Players)]
        <5>1. draft.rosters \in [Seats(TheLeague) -> Seq(Players)]
          BY DEF RecordTypeOK
        <5>2. Append(draft.rosters[p.slot], p.player) \in Seq(Players)
          BY <3>2, <4>1, <5>1
        <5> QED
          BY <3>2, <5>1, <5>2 DEF WithPick
      <4>7. N \cup {p.no} \in SUBSET PickNumbers /\ X \cup {p.player} \in SUBSET Players
        BY <3>2, <4>1, <4>2, <4>3
      <4>8. draft' = [picks |-> draft'.picks, owner |-> draft'.owner, rosters |-> draft'.rosters]
        BY <3>2 DEF WithPick
      <4>9. /\ draft'.picks \in UNION {[M -> ProviderPicks] : M \in SUBSET PickNumbers}
            /\ draft'.owner \in UNION {[Y -> PickNumbers] : Y \in SUBSET Players}
        BY <4>4, <4>5, <4>7
      <4> QED
        BY <4>6, <4>8, <4>9 DEF DraftTypeOK
    <3> QED
      BY <1>1, <3>1, <3>2, ApplyNextAddsOnePick
  <2>2. batch' = batch /\ todo' \subseteq todo /\ raised' \in BOOLEAN
    BY <1>1 DEF ApplyNext
  <2> QED
    BY <2>1, <2>2 DEF RecordTypeOK, DraftTypeOK
<1>2. ASSUME NEW b \in Batches, ReceiveBatch(b)
      PROVE  RecordTypeOK'
  <2>1. b \in Seq(ProviderPicks)
    BY BatchAssumption DEF Batches
  <2> QED
    BY <1>2, <2>1 DEF ReceiveBatch, RecordTypeOK
<1>3. CASE UNCHANGED recordVars
  BY <1>3 DEF recordVars, RecordTypeOK
<1> QED
  BY <1>1, <1>2, <1>3 DEF RecordNext

\* The variables always have their types; in particular no pick number outside
\* the draft and no seat the league does not have ever enters the record.
THEOREM RecordTypeCorrect == RecordSpec => []RecordTypeOK
<1>1. RecordInit => RecordTypeOK
  <2> SUFFICES ASSUME RecordInit PROVE RecordTypeOK
    OBVIOUS
  <2>1. <<>> \in [{} -> ProviderPicks] /\ <<>> \in [{} -> PickNumbers]
    OBVIOUS
  <2>2. /\ <<>> \in UNION {[M -> ProviderPicks] : M \in SUBSET PickNumbers}
        /\ <<>> \in UNION {[Y -> PickNumbers] : Y \in SUBSET Players}
    BY <2>1
  <2>3. [s \in Seats(TheLeague) |-> <<>>] \in [Seats(TheLeague) -> Seq(Players)]
    OBVIOUS
  <2>4. draft = [picks |-> <<>>, owner |-> <<>>, rosters |-> [s \in Seats(TheLeague) |-> <<>>]]
    BY DEF RecordInit, EmptyDraft
  <2>5. draft \in [picks : UNION {[M -> ProviderPicks] : M \in SUBSET PickNumbers},
                  owner : UNION {[Y -> PickNumbers] : Y \in SUBSET Players},
                  rosters : [Seats(TheLeague) -> Seq(Players)]]
    BY <2>2, <2>3, <2>4
  <2>6. batch \in Seq(ProviderPicks)
    BY DEF RecordInit
  <2>7. todo \subseteq DOMAIN batch
    BY DEF RecordInit
  <2>8. raised \in BOOLEAN
    BY DEF RecordInit
  <2> QED
    BY <2>5, <2>6, <2>7, <2>8 DEF RecordTypeOK
<1>2. RecordTypeOK /\ [RecordNext]_recordVars => RecordTypeOK'
  BY TypeIsPreserved
<1> QED
  BY <1>1, <1>2, PTL DEF RecordSpec

-----------------------------------------------------------------------------
\* What a step does to the draft, without its batch: nothing, or one legal pick
\* whose number and whose player are new.
LEMMA StepAddsAtMostOnePick ==
    ASSUME RecordTypeOK, [RecordNext]_recordVars
    PROVE  \/ draft' = draft
           \/ \E p \in ProviderPicks :
                 /\ p.no \in PickNumbers /\ p.slot \in Seats(TheLeague)
                 /\ p.no \notin DOMAIN draft.picks
                 /\ p.player \notin DOMAIN draft.owner
                 /\ draft' = WithPick(draft, p)
<1>1. CASE ApplyNext
  BY <1>1, ApplyNextAddsOnePick
<1>2. CASE \E b \in Batches : ReceiveBatch(b)
  BY <1>2 DEF ReceiveBatch
<1>3. CASE UNCHANGED recordVars
  BY <1>3 DEF recordVars
<1> QED
  BY <1>1, <1>2, <1>3 DEF RecordNext

LEMMA IndexesArePreserved ==
    ASSUME RecordTypeOK, IndexesAgree, [RecordNext]_recordVars
    PROVE  IndexesAgree'
<1>1. CASE draft' = draft
  BY <1>1 DEF IndexesAgree
<1>2. ASSUME NEW p \in ProviderPicks,
             p.no \notin DOMAIN draft.picks, p.player \notin DOMAIN draft.owner,
             draft' = WithPick(draft, p)
      PROVE  IndexesAgree'
  <2>1. /\ DOMAIN draft'.picks = DOMAIN draft.picks \cup {p.no}
        /\ draft'.picks[p.no] = p
        /\ \A n \in DOMAIN draft.picks : draft'.picks[n] = draft.picks[n]
    BY <1>2 DEF WithPick
  <2>2. /\ DOMAIN draft'.owner = DOMAIN draft.owner \cup {p.player}
        /\ draft'.owner[p.player] = p.no
        /\ \A x \in DOMAIN draft.owner : draft'.owner[x] = draft.owner[x]
    BY <1>2 DEF WithPick
  <2>3. ASSUME NEW n \in DOMAIN draft'.picks
        PROVE  LET q == draft'.picks[n]
               IN  q.no = n /\ q.player \in DOMAIN draft'.owner /\ draft'.owner[q.player] = n
    <3>1. CASE n = p.no
      BY <2>1, <2>2, <3>1
    <3>2. CASE n \in DOMAIN draft.picks
      BY <2>1, <2>2, <3>2 DEF IndexesAgree
    <3> QED
      BY <2>1, <3>1, <3>2
  <2>4. ASSUME NEW x \in DOMAIN draft'.owner
        PROVE  draft'.owner[x] \in DOMAIN draft'.picks /\ draft'.picks[draft'.owner[x]].player = x
    <3>1. CASE x = p.player
      BY <2>1, <2>2, <3>1
    <3>2. CASE x \in DOMAIN draft.owner
      BY <2>1, <2>2, <3>2 DEF IndexesAgree
    <3> QED
      BY <2>2, <3>1, <3>2
  <2> QED
    BY <2>3, <2>4 DEF IndexesAgree
<1> QED
  BY <1>1, <1>2, StepAddsAtMostOnePick

\* A player is drafted at most once and each index knows exactly what the other
\* knows, whatever the provider repeats, reorders or corrects.
THEOREM IndexesAlwaysAgree == RecordSpec => []IndexesAgree
<1>1. RecordInit => IndexesAgree
  BY DEF RecordInit, EmptyDraft, IndexesAgree
<1>2. RecordTypeOK /\ IndexesAgree /\ [RecordNext]_recordVars => IndexesAgree'
  BY IndexesArePreserved
<1> QED
  BY <1>1, <1>2, RecordTypeCorrect, PTL DEF RecordSpec

-----------------------------------------------------------------------------
LEMMA RostersArePreserved ==
    ASSUME RecordTypeOK, IndexesAgree, RostersMatchPicks, [RecordNext]_recordVars
    PROVE  RostersMatchPicks'
<1>1. CASE draft' = draft
  BY <1>1 DEF RostersMatchPicks
<1>2. ASSUME NEW p \in ProviderPicks, p.slot \in Seats(TheLeague),
             p.no \notin DOMAIN draft.picks, p.player \notin DOMAIN draft.owner,
             draft' = WithPick(draft, p)
      PROVE  RostersMatchPicks'
  <2>0. p.player \in Players
    BY PickFields
  <2>1. /\ DOMAIN draft'.picks = DOMAIN draft.picks \cup {p.no}
        /\ draft'.picks[p.no] = p
        /\ \A n \in DOMAIN draft.picks : draft'.picks[n] = draft.picks[n]
    BY <1>2 DEF WithPick
  <2>2. draft.rosters \in [Seats(TheLeague) -> Seq(Players)]
    BY DEF RecordTypeOK
  <2>3. /\ draft'.rosters[p.slot] = Append(draft.rosters[p.slot], p.player)
        /\ \A s \in Seats(TheLeague) \ {p.slot} : draft'.rosters[s] = draft.rosters[s]
    BY <1>2, <2>2 DEF WithPick
  <2>4. \A n \in DOMAIN draft.picks : draft.picks[n].player # p.player
    BY <1>2 DEF IndexesAgree
  <2>5. ASSUME NEW s \in Seats(TheLeague), s # p.slot
        PROVE  LET roster == draft'.rosters[s]
               IN  /\ \A i, j \in 1..Len(roster) : roster[i] = roster[j] => i = j
                   /\ \A x \in Players :
                         (\E i \in 1..Len(roster) : roster[i] = x)
                           <=> \E n \in DOMAIN draft'.picks :
                                   draft'.picks[n].player = x /\ draft'.picks[n].slot = s
    <3>1. draft'.rosters[s] = draft.rosters[s]
      BY <2>3, <2>5
    <3>2. \A x \in Players :
            (\E n \in DOMAIN draft'.picks :
                draft'.picks[n].player = x /\ draft'.picks[n].slot = s)
              <=> \E n \in DOMAIN draft.picks :
                    draft.picks[n].player = x /\ draft.picks[n].slot = s
      BY <2>1, <2>5
    <3> QED
      BY <3>1, <3>2 DEF RostersMatchPicks
  <2>6. LET roster == draft'.rosters[p.slot]
        IN  /\ \A i, j \in 1..Len(roster) : roster[i] = roster[j] => i = j
            /\ \A x \in Players :
                  (\E i \in 1..Len(roster) : roster[i] = x)
                    <=> \E n \in DOMAIN draft'.picks :
                            draft'.picks[n].player = x /\ draft'.picks[n].slot = p.slot
    <3> DEFINE old == draft.rosters[p.slot]
               new == draft'.rosters[p.slot]
    <3>1. old \in Seq(Players)
      BY <1>2, <2>2
    <3>2. /\ Len(new) = Len(old) + 1 /\ Len(old) \in Nat
          /\ \A i \in 1..Len(old) : new[i] = old[i]
          /\ new[Len(old) + 1] = p.player
      BY <2>0, <2>3, <3>1
    <3>3. /\ \A i, j \in 1..Len(old) : old[i] = old[j] => i = j
          /\ \A x \in Players :
                (\E i \in 1..Len(old) : old[i] = x)
                  <=> \E n \in DOMAIN draft.picks :
                          draft.picks[n].player = x /\ draft.picks[n].slot = p.slot
      BY <1>2 DEF RostersMatchPicks
    <3>4. \A i \in 1..Len(old) : old[i] # p.player
      BY <2>0, <2>4, <3>3
    <3> HIDE DEF old, new
    <3>5. \A i, j \in 1..Len(new) : new[i] = new[j] => i = j
      BY <3>2, <3>3, <3>4
    <3>6. ASSUME NEW x \in Players
          PROVE  (\E i \in 1..Len(new) : new[i] = x)
                    <=> \E n \in DOMAIN draft'.picks :
                            draft'.picks[n].player = x /\ draft'.picks[n].slot = p.slot
      <4>1. (\E i \in 1..Len(new) : new[i] = x)
              <=> x = p.player \/ \E i \in 1..Len(old) : old[i] = x
        BY <3>2
      <4>2. (\E n \in DOMAIN draft'.picks :
                draft'.picks[n].player = x /\ draft'.picks[n].slot = p.slot)
              <=> \/ x = p.player
                  \/ \E n \in DOMAIN draft.picks :
                        draft.picks[n].player = x /\ draft.picks[n].slot = p.slot
        BY <2>1
      <4> QED
        BY <3>3, <4>1, <4>2
    <3> QED
      BY <3>5, <3>6 DEF new
  <2> QED
    BY <2>5, <2>6 DEF RostersMatchPicks
<1> QED
  BY <1>1, <1>2, StepAddsAtMostOnePick

\* Every roster holds exactly the players of its seat's picks, each once, however
\* often the provider resends them.
THEOREM RostersAlwaysMatch == RecordSpec => []RostersMatchPicks
<1>1. RecordInit => RostersMatchPicks
  BY DEF RecordInit, EmptyDraft, RostersMatchPicks
<1>2. RecordTypeOK /\ IndexesAgree /\ RostersMatchPicks /\ [RecordNext]_recordVars => RostersMatchPicks'
  BY RostersArePreserved
<1> QED
  BY <1>1, <1>2, RecordTypeCorrect, IndexesAlwaysAgree, PTL DEF RecordSpec

-----------------------------------------------------------------------------
\* No step removes or changes a recorded pick.
THEOREM HistoryIsKept == RecordSpec => HistoryKept
<1>1. RecordTypeOK /\ [RecordNext]_recordVars =>
        [\A n \in DOMAIN draft.picks :
            n \in DOMAIN draft'.picks /\ draft'.picks[n] = draft.picks[n]]_recordVars
  <2> SUFFICES ASSUME RecordTypeOK, [RecordNext]_recordVars, NEW n \in DOMAIN draft.picks
               PROVE  n \in DOMAIN draft'.picks /\ draft'.picks[n] = draft.picks[n]
    OBVIOUS
  <2>1. CASE draft' = draft
    BY <2>1
  <2>2. ASSUME NEW p \in ProviderPicks, p.no \notin DOMAIN draft.picks,
               draft' = WithPick(draft, p)
        PROVE  n \in DOMAIN draft'.picks /\ draft'.picks[n] = draft.picks[n]
    BY <2>2 DEF WithPick
  <2> QED
    BY <2>1, <2>2, StepAddsAtMostOnePick
<1> QED
  BY <1>1, RecordTypeCorrect, PTL DEF RecordSpec, HistoryKept

-----------------------------------------------------------------------------
LEMMA CompleteByCount ==
    ASSUME NEW D, DOMAIN D.picks \subseteq PickNumbers
    PROVE  IsComplete(D) <=> DOMAIN D.picks = PickNumbers
<1>1. IsFiniteSet(PickNumbers) /\ Cardinality(PickNumbers) = TotalPicks(TheLeague)
  BY GeometryIsNat, FS_Interval DEF PickNumbers
<1>2. /\ IsFiniteSet(DOMAIN D.picks)
      /\ Cardinality(DOMAIN D.picks) <= TotalPicks(TheLeague)
      /\ TotalPicks(TheLeague) = Cardinality(DOMAIN D.picks) => PickNumbers = DOMAIN D.picks
  BY <1>1, FS_Subset
<1>3. Cardinality(DOMAIN D.picks) \in Nat
  BY <1>2, FS_CardinalityType
<1> QED
  BY <1>1, <1>2, <1>3, GeometryIsNat DEF IsComplete, PickCount

\* The draft is over by the count of its picks exactly when no number is open.
THEOREM CompletionIsExact == RecordSpec => []CompleteMeansEveryPickMade
<1>1. RecordTypeOK => CompleteMeansEveryPickMade
  BY CompleteByCount DEF CompleteMeansEveryPickMade, RecordTypeOK
<1> QED
  BY <1>1, RecordTypeCorrect, PTL

\* The current pick is the least open number, and there is one until the end.
LEMMA CurrentPickIsLeastOpen ==
    ASSUME NEW D, DOMAIN D.picks \subseteq PickNumbers
    PROVE  LET open == PickNumbers \ DOMAIN D.picks
           IN  /\ open = {} => CurrentPick(D) = None
               /\ open # {} => /\ CurrentPick(D) \in open
                               /\ \A n \in open : CurrentPick(D) <= n
<1> DEFINE open == PickNumbers \ DOMAIN D.picks
<1>1. CASE open = {}
  BY <1>1 DEF CurrentPick
<1>2. CASE open # {}
  <2>1. ~IsComplete(D)
    BY <1>2, CompleteByCount
  <2>2. open \in SUBSET Nat
    BY GeometryIsNat DEF PickNumbers
  <2>3. CurrentPick(D) = Min(open)
    BY <1>2, <2>1 DEF CurrentPick
  <2> HIDE DEF open
  <2>4. Min(open) \in open /\ \A n \in open : Min(open) <= n
    BY <1>2, <2>2, MinOfNaturals
  <2> QED
    BY <1>2, <2>3, <2>4 DEF open
<1> QED
  BY <1>1, <1>2

\* The clock never goes back and never restarts.
THEOREM ClockOnlyMovesForward == RecordSpec => ClockMovesForward
<1>1. RecordTypeOK /\ [RecordNext]_recordVars =>
        [LET old == CurrentPick(draft)
             new == CurrentPick(draft')
         IN  new = None \/ (old # None /\ new >= old)]_recordVars
  <2> DEFINE open == PickNumbers \ DOMAIN draft.picks
             left == PickNumbers \ DOMAIN draft'.picks
             old == CurrentPick(draft)
             new == CurrentPick(draft')
  <2> SUFFICES ASSUME RecordTypeOK, [RecordNext]_recordVars
               PROVE  new = None \/ (old # None /\ new >= old)
    OBVIOUS
  <2>1. DOMAIN draft.picks \subseteq DOMAIN draft'.picks /\ DOMAIN draft'.picks \subseteq PickNumbers
    <3>1. DOMAIN draft.picks \subseteq PickNumbers
      BY DEF RecordTypeOK
    <3>2. CASE draft' = draft
      BY <3>1, <3>2
    <3>3. ASSUME NEW p \in ProviderPicks, p.no \in PickNumbers, draft' = WithPick(draft, p)
          PROVE  /\ DOMAIN draft.picks \subseteq DOMAIN draft'.picks
                 /\ DOMAIN draft'.picks \subseteq PickNumbers
      BY <3>1, <3>3 DEF WithPick
    <3> QED
      BY <3>2, <3>3, StepAddsAtMostOnePick
  <2>2. /\ open = {} => old = None
        /\ open # {} => old \in open /\ \A n \in open : old <= n
    BY <2>1, CurrentPickIsLeastOpen
  <2>3. /\ left = {} => new = None
        /\ left # {} => new \in left /\ \A n \in left : new <= n
    BY <2>1, CurrentPickIsLeastOpen
  <2>4. open \subseteq Nat \ {0} /\ left \subseteq open
    BY <2>1, GeometryIsNat DEF PickNumbers
  <2> HIDE DEF open, left, old, new
  <2>5. CASE left = {}
    BY <2>3, <2>5
  <2>6. CASE left # {}
    <3>1. new \in open /\ old \in open /\ old <= new
      BY <2>2, <2>3, <2>4, <2>6
    <3> QED
      BY <2>4, <3>1 DEF None
  <2> QED
    BY <2>5, <2>6
<1> QED
  BY <1>1, RecordTypeCorrect, PTL DEF RecordSpec, ClockMovesForward

-----------------------------------------------------------------------------
(* The order a batch arrives in *)

\* The invariant follows the loop through a batch.  Of the picks taken so far, those
\* that are free, the first of their player in the whole batch and legal are in the
\* record; none of them raised; and every free one has its player in the record, so
\* the record tells whether a pick still to come is the first of its player.
Taken == {batch[i] : i \in DOMAIN batch \ todo}

Counted ==
    {p \in Taken : Free(start.picks, p) /\ FirstOfPlayer(start.picks, Range(batch), p) /\ Legal(p)}

Halfway ==
    /\ \A i \in todo, j \in DOMAIN batch \ todo : batch[j].no < batch[i].no
    /\ draft.picks = WithPicks(start.picks, Counted)
    /\ \A q \in Taken : ~Raises(start.picks, Range(batch), q)
    /\ \A q \in Taken : Free(start.picks, q) => \E p \in Counted : p.player = q.player

CutShort ==
    /\ todo = {} /\ BatchRaises(start.picks, Range(batch))
    /\ draft.picks = WithPicks(start.picks, AppliedOf(start.picks, Range(batch)))

NumbersDiffer == \A i, j \in DOMAIN batch : batch[i].no = batch[j].no => i = j

OrderInv == NumbersDiffer => IF raised THEN CutShort ELSE Halfway

\* What WithPicks holds, when no two of the picks added have the same number.
LEMMA WithPicksHolds ==
    ASSUME NEW P, NEW A, \A p, q \in A : p.no = q.no => p = q
    PROVE  /\ DOMAIN WithPicks(P, A) = DOMAIN P \cup {p.no : p \in A}
           /\ \A n \in DOMAIN P : WithPicks(P, A)[n] = P[n]
           /\ \A p \in A : p.no \notin DOMAIN P => WithPicks(P, A)[p.no] = p
<1>1. ASSUME NEW p \in A, p.no \notin DOMAIN P
      PROVE  WithPicks(P, A)[p.no] = p
  <2>1. (CHOOSE q \in A : q.no = p.no) = p
    OBVIOUS
  <2> QED
    BY <1>1, <2>1 DEF WithPicks
<1> QED
  BY <1>1 DEF WithPicks

\* One step of the loop, at the pick with the lowest number of those left.
LEMMA StepKeepsOrder ==
    ASSUME RecordTypeOK, IndexesAgree, OrderInv, NumbersDiffer, ApplyNext, UNCHANGED start
    PROVE  OrderInv'
<1>1. PICK i \in todo :
        /\ \A j \in todo : Before(batch, i, j)
        /\ draft' = ApplyPick(draft, batch[i])
        /\ raised' = (Outcome(draft, batch[i]) = "RAISED")
        /\ todo' = IF raised' THEN {} ELSE todo \ {i}
        /\ batch' = batch
  BY DEF ApplyNext
<1> DEFINE p == batch[i]
           P == start.picks
           S == Range(batch)
           new == p.no \notin DOMAIN draft.picks /\ p.player \notin DOMAIN draft.owner
<1>2. Halfway
  BY <1>1 DEF OrderInv, CutShort
<1>3. /\ i \in DOMAIN batch /\ p \in S /\ Taken \subseteq S
      /\ \A j \in DOMAIN batch : batch[j].no \in Int
  <2>1. todo \subseteq DOMAIN batch /\ \A j \in DOMAIN batch : batch[j] \in ProviderPicks
    BY DEF RecordTypeOK
  <2> QED
    BY <1>1, <2>1, PickFields DEF Range, Taken
<1>4. \A j \in todo \ {i} : p.no < batch[j].no
  <2>1. todo \subseteq DOMAIN batch
    BY DEF RecordTypeOK
  <2> QED
    BY <1>1, <1>3, <2>1 DEF Before, NumbersDiffer
<1>5. \A q \in Taken : q.no < p.no
  BY <1>1, <1>2 DEF Halfway, Taken
<1>6. \A q \in S : q.no < p.no => q \in Taken
  <2> SUFFICES ASSUME NEW j \in DOMAIN batch, batch[j].no < p.no PROVE j \notin todo
    BY DEF Range, Taken
  <2> QED
    BY <1>3, <1>4
<1>7. \A q \in S : q \in Taken \/ q = p \/ p.no < q.no
  BY <1>4 DEF Range, Taken
<1>8. \A q, r \in S : q.no = r.no => q = r
  BY DEF Range, NumbersDiffer
<1>9. /\ Counted \subseteq S /\ \A q \in Counted : q.no \notin DOMAIN P
      /\ DOMAIN draft.picks = DOMAIN P \cup {q.no : q \in Counted}
      /\ \A n \in DOMAIN P : draft.picks[n] = P[n]
      /\ \A q \in Counted : draft.picks[q.no] = q
  <2>1. Counted \subseteq S /\ \A q \in Counted : q.no \notin DOMAIN P
    BY <1>3 DEF Counted, Free
  <2>2. \A q, r \in Counted : q.no = r.no => q = r
    BY <1>8, <2>1
  <2>3. draft.picks = WithPicks(P, Counted)
    BY <1>2 DEF Halfway
  <2> HIDE DEF P
  <2>4. /\ DOMAIN WithPicks(P, Counted) = DOMAIN P \cup {q.no : q \in Counted}
        /\ \A n \in DOMAIN P : WithPicks(P, Counted)[n] = P[n]
        /\ \A q \in Counted : q.no \notin DOMAIN P => WithPicks(P, Counted)[q.no] = q
    BY <2>2, WithPicksHolds
  <2> QED
    BY <2>1, <2>3, <2>4
<1>10. Free(P, p) /\ (\A q \in Counted : q.player # p.player) <=> new
  <2>1. p.player \in DOMAIN draft.owner
           <=> \E n \in DOMAIN draft.picks : draft.picks[n].player = p.player
    BY DEF IndexesAgree
  <2>2. \A q \in Counted : q.no # p.no
    BY <1>3, <1>5 DEF Counted
  <2> QED
    BY <1>9, <2>1, <2>2 DEF Free
<1>11. Free(P, p) => (FirstOfPlayer(P, S, p) <=> \A q \in Counted : q.player # p.player)
  <2> SUFFICES ASSUME Free(P, p)
               PROVE  FirstOfPlayer(P, S, p) <=> \A q \in Counted : q.player # p.player
    OBVIOUS
  <2>1. ASSUME FirstOfPlayer(P, S, p), NEW q \in Counted, q.player = p.player
        PROVE  FALSE
    <3>1. q \in S /\ q \in Taken /\ Free(P, q)
      BY <1>3 DEF Counted
    <3>2. q.no >= p.no /\ q.no < p.no
      BY <1>5, <2>1, <3>1 DEF FirstOfPlayer
    <3>3. q.no \in Int /\ p.no \in Int
      BY <1>3, <3>1 DEF Range
    <3> QED
      BY <3>2, <3>3
  <2>2. ASSUME \A q \in Counted : q.player # p.player,
               NEW q \in S, Free(P, q), q.player = p.player
        PROVE  q.no >= p.no
    <3>1. q \notin Taken
      BY <1>2, <2>2 DEF Halfway
    <3>2. q.no \in Int /\ p.no \in Int
      BY <1>3 DEF Range
    <3> QED
      BY <1>6, <3>1, <3>2
  <2> QED
    BY <2>1, <2>2 DEF FirstOfPlayer
<1>12. CASE ~new
  <2>1. Outcome(draft, p) \in {"DUPLICATE", "CONFLICT"}
    BY <1>12 DEF Outcome, Repeats, Clashes
  <2>2. draft' = draft /\ raised' = FALSE /\ todo' = todo \ {i}
    BY <1>1, <2>1 DEF ApplyPick
  <2>3. Taken' = Taken \cup {p}
    BY <1>1, <1>3, <2>2 DEF Taken, RecordTypeOK
  <2>4. ~(Free(P, p) /\ FirstOfPlayer(P, S, p))
    BY <1>10, <1>11, <1>12
  <2>5. Counted' = Counted
    BY <1>1, <2>3, <2>4 DEF Counted
  <2>6. Free(P, p) => \E q \in Counted : q.player = p.player
    BY <1>10, <1>12
  <2>7. \A k \in todo', j \in DOMAIN batch \ todo' : batch[j].no < batch[k].no
    BY <1>2, <1>4, <2>2 DEF Halfway
  <2>8. Halfway'
    BY <1>1, <1>2, <2>2, <2>3, <2>4, <2>5, <2>6, <2>7 DEF Halfway, Raises
  <2> QED
    BY <2>2, <2>8 DEF OrderInv
<1>13. CASE new /\ Legal(p)
  <2>1. Outcome(draft, p) = "APPLIED"
    BY <1>13 DEF Outcome, Repeats, Clashes
  <2>2. draft' = WithPick(draft, p) /\ raised' = FALSE /\ todo' = todo \ {i}
    BY <1>1, <2>1 DEF ApplyPick
  <2>3. Taken' = Taken \cup {p}
    BY <1>1, <1>3, <2>2 DEF Taken, RecordTypeOK
  <2>4. Free(P, p) /\ FirstOfPlayer(P, S, p)
    BY <1>10, <1>11, <1>13
  <2>5. Counted' = Counted \cup {p}
    BY <1>1, <1>13, <2>3, <2>4 DEF Counted
  <2>6. draft'.picks = WithPicks(P, Counted \cup {p})
    <3>1. /\ p.no \notin DOMAIN P
          /\ \A q, r \in Counted \cup {p} : q.no = r.no => q = r
          /\ \A q \in Counted \cup {p} : q.no \notin DOMAIN P
      BY <1>3, <1>8, <1>9, <2>4 DEF Free
    <3>2. draft'.picks = [n \in DOMAIN draft.picks \cup {p.no} |->
                             IF n = p.no THEN p ELSE draft.picks[n]]
      BY <2>2 DEF WithPick
    <3> DEFINE A == Counted \cup {p}
               W == WithPicks(P, A)
    <3>3. W = [n \in DOMAIN W |-> W[n]]
      BY DEF WithPicks
    <3>4. A = Counted \cup {p}
      OBVIOUS
    <3> HIDE DEF A, P, p
    <3>5. \A q, r \in A : q.no = r.no => q = r
      BY <3>1, <3>4
    <3>6. /\ DOMAIN W = DOMAIN P \cup {q.no : q \in A}
          /\ \A n \in DOMAIN P : W[n] = P[n]
          /\ \A q \in A : q.no \notin DOMAIN P => W[q.no] = q
      BY <3>5, WithPicksHolds
    <3> HIDE DEF W
    <3>7. DOMAIN W = DOMAIN draft.picks \cup {p.no}
      BY <1>9, <3>4, <3>6
    <3>8. \A n \in DOMAIN W : W[n] = IF n = p.no THEN p ELSE draft.picks[n]
      BY <1>9, <3>1, <3>4, <3>6
    <3>9. draft'.picks = W
      BY <3>2, <3>3, <3>7, <3>8
    <3> QED
      BY <3>4, <3>9 DEF W
  <2>7. \A k \in todo', j \in DOMAIN batch \ todo' : batch[j].no < batch[k].no
    BY <1>2, <1>4, <2>2 DEF Halfway
  <2>8. Halfway'
    BY <1>1, <1>2, <1>13, <2>2, <2>3, <2>5, <2>6, <2>7 DEF Halfway, Raises
  <2> QED
    BY <2>2, <2>8 DEF OrderInv
<1>14. CASE new /\ ~Legal(p)
  <2>1. Outcome(draft, p) = "RAISED"
    BY <1>14 DEF Outcome, Repeats, Clashes
  <2>2. draft' = draft /\ raised' = TRUE /\ todo' = {}
    BY <1>1, <2>1 DEF ApplyPick
  <2>3. Raises(P, S, p)
    BY <1>10, <1>11, <1>14 DEF Raises
  <2>4. AppliedOf(P, S) = Counted
    <3>1. ASSUME NEW q \in Counted
          PROVE  q \in AppliedOf(P, S)
      <4>1. q \in Taken /\ q \in S /\ Free(P, q) /\ FirstOfPlayer(P, S, q) /\ Legal(q)
        BY <1>3 DEF Counted
      <4>2. \A r \in S : r.no < q.no => r \in Taken
        <5> SUFFICES ASSUME NEW r \in S, r.no < q.no PROVE r \in Taken
          OBVIOUS
        <5>1. q.no < p.no /\ r.no \in Int /\ q.no \in Int /\ p.no \in Int
          BY <1>3, <1>5, <4>1 DEF Range
        <5> QED
          BY <1>6, <5>1
      <4> QED
        BY <1>2, <4>1, <4>2 DEF AppliedOf, Halfway
    <3>2. ASSUME NEW q \in AppliedOf(P, S)
          PROVE  q \in Counted
      <4>1. /\ q \in S /\ Free(P, q) /\ FirstOfPlayer(P, S, q) /\ Legal(q)
            /\ \A r \in S : r.no < q.no => ~Raises(P, S, r)
        BY DEF AppliedOf
      <4>2. q \in Taken
        BY <1>3, <1>7, <1>14, <2>3, <4>1
      <4> QED
        BY <4>1, <4>2 DEF Counted
    <3> QED
      BY <3>1, <3>2
  <2>5. CutShort'
    BY <1>1, <1>2, <1>3, <2>2, <2>3, <2>4 DEF CutShort, Halfway, BatchRaises
  <2> QED
    BY <2>2, <2>5 DEF OrderInv
<1> QED
  BY <1>12, <1>13, <1>14

\* A batch that has just arrived has nothing taken.
LEMMA ArrivalStartsTheLoop ==
    ASSUME RecordTypeOK, NEW b, ReceiveBatch(b), start' = draft
    PROVE  OrderInv'
<1>1. /\ todo' = DOMAIN batch' /\ raised' = FALSE /\ draft' = draft
      /\ start'.picks = draft.picks
  BY DEF ReceiveBatch
<1>2. Taken' = {} /\ Counted' = {}
  BY <1>1 DEF Taken, Counted
<1>3. draft.picks = WithPicks(draft.picks, {})
  BY DEF RecordTypeOK, WithPicks
<1> QED
  BY <1>1, <1>2, <1>3 DEF OrderInv, Halfway

\* A batch with as many numbers as picks has no number twice.
LEMMA CountedNumbersDiffer ==
    ASSUME RecordTypeOK, Cardinality({p.no : p \in Range(batch)}) = Len(batch)
    PROVE  NumbersDiffer
<1> DEFINE N == {p.no : p \in Range(batch)}
           f == [i \in 1..Len(batch) |-> batch[i].no]
<1>1. Len(batch) \in Nat /\ DOMAIN batch = 1..Len(batch)
  BY DEF RecordTypeOK
<1>2. IsFiniteSet(1..Len(batch)) /\ Cardinality(1..Len(batch)) = Len(batch)
  <2>1. ASSUME NEW n \in Nat
        PROVE  IsFiniteSet(1..n) /\ Cardinality(1..n) = n
    <3>1. /\ IsFiniteSet(1..n)
          /\ Cardinality(1..n) = IF 1 > n THEN 0 ELSE n - 1 + 1
      <4>1. 1 \in Int /\ n \in Int
        OBVIOUS
      <4> QED
        BY <4>1, FS_Interval
    <3> QED
      BY <3>1
  <2> QED
    BY <1>1, <2>1
<1>3. f \in Surjection(1..Len(batch), N)
  BY <1>1 DEF Surjection, Range
<1>4. f \in Injection(1..Len(batch), N)
  <2>1. Cardinality(1..Len(batch)) = Cardinality(N)
    BY <1>2
  <2> DEFINE I == 1..Len(batch)
  <2>2. IsFiniteSet(I) /\ Cardinality(N) = Cardinality(I) /\ f \in Surjection(I, N)
    BY <1>2, <1>3, <2>1
  <2> HIDE DEF f, N, I
  <2>3. f \in Injection(I, N)
    BY <2>2, FS_Surjection
  <2> QED
    BY <2>3 DEF I
<1> QED
  BY <1>1, <1>4 DEF Injection, IsInjective, NumbersDiffer

\* What apply_picks makes of a response depends on the picks in it and not on their
\* order, for every league, every history and batches of any length - those an
\* exception cuts short included.
THEOREM ArrivalOrderIrrelevantHolds == FollowedSpec => []ArrivalOrderIrrelevant
<1> DEFINE Inv == RecordTypeOK /\ IndexesAgree /\ OrderInv
<1>1. FollowedSpec => RecordSpec
  <2>1. FollowedInit => RecordInit
    BY DEF FollowedInit
  <2>2. [FollowedNext]_followedVars => [RecordNext]_recordVars
    BY DEF FollowedNext, RecordNext, followedVars
  <2> QED
    BY <2>1, <2>2, PTL DEF FollowedSpec, RecordSpec
<1>2. FollowedInit => OrderInv
  <2> SUFFICES ASSUME FollowedInit PROVE OrderInv
    OBVIOUS
  <2>1. /\ batch = <<>> /\ todo = {} /\ raised = FALSE
        /\ draft.picks = <<>> /\ start.picks = <<>>
    BY DEF FollowedInit, RecordInit, EmptyDraft
  <2>2. Taken = {} /\ Counted = {}
    BY <2>1 DEF Taken, Counted
  <2>3. WithPicks(<<>>, {}) = <<>>
    BY DEF WithPicks
  <2> QED
    BY <2>1, <2>2, <2>3 DEF OrderInv, Halfway
<1>3. RecordTypeOK /\ IndexesAgree /\ OrderInv /\ [FollowedNext]_followedVars => OrderInv'
  <2> SUFFICES ASSUME RecordTypeOK, IndexesAgree, OrderInv, [FollowedNext]_followedVars
               PROVE  OrderInv'
    OBVIOUS
  <2>1. CASE ApplyNext /\ UNCHANGED start
    <3>1. CASE NumbersDiffer
      BY <2>1, <3>1, StepKeepsOrder
    <3>2. CASE ~NumbersDiffer
      BY <2>1, <3>2 DEF OrderInv, NumbersDiffer, ApplyNext
    <3> QED
      BY <3>1, <3>2
  <2>2. ASSUME NEW b \in Batches, ReceiveBatch(b), start' = draft
        PROVE  OrderInv'
    BY <2>2, ArrivalStartsTheLoop
  <2>3. CASE UNCHANGED followedVars
    BY <2>3 DEF followedVars, recordVars, OrderInv, NumbersDiffer, CutShort, Halfway, Taken, Counted
  <2> QED
    BY <2>1, <2>2, <2>3 DEF FollowedNext
<1>4. RecordTypeOK /\ OrderInv => ArrivalOrderIrrelevant
  <2> SUFFICES ASSUME RecordTypeOK, OrderInv, todo = {},
                      Cardinality({p.no : p \in Range(batch)}) = Len(batch)
               PROVE  /\ draft.picks = WithPicks(start.picks, AppliedOf(start.picks, Range(batch)))
                      /\ raised = BatchRaises(start.picks, Range(batch))
    BY DEF ArrivalOrderIrrelevant
  <2>1. IF raised THEN CutShort ELSE Halfway
    BY CountedNumbersDiffer DEF OrderInv
  <2>2. CASE raised
    BY <2>1, <2>2 DEF CutShort, RecordTypeOK, BatchRaises
  <2>3. CASE ~raised
    <3>1. Taken = Range(batch)
      BY DEF Taken, Range
    <3>2. \A q \in Range(batch) : ~Raises(start.picks, Range(batch), q)
      BY <2>1, <2>3, <3>1 DEF Halfway
    <3>3. AppliedOf(start.picks, Range(batch)) = Counted
      BY <3>1, <3>2 DEF AppliedOf, Counted
    <3> QED
      BY <2>1, <2>3, <3>2, <3>3 DEF Halfway, BatchRaises, RecordTypeOK
  <2> QED
    BY <2>2, <2>3
<1> QED
  BY <1>1, <1>2, <1>3, <1>4, RecordTypeCorrect, IndexesAlwaysAgree, PTL DEF FollowedSpec

-----------------------------------------------------------------------------
(* The mock draft *)

LEMMA LaterRoundLaterPick ==
    ASSUME NEW L \in LeagueSettings, NEW s \in Seats(L),
           NEW q \in 1..L.rounds, NEW r \in 1..L.rounds, q < r
    PROVE  /\ PickNumber(L, s, q) < PickNumber(L, s, r)
           /\ r = q + 1 => PickNumber(L, s, r) - PickNumber(L, s, q) <= 2 * L.teams - 1
<1>1. L.teams \in Nat \ {0} /\ L.rounds \in Nat \ {0}
  BY TotalPicksIsNat
<1> DEFINE x == Place(L, s, q)
           y == Place(L, s, r)
<1>2. /\ x \in 1..L.teams /\ PickNumber(L, s, q) = (q - 1) * L.teams + x
      /\ y \in 1..L.teams /\ PickNumber(L, s, r) = (r - 1) * L.teams + y
  BY <1>1, PlaceIsASeat DEF Seats
<1> HIDE DEF x, y
<1>3. (q - 1) * L.teams + L.teams <= (r - 1) * L.teams
  <2>1. q - 1 \in Nat /\ r - 1 \in Nat /\ q - 1 < r - 1
    BY <1>1
  <2> QED
    BY <1>1, <2>1, WholeRounds
<1>4. (q - 1) * L.teams \in Int /\ (r - 1) * L.teams \in Int
  BY <1>1
<1>5. r = q + 1 => (r - 1) * L.teams = (q - 1) * L.teams + L.teams
  BY <1>1
<1> QED
  BY <1>1, <1>2, <1>3, <1>4, <1>5

\* What next_pick_for_slot returns: the seat's least pick after `after'.
LEMMA NextPickIsLeast ==
    ASSUME NEW L \in LeagueSettings, NEW s \in Seats(L), NEW after \in Nat
    PROVE  \/ /\ NextPickForSlot(L, s, after) = None
              /\ \A r \in 1..L.rounds : ~ (PickNumber(L, s, r) > after)
           \/ \E r \in 1..L.rounds :
                 /\ NextPickForSlot(L, s, after) = PickNumber(L, s, r)
                 /\ PickNumber(L, s, r) > after
                 /\ \A q \in 1..L.rounds : PickNumber(L, s, q) > after => r <= q
<1> DEFINE picks == PicksForSlot(L, s)
           later == {r \in DOMAIN picks : picks[r] > after}
<1>1. L.rounds \in Nat \ {0}
  BY TotalPicksIsNat
<1>2. /\ DOMAIN picks = 1..L.rounds
      /\ \A r \in 1..L.rounds : picks[r] = PickNumber(L, s, r)
  BY DEF PicksForSlot
<1>3. NextPickForSlot(L, s, after) = IF later = {} THEN None ELSE picks[Min(later)]
  BY DEF NextPickForSlot
<1> HIDE DEF picks
<1>4. CASE later = {}
  BY <1>2, <1>3, <1>4
<1>5. CASE later # {}
  <2>1. later \in SUBSET Nat
    BY <1>1, <1>2
  <2>2. Min(later) \in later /\ \A r \in later : Min(later) <= r
    <3> HIDE DEF later
    <3> QED
      BY <1>5, <2>1, MinOfNaturals
  <2>3. Min(later) \in 1..L.rounds /\ picks[Min(later)] > after
    BY <1>2, <2>2
  <2>4. \A q \in 1..L.rounds : PickNumber(L, s, q) > after => Min(later) <= q
    BY <1>2, <2>2
  <2> QED
    BY <1>2, <1>3, <1>5, <2>3, <2>4
<1> QED
  BY <1>4, <1>5

\* With n picks made a seat waits zero picks exactly when the next one is its own.
LEMMA TurnIsOwned ==
    ASSUME NEW L \in LeagueSettings, NEW s \in Seats(L), NEW n \in Nat
    PROVE  PicksUntilNextTurn(L, s, n + 1) = 0
              <=> \E r \in 1..L.rounds : PickNumber(L, s, r) = n + 1
<1> DEFINE next == NextPickForSlot(L, s, n)
<1>0. \A r \in 1..L.rounds : PickNumber(L, s, r) \in Nat
  <2>1. TotalPicks(L) \in Nat
    BY TotalPicksIsNat
  <2> QED
    BY <2>1, PickNumberIsInRange
<1>1. PicksUntilNextTurn(L, s, n + 1) = IF next = None THEN None ELSE next - (n + 1)
  <2>1. (n + 1) - 1 = n
    OBVIOUS
  <2> QED
    BY <2>1 DEF PicksUntilNextTurn
<1>2. CASE next = None /\ \A r \in 1..L.rounds : ~ (PickNumber(L, s, r) > n)
  BY <1>0, <1>1, <1>2 DEF None
<1>3. ASSUME NEW r \in 1..L.rounds,
             next = PickNumber(L, s, r), PickNumber(L, s, r) > n,
             \A q \in 1..L.rounds : PickNumber(L, s, q) > n => r <= q
      PROVE  PicksUntilNextTurn(L, s, n + 1) = 0
                <=> \E q \in 1..L.rounds : PickNumber(L, s, q) = n + 1
  <2>0. next \in Nat /\ next # None /\ PicksUntilNextTurn(L, s, n + 1) = next - (n + 1)
    BY <1>0, <1>1, <1>3 DEF None
  <2>1. ASSUME NEW q \in 1..L.rounds, PickNumber(L, s, q) = n + 1
        PROVE  PickNumber(L, s, r) = n + 1
    <3>1. r <= q /\ L.rounds \in Nat
      BY <1>3, <2>1, TotalPicksIsNat
    <3>2. r < q => PickNumber(L, s, r) < PickNumber(L, s, q)
      BY LaterRoundLaterPick
    <3> QED
      BY <1>0, <1>3, <2>1, <3>1, <3>2
  <2>2. next = n + 1 <=> next - (n + 1) = 0
    BY <2>0
  <2> QED
    BY <1>3, <2>0, <2>1, <2>2
<1> QED
  BY <1>2, <1>3, NextPickIsLeast

\* The two ways to ask whose turn it is agree, before every pick and at the end.
LEMMA WaitAgreesWithClock ==
    ASSUME NEW L \in LeagueSettings, NEW s \in Seats(L), NEW n \in 0..TotalPicks(L)
    PROVE  PicksUntilNextTurn(L, s, n + 1) = 0
              <=> n < TotalPicks(L) /\ SlotOnTheClock(L, n + 1) = s
<1>1. TotalPicks(L) \in Nat /\ n \in Nat
  BY TotalPicksIsNat
<1>2. CASE n < TotalPicks(L)
  <2>1. n + 1 \in 1..TotalPicks(L)
    BY <1>1, <1>2
  <2>2. RoundOf(L, n + 1) \in 1..L.rounds
    BY <2>1, EveryPickIsOwned
  <2>3. \A r \in 1..L.rounds :
           PickNumber(L, s, r) = n + 1 <=> s = SlotOnTheClock(L, n + 1) /\ r = RoundOf(L, n + 1)
    BY <2>1, ClockFindsTheOwner
  <2> QED
    BY <1>1, <1>2, <2>2, <2>3, TurnIsOwned
<1>3. CASE ~ (n < TotalPicks(L))
  <2>1. \A r \in 1..L.rounds : PickNumber(L, s, r) # n + 1
    BY <1>1, <1>3, PickNumberIsInRange
  <2> QED
    BY <1>1, <1>3, <2>1, TurnIsOwned
<1> QED
  BY <1>2, <1>3

-----------------------------------------------------------------------------
LEMMA LeagueFacts ==
    ASSUME league \in Leagues
    PROVE  /\ league \in LeagueSettings
           /\ TotalPicks(league) \in Nat \ {0}
           /\ league.teams \in Nat \ {0} /\ league.rounds \in Nat \ {0}
<1>1. league \in LeagueSettings
  BY LeaguesAssumption
<1> QED
  BY <1>1, TotalPicksIsNat

\* Where an advance stops, and that nothing stopped it before.
LEMMA StopsThere ==
    ASSUME MockTypeOK, NEW k \in Nat
    PROVE  /\ Len(made) \in Nat /\ TotalPicks(league) \in Nat
           /\ StopsAt(k) \in Nat /\ Len(made) <= StopsAt(k) /\ StopsAt(k) <= TotalPicks(league)
           /\ \A n \in Nat : Len(made) <= n /\ n < StopsAt(k) => ~ OverAt(n) /\ ~ UserAt(n)
           /\ \/ StopsAt(k) = Len(made) + k
              \/ OverAt(StopsAt(k)) \/ UserAt(StopsAt(k)) \/ EmptyAt(StopsAt(k))
<1> DEFINE S == {n \in Len(made)..(Len(made) + k) :
                    n = Len(made) + k \/ OverAt(n) \/ UserAt(n) \/ EmptyAt(n)}
<1>1. /\ Len(made) \in Nat /\ TotalPicks(league) \in Nat
      /\ Len(made) <= TotalPicks(league)
  BY LeagueFacts DEF MockTypeOK
<1>2. S \in SUBSET Nat
  BY <1>1
<1>3. Len(made) + k \in S
  BY <1>1
<1>4. Min(S) \in S /\ \A n \in S : Min(S) <= n
  <2>1. S # {}
    BY <1>3
  <2> HIDE DEF S
  <2> QED
    BY <1>2, <2>1, MinOfNaturals
<1>5. StopsAt(k) = Min(S)
  BY DEF StopsAt
<1> HIDE DEF S
<1>6. StopsAt(k) \in Nat /\ StopsAt(k) \in S /\ \A n \in S : StopsAt(k) <= n
  BY <1>2, <1>4, <1>5
<1>7. StopsAt(k) \in Len(made)..(Len(made) + k)
  BY <1>6 DEF S
<1>8. StopsAt(k) <= TotalPicks(league)
  <2>1. CASE TotalPicks(league) <= Len(made) + k
    <3>1. TotalPicks(league) \in S
      BY <1>1, <2>1 DEF S, OverAt
    <3> QED
      BY <1>6, <3>1
  <2>2. CASE ~ (TotalPicks(league) <= Len(made) + k)
    BY <1>1, <1>7, <2>2
  <2> QED
    BY <2>1, <2>2
<1>9. ASSUME NEW n \in Nat, Len(made) <= n, n < StopsAt(k)
      PROVE  ~ OverAt(n) /\ ~ UserAt(n)
  <2>1. n \notin S /\ n \in Len(made)..(Len(made) + k)
    BY <1>1, <1>6, <1>7, <1>9
  <2> QED
    BY <2>1 DEF S
<1>10. \/ StopsAt(k) = Len(made) + k
       \/ OverAt(StopsAt(k)) \/ UserAt(StopsAt(k)) \/ EmptyAt(StopsAt(k))
  BY <1>6 DEF S
<1> QED
  BY <1>1, <1>7, <1>8, <1>9, <1>10

\* The pick a computer or the user makes is its owner's.
LEMMA PickIsItsOwners ==
    ASSUME league \in Leagues, NEW n \in 1..TotalPicks(league), NEW who \in {"computer", "user"}
    PROVE  /\ Pick(n, who) \in [slot : Seats(league), by : {"computer", "user"}]
           /\ Pick(n, who).by = who
           /\ \E r \in 1..league.rounds : PickNumber(league, Pick(n, who).slot, r) = n
<1>1. SlotOnTheClock(league, n) \in Seats(league) /\ RoundOf(league, n) \in 1..league.rounds
  BY LeagueFacts, ClockFindsTheOwner, EveryPickIsOwned
<1>2. PickNumber(league, SlotOnTheClock(league, n), RoundOf(league, n)) = n
  BY <1>1, LeagueFacts, ClockFindsTheOwner
<1> QED
  BY <1>1, <1>2 DEF Pick

\* The user is on the clock exactly when the search for the owner finds his seat.
LEMMA UserAtIsHisSeat ==
    ASSUME MockTypeOK, NEW n \in 0..TotalPicks(league)
    PROVE  UserAt(n) <=> ~ OverAt(n) /\ SlotOnTheClock(league, n + 1) = seat
<1>1. league \in LeagueSettings /\ TotalPicks(league) \in Nat /\ seat \in Seats(league)
  BY LeagueFacts DEF MockTypeOK
<1> QED
  BY <1>1, WaitAgreesWithClock DEF UserAt, OverAt

\* What an advance appends.
LEMMA AdvanceAppends ==
    ASSUME MockTypeOK, NEW k \in 1..MaxAdvance, Advance(k)
    PROVE  /\ made' \in Seq([slot : Seats(league), by : {"computer", "user"}])
           /\ Len(made') = StopsAt(k)
           /\ \A n \in 1..Len(made) : made'[n] = made[n]
           /\ \A n \in (Len(made) + 1)..StopsAt(k) : made'[n] = Pick(n, "computer")
<1> DEFINE P == [slot : Seats(league), by : {"computer", "user"}]
           d == StopsAt(k) - Len(made)
           new == [i \in 1..d |-> Pick(Len(made) + i, "computer")]
<1>1. /\ league \in Leagues /\ TotalPicks(league) \in Nat
      /\ made \in Seq(P) /\ Len(made) \in Nat
      /\ StopsAt(k) \in Nat /\ d \in Nat
      /\ StopsAt(k) <= TotalPicks(league) /\ Len(made) <= StopsAt(k)
  <2>1. k \in Nat
    BY NumbersAssumption
  <2>2. /\ Len(made) \in Nat /\ TotalPicks(league) \in Nat
        /\ StopsAt(k) \in Nat /\ Len(made) <= StopsAt(k) /\ StopsAt(k) <= TotalPicks(league)
    BY <2>1, StopsThere
  <2> QED
    BY <2>2 DEF MockTypeOK
<1>2. made' = made \o new
  BY DEF Advance
<1>3. new \in Seq(P)
  <2>1. ASSUME NEW i \in 1..d PROVE Pick(Len(made) + i, "computer") \in P
    <3>1. Len(made) + i \in 1..TotalPicks(league)
      BY <1>1
    <3> QED
      BY <1>1, <3>1, PickIsItsOwners
  <2>2. new \in [1..d -> P]
    <3> HIDE DEF P
    <3> QED
      BY <2>1
  <2> HIDE DEF new, P, d
  <2> QED
    BY <1>1, <2>2, SeqDef
<1>4. Len(new) = d
  BY <1>1
<1>5. \A i \in 1..d : new[i] = Pick(Len(made) + i, "computer")
  OBVIOUS
<1> HIDE DEF new, P
<1>6. made \o new \in Seq(P) /\ Len(made \o new) = Len(made) + d
  BY <1>1, <1>3, <1>4
<1>7. \A n \in 1..Len(made) : (made \o new)[n] = made[n]
  BY <1>1, <1>3
<1>8. ASSUME NEW n \in (Len(made) + 1)..StopsAt(k)
      PROVE  (made \o new)[n] = Pick(n, "computer")
  <2>1. n - Len(made) \in 1..d /\ Len(made) + (n - Len(made)) = n
    BY <1>1, <1>8
  <2>2. (made \o new)[n] = new[n - Len(made)]
    BY <1>1, <1>3, <1>4, <1>8
  <2> QED
    BY <1>5, <2>1, <2>2
<1> QED
  BY <1>1, <1>2, <1>6, <1>7, <1>8 DEF P

\* Every variable of a mock draft keeps its type; the draft is never overfull.
THEOREM MockTypeCorrect == MockSpec => []MockTypeOK
<1>1. MockInit => MockTypeOK
  <2> SUFFICES ASSUME MockInit PROVE MockTypeOK
    OBVIOUS
  <2>1. TotalPicks(league) \in Nat
    BY LeagueFacts DEF MockInit
  <2> QED
    BY <2>1, NumbersAssumption DEF MockInit, MockTypeOK
<1>2. ASSUME MockTypeOK, [MockNext]_mockVars PROVE MockTypeOK'
  <2>0. /\ Len(made) \in Nat /\ TotalPicks(league) \in Nat /\ MaxResets \in Nat
        /\ MaxAdvance \in Nat
    BY <1>2, LeagueFacts, NumbersAssumption DEF MockTypeOK
  <2>1. ASSUME NEW k \in 1..MaxAdvance, Advance(k) PROVE MockTypeOK'
    <3>1. k \in Nat
      BY <2>0
    <3>2. StopsAt(k) \in Nat /\ Len(made) <= StopsAt(k) /\ StopsAt(k) <= TotalPicks(league)
      BY <1>2, <3>1, StopsThere
    <3>3. UNCHANGED <<created, resets>>
      BY <2>1 DEF Advance
    <3>4. /\ made' \in Seq([slot : Seats(league), by : {"computer", "user"}])
          /\ Len(made') = StopsAt(k)
      BY <1>2, <2>1, AdvanceAppends
    <3>5. draws' \in Nat
      BY <1>2, <2>0, <2>1, <3>2 DEF Advance, MockTypeOK
    <3>6. told' \subseteq 1..StopsAt(k)
      <4>1. told' \subseteq told \cup ((Len(made) + 1)..StopsAt(k))
        BY <2>1 DEF Advance
      <4>2. told \subseteq 1..Len(made)
        BY <1>2 DEF MockTypeOK
      <4> QED
        BY <2>0, <3>2, <4>1, <4>2
    <3> QED
      BY <1>2, <3>2, <3>3, <3>4, <3>5, <3>6 DEF MockTypeOK, created
  <2>2. CASE UserPicks
    <3>1. Len(made) < TotalPicks(league)
      BY <2>0, <2>2 DEF UserPicks, UserAt, OverAt
    <3>2. Pick(Len(made) + 1, "user") \in [slot : Seats(league), by : {"computer", "user"}]
      <4>1. league \in Leagues /\ Len(made) + 1 \in 1..TotalPicks(league)
        BY <1>2, <2>0, <3>1 DEF MockTypeOK
      <4> QED
        BY <4>1, PickIsItsOwners
    <3>3. /\ made' = Append(made, Pick(Len(made) + 1, "user"))
          /\ told' = told \cup {Len(made) + 1}
          /\ UNCHANGED <<created, draws, resets>>
      BY <2>2 DEF UserPicks
    <3>4. /\ made' \in Seq([slot : Seats(league), by : {"computer", "user"}])
          /\ Len(made') = Len(made) + 1
      <4> DEFINE P == [slot : Seats(league), by : {"computer", "user"}]
                 p == Pick(Len(made) + 1, "user")
      <4>1. made \in Seq(P) /\ p \in P /\ made' = Append(made, p)
        BY <1>2, <3>2, <3>3 DEF MockTypeOK
      <4> HIDE DEF P, p
      <4>2. made' \in Seq(P) /\ Len(made') = Len(made) + 1
        BY <4>1
      <4> QED
        BY <4>2 DEF P
    <3>5. told' \subseteq 1..(Len(made) + 1)
      <4>1. told \subseteq 1..Len(made)
        BY <1>2 DEF MockTypeOK
      <4>2. told' = told \cup {Len(made) + 1}
        BY <3>3
      <4>3. 1..Len(made) \subseteq 1..(Len(made) + 1)
        BY <2>0
      <4>4. Len(made) + 1 \in 1..(Len(made) + 1)
        BY <2>0
      <4> QED
        BY <4>1, <4>2, <4>3, <4>4, Zenon
    <3> QED
      BY <1>2, <2>0, <3>1, <3>3, <3>4, <3>5 DEF MockTypeOK, created
  <2>3. CASE Reset
    BY <1>2, <2>0, <2>3 DEF Reset, Reseeded, MockTypeOK, created
  <2>4. CASE UNCHANGED mockVars
    BY <1>2, <2>4 DEF MockTypeOK, mockVars, created
  <2> QED
    BY <1>2, <2>1, <2>2, <2>3, <2>4 DEF MockNext
<1> QED
  BY <1>1, <1>2, PTL DEF MockSpec

\* "0 picks until your turn" is said to the owner of the current pick and to nobody
\* else, whatever the league.
THEOREM TurnMeansOnTheClockHolds == MockSpec => []TurnMeansOnTheClock
<1>1. MockTypeOK => TurnMeansOnTheClock
  <2> SUFFICES ASSUME MockTypeOK, NEW s \in Seats(league)
               PROVE  PicksUntilNextTurn(league, s, Len(made) + 1) = 0
                         <=> ~OverAt(Len(made)) /\ SlotOnTheClock(league, Len(made) + 1) = s
    BY DEF TurnMeansOnTheClock
  <2>1. /\ league \in LeagueSettings /\ TotalPicks(league) \in Nat
        /\ Len(made) \in 0..TotalPicks(league)
    BY LeagueFacts DEF MockTypeOK
  <2> QED
    BY <2>1, WaitAgreesWithClock DEF OverAt
<1> QED
  BY <1>1, MockTypeCorrect, PTL

\* No seat with a pick left waits for more than two rounds less two picks.
THEOREM WaitIsBoundedHolds == MockSpec => []WaitIsBounded
<1>1. ASSUME MockTypeOK, NEW s \in Seats(league)
      PROVE  IF \E r \in 1..league.rounds : PickNumber(league, s, r) > Len(made)
             THEN PicksUntilNextTurn(league, s, Len(made) + 1) \in 0..(2 * league.teams - 2)
             ELSE PicksUntilNextTurn(league, s, Len(made) + 1) = None
  <2> DEFINE n == Len(made)
             next == NextPickForSlot(league, s, n)
  <2>0. /\ league \in LeagueSettings /\ n \in Nat
        /\ league.teams \in Nat \ {0} /\ league.rounds \in Nat \ {0}
    BY <1>1, LeagueFacts DEF MockTypeOK
  <2>1. PicksUntilNextTurn(league, s, n + 1) = IF next = None THEN None ELSE next - (n + 1)
    <3>1. (n + 1) - 1 = n
      BY <2>0
    <3> QED
      BY <3>1 DEF PicksUntilNextTurn
  <2>2. CASE next = None /\ \A r \in 1..league.rounds : ~ (PickNumber(league, s, r) > n)
    BY <2>1, <2>2
  <2>3. ASSUME NEW r \in 1..league.rounds,
               next = PickNumber(league, s, r), PickNumber(league, s, r) > n,
               \A q \in 1..league.rounds : PickNumber(league, s, q) > n => r <= q
        PROVE  next # None /\ next - (n + 1) \in 0..(2 * league.teams - 2)
    <3>1. next \in Nat /\ next > n
      <4>1. TotalPicks(league) \in Nat
        BY <2>0, TotalPicksIsNat
      <4> QED
        BY <2>0, <2>3, <4>1, PickNumberIsInRange
    <3>2. CASE r = 1
      <4>1. /\ Place(league, s, 1) \in 1..league.teams
            /\ next = (1 - 1) * league.teams + Place(league, s, 1)
        BY <2>0, <2>3, <3>2, PlaceIsASeat DEF Seats
      <4>2. next <= league.teams
        BY <2>0, <4>1
      <4> QED
        BY <2>0, <3>1, <4>2 DEF None
    <3>3. CASE r # 1
      <4>1. r - 1 \in 1..league.rounds /\ r - 1 < r /\ r = (r - 1) + 1
        BY <2>0, <3>3
      <4>2. /\ PickNumber(league, s, r - 1) < next
            /\ next - PickNumber(league, s, r - 1) <= 2 * league.teams - 1
        BY <2>0, <2>3, <4>1, LaterRoundLaterPick
      <4>3. PickNumber(league, s, r - 1) \in Nat
        <5>1. TotalPicks(league) \in Nat
          BY <2>0, TotalPicksIsNat
        <5> QED
          BY <2>0, <4>1, <5>1, PickNumberIsInRange
      <4>4. PickNumber(league, s, r - 1) <= n
        BY <2>0, <2>3, <4>1, <4>3
      <4>5. next <= n + 2 * league.teams - 1
        <5> HIDE DEF next, n
        <5> QED
          BY <2>0, <3>1, <4>2, <4>3, <4>4
      <4> HIDE DEF next, n
      <4> QED
        BY <2>0, <3>1, <4>5 DEF None
    <3> QED
      BY <3>2, <3>3
  <2> QED
    BY <2>0, <2>1, <2>2, <2>3, NextPickIsLeast
<1>2. MockTypeOK => WaitIsBounded
  BY <1>1 DEF WaitIsBounded
<1> QED
  BY <1>2, MockTypeCorrect, PTL

-----------------------------------------------------------------------------
\* The computer never picks for the user, nor the user for anybody else, and every
\* pick is made for the seat pick_number gives it to.
THEOREM OnlyTheUserPicksForTheUserHolds == MockSpec => []OnlyTheUserPicksForTheUser
<1> DEFINE Right(p, n) == /\ p.by = "user" <=> p.slot = seat
                          /\ \E r \in 1..league.rounds : PickNumber(league, p.slot, r) = n
<1>1. MockInit => OnlyTheUserPicksForTheUser
  <2> SUFFICES ASSUME made = <<>> PROVE OnlyTheUserPicksForTheUser
    BY DEF MockInit
  <2>1. Len(made) = 0
    OBVIOUS
  <2> QED
    BY <2>1 DEF OnlyTheUserPicksForTheUser
<1>2. ASSUME MockTypeOK, MockTypeOK', OnlyTheUserPicksForTheUser, [MockNext]_mockVars
      PROVE  OnlyTheUserPicksForTheUser'
  <2>0. /\ Len(made) \in Nat /\ TotalPicks(league) \in Nat /\ MaxAdvance \in Nat
        /\ league \in Leagues
        /\ \A n \in 1..Len(made) : Right(made[n], n)
    BY <1>2, LeagueFacts, NumbersAssumption DEF MockTypeOK, OnlyTheUserPicksForTheUser
  <2>1. ASSUME NEW k \in 1..MaxAdvance, Advance(k) PROVE OnlyTheUserPicksForTheUser'
    <3>1. /\ Len(made') = StopsAt(k)
          /\ \A n \in 1..Len(made) : made'[n] = made[n]
          /\ \A n \in (Len(made) + 1)..StopsAt(k) : made'[n] = Pick(n, "computer")
      BY <1>2, <2>1, AdvanceAppends
    <3>2. /\ StopsAt(k) \in Nat /\ Len(made) <= StopsAt(k) /\ StopsAt(k) <= TotalPicks(league)
          /\ \A n \in Nat : Len(made) <= n /\ n < StopsAt(k) => ~ OverAt(n) /\ ~ UserAt(n)
      <4>1. k \in Nat
        BY <2>0
      <4> QED
        BY <1>2, <4>1, StopsThere
    <3>3. league' = league /\ seat' = seat
      BY <2>1 DEF Advance, created
    <3>4. ASSUME NEW n \in (Len(made) + 1)..StopsAt(k) PROVE Right(Pick(n, "computer"), n)
      <4>1. n \in 1..TotalPicks(league) /\ n - 1 \in 0..TotalPicks(league) /\ (n - 1) + 1 = n
        BY <2>0, <3>2
      <4>2. ~ OverAt(n - 1) /\ ~ UserAt(n - 1)
        BY <2>0, <3>2
      <4>3. SlotOnTheClock(league, n) # seat
        BY <1>2, <4>1, <4>2, UserAtIsHisSeat
      <4>4. Pick(n, "computer").slot # seat /\ Pick(n, "computer").by # "user"
        BY <4>3 DEF Pick
      <4>5. \E r \in 1..league.rounds : PickNumber(league, Pick(n, "computer").slot, r) = n
        BY <2>0, <4>1, PickIsItsOwners
      <4> QED
        BY <4>4, <4>5
    <3> HIDE DEF Right
    <3>5. ASSUME NEW n \in 1..Len(made') PROVE Right(made'[n], n)
      <4>1. n \in 1..Len(made) \/ n \in (Len(made) + 1)..StopsAt(k)
        BY <2>0, <3>1, <3>2
      <4> QED
        BY <2>0, <3>1, <3>4, <4>1
    <3> QED
      BY <3>3, <3>5 DEF Right, OnlyTheUserPicksForTheUser
  <2>2. CASE UserPicks
    <3> DEFINE p == Pick(Len(made) + 1, "user")
    <3>1. /\ UserAt(Len(made)) /\ Len(made) < TotalPicks(league)
      BY <2>0, <2>2 DEF UserPicks, UserAt, OverAt
    <3>2. /\ league' = league /\ seat' = seat
          /\ made' = Append(made, p)
      BY <2>2 DEF UserPicks, created
    <3>3. Right(p, Len(made) + 1)
      <4>1. Len(made) + 1 \in 1..TotalPicks(league) /\ Len(made) \in 0..TotalPicks(league)
        BY <2>0, <3>1
      <4>2. SlotOnTheClock(league, Len(made) + 1) = seat
        BY <1>2, <3>1, <4>1, UserAtIsHisSeat
      <4>3. p.slot = seat /\ p.by = "user"
        BY <4>2 DEF Pick
      <4>4. \E r \in 1..league.rounds : PickNumber(league, p.slot, r) = Len(made) + 1
        BY <2>0, <4>1, PickIsItsOwners
      <4> QED
        BY <4>3, <4>4
    <3> HIDE DEF Right, p
    <3>4. /\ Len(made') = Len(made) + 1
          /\ \A n \in 1..Len(made) : made'[n] = made[n]
          /\ made'[Len(made) + 1] = p
      <4>1. made \in Seq([slot : Seats(league), by : {"computer", "user"}])
        BY <1>2 DEF MockTypeOK
      <4> QED
        BY <3>2, <4>1
    <3>5. ASSUME NEW n \in 1..Len(made') PROVE Right(made'[n], n)
      <4>1. n \in 1..Len(made) \/ n = Len(made) + 1
        BY <2>0, <3>4
      <4> QED
        BY <2>0, <3>3, <3>4, <4>1
    <3> QED
      BY <3>2, <3>5 DEF Right, OnlyTheUserPicksForTheUser
  <2>3. CASE Reset
    <3>1. made' = <<>>
      BY <2>3 DEF Reset
    <3>2. Len(made') = 0
      BY <3>1
    <3> QED
      BY <3>2 DEF OnlyTheUserPicksForTheUser
  <2>4. CASE UNCHANGED mockVars
    BY <1>2, <2>4 DEF OnlyTheUserPicksForTheUser, mockVars, created
  <2> QED
    BY <1>2, <2>1, <2>2, <2>3, <2>4 DEF MockNext
<1> QED
  BY <1>1, <1>2, MockTypeCorrect, PTL DEF MockSpec

\* The generator is where the computers' picks on the board have brought it, so the
\* same seed and the same picks of the user give the same draft.
THEOREM SameSeedSameDraftHolds == MockSpec => []SameSeedSameDraft
<1> DEFINE Computers(m, n) == {i \in 1..n : m[i].by = "computer"}
<1>0. \A m : \A n \in Nat : IsFiniteSet(Computers(m, n)) /\ Cardinality(Computers(m, n)) \in Nat
  <2> SUFFICES ASSUME NEW m, NEW n \in Nat
               PROVE  IsFiniteSet(Computers(m, n)) /\ Cardinality(Computers(m, n)) \in Nat
    OBVIOUS
  <2>1. IsFiniteSet(1..n) /\ Computers(m, n) \subseteq 1..n
    BY FS_Interval
  <2>2. IsFiniteSet(Computers(m, n))
    BY <2>1, FS_Subset
  <2> QED
    BY <2>2, FS_CardinalityType
<1>1. MockInit => SameSeedSameDraft
  <2> SUFFICES ASSUME made = <<>>, draws = 0 PROVE SameSeedSameDraft
    BY DEF MockInit
  <2>1. Computers(made, Len(made)) = {}
    OBVIOUS
  <2> QED
    BY <2>1, FS_EmptySet DEF SameSeedSameDraft
<1>2. ASSUME MockTypeOK, SameSeedSameDraft, [MockNext]_mockVars PROVE SameSeedSameDraft'
  <2>0. /\ Len(made) \in Nat /\ MaxAdvance \in Nat
        /\ draws = Cardinality(Computers(made, Len(made)))
    BY <1>2, NumbersAssumption DEF MockTypeOK, SameSeedSameDraft
  <2>1. ASSUME NEW k \in 1..MaxAdvance, Advance(k) PROVE SameSeedSameDraft'
    <3> DEFINE old == Computers(made, Len(made))
               new == (Len(made) + 1)..StopsAt(k)
    <3>1. /\ Len(made') = StopsAt(k)
          /\ \A n \in 1..Len(made) : made'[n] = made[n]
          /\ \A n \in new : made'[n].by = "computer"
      <4>1. \A n : Pick(n, "computer").by = "computer"
        BY DEF Pick
      <4> QED
        BY <1>2, <2>1, <4>1, AdvanceAppends
    <3>2. StopsAt(k) \in Nat /\ Len(made) <= StopsAt(k)
      <4>1. k \in Nat
        BY <2>0
      <4> QED
        BY <1>2, <4>1, StopsThere
    <3>3. Computers(made', Len(made')) = old \cup new
      BY <2>0, <3>1, <3>2
    <3>4. old \cap new = {}
      BY <2>0, <3>2
    <3>5. IsFiniteSet(new) /\ Cardinality(new) = StopsAt(k) - Len(made)
      <4>1. Len(made) + 1 \in Int /\ StopsAt(k) \in Int
        BY <2>0, <3>2
      <4>2. /\ IsFiniteSet(new)
            /\ Cardinality(new) = IF Len(made) + 1 > StopsAt(k) THEN 0
                                  ELSE StopsAt(k) - (Len(made) + 1) + 1
        BY <4>1, FS_Interval
      <4> QED
        BY <2>0, <3>2, <4>2
    <3>6. IsFiniteSet(old) /\ Cardinality(old) \in Nat
      BY <1>0, <2>0
    <3> HIDE DEF old, new
    <3>7. Cardinality(old \cup new) = Cardinality(old) + Cardinality(new)
      <4>1. Cardinality(old \cup new)
               = Cardinality(old) + Cardinality(new) - Cardinality(old \cap new)
        BY <3>5, <3>6, FS_Union
      <4>2. Cardinality(old \cap new) = 0
        BY <3>4, FS_EmptySet
      <4>3. Cardinality(new) \in Nat
        BY <3>5, FS_CardinalityType
      <4> QED
        BY <3>6, <4>1, <4>2, <4>3
    <3>8. draws' = draws + (StopsAt(k) - Len(made))
      BY <2>1 DEF Advance
    <3>9. draws' = Cardinality(old \cup new)
      BY <2>0, <3>5, <3>7, <3>8 DEF old
    <3> QED
      BY <3>3, <3>9 DEF SameSeedSameDraft
  <2>2. CASE UserPicks
    <3>1. made' = Append(made, Pick(Len(made) + 1, "user")) /\ draws' = draws
      BY <2>2 DEF UserPicks
    <3>2. /\ Len(made') = Len(made) + 1
          /\ \A n \in 1..Len(made) : made'[n] = made[n]
          /\ made'[Len(made) + 1] = Pick(Len(made) + 1, "user")
      <4>1. made \in Seq([slot : Seats(league), by : {"computer", "user"}])
        BY <1>2 DEF MockTypeOK
      <4> QED
        BY <3>1, <4>1
    <3>3. made'[Len(made) + 1].by # "computer"
      BY <3>2 DEF Pick
    <3>4. Computers(made', Len(made')) = Computers(made, Len(made))
      BY <2>0, <3>2, <3>3
    <3> QED
      BY <2>0, <3>1, <3>4 DEF SameSeedSameDraft
  <2>3. CASE Reset
    <3>1. made' = <<>> /\ draws' = 0
      BY <2>3 DEF Reset, Reseeded
    <3>2. Computers(made', Len(made')) = {}
      BY <3>1
    <3> QED
      BY <3>1, <3>2, FS_EmptySet DEF SameSeedSameDraft
  <2>4. CASE UNCHANGED mockVars
    BY <1>2, <2>4 DEF SameSeedSameDraft, mockVars
  <2> QED
    BY <1>2, <2>1, <2>2, <2>3, <2>4 DEF MockNext
<1> QED
  BY <1>1, <1>2, MockTypeCorrect, PTL DEF MockSpec

\* With a pool for the whole draft no advance ends in the exception that leaves its
\* picks untold: what stops it early is the end of the draft or the user's turn.
LEMMA FullPoolNeverRaises ==
    ASSUME MockTypeOK, NEW k \in Nat, pool >= TotalPicks(league)
    PROVE  ~ AdvanceRaises(k)
<1> SUFFICES ASSUME AdvanceRaises(k) PROVE FALSE
  OBVIOUS
<1>1. /\ StopsAt(k) < Len(made) + k /\ ~ OverAt(StopsAt(k)) /\ ~ UserAt(StopsAt(k))
      /\ StopsAt(k) \in Nat /\ TotalPicks(league) \in Nat /\ Len(made) \in Nat
      /\ EmptyAt(StopsAt(k))
  BY StopsThere DEF AdvanceRaises
<1>2. pool \in Nat
  BY NumbersAssumption DEF MockTypeOK
<1> QED
  BY <1>1, <1>2 DEF EmptyAt, OverAt

\* A client of the stream is told of every pick on the board, through advances of any
\* length, the user's picks and resets, while the pool lasts for the whole draft.
THEOREM EveryPickIsToldUnlessDryHolds == MockSpec => []EveryPickIsToldUnlessDry
<1>1. MockInit => EveryPickIsToldUnlessDry
  <2> SUFFICES ASSUME made = <<>>, told = {} PROVE told = 1..Len(made)
    BY DEF MockInit, EveryPickIsToldUnlessDry
  <2> QED
    OBVIOUS
<1>2. ASSUME MockTypeOK, EveryPickIsToldUnlessDry, [MockNext]_mockVars
      PROVE  EveryPickIsToldUnlessDry'
  <2> SUFFICES ASSUME pool' >= TotalPicks(league')
               PROVE  told' = 1..Len(made')
    BY DEF EveryPickIsToldUnlessDry
  <2>0. /\ pool >= TotalPicks(league) /\ told = 1..Len(made) /\ Len(made) \in Nat
    <3>1. pool' = pool /\ league' = league
      BY <1>2 DEF MockNext, Advance, UserPicks, Reset, mockVars, created
    <3> QED
      BY <1>2, <3>1 DEF EveryPickIsToldUnlessDry, MockTypeOK
  <2>1. ASSUME NEW k \in 1..MaxAdvance, Advance(k) PROVE told' = 1..Len(made')
    <3>1. k \in Nat
      BY NumbersAssumption
    <3>2. told' = told \cup ((Len(made) + 1)..StopsAt(k))
      BY <1>2, <2>0, <2>1, <3>1, FullPoolNeverRaises DEF Advance
    <3>3. Len(made') = StopsAt(k)
      BY <1>2, <2>1, AdvanceAppends
    <3>4. StopsAt(k) \in Nat /\ Len(made) <= StopsAt(k)
      BY <1>2, <3>1, StopsThere
    <3> QED
      BY <2>0, <3>2, <3>3, <3>4
  <2>2. CASE UserPicks
    <3>1. /\ made' = Append(made, Pick(Len(made) + 1, "user"))
          /\ told' = told \cup {Len(made) + 1}
      BY <2>2 DEF UserPicks
    <3>2. Len(made') = Len(made) + 1
      BY <1>2, <3>1 DEF MockTypeOK
    <3> QED
      BY <2>0, <3>1, <3>2
  <2>3. CASE Reset
    <3>1. made' = <<>> /\ told' = {}
      BY <2>3 DEF Reset
    <3>2. Len(made') = 0
      BY <3>1
    <3> QED
      BY <3>1, <3>2
  <2>4. CASE UNCHANGED mockVars
    BY <2>0, <2>4 DEF mockVars
  <2> QED
    BY <1>2, <2>1, <2>2, <2>3, <2>4 DEF MockNext
<1> QED
  BY <1>1, <1>2, MockTypeCorrect, PTL DEF MockSpec
=============================================================================
