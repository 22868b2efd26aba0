----------------------------- MODULE DraftState -----------------------------
(***************************************************************************)
(* fhe.core.draft.state.DraftState: the record of what has been picked.    *)
(*                                                                         *)
(* The provider resends every pick on every poll, in any order, and may    *)
(* correct itself.  A batch is the sequence of picks of one such response; *)
(* apply_picks sorts it by pick number and applies the picks one by one,   *)
(* which is one step each here.  An exception ends the batch and keeps     *)
(* what was applied before it.                                             *)
(***************************************************************************)
EXTENDS DraftRecord

CONSTANTS ProviderPicks,  \* the picks a provider may report
          MaxBatch        \* bound: picks in one batch

ASSUME PicksAssumption ==
    ProviderPicks \subseteq [no : Int, slot : Int, player : Players]
ASSUME BatchAssumption == MaxBatch \in Nat

VARIABLES draft,    \* the state object
          batch,    \* the batch being applied, as it arrived
          todo,     \* its indices not applied yet
          raised    \* whether the last batch ended in a DraftStateError

recordVars == <<draft, batch, todo, raised>>

Batches == UNION {[1..k -> ProviderPicks] : k \in 0..MaxBatch}

RecordInit == /\ draft = EmptyDraft
        /\ batch = <<>>
        /\ todo = {}
        /\ raised = FALSE

\* Mutated: picks are applied as they arrive.
BeforeAsArrived(b, i, j) == i <= j

\* A stable sort by pick number: ties keep the order of arrival.
Before(b, i, j) == b[i].no < b[j].no \/ (b[i].no = b[j].no /\ i <= j)

\* The caller has a response to apply.
ReceiveBatch(b) == /\ todo = {}
                   /\ batch' = b
                   /\ todo' = DOMAIN b
                   /\ raised' = FALSE
                   /\ UNCHANGED draft

\* One apply_pick of the loop in apply_picks.
ApplyNext == \E i \in todo :
    /\ \A j \in todo : Before(batch, i, j)
    /\ draft' = ApplyPick(draft, batch[i])
    /\ raised' = (Outcome(draft, batch[i]) = "RAISED")
    /\ todo' = IF raised' THEN {} ELSE todo \ {i}
    /\ UNCHANGED batch

RecordNext == ApplyNext \/ \E b \in Batches : ReceiveBatch(b)

RecordSpec == RecordInit /\ [][RecordNext]_recordVars

-----------------------------------------------------------------------------
RecordTypeOK ==
    /\ draft \in [picks : UNION {[N -> ProviderPicks] : N \in SUBSET PickNumbers},
                  owner : UNION {[X -> PickNumbers] : X \in SUBSET Players},
                  rosters : [Seats(TheLeague) -> Seq(Players)]]
    /\ batch \in Seq(ProviderPicks)
    /\ todo \subseteq DOMAIN batch
    /\ raised \in BOOLEAN

\* "A pick number appears at most once.  A player is drafted at most once."
\* The two indexes apply_pick keeps are each other's inverse, so the conflict
\* tests, one on each, speak of the same picks.
IndexesAgree ==
    /\ \A n \in DOMAIN draft.picks :
          LET p == draft.picks[n]
          IN  p.no = n /\ p.player \in DOMAIN draft.owner /\ draft.owner[p.player] = n
    /\ \A x \in DOMAIN draft.owner :
          draft.owner[x] \in DOMAIN draft.picks /\ draft.picks[draft.owner[x]].player = x

\* A roster holds exactly the players of the seat's picks, each once: the needs
\* the recommendations are computed from cannot count a replayed pick twice.
RostersMatchPicks ==
    \A s \in Seats(TheLeague) :
        LET roster == draft.rosters[s]
        IN  /\ \A i, j \in 1..Len(roster) : roster[i] = roster[j] => i = j
            /\ \A x \in Players :
                  (\E i \in 1..Len(roster) : roster[i] = x)
                    <=> \E n \in DOMAIN draft.picks :
                            draft.picks[n].player = x /\ draft.picks[n].slot = s

\* is_complete counts the picks and the clock looks for an open number: the
\* draft is over by the count exactly when no number is open, so there is a
\* current pick until the very last one.
CompleteMeansEveryPickMade ==
    IsComplete(draft) <=> DOMAIN draft.picks = PickNumbers

\* "The domain never silently overwrites history": no later batch removes or
\* changes a pick, whatever the provider corrects.
HistoryKept ==
    [][\A n \in DOMAIN draft.picks :
            n \in DOMAIN draft'.picks /\ draft'.picks[n] = draft.picks[n]]_recordVars

\* The clock never goes back to an earlier pick, though picks fill gaps out of
\* order, and never restarts once the draft is over.
ClockMovesForward ==
    [][LET old == CurrentPick(draft)
           new == CurrentPick(draft')
       IN  new = None \/ (old # None /\ new >= old)]_recordVars

=============================================================================
