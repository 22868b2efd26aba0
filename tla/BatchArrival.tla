---------------------------- MODULE BatchArrival ----------------------------
(***************************************************************************)
(* DraftState with a history: the draft as it was when the batch arrived.  *)
(***************************************************************************)
EXTENDS DraftState

VARIABLE start

followedVars == <<recordVars, start>>

FollowedInit == RecordInit /\ start = draft

FollowedNext ==
    \/ ApplyNext /\ UNCHANGED start
    \/ \E b \in Batches : ReceiveBatch(b) /\ start' = draft

FollowedSpec == FollowedInit /\ [][FollowedNext]_followedVars

\* "The resulting state is identical no matter what order the batch arrived in":
\* once a batch is done, the picks made and whether it raised are a function of
\* the set of picks it held, batches cut short by an exception included.
ArrivalOrderIrrelevant ==
    LET S == Range(batch)
        distinct == Cardinality({p.no : p \in S}) = Len(batch)
    IN  todo = {} /\ distinct =>
          /\ draft.picks = WithPicks(start.picks, AppliedOf(start.picks, S))
          /\ raised = BatchRaises(start.picks, S)
=============================================================================
