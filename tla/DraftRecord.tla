---------------------------- MODULE DraftRecord -----------------------------
(***************************************************************************)
(* The state object of fhe.core.draft.state.DraftState as a value, a       *)
(* record D of picks_by_no, player_to_pick and rosters, and the functions  *)
(* its methods compute.  The modules with behaviour extend this one.       *)
(***************************************************************************)
EXTENDS League, Sequences, SequencesExt

CONSTANTS TheLeague,   \* the LeagueSettings of the draft
          Players      \* player uuids, placeholder identities included

ASSUME LeagueAssumption == TheLeague \in LeagueSettings

PickNumbers == 1..TotalPicks(TheLeague)

EmptyDraft ==
    [picks |-> <<>>, owner |-> <<>>, rosters |-> [s \in Seats(TheLeague) |-> <<>>]]

PickCount(D) == Cardinality(DOMAIN D.picks)

IsComplete(D) == PickCount(D) >= TotalPicks(TheLeague)

\* The lowest unfilled pick number, not the count plus one: there may be gaps.
CurrentPick(D) ==
    LET open == PickNumbers \ DOMAIN D.picks
    IN  IF IsComplete(D) \/ open = {} THEN None ELSE Min(open)

\* The pick is there already, or its number or its player is taken otherwise.
Repeats(D, p) == p.no \in DOMAIN D.picks /\ D.picks[p.no].player = p.player

Clashes(D, p) == \/ p.no \in DOMAIN D.picks /\ D.picks[p.no].player # p.player
                 \/ p.no \notin DOMAIN D.picks /\ p.player \in DOMAIN D.owner

Legal(p) == p.no \in PickNumbers /\ p.slot \in Seats(TheLeague)

\* Mutated: one check left out of apply_pick.
OutcomeAnyNumber(D, p) ==
    IF Repeats(D, p) THEN "DUPLICATE"
    ELSE IF Clashes(D, p) THEN "CONFLICT"
    ELSE IF p.slot \in Seats(TheLeague) THEN "APPLIED" ELSE "RAISED"

OutcomeOverwrites(D, p) ==
    IF Repeats(D, p) THEN "DUPLICATE"
    ELSE IF p.player \in DOMAIN D.owner THEN "CONFLICT"
    ELSE IF Legal(p) THEN "APPLIED" ELSE "RAISED"

\* The range checks come last: a pick that clashes never raises.
Outcome(D, p) ==
    IF Repeats(D, p) THEN "DUPLICATE"
    ELSE IF Clashes(D, p) THEN "CONFLICT"
    ELSE IF Legal(p) THEN "APPLIED" ELSE "RAISED"

WithPick(D, p) ==
    [picks   |-> [n \in DOMAIN D.picks \cup {p.no} |->
                    IF n = p.no THEN p ELSE D.picks[n]],
     owner   |-> [x \in DOMAIN D.owner \cup {p.player} |->
                    IF x = p.player THEN p.no ELSE D.owner[x]],
     rosters |-> [D.rosters EXCEPT ![p.slot] = Append(@, p.player)]]

ApplyPick(D, p) == IF Outcome(D, p) = "APPLIED" THEN WithPick(D, p) ELSE D

-----------------------------------------------------------------------------
\* What apply_picks makes of a batch without repeated numbers, said of the set S
\* of its picks and of the picks P made before: ArrivalOrderIrrelevant says that
\* the loop comes to this in whatever order the batch arrives.  A pick counts for
\* its player only at the lowest free number that names it, and the first pick
\* that would be applied out of range raises and ends the batch.
Free(P, p) == p.no \notin DOMAIN P /\ \A n \in DOMAIN P : P[n].player # p.player

FirstOfPlayer(P, S, p) ==
    \A q \in S : Free(P, q) /\ q.player = p.player => q.no >= p.no

Raises(P, S, p) == Free(P, p) /\ FirstOfPlayer(P, S, p) /\ ~Legal(p)

BatchRaises(P, S) == \E q \in S : Raises(P, S, q)

\* Mutated: numbers and seats are not checked.
AppliedOfAnyNumber(P, S) == {p \in S : Free(P, p) /\ FirstOfPlayer(P, S, p)}

AppliedOf(P, S) ==
    {p \in S : /\ Free(P, p) /\ FirstOfPlayer(P, S, p) /\ Legal(p)
               /\ \A q \in S : q.no < p.no => ~Raises(P, S, q)}

WithPicks(P, A) ==
    [n \in DOMAIN P \cup {p.no : p \in A} |->
        IF n \in DOMAIN P THEN P[n] ELSE CHOOSE p \in A : p.no = n]
=============================================================================
