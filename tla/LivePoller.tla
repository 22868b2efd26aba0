----------------------------- MODULE LivePoller -----------------------------
(***************************************************************************)
(* fhe.worker.draft_poller.DraftPoller: one task that reads a provider     *)
(* with no push, reconciles what it reads into the draft, has the picks    *)
(* written down and tells the room.                                        *)
(*                                                                         *)
(* pc names the point of run/_poll_once the task is at.  "picks",          *)
(* "metadata", "record" and "sleep" are awaits: the provider, the stop     *)
(* request and a cancellation act there.  "check", "reconcile" and         *)
(* "publish" are code without a suspension point.                          *)
(***************************************************************************)
EXTENDS DraftRecord

CONSTANTS MaxFailures,     \* MAX_CONSECUTIVE_FAILURES
          MetadataEvery,   \* DRAFT_METADATA_EVERY_N_POLLS
          StrayPicks,      \* illegal picks the provider may add to a response
          Garbled,         \* whether the provider may answer with no list at all
          MaxCorrections   \* bound: picks the provider changes after the fact

ASSUME PollerAssumption == MaxFailures \in Nat \ {0} /\ MetadataEvery \in Nat \ {0}
ASSUME StrayAssumption ==
    StrayPicks \subseteq {p \in [no : Int, slot : Int, player : Players] : ~Legal(p)}
ASSUME EnvironmentAssumption == Garbled \in BOOLEAN /\ MaxCorrections \in Nat

Unknown == "unknown"   \* no draft metadata read yet, or the draft was not found

VARIABLES
    board,        \* provider: the player at each pick made so far
    providerStatus, corrections,
    rows,         \* draft_picks: the player written down at each pick number
    unwritten,    \* history: picks whose write failed
    pc, status, failures,
    phase,        \* (poll_count - 1) modulo MetadataEvery
    lastDraft,    \* status of the metadata last read
    response,     \* picks read in this cycle
    applied,      \* picks this cycle applied
    draft,        \* picks_by_no of the DraftState shared with the session
    told,         \* how often each pick number was published as PICK_MADE
    shown,        \* picks on the board the last BOARD_UPDATED announced
    completions,  \* DRAFT_COMPLETE events published
    stop          \* request_stop was called

provider == <<board, providerStatus, corrections>>
database == <<rows, unwritten>>
cycle == <<phase, lastDraft, response, applied>>
events == <<told, shown, completions>>
vars == <<provider, database, pc, status, failures, cycle, draft, events, stop>>

-----------------------------------------------------------------------------
\* What the provider lists: its picks so far.
Listed == {[no |-> n, slot |-> SlotOnTheClock(TheLeague, n), player |-> board[n]]
            : n \in DOMAIN board}

\* Connecting applied and recorded the picks the provider listed then, and the
\* board the client loads shows them.
Init == /\ board \in UNION {{s \in [1..k -> Players] : IsInjective(s)} : k \in 0..1}
        /\ providerStatus = "drafting" /\ corrections = 0
        /\ draft = WithPicks(<<>>, Listed)
        /\ rows = board /\ unwritten = {}
        /\ pc = "check" /\ status = "starting" /\ failures = 0
        /\ phase = MetadataEvery - 1 /\ lastDraft = Unknown
        /\ response = {} /\ applied = {}
        /\ told = [n \in PickNumbers |-> IF n \in DOMAIN draft THEN 1 ELSE 0]
        /\ shown = draft /\ completions = 0
        /\ stop = FALSE

-----------------------------------------------------------------------------
\* The room makes a pick, changes one, or is done.
RoomPicks == /\ Len(board) < TotalPicks(TheLeague)
             /\ \E x \in Players \ Range(board) : board' = Append(board, x)
             /\ UNCHANGED <<providerStatus, corrections>>

RoomCorrects == /\ corrections < MaxCorrections
                /\ \E n \in DOMAIN board, x \in Players \ Range(board) :
                      board' = [board EXCEPT ![n] = x]
                /\ corrections' = corrections + 1
                /\ UNCHANGED providerStatus

RoomCompletes == /\ Len(board) = TotalPicks(TheLeague)
                 /\ providerStatus' = "complete"
                 /\ UNCHANGED <<board, corrections>>

Room == /\ RoomPicks \/ RoomCorrects \/ RoomCompletes
        /\ UNCHANGED <<database, pc, status, failures, cycle, draft, events, stop>>

RequestStop == /\ pc # "done" /\ ~stop
               /\ stop' = TRUE
               /\ UNCHANGED <<provider, database, pc, status, failures, cycle, draft, events>>

-----------------------------------------------------------------------------
\* The top of the loop: the stop flag, then the poll count.
StopSeen == /\ pc = "check" /\ stop
            /\ pc' = "done" /\ status' = "stopped"
            /\ UNCHANGED <<provider, database, failures, cycle, draft, events, stop>>

\* Mutated: a poller that has been asked to stop starts another cycle.
PollsOnRegardless == TRUE

MayPoll == ~stop

BeginPoll == /\ pc = "check" /\ MayPoll
             /\ pc' = "picks"
             /\ phase' = (phase + 1) % MetadataEvery
             /\ response' = {} /\ applied' = {}
             /\ UNCHANGED <<provider, database, status, failures, lastDraft, draft, events, stop>>

MetadataDue == phase = 0 \/ lastDraft = Unknown

\* A payload that is not a list reads as an empty one.
ReadPicks(r) ==
    /\ pc = "picks"
    /\ response' = r
    /\ pc' = IF MetadataDue THEN "metadata" ELSE "reconcile"
    /\ UNCHANGED <<provider, database, status, failures, phase, lastDraft, applied,
                   draft, events, stop>>

Responses == {Listed} \cup {Listed \cup {p} : p \in StrayPicks}
                \cup (IF Garbled THEN {{}} ELSE {})

\* A draft the provider does not find leaves no metadata behind.
ReadMetadata ==
    /\ pc = "metadata"
    /\ lastDraft' \in {providerStatus, Unknown}
    /\ pc' = "reconcile"
    /\ UNCHANGED <<provider, database, status, failures, phase, response, applied,
                   draft, events, stop>>

\* A ProviderError from either call: _record_failure, and the loop gives up at
\* the limit or backs off.
ProviderFails ==
    /\ pc \in {"picks", "metadata"}
    /\ failures' = failures + 1
    /\ IF failures' >= MaxFailures THEN status' = "failed" /\ pc' = "done"
                                   ELSE status' = "backing_off" /\ pc' = "sleep"
    /\ UNCHANGED <<provider, database, cycle, draft, events, stop>>

\* Mutated: only the pick after the last one counts, and the count is off by one.
NextPickOnly == {p \in AppliedOf(draft, response) : p.no = Cardinality(DOMAIN draft)}

NewPicks == AppliedOf(draft, response)

NewBoard == WithPicks(draft, NewPicks)

\* Mutated: a success does not clear the failures.
KeptFailures == failures

ClearedFailures == 0

\* Mutated: the picks are not written down before they are told.
NothingToRecord == FALSE

ToRecord == NewPicks # {}

\* A DraftStateError is no ProviderError: the task ends where it stands.
Reconcile ==
    /\ pc = "reconcile"
    /\ failures' = ClearedFailures /\ status' = "live"
    /\ applied' = NewPicks
    /\ draft' = NewBoard
    /\ pc' = IF BatchRaises(draft, response) THEN "done"
             ELSE IF ToRecord THEN "record" ELSE "publish"
    /\ UNCHANGED <<provider, database, phase, lastDraft, response, events, stop>>

\* The upsert of the applied picks by pick number.
Written == [n \in DOMAIN rows \cup {p.no : p \in applied} |->
                IF \E p \in applied : p.no = n THEN (CHOOSE p \in applied : p.no = n).player
                                               ELSE rows[n]]

\* The write succeeds, or fails and is logged; the cycle goes on either way.
Record ==
    /\ pc = "record"
    /\ \/ rows' = Written /\ UNCHANGED unwritten
       \/ unwritten' = unwritten \cup applied /\ UNCHANGED rows
    /\ pc' = "publish"
    /\ UNCHANGED <<provider, status, failures, cycle, draft, events, stop>>

Over == lastDraft = "complete" \/ Cardinality(DOMAIN draft) >= TotalPicks(TheLeague)

\* Mutated: every pick of the response is told.
EveryListedPick == response

PicksToTell == applied

\* Mutated: the board is announced only when one pick came alone.
OnePickApplied == Cardinality(applied) = 1

BoardChanged == applied # {}

\* PICK_MADE for each applied pick, then the recomputed board, then the end.
Publish ==
    /\ pc = "publish"
    /\ told' = [n \in PickNumbers |->
                  told[n] + IF \E p \in PicksToTell : p.no = n THEN 1 ELSE 0]
    /\ shown' = IF BoardChanged THEN draft ELSE shown
    /\ IF Over THEN status' = "complete" /\ completions' = completions + 1 /\ pc' = "done"
               ELSE pc' = "sleep" /\ UNCHANGED <<status, completions>>
    /\ UNCHANGED <<provider, database, failures, cycle, draft, stop>>

\* The interval passes, or the stop request ends it early.
Wake == /\ pc = "sleep"
        /\ pc' = "check"
        /\ UNCHANGED <<provider, database, status, failures, cycle, draft, events, stop>>

\* A stop that timed out cancels the task at whatever it awaits.  A write in
\* flight may or may not have been committed.
Cancel ==
    /\ stop /\ pc \in {"picks", "metadata", "record", "sleep"}
    /\ IF pc = "record" THEN rows' \in {rows, Written} ELSE rows' = rows
    /\ unwritten' = IF rows' = rows /\ pc = "record" THEN unwritten \cup applied ELSE unwritten
    /\ pc' = "done"
    /\ UNCHANGED <<provider, status, failures, cycle, draft, events, stop>>

Poll == \/ StopSeen \/ BeginPoll \/ ReadMetadata \/ ProviderFails \/ Reconcile
        \/ Record \/ Publish \/ Wake
        \/ \E r \in Responses : ReadPicks(r)

Next == Room \/ RequestStop \/ Poll \/ Cancel

Spec == Init /\ [][Next]_vars

\* Every await of the task ends: the HTTP client and the database time out.  The
\* room owes nothing, and nobody has to stop the poller.
FairSpec == Spec /\ WF_vars(Poll)

-----------------------------------------------------------------------------
Positions == {"check", "picks", "metadata", "reconcile", "record", "publish", "sleep", "done"}
States == {"starting", "live", "backing_off", "complete", "stopped", "failed"}

TypeOK ==
    /\ board \in Seq(Players) /\ Len(board) <= TotalPicks(TheLeague)
    /\ providerStatus \in {"drafting", "complete"}
    /\ corrections \in 0..MaxCorrections
    /\ DOMAIN rows \subseteq PickNumbers /\ Range(rows) \subseteq Players
    /\ pc \in Positions /\ status \in States
    /\ failures \in 0..MaxFailures /\ phase \in 0..(MetadataEvery - 1)
    /\ lastDraft \in {Unknown, "drafting", "complete"}
    /\ Range(draft) \cup Range(shown) \cup applied \cup unwritten
         \subseteq [no : PickNumbers, slot : Seats(TheLeague), player : Players]
    /\ told \in [PickNumbers -> Nat]
    /\ completions \in Nat /\ stop \in BOOLEAN

\* "A pick the browser has been told about is a pick that has been written down",
\* unless its write failed.
TellingMeansWritten ==
    \A n \in DOMAIN draft :
        told[n] > 0 => \/ draft[n] \in unwritten
                       \/ n \in DOMAIN rows /\ rows[n] = draft[n].player

\* "Ask the poll loop to finish after the current cycle": it does finish.
StopIsObeyed == stop ~> pc = "done"

\* Every pick the room makes reaches the board of a poller that is not over, if
\* the provider changes no pick and does not answer with garbage for ever.
PicksReachTheBoard ==
    \A n \in PickNumbers :
        n <= Len(board) ~> \/ n \in DOMAIN draft \/ pc = "done" \/ corrections > 0
                           \/ <>[](pc = "reconcile" => response = {})

-----------------------------------------------------------------------------
PlayersOf(picks) == [n \in DOMAIN picks |-> picks[n].player]

Running == pc # "done"

Following == INSTANCE FollowedDraft WITH
    Numbers <- PickNumbers, People <- Players,
    known <- PlayersOf(draft), shown <- PlayersOf(shown),
    tellings <- told, endings <- completions, following <- Running

\* The loop is a following of the draft: whatever is resent, garbled, corrected,
\* lost or stopped, picks are found, told once and shown in whole batches, and the end
\* is announced once, by a poller that polls no more.
KeepsItsPromise == Following!Spec
=============================================================================
