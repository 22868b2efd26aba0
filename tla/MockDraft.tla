------------------------------ MODULE MockDraft ------------------------------
(***************************************************************************)
(* A mock draft: fhe.core.simulation.MockDraftSimulator and the operations *)
(* of its session.  The in-process bus publishes without a suspension, so  *)
(* each request is one step.                                               *)
(*                                                                         *)
(* Picks are made in order, so the draft is a sequence; of a pick only its *)
(* seat and who made it are kept.  A generator seeded alike gives the same *)
(* numbers, so draws, the numbers taken of it, stands for its state.       *)
(* BOARD_UPDATED and DRAFT_COMPLETE belong to EventStream.  An auction has *)
(* no pick order: pick_number raises for it.                               *)
(***************************************************************************)
EXTENDS League, Sequences

CONSTANTS Leagues,      \* the leagues drafts are created for
          PoolSizes,    \* numbers of players they are created with
          MaxAdvance,   \* AdvanceRequest.picks: the most an advance may ask for
          MaxResets     \* bound

ASSUME LeaguesAssumption == Leagues \subseteq {L \in LeagueSettings : Ordered(L)}
ASSUME NumbersAssumption == PoolSizes \subseteq Nat /\ MaxAdvance \in Nat /\ MaxResets \in Nat

VARIABLES
    league, seat, pool,   \* as created: the user's seat, the players of the pool
    made,                 \* the picks, each [slot, by]
    draws,
    told,                 \* pick numbers announced since the start or the last reset
    resets

created == <<league, seat, pool>>
mockVars == <<created, made, draws, told, resets>>

MockInit == /\ league \in Leagues /\ pool \in PoolSizes
        /\ seat \in Seats(league)
        /\ made = <<>> /\ draws = 0 /\ told = {} /\ resets = 0

\* With n picks made: the draft is over, the user is on the clock, nobody is left.
OverAt(n) == n >= TotalPicks(league)

\* Mutated: the next pick is the user's as soon as his turn is one pick away.
UserNextAt(n) == ~OverAt(n) /\ PicksUntilNextTurn(league, seat, n + 1) = 1

UserAt(n) == ~OverAt(n) /\ PicksUntilNextTurn(league, seat, n + 1) = 0

EmptyAt(n) == n >= pool

Pick(n, who) == [slot |-> SlotOnTheClock(league, n), by |-> who]

\* An advance asked for k picks stops at the first of these: it has made them, the
\* draft is over or the user on the clock, nobody is left to pick.
StopsAt(k) ==
    Min({n \in Len(made)..(Len(made) + k) :
            n = Len(made) + k \/ OverAt(n) \/ UserAt(n) \/ EmptyAt(n)})

\* Mutated: a batch the user's turn cuts short ends in an exception too.
RaisesForTheUser(k) == StopsAt(k) < Len(made) + k /\ ~OverAt(StopsAt(k))

\* Stopped by an empty pool: the exception leaves the picks made and tells nothing.
AdvanceRaises(k) == /\ StopsAt(k) < Len(made) + k
             /\ ~OverAt(StopsAt(k)) /\ ~UserAt(StopsAt(k))

\* One number of the generator for each pick of a computer.
Advance(k) ==
    LET new == (Len(made) + 1)..StopsAt(k)
    IN  /\ made' = made \o [i \in 1..(StopsAt(k) - Len(made)) |-> Pick(Len(made) + i, "computer")]
        /\ draws' = draws + (StopsAt(k) - Len(made))
        /\ told' = IF AdvanceRaises(k) THEN told ELSE told \cup new
        /\ UNCHANGED <<created, resets>>

\* The user picks a player who is left; any other request of his is refused.
UserPicks ==
    /\ UserAt(Len(made)) /\ ~EmptyAt(Len(made))
    /\ made' = Append(made, Pick(Len(made) + 1, "user"))
    /\ told' = told \cup {Len(made) + 1}
    /\ UNCHANGED <<created, draws, resets>>

\* Mutated: the generator goes on where it is.
GoesOn == draws

Reseeded == 0

Reset == /\ resets < MaxResets /\ resets' = resets + 1
         /\ made' = <<>> /\ draws' = Reseeded /\ told' = {}
         /\ UNCHANGED created

MockNext == (\E k \in 1..MaxAdvance : Advance(k)) \/ UserPicks \/ Reset

MockSpec == MockInit /\ [][MockNext]_mockVars

-----------------------------------------------------------------------------
MockTypeOK ==
    /\ league \in Leagues /\ seat \in Seats(league) /\ pool \in PoolSizes
    /\ made \in Seq([slot : Seats(league), by : {"computer", "user"}])
    /\ Len(made) <= TotalPicks(league)
    /\ draws \in Nat /\ told \subseteq 1..Len(made) /\ resets \in 0..MaxResets

\* "The simulator never picks on the user's behalf", and the user picks for nobody
\* else: is_user_on_the_clock decides who picks and slot_on_the_clock for whom, by
\* different computations.
OnlyTheUserPicksForTheUser ==
    \A n \in 1..Len(made) :
        /\ made[n].by = "user" <=> made[n].slot = seat
        /\ \E r \in 1..league.rounds : PickNumber(league, made[n].slot, r) = n

\* "The same seed always reproduces the same draft", after resets, refused
\* advances and an empty pool: the generator is as far as the computers' picks on
\* the board have brought it.
SameSeedSameDraft ==
    draws = Cardinality({n \in 1..Len(made) : made[n].by = "computer"})

\* A seat is told "0 picks until your turn" exactly when the search for the owner
\* of the current pick finds it, for every seat and not the user's only.
TurnMeansOnTheClock ==
    \A s \in Seats(league) :
        PicksUntilNextTurn(league, s, Len(made) + 1) = 0
            <=> ~OverAt(Len(made)) /\ SlotOnTheClock(league, Len(made) + 1) = s

\* No seat waits through more than two full rounds less one pick, and none that
\* has a pick left is told it has none.
WaitIsBounded ==
    \A s \in Seats(league) :
        LET wait == PicksUntilNextTurn(league, s, Len(made) + 1)
            left == \E r \in 1..league.rounds : PickNumber(league, s, r) > Len(made)
        IN  IF left THEN wait \in 0..(2 * league.teams - 2) ELSE wait = None

\* "Run computer picks and publish an event for each": a client of the stream is
\* told every pick on the board, while the pool lasts for the whole draft.
EveryPickIsToldUnlessDry ==
    pool >= TotalPicks(league) => told = 1..Len(made)
=============================================================================
