---------------------------- MODULE FollowedDraft ----------------------------
(***************************************************************************)
(* What following a draft promises the room that watches it, whatever the  *)
(* provider answers: picks are found in batches, a batch is announced      *)
(* before the next is looked for, each pick is told once and the board     *)
(* shown then is the board known.  Following ends at any time, and only    *)
(* its end leaves a batch unannounced.                                     *)
(***************************************************************************)
EXTENDS Integers, Functions

CONSTANTS Numbers, \* pick numbers
          People   \* players

VARIABLES
    known,      \* the player at each pick found
    shown,      \* the same at the last announcement
    tellings,   \* how often each pick was told
    endings,    \* how often the room was told that the draft is over
    following

vars == <<known, shown, tellings, endings, following>>

Boards == UNION {Injection(S, People) : S \in SUBSET Numbers}

Init ==
    /\ known \in Boards /\ shown = known /\ endings = 0 /\ following = TRUE
    /\ tellings = [n \in Numbers |-> IF n \in DOMAIN known THEN 1 ELSE 0]

\* One board holds another.
Holds(b, old) == DOMAIN old \subseteq DOMAIN b /\ \A n \in DOMAIN old : b[n] = old[n]

\* A batch of picks is found; an illegal pick behind them ends the following.
Discover ==
    /\ following /\ shown = known
    /\ known' # known /\ known' \in Boards /\ Holds(known', known)
    /\ UNCHANGED <<shown, tellings>>

\* The batch is told and the board shown; the last batch ends the following.
Announce ==
    /\ following /\ shown # known
    /\ shown' = known /\ UNCHANGED known
    /\ tellings' = [n \in Numbers |->
                      tellings[n] + IF n \in DOMAIN known \ DOMAIN shown THEN 1 ELSE 0]

End == /\ following /\ ~following'
       /\ UNCHANGED <<known, shown, tellings>>

\* Once over it is over: a new poller is a new following.
Next ==
    /\ Discover \/ Announce \/ End
    /\ following' \in BOOLEAN
    /\ \/ endings' = endings
       \/ endings' = endings + 1 /\ shown' = known' /\ ~following'

SafeSpec == Init /\ [][Next]_vars

\* A batch found is announced, or the following ends.
Settles == shown # known ~> (shown = known \/ ~following)

Spec == SafeSpec /\ Settles
=============================================================================
