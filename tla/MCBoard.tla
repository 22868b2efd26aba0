------------------------------ MODULE MCBoard ------------------------------
(***************************************************************************)
(* The pool a draft is loaded with, and the board that is made of one.     *)
(* Each behaviour is of one of them; the pools of the board have been      *)
(* given their values.  A board without a seat needs no second lineup.     *)
(***************************************************************************)
EXTENDS MCPlayerPool, MCLiveBoard

VARIABLE which

vars == <<which, poolVars, boardVars>>

Init ==
    /\ PoolInit /\ BoardInit
    /\ which \in {"pool", "board"}
    /\ seat = Unknown => lineup = CHOOSE l \in Lineups : TRUE
    /\ which = "pool" => /\ seat = Unknown /\ pool = MCPool
                         /\ hash = CHOOSE h \in Hashes : TRUE
    /\ which = "board" => store = Peopled

Next ==
    /\ UNCHANGED which
    /\ \/ which = "pool" /\ PoolNext /\ UNCHANGED boardVars
       \/ which = "board" /\ BoardNext /\ UNCHANGED poolVars

Spec == Init /\ [][Next]_vars
=============================================================================
