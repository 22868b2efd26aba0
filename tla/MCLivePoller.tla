---------------------------- MODULE MCLivePoller ----------------------------
(***************************************************************************)
(* Two picks and three players, so that both picks may arrive at once and  *)
(* a corrected pick can free a player who is then drafted elsewhere;       *)
(* metadata every second poll, so that cycles with and without it occur;   *)
(* three failures to give up, so that the poller recovers from one and two.*)
(* The stray pick is past the last one and names a player of the pool.     *)
(***************************************************************************)
EXTENDS LivePoller

CONSTANTS a, b, c

SmallLeague == [teams |-> 2, rounds |-> 1, type |-> "SNAKE"]
SmallPlayers == {a, b, c}

OneStray == {[no |-> TotalPicks(TheLeague) + 1, slot |-> 1, player |-> c]}
=============================================================================
