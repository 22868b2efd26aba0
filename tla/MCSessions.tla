----------------------------- MODULE MCSessions -----------------------------
(***************************************************************************)
(* The sessions of a process, each in a behaviour of its own: they share   *)
(* nothing but the registry's places, which Evict stands for.              *)
(*                                                                         *)
(* A mock draft: every league of two to five teams and up to four rounds,  *)
(* the user at any seat, a pool too small for the larger leagues or large  *)
(* enough; one pick a request or many.                                     *)
(*                                                                         *)
(* A followed draft: one round of three seats, so gaps, a full draft and a *)
(* number past the end all occur; any player at any number; pick 2 may be  *)
(* reported for a seat it was traded to and for a seat the league does not *)
(* have.                                                                   *)
(*                                                                         *)
(* The session of a live draft: two requests and two states, a seat or     *)
(* none, an eviction and a restart.                                        *)
(***************************************************************************)
EXTENDS MockDraft, BatchArrival, LiveSession, TLC

CONSTANTS a, b, c, d

MCLeagues     == [teams : 2..5, rounds : 1..4, type : {"SNAKE", "LINEAR"}]
MCLeagueValue == [teams |-> 3, rounds |-> 1, type |-> "SNAKE"]
MCPlayers     == {a, b, c, d}
MCPicks == {[no |-> n, slot |-> n, player |-> x] : n \in 1..3, x \in MCPlayers}
              \cup {[no |-> 2, slot |-> s, player |-> x] : s \in {0, 3}, x \in {a, b}}
              \cup {[no |-> 4, slot |-> 1, player |-> x] : x \in {a, b}}
Symmetric == UNION {Permutations(S) : S \in {{a, b}, {c, d}, Requests, Objects}}

VARIABLE which   \* the draft the behaviour is of

Init ==
    /\ which \in {"mock", "followed", "live"}
    /\ MockInit /\ FollowedInit /\ SessionInit
    /\ which # "mock" => league = MCLeagueValue /\ pool = Min(PoolSizes) /\ seat = 1

Next == \/ which = "mock" /\ MockNext /\ UNCHANGED <<which, followedVars, sessionVars>>
        \/ which = "followed" /\ FollowedNext /\ UNCHANGED <<which, mockVars, sessionVars>>
        \/ which = "live" /\ SessionNext /\ UNCHANGED <<which, mockVars, followedVars>>

Spec == Init /\ [][Next]_<<which, mockVars, followedVars, sessionVars>>
=============================================================================
