---------------------------- MODULE MCLiveBoard ----------------------------
(***************************************************************************)
(* Two teams, two rounds.  Four backs, two of them alike but for their     *)
(* projections and both below replacement; a rookie receiver; a tight end  *)
(* nobody projects; a defence the id map does not know. Nobody picks the    *)
(* lesser of the two backs.                                                *)
(***************************************************************************)
EXTENDS LiveBoard

MCLeague  == [teams |-> 2, rounds |-> 2, type |-> "SNAKE"]
MCPlayers == 1..7 \ {3}
MCIdMap   == [x \in 1..6 |-> x]

\* A ramp of the width of the normal curve stands for it.
MCNormalTail(x, mu, sigma) ==
    LET past == (x - mu) + 2 * sigma
    IN  CASE past <= 0         -> Unit
          [] past >= 4 * sigma -> 0
          [] OTHER             -> Unit - (past * (Unit \div 4)) \div sigma

Plain(id, position, projected, adp) ==
    [uuid |-> id, sleeper |-> id, position |-> position, projected |-> projected,
     adp |-> adp, stdev |-> Unknown, health |-> Unknown, usage |-> Unknown,
     chart |-> Unknown, rookie |-> FALSE, landing |-> Unknown, playoffs |-> Unknown,
     bye |-> 9, age |-> Unknown, experience |-> 8]

Health(risk)         == [risk |-> risk, confidence |-> 8000]
Usage(snaps, points) == [games |-> 16, snaps |-> snaps, perGame |-> points, spread |-> 500]

Star   == [Plain(1, "RB", 30000, 100) EXCEPT !.health = Health(10), !.stdev = 200,
              !.usage = Usage(7000, 1600), !.playoffs =
                  [weeks |-> 3, allowed |-> 2200, average |-> 2000]]
Worn   == [Plain(2, "RB", 20000, 300) EXCEPT !.health = Health(75), !.age = 24,
              !.usage = Usage(3000, 700), !.chart = [position |-> "RB", rank |-> 3]]
Lesser == Plain(3, "RB", 9000, 3000)
Better == Plain(4, "RB", 12000, 3000)
Rookie == [Plain(5, "WR", 15000, 250) EXCEPT !.rookie = TRUE, !.experience = 0,
              !.landing = [seasons |-> 2, touches |-> 120, rank |-> 3, workhorse |-> TRUE]]
Mystery == Plain(6, "TE", Unknown, 4600)
Defence == Plain(7, "DEF", 11000, 1500)

MCPool      == <<Star, Lesser, Better, Worn, Rookie, Mystery, Defence>>
MCOtherPool == <<Mystery, Rookie, Defence,
                 [Star EXCEPT !.projected = 21000, !.health = Unknown],
                 [Worn EXCEPT !.health = Health(50)], [Better EXCEPT !.projected = Unknown]>>

MCPools   == {MCPool, MCOtherPool}
MCLineups == {<<"BN", "FLEX", "RB", "DEF">>, <<"SUPER_FLEX", "WR", "REC_FLEX", "RB">>}
MCSeats   == {1, Unknown}
MCHashes  == {[q \in Rosterable |-> IF q = "WR" THEN 1 ELSE 2],
              [q \in Rosterable |-> IF q = "WR" THEN 3 ELSE 2]}
=============================================================================
