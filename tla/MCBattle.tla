------------------------------ MODULE MCBattle ------------------------------
(* Small instances of the battle for TLC.                                  *)
EXTENDS Battle

\* One node, one HQ that trains, a worker, and a free row that waves and queue share.
Camp == [r \in 1 .. 4 |-> CASE r = 1 -> "node" [] r = 2 -> "hq" [] r = 3 -> "worker" [] OTHER -> None]
TwoWaves == <<[at |-> 1, count |-> 2], [at |-> 2, count |-> 1]>>
TwoShots == [k \in Player \cup {"ghoul"} |-> IF k = "ghoul" THEN 2 ELSE 1]
=============================================================================
