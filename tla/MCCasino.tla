------------------------------ MODULE MCCasino ------------------------------
(***************************************************************************)
(* Casino on small instances: two suites of three ranks, empty tables.     *)
(***************************************************************************)
EXTENDS Casino, TLC

CONSTANTS p1, p2, g1, g2, r1, r2, v1, v2, v3, ann, bob

MCShuffles == {<<0, 3, 1, 2, 4, 5>>, <<2, 1, 0, 3, 4, 5>>}

NoPlayers == [p \in Players |-> Absent]
NoGames == {[g \in Games |-> Absent]}
=============================================================================
