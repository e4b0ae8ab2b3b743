------------------------------ MODULE MCExchange ------------------------------
(***************************************************************************)
(* Two ranks that exchange their candidates over four and five rounds.      *)
(* Rank 0 keeps 9 of the 12 states and receives most of them from rank 1;   *)
(* later candidates score better, the best ones tie across the ranks, and   *)
(* state 2 arrives again when rank 0 is through.  A bank holds a round and   *)
(* a half.                                                                  *)
(***************************************************************************)
EXTENDS ExchangeRounds

MCRank == {0, 1}
MCCand == 1..16
MCStateOf == <<1, 10, 11, 10, 6, 11, 7, 12, 2, 3, 4, 5, 10, 8, 9, 2>>
MCScore == <<6, 6, 4, 4, 4, 6, 2, 2, 6, 6, 4, 4, 4, 2, 2, 2>>
MCShard == {"x"}
MCShardOf == [s \in 1..12 |-> "x"]
MCOwnerOf == [s \in 1..12 |-> IF s < 10 THEN 0 ELSE 1]
MCLoads == [r \in MCRank |-> IF r = 0 THEN << {1, 2}, {3, 4}, {5, 6}, {7, 8} >>
                             ELSE << {9, 10}, {11, 12}, {13}, {14, 15}, {16} >>]

ASSUME ExchangeAssumption
===============================================================================
