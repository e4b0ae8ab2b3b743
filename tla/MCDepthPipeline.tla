--------------------------- MODULE MCDepthPipeline ---------------------------
(* Small data for DepthPipeline.  Shard "x" owns states 1, 2, 5 and 6, shard   *)
(* "y" states 3, 4 and 7.                                                      *)
EXTENDS DepthPipeline

MCShard == {"x", "y"}
MCShardOf == <<"x", "x", "y", "y", "x", "x", "y">>

\* Candidates 1 and 5, 2 and 7, and 3 and 10 lead to the same state.  The two
\* best candidates are duplicates, the next ones tie.
MCCand == 1..10
MCStateOf == <<1, 2, 3, 4, 1, 5, 2, 6, 7, 3>>
MCScore == <<6, 0, 4, 6, 4, 6, 2, 4, 6, 6>>

FourLoads == << <<{1, 2}, {3, 4}, {5, 6}, {7, 8}>> >>
FiveLoads == << <<{1, 2}, {3, 4}, {5, 6}, {7, 8}, {9, 10}>> >>
\* The second depth has worse scores than the first.
TwoDepths == << <<{2, 3}, {7, 8}>>, <<{1, 9}, {6, 10}, {4, 5}>> >>

\* All states in one of four shards: a batch may exceed the write reserve.
FourShards == {"x", "y", "z", "w"}
AllInX == [s \in 1..7 |-> "x"]
TwoFullLoads == << <<{1, 2, 3, 4}, {5, 6, 7, 8}>> >>

NoGoal == {}
GoalInSecondDepth == {<<2, 2>>}
=============================================================================
