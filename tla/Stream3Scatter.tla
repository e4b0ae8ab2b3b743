--------------------------- MODULE Stream3Scatter ---------------------------
(***************************************************************************)
(* One thread block of stream3_partition_scatter_kernel, which appends the  *)
(* rows of one shard to its bank.  DepthPipeline takes the kernel as one    *)
(* step; here its warps run on their own.  Each warp reads the bank's       *)
(* counters once, when it starts, and copies its rows behind the base they  *)
(* give; thread 0 then adds the rows to dirty_count.  No barrier separates  *)
(* the last read from that update.                                         *)
(***************************************************************************)
EXTENDS Integers

CONSTANTS
    WarpCount,  \* warps of the block
    Lanes,      \* threads of a warp
    Existing,   \* clean_count + dirty_count of the bank before the launch
    RawCount    \* unique_counts[group], all of which fit in the bank

ASSUME BlockAssumption ==
    /\ WarpCount \in Nat \ {0} /\ Lanes \in Nat \ {0}
    /\ Existing \in Nat /\ RawCount \in Nat

VARIABLES
    existing,  \* the bank's counters now
    base,      \* dirty_base of each warp
    nextRow,   \* the first row of each warp's next iteration
    placed     \* where each row of the group was written

scatterVars == <<existing, base, nextRow, placed>>

Warp == 0..(WarpCount - 1)
Row == 0..(RawCount - 1)
Unread == -1
Unwritten == -1

ScatterInit ==
    /\ existing = Existing
    /\ base = [w \in Warp |-> Unread]
    /\ nextRow = [w \in Warp |-> w * Lanes]
    /\ placed = [r \in Row |-> Unwritten]

ReadBase(w) ==
    /\ base[w] = Unread
    /\ base' = [base EXCEPT ![w] = existing]
    /\ UNCHANGED <<existing, nextRow, placed>>

\* One iteration of the copy loop: the warp's lanes, a block's stride apart.
CopyRows(w) ==
    /\ base[w] # Unread /\ nextRow[w] < RawCount
    /\ placed' = [r \in Row |-> IF r \in nextRow[w]..(nextRow[w] + Lanes - 1)
                                THEN base[w] + r ELSE placed[r]]
    /\ nextRow' = [nextRow EXCEPT ![w] = nextRow[w] + WarpCount * Lanes]
    /\ UNCHANGED <<existing, base>>

AdvanceInLastWarp(w) ==
    /\ w = WarpCount - 1 /\ base[w] # Unread /\ nextRow[w] >= RawCount
    /\ existing = Existing
    /\ existing' = existing + RawCount
    /\ UNCHANGED <<base, nextRow, placed>>

\* Thread 0, at the end of its warp's loop, adds the rows to dirty_count.
Advance(w) ==
    /\ w = 0 /\ base[w] # Unread /\ nextRow[w] >= RawCount
    /\ existing = Existing
    /\ existing' = existing + RawCount
    /\ UNCHANGED <<base, nextRow, placed>>

BlockFinished ==
    /\ \A w \in Warp : base[w] # Unread /\ nextRow[w] >= RawCount
    /\ RawCount > 0 => existing # Existing
    /\ UNCHANGED scatterVars

ScatterNext == (\E w \in Warp : ReadBase(w) \/ CopyRows(w) \/ Advance(w)) \/ BlockFinished

ScatterSpec == ScatterInit /\ [][ScatterNext]_scatterVars

\* "Stream 3 writes into survivor_shard[..][clean_count + dirty_count]": the rows
\* fill the slots right behind the ones the bank held when the block started.
RowsInPlace == \A r \in Row : placed[r] \in {Unwritten, Existing + r}
=============================================================================
