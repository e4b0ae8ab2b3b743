SPECIFICATION ScatterSpec
CONSTANTS
    WarpCount = 2
    Lanes = 4
    Existing = 3
    RawCount = 5
INVARIANT RowsInPlace
