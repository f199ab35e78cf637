SPECIFICATION Spec

CONSTANTS
    RowCounts <- ShippedRows
    DatabaseThrows = FALSE
    MaxOverrun = 0
    MaxLate = 1

PROPERTY InvalidOptionCosts
