CONSTANTS
    Top = 4
    LongTop = 32
    Powers = {1, 2, 4, 8, 16, 32}
SPECIFICATION DivSpec
CHECK_DEADLOCK FALSE
INVARIANTS LongDivisionExact
