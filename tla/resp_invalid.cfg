\* The beginnings of the same values, as segments bring them.
SPECIFICATION Spec
CONSTANTS
    Null = null
    Symbols <- SomeSymbols
    Digits <- SomeDigits
    Height <- SomeHeight
    Values <- SomeValues
    Followers <- SomeFollowers
    MaxNumber = 3
    MaxSegment = 3
INVARIANTS InvalidOnly
\* Everything has arrived.
CHECK_DEADLOCK FALSE
