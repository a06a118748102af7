\* Single values and arrays of up to two elements, nested once, each followed by
\* another value; segments of up to three symbols.
SPECIFICATION Spec
CONSTANTS
    Null = null
    Symbols <- SomeSymbols
    Digits <- SomeDigits
    Height <- SomeHeight
    Values <- SomeValues
    Followers <- SomeFollowers
    MaxNumber = 3
    MaxSegment = 3
INVARIANTS TypeOK RoundTrip PrefixVerdict
\* Everything has arrived.
CHECK_DEADLOCK FALSE
