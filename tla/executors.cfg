\* Two keys, two values; DEL and EXISTS of up to two keys, the same one twice too;
\* clients that send what can be read and GET keys that are there.
SPECIFICATION Spec
CONSTANTS
    k1 = k1
    k2 = k2
    v1 = v1
    v2 = v2
    Empty = Empty
    NoString = NoString
    Gone = Gone
    None = None
    Keys <- TwoKeys
    Values <- TwoValues
    Unknown <- LowerCase
    Files <- TwoFiles
    MaxArgs = 2
    MaxLog = 4
    Careless <- NotAtAll
INVARIANTS TypeOK KeysAccounted CommandsAccumulate
PROPERTIES ImplementsRedisStore
SYMMETRY Symmetry
\* The process may have ended, and the log is bounded.
CHECK_DEADLOCK FALSE
