\* Two keys, three instants, three pushes; size_t wraps at 16.
SPECIFICATION Spec
CONSTANTS
    k1 = k1
    k2 = k2
    None = None
    Garbage = Garbage
    Keys <- TwoKeys
    MaxTime = 2
    MaxPushes = 3
    SizeT = 16
INVARIANTS TypeOK ExistsByHistory EachOnce ListOrder RangeIsSlice
SYMMETRY Symmetry
\* A call that does not come back stops the model.
CHECK_DEADLOCK FALSE
