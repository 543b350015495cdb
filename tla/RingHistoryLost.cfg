SPECIFICATION Spec
CONSTANTS
    Size = 3
    Capacity = 2
    SeqModulus = 4
    MaxAdds = 11
    MayFail = FALSE
INVARIANT AcknowledgedKept
