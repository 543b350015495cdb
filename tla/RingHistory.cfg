SPECIFICATION Spec
CONSTANTS
    Size = 3
    Capacity = 2
    SeqModulus = 4
    MaxAdds = 13
    MayFail = TRUE
INVARIANTS WholeAddsKept WholeAddsListedFirst DurableNewestFirst RebuildMatchesRam RangesAreSlices
