SPECIFICATION Spec
CONSTANTS
    BitsPerElement = 2
    WordsPerSector = 2
    ContactSectors = 3
    MessageSectors = 3
    ContactCapacity = 2
    ContactSlots = 5
    RingSectors = 2
    Trailer <- MCTrailer
    MaxCalls = 1
    Torn = Torn
    Lost = Lost
INVARIANTS CardIsAsLeft AllocatorsExact ScansExact
