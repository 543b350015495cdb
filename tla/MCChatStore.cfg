SPECIFICATION Spec
CONSTANTS
    Phones = {p, q}
    None = None
    NumSlots = 2
    NumSectors = 3
    Capacity = 2
    MaxMessages = 5
SYMMETRY PhoneSymmetry
INVARIANTS AcknowledgedListed ChatsNotMixed RemovedStaysRemoved EntriesMatchCard NoSectorLeaked SectorsAccounted PagesAreSlices
