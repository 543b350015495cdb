SPECIFICATION Spec
CONSTANTS
    Phones = {p, q}
    None = None
    NumSlots = 2
    NumSectors = 1
    Capacity = 2
    MaxMessages = 4
SYMMETRY PhoneSymmetry
INVARIANT ListedWhenFull
