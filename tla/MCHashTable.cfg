SPECIFICATION Spec
CONSTANTS
    Phones <- MCPhones
    Names = {n}
    Unnamed = n
    TableSize = 5
    NumSlots = 3
    SectorCapacity = 2
    Hash <- MCHash
    Free = Free
    Lost = Lost
    NoContact = NoContact
INVARIANTS TypeOK LookupExact RamAgreesWithCard ListingsComplete
PROPERTY IsPhoneBook
