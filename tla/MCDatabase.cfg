SPECIFICATION DbSpec
CONSTANTS
    Phones <- MCPhones
    Names <- MCNames
    Unnamed <- MCUnnamed
    NamesGiven <- MCNamesGiven
    TableSize = 3
    NumSlots = 2
    SectorCapacity = 1
    Hash <- MCHash
    Free = Free
    Lost = Lost
    NoContact = NoContact
    KeyLength = 1
    IndexCapacity = 2
    ChatCapacity = 2
INVARIANTS NamesListed ChatsListed ListingsAreLive IndexAccepts
