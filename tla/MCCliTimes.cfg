SPECIFICATION CliSpec
CONSTANTS
    Phones <- MCPhones
    Names <- MCNames
    Cut <- MCCut
    NamesGiven = {1}
    Unnamed = 0
    NoContact = NoContact
    CallsKept = 1
    ROWS = 1
    OptionRows = 5
    MAX_DEPTH = 8
    LastTime = 3
    Starts = 2
INVARIANT BootIsNoChangeEver
