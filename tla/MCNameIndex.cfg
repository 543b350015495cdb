SPECIFICATION NamesSpec
CONSTANTS
    KeyLength = 1
    IndexCapacity = 5
    SomeContacts <- MCContacts
    SomePrefixes <- MCPrefixes
    NumCells = 6
    Vacant = Vacant
INVARIANTS IndexSorted SeekIsLowerBound RebuildAgrees
