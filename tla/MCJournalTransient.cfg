SPECIFICATION Spec
CONSTANTS
    b1 = b1
    b2 = b2
    m2 = m2
    ContactSectors = {c1}
    MessageSectors = {m1, m2}
    HistorySectors = {h1}
    ContactValues = {ca, cb}
    MessageValues = {ma, mb}
    HistoryValues = {ha}
    BitmapSectors = {b1, b2}
    BitmapOf <- MCBitmapOf
    Blank = Blank
    Torn = Torn
    Free = Free
    NoTxn = NoTxn
    NoHeader = NoHeader
    NoWrite = NoWrite
    TornHeader = FALSE
    MayFail = TRUE
    FailStop = FALSE
INVARIANT StoredWellKept
