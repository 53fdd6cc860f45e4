CONSTANTS
    PageSize = 12
    HeaderSize = 2
    SlotSize = 1
    RowSize = 4
    IndexNames = {}
    DataSize = 8
    FirstId = 100
    Names <- ThreeTables
    casefold <- AsWritten
    pkey <- NoKeys
    Reserved = {"chendb_x"}
    Schemas <- TwoColumns
    MaxStatements = 4
    MaxBegins = 1
    FirstSession = 4
SPECIFICATION Spec
INVARIANTS
    PagesHoldTheCatalog
CHECK_DEADLOCK FALSE
