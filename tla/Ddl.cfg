\* Catalog pages of two rows; only the first statement runs in the session that
\* created the file. OneNamespace is violated here.
CONSTANTS
    PageSize = 12
    HeaderSize = 2
    SlotSize = 1
    RowSize = 4
    IndexNames = {"t", "u_pkey"}
    DataSize = 8
    FirstId = 100
    Names <- TwoTables
    casefold <- Fold
    pkey <- KeyNames
    Reserved = {"chendb_x"}
    Schemas <- KeyOrTwoColumns
    MaxStatements = 4
    MaxBegins = 1
    FirstSession = 1
SPECIFICATION Spec
INVARIANTS
    AppendsAtTheEnd
    DefinitionsAreWhole
    PagesHoldTheCatalog
    CachesAgree
CHECK_DEADLOCK FALSE
