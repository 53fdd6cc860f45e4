\* CREATE INDEX meets versions that are deleted and not yet vacuumed. With
\* IndexDead = FALSE and ValueLen <- OneWide, SplitsAreNeverRefused is violated.
CONSTANTS
    PageSize = 13
    HeaderSize = 2
    SlotSize = 1
    Values = {0, 1, 2, 3, 4}
    ValueLen <- TwoWidths
    RidSize = 1
    ChildSize = 1
    MaxDepth = 8
    Rows <- ShortAndLong
    MaxBegins = 1
    Unique = TRUE
    FreePages = 1
    Loads <- EmptyToDeep
    IndexDead = TRUE
SPECIFICATION Spec
INVARIANTS
    EntriesPointAtRows
CHECK_DEADLOCK FALSE
