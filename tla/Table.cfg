CONSTANTS
    PageSize = 13
    HeaderSize = 2
    SlotSize = 1
    Values = {0, 1, 2, 3, 4}
    ValueLen <- TwoWidths
    RidSize = 1
    ChildSize = 1
    MaxDepth = 8
    Rows <- ShortAndLong
    MaxBegins = 1
    Unique = TRUE
    FreePages = 1
    Loads <- EmptyToDeep
    IndexDead = FALSE
SPECIFICATION Spec
INVARIANTS
    HeapHoldsWhatWasWritten
    FileIsSound
    TreeIsSound
    IndexFindsTheRows
CHECK_DEADLOCK FALSE
