\* Three frames for four pages, two images.
CONSTANTS
    Pages = {p, q, r, s}
    Data = {x, y}
    Capacity = 3
SYMMETRY PoolSymmetry
SPECIFICATION Spec
INVARIANTS
    FramesAccounted
    MostRecentResident
PROPERTIES
    ReadsLastStore
