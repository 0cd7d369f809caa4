\* Buffers of up to three pages at every offset, descriptors shorter and longer
\* than a page, a ring that is cut at every place.
SPECIFICATION Spec
CONSTANTS
    PageSize = 4
    MaxLen = 10
    Blens = {2, 3, 9}
    DescMax = 4
    Block = 2
    Apertures = {1, 2, 3, 4, 8}
    Sizes = {1, 3, 9}
    Wrap = 16
\* A request ends.
CHECK_DEADLOCK FALSE
INVARIANTS
    SubmitTiles
    ApertureTiles
    AdjacentSafe
