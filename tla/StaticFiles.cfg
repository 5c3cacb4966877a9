SPECIFICATION Spec
CONSTANTS
    Lengths = {0, 1, 2, 3}
    MaxStamp = 4
    MaxRequests = 3
    MinCompress = 2
    Chunk = 2
    Entries = {1, 2, 3, 4, 5}
    PageSize = 2
    MaxEdits = 3
INVARIANTS RangeIsAsAsked BodiesAreTrue PagesCover
CHECK_DEADLOCK FALSE
