SPECIFICATION FairSpec
CONSTANTS
    None = None
    MaxKeep = 4
    CompressAfter = 1
    RotateSize = 1
    MaxRecords = 8
    MaxFaults = 3
INVARIANTS RotationIsAlone LogIsASuffix
PROPERTIES ImplementsRetainedLog CompressionEnds
CHECK_DEADLOCK FALSE
