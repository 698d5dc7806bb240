\* Files of up to four bytes in chunks of two, edited twice at any moment, also while they are read.
CONSTANTS
    LENGTH_CHUNK = 2
    MaxFile = 4
    MaxEdits = 2
    MaxWire = 28
    Transient = TRUE
SPECIFICATION FairSpec
INVARIANTS
    TypeOK
    ChunksWellFormed
    DataInOrder
    WholeFile
    PlainOfOneVersion
    RefusedNotSent
    
PROPERTIES
    MethodEnds
\* The method returns.
CHECK_DEADLOCK FALSE
