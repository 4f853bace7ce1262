SPECIFICATION Spec
CONSTANTS
    LAST = 2
    Size <- MCSize
    PIECE = 2
    RECV = 3
    MaxStarts = 2
INVARIANTS TypeOK  
PROPERTIES LatestIsRecorded 
