SPECIFICATION FairSpec
CONSTANTS
    Uploads = {u1, u2}
    Cleaners = {w1}
    Slots = 1
    MaxFaults = 2
INVARIANTS DocumentsKeepFiles
PROPERTY OrphansGo
CHECK_DEADLOCK FALSE
