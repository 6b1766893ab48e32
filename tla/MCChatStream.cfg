SPECIFICATION FairSpec
CONSTANTS
    DeltaBuffer = 2
    EventBuffer = 2
    MaxDeltas = 4
    MaxPings = 1
    MaxMessages = 5
    MaxQuestionChars = 2
    MaxHistoryChars = 5
    Conversations <- MCConversations
INVARIANTS NoGaps WellFormed WindowIsLongest
PROPERTY NothingLeaks
CHECK_DEADLOCK FALSE
