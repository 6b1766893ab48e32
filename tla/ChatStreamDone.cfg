SPECIFICATION StreamSpec
CONSTANTS
    DeltaBuffer = 2
    EventBuffer = 2
    MaxDeltas = 2
    MaxPings = 0
    MaxMessages = 5
    MaxQuestionChars = 2
    MaxHistoryChars = 5
    Conversations <- MCConversations
INVARIANT DoneIsComplete
CHECK_DEADLOCK FALSE
