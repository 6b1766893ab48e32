SPECIFICATION ContentSpec
CONSTANTS
    None = None
    Garbage = Garbage
    TitleChars = 2
    SummaryChars = 3
    ItemChars = 2
    DescriptionChars = 3
    MaxItems = 2
    MaxTasks = 2
    Pieces = 2
    Answers <- MCAnswers
    Texts <- MCTexts
    ItemLists <- MCItemLists
    TaskLists <- MCTaskLists
    MaxVersion = 2
INVARIANTS AnswerIsWhole ConfirmedIsCreated EchoIsNeutral
CHECK_DEADLOCK FALSE
