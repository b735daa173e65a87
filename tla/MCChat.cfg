SPECIFICATION ChatSpec
CONSTANTS
    Users <- MCUsers
    MaxSaves = 2
INVARIANT ChatSafe AnswersWhole
PROPERTY NothingLost EveryQuestionKept
CHECK_DEADLOCK FALSE
