SPECIFICATION StatsSpec
CONSTANTS
    requester = requester
    textBot = textBot
    userBot = userBot
    MinMembers = 2
    Window = 3
    Whole = 10
    Histories <- MCHistories
    Columns <- MCColumns
    MaxMembers = 3
    MaxPosts = 4
    MaxChanges = 2
    MaxFaults = 1
INVARIANTS
    AnswersAreTrue
    AnswersFitTogether
CHECK_DEADLOCK FALSE
