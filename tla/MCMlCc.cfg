CONSTANTS
    Word = 4194304
    CountWord = 8
    ShiftWord = 4
    MaxStreak = 2
    AbortTime = 2621440
    MaxRate = 1048576
    InitialMinRtt = 200000
    Params <- MCParams
    Forests <- MCForests
    Times <- MCTimes
    Answers <- MCAnswers
    MaxAnswers = 2
SPECIFICATION CcSpec
INVARIANT CcTypeOK
PROPERTIES RateFollowsVote SafetyNetHolds ProbesGoOn
