SPECIFICATION Spec
CONSTANTS
    Threads = {t1, t2}
    Scenes = {s1, s2}
    Rounds = 1
    MaxJobs = 2
    QDepth = 8
    SendDepth = 1
    MayCrash = TRUE
    None = none
INVARIANTS
    TypeOK
    AnswersBeforeException
    AnswersFindTheirCommand
    SenderLeavesNothing
    ThreadsGoOn
CHECK_DEADLOCK FALSE
