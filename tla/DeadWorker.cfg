SPECIFICATION Spec
CONSTANTS
    Threads = {t1, t2}
    Scenes = {s1, s2}
    Rounds = 1
    MaxJobs = 2
    QDepth = 5
    SendDepth = 1
    MayCrash = TRUE
    None = none
INVARIANT DeadWorkerIsCleanedUp
CHECK_DEADLOCK FALSE
