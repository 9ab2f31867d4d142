SPECIFICATION Spec
CONSTANTS
    Threads = {t1, t2}
    Scenes = {s1}
    Rounds = 2
    MaxJobs = 2
    QDepth = 8
    SendDepth = 1
    MayCrash = TRUE
    None = none
PROPERTY CloseCleansUp
CHECK_DEADLOCK FALSE
