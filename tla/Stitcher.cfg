CONSTANTS
    Segments <- FourSegments
    SceneSize = 6
    QDepth = 1
    MaxCopies = 2
SPECIFICATION FairSpec
INVARIANTS
    TypeOK
    NothingDropped
    NoDueSegmentHeld
PROPERTIES
    ImplementsImageFile
    ImageIsWritten
CHECK_DEADLOCK FALSE
