SPECIFICATION Spec
CHECK_DEADLOCK FALSE
CONSTANTS
  Directions <- MCDirections
  MaxInt = 2147483647
  Descriptors <- MCDescriptors
  Plans <- MCPlans
  SceneId = 777
  Client = 127
  WorkerHost = 128
  SharedSize = 48
  SceneSize = 900
  HeadRoom = 30
  MsgSize = 8
  Pieces = {1, 2}
  Uninitialised = {99}
INVARIANTS MessagesArrive PacketsArrive
PROPERTIES EveryMessageArrives
