SPECIFICATION FairSpec
CONSTANTS
  MaxFrames = 3
  MaxMessages = 5
  PullLimit = 2
CHECK_DEADLOCK FALSE
INVARIANTS
  TypeOK
  ListenersFirst
  GapsOnlyAtAnnouncements
  NeverGivesUpWaiting
PROPERTIES
  ImplementsGate
  QueueDrains
