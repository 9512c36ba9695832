SPECIFICATION FairSpec
CONSTANTS
  i1 = i1
  i2 = i2
  i3 = i3
  r1 = r1
  r2 = r2
  c1 = c1
  Image <- ThreeImages
  PictureOf <- OwnPicture
  Request = {}
  Cron = {}
  OCR_MAX_QUEUE_LENGTH = 2
  OCR_MAX_CONCURRENCY = 1
  MaxFaults = 1
INVARIANTS
  TypeOK
  QueueBound
PROPERTIES
  JobsUseSemaphore
  EveryJobEnds
CHECK_DEADLOCK FALSE
