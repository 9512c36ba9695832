SPECIFICATION FairSpec
CONSTANTS
  i1 = i1
  i2 = i2
  i3 = i3
  r1 = r1
  r2 = r2
  c1 = c1
  Image <- OneImage
  PictureOf <- SamePicture
  Request <- TwoRequests
  Cron <- OneCron
  OCR_MAX_QUEUE_LENGTH = 1
  OCR_MAX_CONCURRENCY = 1
  MaxFaults = 2
INVARIANTS
  StorageMatchesRows
  SettledEvidenceIsKept
PROPERTIES
  UnattachedIsRemoved
CHECK_DEADLOCK FALSE
