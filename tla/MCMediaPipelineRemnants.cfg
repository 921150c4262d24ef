SPECIFICATION FairSpec
CONSTANTS
  Uploads = {u1}
  Hash <- SameBytes
  Renditions = {"720"}
  Workers = {w1}
  NoJob = NoJob
  NoAsset = NoAsset
  MaxAttempts = 1
  MaxTimeouts = 1
  MaxErrors = 0
  MaxCrashes = 0
  MaxDeletions = 0
  Mixed = TRUE
  Collecting = TRUE
CHECK_DEADLOCK FALSE
PROPERTIES FailedRemnantsSwept
