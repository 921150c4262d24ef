SPECIFICATION FairSpec
CONSTANTS
  Uploads = {u1}
  Hash <- SameBytes
  Renditions = {"720"}
  Workers = {w1}
  NoJob = NoJob
  NoAsset = NoAsset
  MaxAttempts = 2
  MaxTimeouts = 1
  MaxErrors = 0
  MaxCrashes = 1
  MaxDeletions = 1
  Mixed = FALSE
  Collecting = TRUE
CHECK_DEADLOCK FALSE
INVARIANTS ReadyHasMedia OriginalSpared
PROPERTIES EveryUploadSettles StoreConverges
