SPECIFICATION Spec
CONSTANTS
  Uploads = {u1}
  Hash <- SameBytes
  Renditions = {"720"}
  Workers = {w1, w2}
  NoJob = NoJob
  NoAsset = NoAsset
  MaxAttempts = 2
  MaxTimeouts = 0
  MaxErrors = 0
  MaxCrashes = 1
  MaxDeletions = 0
  Mixed = TRUE
  Collecting = TRUE
CHECK_DEADLOCK FALSE
INVARIANTS PlayableWhenReady
