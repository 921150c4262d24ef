SPECIFICATION Spec
CONSTANTS
  Uploads = {u1, u2}
  Hash <- SameBytes
  Renditions = {"720"}
  Workers = {w1, w2}
  NoJob = NoJob
  NoAsset = NoAsset
  MaxAttempts = 2
  MaxTimeouts = 0
  MaxErrors = 2
  MaxCrashes = 0
  MaxDeletions = 0
  Mixed = TRUE
  Collecting = FALSE
CHECK_DEADLOCK FALSE
SYMMETRY Symmetry
INVARIANTS TypeOK ReadyHasMedia OriginalSpared AnnounceBound
