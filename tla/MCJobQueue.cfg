SPECIFICATION FairSpec
CONSTANTS
  Jobs = {1, 2}
  Kind <- MediaAndFanout
  w1 = w1
  dw = dw
  PoolWorkers = {w1}
  DeliveryWorker = dw
  NoWorker = NoWorker
  NoJob = NoJob
  MaxAttempts = 2
  MaxPreemptions = 2
INVARIANTS TypeOK LockMatchesState OneRunner AttemptsLeft AttemptsBound
PROPERTIES BumpOwnsAttempt SettledIsFinal EveryJobSettles
