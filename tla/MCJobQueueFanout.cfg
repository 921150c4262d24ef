SPECIFICATION Spec
CONSTANTS
  Jobs = {1, 2}
  Kind <- FanoutAndBackfill
  w1 = w1
  dw = dw
  PoolWorkers = {w1}
  DeliveryWorker = dw
  NoWorker = NoWorker
  NoJob = NoJob
  MaxAttempts = 2
  MaxPreemptions = 0
INVARIANTS FanoutSparesClip
