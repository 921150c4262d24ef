SPECIFICATION Spec
CONSTANTS
  ann = ann
  bob = bob
  Actors = {ann, bob}
  Author = ann
  Admins = {ann}
  Comments = {1}
  Requests = {1, 2}
  NoOne = NoOne
  NoItem = NoItem
  CommentsOff = FALSE
  MaxRequests = 4
  MaxFaults = 1
CHECK_DEADLOCK FALSE
INVARIANTS TypeOK CounterAccounts NotifiedOnce
