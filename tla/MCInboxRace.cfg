SPECIFICATION Spec
CONSTANTS
  n1 = n1
  alice = alice
  bob = bob
  carol = carol
  Acts <- DeleteRace
  Kind <- KindOf
  Sender <- SenderOf
  Object <- ObjectOf
  Attributed <- AttributedTo
  Notes = {n1}
  Actors = {alice, bob, carol}
  Locals = {carol}
  Backfilled <- NoFeeds
  Handlers = {1, 2}
  NoAct = NoAct
  NoActor = NoActor
  NoNote = NoNote
  MaxReceived = 2
  MaxFaults = 0
CHECK_DEADLOCK FALSE
INVARIANTS TombstoneWins
