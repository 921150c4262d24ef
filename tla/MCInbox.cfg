SPECIFICATION FairSpec
CONSTANTS
  n1 = n1
  alice = alice
  bob = bob
  carol = carol
  Acts <- EachKind
  Kind <- KindOf
  Sender <- SenderOf
  Object <- ObjectOf
  Attributed <- AttributedTo
  Notes = {n1}
  Actors = {alice, bob, carol}
  Locals = {carol}
  Backfilled <- Feeds
  Handlers = {1, 2}
  NoAct = NoAct
  NoActor = NoActor
  NoNote = NoNote
  MaxReceived = 3
  MaxFaults = 1
CHECK_DEADLOCK FALSE
INVARIANTS TypeOK AtMostOnce LateCreateSwallowed OnlyOwnerSpeaks
PROPERTIES DeletedStaysDeleted ProcessedUnlessFault
