SPECIFICATION FairSpec
CONSTANTS
  alice = alice
  bob = bob
  rita = rita
  Locals = {alice, bob}
  Remotes = {rita}
  Locked = {bob}
  Pairs <- SomePairs
  Ids = {1, 2}
  Requests = {1, 2}
  NoId = NoId
  NoPair = NoPair
  NoMsg = NoMsg
  MaxPairs = 1
  MaxEvents = 3
CHECK_DEADLOCK FALSE
INVARIANTS TypeOK UndoneStaysUndone DroppedIsUndone
PROPERTIES ImplementsRelation FollowIsAnswered
