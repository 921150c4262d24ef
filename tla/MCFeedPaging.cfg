SPECIFICATION FairSpec
CONSTANTS
  Rows = {1, 2, 3}
  Times = {0, 1, 2, 3}
  Second = 2
  Limits = {1, 2}
  Author <- SomeAuthors
  Public = {1, 2, 3}
  Remote = {1}
  Tagged = {2, 3}
  LocalActors = {"alice"}
  Owner = "alice"
  NoCursor = NoCursor
  MaxChanges = 1
CHECK_DEADLOCK FALSE
INVARIANTS TypeOK PagesDescend MissedBehindCursor
PROPERTIES WalkEnds
