\* Three listings, pages of one or two; during the walk, one change and
\* the end of a featured period.
SPECIFICATION Spec
CONSTANTS
  MaxIds = 3
  Mine <- OwnOf
  Prices = {1, 2}
  Horizon = 1
  Queries <- SomeQueries
  Tables <- SomeTables
  Saved <- SavedBefore
  Cap <- CapOf
  MaxChanges = 1
  None = None
INVARIANTS
  TypeOK
  NothingMissed
  NothingRepeated
  NoEmptyPage
  FeaturedSplits
  FeaturedFirst
CHECK_DEADLOCK FALSE
