\* Two threads, one day of three numbers in base 3, a prefix and one rewritten to it.
SPECIFICATION FairSpec
CONSTANTS
  Workers = {w1, w2}
  Days = {d1}
  Prefixes = {farm, spaced}
  farm = farm
  spaced = spaced
  Stored <- Rewritten
  Radix = 3
  Full = 3
  MaxAttempts = 2
  MaxOrders = 4
  MaxTag = 2
  MaxSame = 2
  NoDay = NoDay
  NoPrefix = NoPrefix
INVARIANTS RetriesOnlyByHand NumbersFollow TagsUniqueUnlessSlipped
PROPERTIES EventuallyAnswered
CHECK_DEADLOCK FALSE
