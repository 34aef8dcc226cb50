SPECIFICATION FairSpec
CONSTANTS
  Key = {a1, a2}
  Cleaner = {c1, c2}
  Lifetime = 2
  MaxTime = 5
INVARIANTS TypeOK RecentStaysPresent PresentOnlyIfRecent
PROPERTIES RateLimit ImplementsExpiringSet CleanerDelivers
CHECK_DEADLOCK FALSE
