SPECIFICATION BanSpec
CONSTANTS
  Key = {a1}
  Cleaner = {c1}
  Lifetime = 2
  MaxTime = 6
INVARIANT AddTakesEffect
CHECK_DEADLOCK FALSE
