CONSTANTS
  d1 = d1
  d2 = d2
  d3 = d3
  Devices = {d1, d2, d3}
  UserOf <- MCUserOf
  Group = {"ann", "bob"}
  FlagSets <- MCFlagSets
  PermSets <- MCPermSets
  Umask <- MCUmask
  Garbage <- MCGarbage
  Bytes = {0, 1}
  MaxSize = 2
  IntMax = 1
SPECIFICATION Spec
INVARIANTS TypeOK ModeRoundTrip Granted ReadBack
PROPERTY Survives
