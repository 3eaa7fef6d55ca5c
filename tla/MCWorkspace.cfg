SPECIFICATION WorkSpec
CONSTANTS
  Texts = {a, b}
  Zones = {a}
  MaxTick = 2
INVARIANTS
  CachesAreFresh
