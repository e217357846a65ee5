CONSTANTS
  a = a
  b = b
  r = r
  s = s
  Nodes = {a, b}
  Registries = {r, s}
  Home <- OneEach
  Movers = {a}
  MaxRounds = 2
  MaxFaults = 1
  MaxInFlight = 2
SPECIFICATION FairSpec
INVARIANTS TypeOK NeverAhead EachCountedOnce
PROPERTIES Grows Converges
