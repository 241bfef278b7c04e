SPECIFICATION BenchmarkFairSpec
CONSTANTS
  Stages = {s1, s2}
  Keys <- MCKeys
  Costs = {1, 2}
  Runs = {c1, c2}
  Readers = {v1}
  MinSample = 2
  MaxEdits = 3
  MaxFailures = 1
INVARIANTS CacheFollowsTable
PROPERTIES FiguresConverge
