\* Each part on its own.
CONSTANTS
  s1 = s1  s2 = s2  h1 = h1  h2 = h2  h3 = h3  k1 = k1  k2 = k2  v1 = v1  v2 = v2
  Segments <- MCSegments
  Patterns <- MCPatterns
  Topics <- MCTopics
  Policies <- MCPolicies
  BackoffTries <- MCTries
  MultiplierCap = 10
  IntLimit = 32
  FileLayers <- MCFileLayers
  EnvLayers <- MCEnvLayers
  CodeLayers <- MCCodeLayers
  Secrets = {"x"}
  MaxLoads = 2
  Unset = Unset
  SessionIDs = {s1, s2}
  Holders = {h1, h2, h3}
  Keys = {k1, k2}
  Values = {v1, v2}
  Nil = Nil
  Absent = Absent
  Expiries = {1, 2}
  MaxNow = 2
  MaxWrites = 2
  Rules = {"overlay", "base", "error"}
  MaxContexts = 4
  MaxTime = 1
  MaxSpent = 1
  Timeouts = {1}
  Priorities = {"NORMAL"}
  MetaKeys = {k1, k2}
  SizeOf <- EachOfTwo
  MetaLimit = 3
  Never = 5
SPECIFICATION Spec
INVARIANTS AnswerIsRight BackoffIsRight LoadIsRight SharedWhileFresh MergeIsRight LineageKept WireKept
SYMMETRY Symmetry
CHECK_DEADLOCK FALSE
