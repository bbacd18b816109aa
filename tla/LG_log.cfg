\* Infos, warnings and a fatal entry on a short queue, a direct shutdown, sinks that come and go.
CONSTANTS
  i1 = i1  h1 = h1  f1 = f1
  Entries = {i1, h1, f1}
  LevelOf <- MCLevelOf
  Stoppers = {s1}
  QueueSize = 1
  Sinks = {k1, k2}
  NoEntry = NoEntry
SPECIFICATION FairSpec
INVARIANTS EntriesAccounted OnlyOpenSinks FlushedBeforeExit
PROPERTY ShutdownEnds
CHECK_DEADLOCK FALSE
