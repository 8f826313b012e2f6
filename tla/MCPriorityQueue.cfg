SPECIFICATION HeapSpec
CONSTANTS
  TaskId = {0, 1, 2, 3, 4}
  N = 4
  Rank <- MCRank
  SeqHalf = 5
INVARIANT PeekIsBest
PROPERTY ImplementsReadyQueue
