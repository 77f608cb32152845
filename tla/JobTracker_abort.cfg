CONSTANTS
  Jobs = {j1, j2}
  Discovers = {}
  Requests = {q1}
  MaxThreads = 2
  MaxMuleDeaths = 0
  MaxApiStarts = 0
SPECIFICATION Spec
PROPERTY AbortedNeverStarts
CHECK_DEADLOCK FALSE
