SPECIFICATION FairSpec
CONSTANTS
  N = 3
  Bursts = {1, 2, 3}
  Arrivals = {0, 1, 2, 4}
  Priorities = {0, 1}
  quantum = 2
INVARIANTS
  WaitsMeasured
  SjfOptimal
  RoundRobinFair
PROPERTIES
  AllEnd
