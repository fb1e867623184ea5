SPECIFICATION Spec
CONSTANTS
  PARTITION_SIZE = 6
  Pids = {1, 2}
  Sizes = {1, 2, 3}
INVARIANTS
  Tiling
  PolicyBeforeCoalesce
PROPERTIES
  CoalesceServesAll
  ImplementsMap
