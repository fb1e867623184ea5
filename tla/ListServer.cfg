SPECIFICATION Spec
CONSTANTS
  Nodes = {n1, n2, n3, n4}
  NULL = NULL
  Values = {1, 2}
SYMMETRY Symmetry
INVARIANTS
  CommandsOnASequence
  HandlerFreesTheList
  LibraryOnASequence
