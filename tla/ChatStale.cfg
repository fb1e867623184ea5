SPECIFICATION Spec
CONSTANTS
  Sockets = {s1, s2}
  Rooms = {Lobby, r}
  Lobby = Lobby
  LoginNames = {a}
SYMMETRY Symmetry
CONSTRAINT FewChanges
INVARIANTS
  ClosedLeavesNothing
