SPECIFICATION Spec
CONSTANTS
  Sockets = {s1, s2, s3}
  Rooms = {Lobby, r}
  Lobby = Lobby
  LoginNames = {a}
SYMMETRY Symmetry
VIEW Lists
CONSTRAINT FewChanges
PROPERTIES
  KeepsItsNode
  OnlyNamesSpoil
  ImplementsDirectory
CHECK_DEADLOCK FALSE
