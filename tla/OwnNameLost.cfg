CONSTANTS
  Name <- MCName
  NullName = ""
  AllName = "*"
  ThisName = "me"
  Infix <- MCInfix
  Capacity = 6
  MaxCentral = 1
  Remote = {"DEV1"}
  Wanted = {"/s"}
  Handle = {0}
  MaxConnectionsAsCentral = 1
  MaxDeficit = 1
  NoName = NoName
SPECIFICATION Spec
INVARIANTS ThisNameStable
