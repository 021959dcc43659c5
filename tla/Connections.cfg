CONSTANTS
  Name <- MCName
  NullName = ""
  AllName = "*"
  ThisName = "me"
  Infix <- MCInfix
  Capacity = 5
  MaxCentral = 3
  Remote = {"DEV1"}
  Wanted = {}
  Handle = {0, 1, 2}
  MaxConnectionsAsCentral = 2
  MaxDeficit = 3
  NoName = NoName
SPECIFICATION Spec
INVARIANTS
  SlotServesItsLink
  CountNeverOver
  DevicesArePrepared
PROPERTIES
  LinksRefined
