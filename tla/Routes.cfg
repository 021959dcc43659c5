CONSTANTS
  Name <- MCName
  NullName = ""
  AllName = "*"
  ThisName = "me"
  Infix <- MCInfix
  Capacity = 5
  MaxCentral = 1
  Remote = {"DEV1", "DEV10"}
  Wanted = {"/s"}
  Handle = {0}
  MaxConnectionsAsCentral = 1
  MaxDeficit = 1
  NoName = NoName
SPECIFICATION Spec
INVARIANTS
  TypeOK
  RoutesAreLive
  LookupsAreLive
  UpstreamFoundByName
PROPERTIES
  RouteChangeFlagged
