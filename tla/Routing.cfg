CONSTANTS
  MaxCentral = 2
  Peer = {"p"}
  ThisHop = "me"
  NoHop = "none"
  LikeThis = {"me"}
  Destination = {"/s", "*"}
  Subscription = {"/s"}
  ToAll = "*"
  Upstream = ""
  TableCapacity = 5
  MaxBusy = 2
  Steady = FALSE
SPECIFICATION Spec
INVARIANTS
  TypeOK
  AtMostOneBehind
