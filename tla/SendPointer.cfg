CONSTANTS
  MaxCentral = 2
  Peer = {"p","c"}
  ThisHop = "me"
  NoHop = "none"
  LikeThis = {"me"}
  Destination = {"*"}
  Subscription = {}
  ToAll = "*"
  Upstream = ""
  TableCapacity = 7
  MaxBusy = 2
  Steady = TRUE
SPECIFICATION Spec
PROPERTIES SendsOneMessage
