CONSTANTS
  Places = {0, 1}
  Heights = {1, 2}
  Mid = 1
  Legacy <- OneChain
  MaxId = 3
  MaxLink = 2
  MaxTime = 3
  MinSpan = 2
  MinHalf = 2
  MinWindow = 2
  MaxWindow = 5
  Windows = {3, 4}
  Steps <- LeftRight
  Factors <- Halve
  Reach = 6
  Names = {"a", "A", "b"}
  Slug <- Files0
  Given = "given.json"
  Stem = "b"
  Conns = {"tcp", "udp"}
  Tcp = {"tcp"}
  Start = "tcp"
  NoFile = "none"
SPECIFICATION Spec
CONSTRAINT OneAtATime
INVARIANTS MarkersConsistent  ViewWellFormed LayoutsReachable
PROPERTIES  ViewStands
