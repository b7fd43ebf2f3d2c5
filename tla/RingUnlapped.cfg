CONSTANTS
  p1 = p1
  p2 = p2
  Producers = {p1, p2}
  MaxClients = 1
  Capacity = 2
  MaxSchema = 2
  Ids = {0, 1}
  Requests = {{}, {1}}
  TableSizes = {2}
  Kinds = {"emit", "packed"}
  U32Max = 1
  U16Range = 8
  Ordered = TRUE
  MaxHead = 3
SPECIFICATION UnlappedFairSpec
PROPERTIES ImplementsLog EventuallyCaughtUp
