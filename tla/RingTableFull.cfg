CONSTANTS
  p1 = p1
  Producers = {p1}
  MaxClients = 1
  Capacity = 2
  MaxSchema = 2
  Ids = {0}
  Requests = {{}}
  TableSizes = {1}
  Kinds = {"packed"}
  U32Max = 1
  U16Range = 8
  Ordered = TRUE
  MaxHead = 3
SPECIFICATION Spec
INVARIANT NoSilentLoss
