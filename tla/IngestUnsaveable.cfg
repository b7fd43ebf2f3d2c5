CONSTANTS
  Schemas <- MCSchemas
  Sizes = {1}
  CapBytes = 2
  Uses = {"clear", "save"}
  MaxBoots = 0
  MaxPackets = 1
  None = None
SPECIFICATION Spec
INVARIANT Saveable
CHECK_DEADLOCK FALSE
