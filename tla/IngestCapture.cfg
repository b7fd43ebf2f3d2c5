CONSTANTS
  Schemas <- MCSchemas
  Sizes = {1, 2}
  CapBytes = 2
  Uses = {"clear", "reconnect", "save", "open"}
  MaxBoots = 1
  MaxPackets = 3
  None = None
SPECIFICATION Spec
INVARIANT CaptureConsistent
INVARIANT CaptureAccounting
CHECK_DEADLOCK FALSE
