CONSTANTS
  Schemas <- MCSchemas
  Sizes = {1}
  CapBytes = 2
  Uses = {"reconnect", "save", "open", "plot"}
  MaxBoots = 1
  MaxPackets = 2
  None = None
SPECIFICATION FairSpec
INVARIANT SamplesBelong
INVARIANT Saveable
PROPERTY DropReturnsUnlessMid
PROPERTY ComesBack
CHECK_DEADLOCK FALSE
