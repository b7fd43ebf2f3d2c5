CONSTANTS
  k1 = k1
  k2 = k2
  NoPeer = NoPeer
  Peers = {k1, k2}
  MaxServe = 1
  MaxClients = 1
  ProbeEvery = 2
  StatusEvery = 2
  WaitRounds = 1
  Faults = {"thread"}
  Udp = TRUE
SPECIFICATION FairSpec
PROPERTY SlotsReclaimed
PROPERTY ConnectionAnswered
PROPERTY StopReturns
PROPERTY StopUnblocks
CHECK_DEADLOCK FALSE
