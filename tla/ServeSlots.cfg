CONSTANTS
  k1 = k1
  k2 = k2
  k3 = k3
  NoPeer = NoPeer
  Peers = {k1, k2, k3}
  MaxServe = 2
  MaxClients = 2
  ProbeEvery = 1
  StatusEvery = 1
  WaitRounds = 1
  Faults = {}
  Udp = FALSE
SPECIFICATION Spec
SYMMETRY PeerSymmetry
INVARIANT OneOwner
INVARIANT NothingLeaked
INVARIANT StopComplete
CHECK_DEADLOCK FALSE
