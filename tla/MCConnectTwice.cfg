SPECIFICATION Spec
CONSTANTS
  M = M
  J = J
  K = K
  v1 = v1
  v2 = v2
  None = None
  NoData = NoData
  Peer = {M, J}
  Founder = {M}
  Capacity <- FounderHasRoomForOne
  CodeLayers = 2
  Block <- ThreeBlocks
  Version = {v1, v2}
  Program <- ConnectTwicePrograms
  MaxConn = 2
INVARIANTS OneConnectionPerPeer
