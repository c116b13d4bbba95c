SPECIFICATION Spec
CONSTANTS
  M = M
  J = J
  K = K
  v1 = v1
  v2 = v2
  None = None
  NoData = NoData
  Peer = {M, J, K}
  Founder = {M}
  Capacity <- FounderHasRoomForOne
  CodeLayers = 2
  Block <- AllBlocks
  Version = {v1, v2}
  Program <- AcquaintedPrograms
  MaxConn = 4
INVARIANTS IntroducedPeersArrive
