\* A metainfo with one hash too few.
SPECIFICATION Spec
CONSTANTS
  Length = 5
  PieceLength = 2
  BlockSize = 1
  PeerCounts <- TwoPeers
  HashCounts <- FewerHashes
  Faults <- NoFaults
INVARIANTS
  SuccessIsComplete
