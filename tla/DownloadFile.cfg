\* Every fault, and every number of peers and hashes.
SPECIFICATION LiveSpec
CONSTANTS
  Length = 5
  PieceLength = 2
  BlockSize = 1
  PeerCounts <- UpToThreePeers
  HashCounts <- AnyHashes
  Faults <- AllFaultKinds
INVARIANTS
  OutcomeIsTheWorkers
  JoinBeforeReturn
  DisjointWriters
PROPERTIES
  FirstErrorStable
  ImplementsDelivery
  Returns
