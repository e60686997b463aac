\* A peer that sends what was not asked for, twice, wrong, short or too long,
\* that may lack the last piece, and a connection that may go away at any
\* moment.
SPECIFICATION LiveSpec
CONSTANTS
  Length = 8
  PieceLength = 5
  BlockSize = 2
  Start = 0
  End = 2
  Bitfields <- LastOrNot
  PipelineDepth = 2
  HandedOver <- AnyHandover
  PeerEvents <- AllPeerEvents
  ControlKinds <- SomeControls
  MaxBlock = 4
  MaxDeviations = 2
  MaxControls = 1
INVARIANTS
  TypeOK
  WindowAccounting
  InFlightBound
  NoStall
  VerifiedDelivery
  FailureBlamesPeer
PROPERTIES
  AcceptedBlocksStable
  ImplementsService
  Completes
