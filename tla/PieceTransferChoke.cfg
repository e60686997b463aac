\* A peer that chokes.
SPECIFICATION Spec
CONSTANTS
  Length = 4
  PieceLength = 4
  BlockSize = 2
  Start = 0
  End = 1
  Bitfields <- AllPieces
  PipelineDepth = 2
  HandedOver <- OpenHandover
  PeerEvents <- NoEvents
  ControlKinds <- ChokeControls
  MaxBlock = 2
  MaxDeviations = 0
  MaxControls = 2
INVARIANTS
  ChokeIsNotAnError
