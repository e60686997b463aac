\* A connection that is closed while requests are being sent.
SPECIFICATION Spec
CONSTANTS
  Length = 8
  PieceLength = 8
  BlockSize = 2
  Start = 0
  End = 1
  Bitfields <- AllPieces
  PipelineDepth = 2
  HandedOver <- OpenHandover
  PeerEvents <- CloseEvents
  ControlKinds <- NoControls
  MaxBlock = 2
  MaxDeviations = 0
  MaxControls = 0
INVARIANTS
  SendFailureThrows
