\* Every mode against every kind of peer, over a connection that may go away.
SPECIFICATION LiveSpec
CONSTANTS
  Modes <- EveryMode
  PeerKinds <- EveryPeer
  ControlKinds <- SomeControls
  MaxControls = 1
  Events <- CloseEvents
INVARIANTS
  ExtensionsAgreed
  ReadyIsUnchoked
  WaitsOnlyForSilentPeers
  
  PatientPeersAreServed
PROPERTY
  Terminates
