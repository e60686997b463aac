\* Every stream of the instance, cut in every way, to every host.
SPECIFICATION Spec
CONSTANTS
  IntBytes = 2
  StrayBytes = {0, 255}
  Hosts <- SomeHosts
  Streams <- SomeStreams
  MaxChunk = 4
INVARIANTS
  FramesKeepBoundaries
  OneDescriptor
