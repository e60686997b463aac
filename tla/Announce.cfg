\* Every reply for one torrent, and every torrent and link for one reply.
SPECIFICATION LiveSpec
CONSTANTS
  HashSize = 3
  PeerId <- SomeId
  Hosts <- SomeHosts
  Calls <- SomeCalls
INVARIANTS
  LinksAreRead
  RequestNamesTheTorrent
  PeersAreComplete
  ErrorsHaveACause
PROPERTY
  Terminates
