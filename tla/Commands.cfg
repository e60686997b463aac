\* Every command on every torrent and swarm of the instance.
SPECIFICATION Spec
CONSTANTS
  HashSize = 2
  KeyOrder <- SomeKeys
  Int32Max = 127
  Int64Max = 16383
  BlockSize = 16
  Calls <- SomeCalls
  Torrents <- SomeTorrents
  Swarms <- SomeSwarms
INVARIANTS
  HandshakesNameTheTorrent
  RivalsOnlyInMagnetDownload
  EarlyFailureKeepsOutput
  ZeroMeansWritten
  UndefinedHasACause
  HonestPiecesVerify
  AskedPiecesAreAnnounced
