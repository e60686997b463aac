---------------------------- MODULE MCPeerSession ----------------------------
(***************************************************************************)
(* Small instances of PeerSession: every mode against every kind of peer,   *)
(* with metadata ids that fit a byte, that are disabled and that do not fit.*)
(***************************************************************************)
EXTENDS PeerSession

KindsWith(ids, answers) ==
  [protocol : {"BitTorrent"},
   extensions : BOOLEAN, bitfield : BOOLEAN, unasked : BOOLEAN, eager : BOOLEAN,
   first : {"bitfield", "extended"}, metadataId : ids, metadata : answers]

\* One that listens on the port but speaks another protocol.
Stranger ==
  [protocol |-> "other",
   extensions |-> TRUE, bitfield |-> TRUE, unasked |-> FALSE, eager |-> FALSE,
   first |-> "bitfield", metadataId |-> 3, metadata |-> "right"]

EveryMode   == AllModes
EveryPeer   ==
  {Stranger}
    \cup KindsWith({0, 3, 259}, {"right", "wrong", "junk", "cut", "rejected",
                                 "not offered"})
SomeControls == {"keep-alive", "have"}
CloseEvents  == {"close", "reset"}

=============================================================================
