---------------------------- MODULE MCMessageStream ----------------------------
(***************************************************************************)
(* Small instances of MessageStream: integers of two bytes; every message,  *)
(* with numbers at the ends of their range, between others and keep-alives; *)
(* frames too short, unknown, and of negative length.                        *)
(***************************************************************************)
EXTENDS MessageStream

SomeMessages ==
  {Interested, Unchoke, Bitfield(<< >>), Bitfield(<<0, 255>>), Request(0, -1, 256),
   Piece(32767, -32768, << >>), Piece(1, 0, <<7, 0, 1>>), Extended(0, << >>), Extended(255, <<20>>)}

SomeJunk ==
  {Junk(WriteInt(-1) \o <<1>>),                   \* a negative length
   Junk(WriteInt(1) \o <<0>>),                    \* a choke
   Junk(WriteInt(1) \o <<20>>),                   \* no extension id
   Junk(WriteInt(1) \o <<7>>), Junk(WriteInt(4) \o <<7, 0, 1, 0>>)}   \* a piece cut short

\* A request cut short says nothing of the numbers it lacks: they are what two
\* stray bytes can make.
Stray == {0, 255, -256, -1}

ShortRequest(n) ==
  [bytes |-> WriteInt(n + 1) \o <<6>> \o [k \in 1 .. n |-> 0],
   says  |-> <<[kind : {"request"}, index : Stray, begin : Stray, length : Stray]>>, valid |-> TRUE]

SomeStreams ==
  { <<Frame(m)>> : m \in SomeMessages }
    \cup { <<Frame(m), KeepAlive, Frame(n)>> : m \in SomeMessages, n \in {Unchoke, Piece(1, 0, <<7, 0, 1>>)} }
    \cup { <<KeepAlive, KeepAlive, Frame(Interested)>>, << >>, <<KeepAlive>> }
    \cup { <<Frame(Unchoke), junk, Frame(Interested)>> : junk \in SomeJunk }
    \cup { <<ShortRequest(n), Frame(Unchoke)>> : n \in {0, 3, 5} }

SomeHosts == BoundedSeq(Behaviours, 2)

=============================================================================
