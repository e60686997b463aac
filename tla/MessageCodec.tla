----------------------------- MODULE MessageCodec -----------------------------
(***************************************************************************)
(* peer::message: how a message is written as bytes and read back.  A byte *)
(* is a number; an integer has IntBytes bytes, the highest first.          *)
(***************************************************************************)
EXTENDS Integers, Sequences, SequencesExt

CONSTANTS
  IntBytes,    \* 4 in the code
  StrayBytes   \* what memory after a message may hold

Byte == 0 .. 255

ASSUME CodecAssumption == IntBytes \in Nat \ {0} /\ StrayBytes \subseteq Byte

\* What a byte counts that k others follow.
Weight[k \in Nat] == IF k = 0 THEN 1 ELSE 256 * Weight[k - 1]

\* Two to the power of the bits of an integer, and the integers.
IntMod  == Weight[IntBytes]
Numbers == -(IntMod \div 2) .. IntMod \div 2 - 1

WriteInt(n) == [k \in 1 .. IntBytes |-> ((n % IntMod) \div Weight[IntBytes - k]) % 256]

ReadInt(bytes) ==
  LET n == FoldLeft(LAMBDA m, b : 256 * m + b, 0, bytes)
  IN  IF 2 * n < IntMod THEN n ELSE n - IntMod

----------------------------------------------------------------------------
(* Messages *)

Interested             == [kind |-> "interested"]
Unchoke                == [kind |-> "unchoke"]
Bitfield(data)         == [kind |-> "bitfield", data |-> data]
Request(index, begin, length) ==
  [kind |-> "request", index |-> index, begin |-> begin, length |-> length]
Piece(index, begin, block) ==
  [kind |-> "piece", index |-> index, begin |-> begin, block |-> block]
Extended(id, payload)  == [kind |-> "extended", id |-> id, payload |-> payload]

Messages ==
  [kind : {"unchoke", "interested"}]
    \cup [kind : {"bitfield"}, data : Seq(Byte)]
    \cup [kind : {"request"}, index : Numbers, begin : Numbers, length : Numbers]
    \cup [kind : {"piece"}, index : Numbers, begin : Numbers, block : Seq(Byte)]
    \cup [kind : {"extended"}, id : Byte, payload : Seq(Byte)]

\* The id of a message and what follows it.
Payload(m) ==
  CASE m.kind = "unchoke"    -> <<1>>
    [] m.kind = "interested" -> <<2>>
    [] m.kind = "bitfield"   -> <<5>> \o m.data
    [] m.kind = "request"    -> <<6>> \o WriteInt(m.index) \o WriteInt(m.begin) \o WriteInt(m.length)
    [] m.kind = "piece"      -> <<7>> \o WriteInt(m.index) \o WriteInt(m.begin) \o m.block
    [] m.kind = "extended"   -> <<20, m.id>> \o m.payload

Encode(m) == WriteInt(Len(Payload(m))) \o Payload(m)

\* The k-th integer of a payload.
IntAt(payload, k) == ReadInt(SubSeq(payload, (k - 1) * IntBytes + 1, k * IntBytes))

\* The payload, and behind it memory up to n bytes.
WithStray(payload, n) ==
  IF Len(payload) >= n THEN {payload}
  ELSE {payload \o stray : stray \in [1 .. n - Len(payload) -> StrayBytes]}

\* decode throws: an id it does not know, an empty extended message, a piece
\* too short for substr(8).  A request is not checked.
Refused(body) ==
  \/ body[1] \notin {1, 2, 5, 6, 7, 20}
  \/ body[1] = 20 /\ Len(body) = 1
  \/ body[1] = 7 /\ Len(body) - 1 < 2 * IntBytes

\* What decode may return of a body that it does not refuse.
Decode(body) ==
  LET payload == Tail(body)
  IN  CASE body[1] = 1  -> {Unchoke}
        [] body[1] = 2  -> {Interested}
        [] body[1] = 5  -> {Bitfield(payload)}
        [] body[1] = 6  -> {Request(IntAt(p, 1), IntAt(p, 2), IntAt(p, 3)) : p \in WithStray(payload, 3 * IntBytes)}
        [] body[1] = 7  -> {Piece(IntAt(p, 1), IntAt(p, 2), SubSeq(payload, 2 * IntBytes + 1, Len(payload))) :
                              p \in WithStray(payload, 2 * IntBytes)}
        [] body[1] = 20 -> {Extended(payload[1], Tail(payload))}

=============================================================================
