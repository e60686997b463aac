------------------------------ MODULE MagnetLink ------------------------------
(***************************************************************************)
(* magnet::parse: the hash and the tracker of a link.  The loop takes one  *)
(* parameter after each "&"; of a key given twice the last one counts, and *)
(* any xt that is no hexadecimal btih makes it throw.                      *)
(***************************************************************************)
EXTENDS UrlText

Prefix   == <<109, 97, 103, 110, 101, 116, 58, 63>>        \* magnet:?
XtPrefix == <<117, 114, 110, 58, 98, 116, 105, 104, 58>>   \* urn:btih:
Xt       == <<120, 116>>
Tr       == <<116, 114>>

\* tail, wherever the loop has a parameter left.
Tails(uri) ==
  {Drop(uri, n) : n \in {Len(Prefix)} \cup {p \in Positions(uri, Amp) : p > Len(Prefix)}} \ {<< >>}

Key(tail) == IF Find(tail, Equals) = 0 THEN tail ELSE SubSeq(tail, 1, Find(tail, Equals) - 1)

\* Without "=" it is the key; after an "&" that comes first it is not used.
Value(tail) ==
  LET end == IF Find(tail, Amp) = 0 THEN Len(tail) ELSE Find(tail, Amp) - 1
  IN  SubSeq(tail, Find(tail, Equals) + 1, end)

With(uri, key) == {tail \in Tails(uri) : Key(tail) = key}

\* The parameter that is read last is the one with the shortest tail.
LastValue(uri, key) ==
  Value(CHOOSE t \in With(uri, key) : \A other \in With(uri, key) : Len(t) <= Len(other))

XtIsRead(value) == StartsWith(value, XtPrefix) /\ HexIsRead(Drop(value, Len(XtPrefix)))

LinkIsRead(uri) ==
  /\ StartsWith(uri, Prefix)
  /\ With(uri, Xt) # {} /\ \A t \in With(uri, Xt) : XtIsRead(Value(t))

LinkHash(uri)    == HexToBytes(Drop(LastValue(uri, Xt), Len(XtPrefix)))
LinkTracker(uri) == IF With(uri, Tr) = {} THEN << >> ELSE UrlDecode(LastValue(uri, Tr))

=============================================================================
