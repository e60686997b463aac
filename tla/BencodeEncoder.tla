---------------------------- MODULE BencodeEncoder ----------------------------
(***************************************************************************)
(* bencode::encode, for the values of Bencode: the entries of a dictionary *)
(* are written in the order of their keys.                                 *)
(***************************************************************************)
EXTENDS Bencode

CONSTANT Byte   \* the byte that a character is

ASSUME ByteAssumption == Byte \in [Chars -> 0 .. 255]

\* std::string's operator<
Before(s, t) ==
  \E k \in 1 .. Len(t) :
    /\ k - 1 <= Len(s) /\ SubSeq(s, 1, k - 1) = SubSeq(t, 1, k - 1)
    /\ k <= Len(s) => Byte[s[k]] < Byte[t[k]]

\* std::ranges::sort by key: no entry comes before one that has been placed
\* before it.  Which of two entries with equal keys comes first is left open.
KeyOrder(items) ==
  CHOOSE place \in Bijection(DOMAIN items, DOMAIN items) :
    \A i, j \in DOMAIN items : i < j => ~Before(items[place[j]][1], items[place[i]][1])

\* std::format's {} for a number that is not negative
Decimal[n \in Nat] ==
  IF n < 10 THEN <<Numerals[n + 1]>> ELSE Append(Decimal[n \div 10], Numerals[(n % 10) + 1])

EncodeString(s) == Decimal[Len(s)] \o <<":">> \o s

\* Fault: the sign is lost.
EncodeIntegerUnsigned(n) == <<"i">> \o Decimal[IF n < 0 THEN -n ELSE n] \o <<"e">>

EncodeInteger(n) ==
  <<"i">> \o (IF n < 0 THEN <<"-">> \o Decimal[-n] ELSE Decimal[n]) \o <<"e">>

\* append_to, one case for each alternative of the variant.
Encode[v \in Values] ==
  CASE "list" \in DOMAIN v ->
         <<"l">> \o FlattenSeq([k \in DOMAIN v.list |-> Encode[v.list[k]]]) \o <<"e">>
    [] "dict" \in DOMAIN v ->
         LET order   == KeyOrder(v.dict)
             entries == [k \in DOMAIN v.dict |-> EncodeString(v.dict[k][1]) \o Encode[v.dict[k][2]]]
         IN  <<"d">> \o FlattenSeq([k \in DOMAIN entries |-> entries[order[k]]]) \o <<"e">>
    [] "string" \in DOMAIN v  -> EncodeString(v.string)
    [] "integer" \in DOMAIN v -> EncodeInteger(v.integer)

=============================================================================
