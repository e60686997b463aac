-------------------------------- MODULE UrlText --------------------------------
(***************************************************************************)
(* util::url_encode, util::url_decode and util::hex_to_bytes: the bytes of *)
(* a hash as they are written in a link and in a request.  A text is a     *)
(* sequence of bytes, a std::string, whose characters are their codes.     *)
(***************************************************************************)
EXTENDS Integers, SequencesExt

CONSTANT HashSize   \* bytes in a hash, 20 in the code

ASSUME UrlTextAssumption == HashSize \in Nat \ {0}

Byte == 0 .. 255

\* The characters that have a meaning: %  &  /  :  =  ?
Percent  == 37
Amp      == 38
Slash    == 47
Colon    == 58
Equals   == 61
Question == 63

Digits == 48 .. 57
Upper  == 65 .. 90
Lower  == 97 .. 122

Drop(text, n)            == SubSeq(text, n + 1, Len(text))
StartsWith(text, prefix) == Len(prefix) <= Len(text) /\ SubSeq(text, 1, Len(prefix)) = prefix
Positions(text, char)    == {i \in 1 .. Len(text) : text[i] = char}

\* string_view::find, 0 where it returns npos.
Find(text, char) ==
  LET at == Positions(text, char)
  IN  IF at = {} THEN 0 ELSE CHOOSE i \in at : \A j \in at : i <= j

\* Hexadecimal digits: those url_encode writes, and those of either case.
UpperDigit(v)      == IF v < 10 THEN 48 + v ELSE 55 + v
IsHex(char)        == char \in Digits \cup 65 .. 70 \cup 97 .. 102
HexValue(char)     == IF char \in Digits THEN char - 48 ELSE IF char \in Upper THEN char - 55 ELSE char - 87
FromHex(high, low) == 16 * HexValue(high) + HexValue(low)

----------------------------------------------------------------------------
(* url_encode *)

\* Fault: only the characters that would end a parameter are escaped.
IsUnreservedLax(char) == char \notin {32, 35, Amp, Equals, Question}

\* Letters, digits and  -  .  _  ~
IsUnreserved(char) == char \in Upper \cup Lower \cup Digits \cup {45, 46, 95, 126}

Escape(char) == <<Percent, UpperDigit(char \div 16), UpperDigit(char % 16)>>

UrlEncode(raw) ==
  FlattenSeq([i \in 1 .. Len(raw) |-> IF IsUnreserved(raw[i]) THEN <<raw[i]>> ELSE Escape(raw[i])])

----------------------------------------------------------------------------
(* url_decode: what is no escape stands for itself *)

\* Fault: an escape at the very end is not looked for.
EscapeAtShort(text, i) ==
  /\ i \in 1 .. Len(text) - 3 /\ text[i] = Percent
  /\ IsHex(text[i + 1]) /\ IsHex(text[i + 2])

EscapeAt(text, i) ==
  /\ i \in 1 .. Len(text) - 2 /\ text[i] = Percent
  /\ IsHex(text[i + 1]) /\ IsHex(text[i + 2])

\* What the loop appends at a position.  It passes over the digits of an escape,
\* at which no other begins.
Decoded(text, i) ==
  IF EscapeAt(text, i) THEN <<FromHex(text[i + 1], text[i + 2])>>
  ELSE IF EscapeAt(text, i - 1) \/ EscapeAt(text, i - 2) THEN << >>
  ELSE <<text[i]>>

UrlDecode(text) == FlattenSeq([i \in 1 .. Len(text) |-> Decoded(text, i)])

----------------------------------------------------------------------------
(* hex_to_bytes, which throws unless HexIsRead *)

HexIsRead(hex) == Len(hex) = 2 * HashSize /\ \A i \in 1 .. Len(hex) : IsHex(hex[i])

HexToBytes(hex) == [i \in 1 .. HashSize |-> FromHex(hex[2 * i - 1], hex[2 * i])]

=============================================================================
