------------------------------ MODULE LinkMeaning ------------------------------
(***************************************************************************)
(* What a magnet link says, whatever reads it: its parameters, their       *)
(* values, and the ways to write a hash and the URL of a tracker.  It is   *)
(* what magnet::parse is compared with, and uses none of its loop.         *)
(***************************************************************************)
EXTENDS MagnetLink

\* The parameters of a link, by their first and last positions: what is between
\* two "&", or before the first and after the last.
Parameters(link) ==
  LET within == Len(Prefix) + 1 .. Len(link) IN
  {r \in within \X within :
     /\ r[1] = Len(Prefix) + 1 \/ link[r[1] - 1] = Amp
     /\ r[2] = Len(link) \/ link[r[2] + 1] = Amp
     /\ r[1] <= r[2] /\ \A i \in r[1] .. r[2] : link[i] # Amp}

\* Those that give a value to a key, the value, and the last of them.
Given(link, key) ==
  {r \in Parameters(link) : StartsWith(SubSeq(link, r[1], r[2]), key \o <<Equals>>)}

GivenValue(link, key, r) == SubSeq(link, r[1] + Len(key) + 1, r[2])

IsLast(link, key, r) == r \in Given(link, key) /\ \A q \in Given(link, key) : q[1] <= r[1]

\* A link that ends with a key and no "=".
EndsBare(link, key) == \E r \in Parameters(link) : Drop(link, r[1] - 1) = key

\* A byte in hexadecimal digits of either case, and a text of which each byte
\* stands for itself or is written as an escape.
LowerDigit(v) == IF v < 10 THEN 48 + v ELSE 87 + v

HexOf(byte, high, low) ==
  /\ high \in {UpperDigit(byte \div 16), LowerDigit(byte \div 16)}
  /\ low \in {UpperDigit(byte % 16), LowerDigit(byte % 16)}

Spelled(byte, how) ==
  CASE how = "plain" -> <<byte>>
    [] how = "upper" -> Escape(byte)
    [] how = "lower" -> <<Percent, LowerDigit(byte \div 16), LowerDigit(byte % 16)>>

Spelling(text, how) == FlattenSeq([i \in 1 .. Len(text) |-> Spelled(text[i], how[i])])

\* What a link means: it is valid when it gives an xt and only hashes for it; the
\* hash and the tracker are those given last.
Meaning(s) ==
  /\ ~EndsBare(s.link, Tr)
  /\ s.valid <=>
       /\ StartsWith(s.link, Prefix) /\ ~EndsBare(s.link, Xt)
       /\ Given(s.link, Xt) # {}
       /\ \A r \in Given(s.link, Xt) : XtIsRead(GivenValue(s.link, Xt, r))
  /\ s.valid =>
       /\ \A r \in Given(s.link, Xt) : IsLast(s.link, Xt, r) =>
            LET hex == Drop(GivenValue(s.link, Xt, r), Len(XtPrefix))
            IN  /\ Len(s.infoHash) = HashSize
                /\ \A i \in 1 .. HashSize : HexOf(s.infoHash[i], hex[2 * i - 1], hex[2 * i])
       /\ Len(s.spelled) = Len(s.tracker)
       /\ \A i \in 1 .. Len(s.tracker) : s.spelled[i] = "plain" => s.tracker[i] # Percent
       /\ Given(s.link, Tr) = {} => s.tracker = << >>
       /\ \A r \in Given(s.link, Tr) :
            IsLast(s.link, Tr, r) => GivenValue(s.link, Tr, r) = Spelling(s.tracker, s.spelled)

=============================================================================
