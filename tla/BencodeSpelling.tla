---------------------------- MODULE BencodeSpelling ----------------------------
(***************************************************************************)
(* The one spelling that bencoding has for a value, whatever reads or      *)
(* writes it: decode and encode are compared with it, and it uses nothing  *)
(* of them but the ten numerals.  A list spells its items, a dictionary    *)
(* its keys and values in turn, in the order they are in.                  *)
(*                                                                         *)
(* Spelled is a function on Values, which holds what is in each of them,   *)
(* and is given by what it is of every value.                              *)
(***************************************************************************)
EXTENDS BencodeEncoder

CONSTANTS
  Spelled,  \* the spellings of the values
  Ordered   \* those with the entries of every dictionary in the order of their keys

\* A number as it is written: no sign, no zero before another digit.
Decimals[n \in Nat] ==
  IF n < 10 THEN <<Numerals[n + 1]>> ELSE Append(Decimals[n \div 10], Numerals[(n % 10) + 1])

\* What a list or a dictionary spells, one after another.
IsContainer(v) == "list" \in DOMAIN v \/ "dict" \in DOMAIN v

Items(w) ==
  IF "list" \in DOMAIN w THEN w.list
  ELSE [i \in 1 .. 2 * Len(w.dict) |->
          IF i % 2 = 1 THEN [string |-> w.dict[(i + 1) \div 2][1]] ELSE w.dict[i \div 2][2]]

\* What is left to spell of it after n of the items.
RestOf(w, n) ==
  LET count == Len(Items(w))
      last[k \in 0 .. count] ==
        IF k = 0 THEN <<"e">> ELSE Spelled[Items(w)[count - k + 1]] \o last[k - 1]
  IN  last[count - n]

IsSpelled(v) ==
  CASE "string" \in DOMAIN v  -> Spelled[v] = Decimals[Len(v.string)] \o <<":">> \o v.string
    [] "integer" \in DOMAIN v ->
         Spelled[v] = <<"i">>
           \o (IF v.integer < 0 THEN <<"-">> \o Decimals[-v.integer] ELSE Decimals[v.integer])
           \o <<"e">>
    [] "list" \in DOMAIN v    -> Spelled[v] = <<"l">> \o RestOf(v, 0)
    [] "dict" \in DOMAIN v    -> Spelled[v] = <<"d">> \o RestOf(v, 0)

ASSUME SpellingAssumption ==
  \A v \in Values : Spelled[v] \in Seq(Chars) /\ Len(Spelled[v]) < SizeMod /\ IsSpelled(v)

ASSUME OrderAssumption ==
  /\ Ordered \subseteq Values
  /\ \A v \in Ordered :
       /\ "list" \in DOMAIN v => \A k \in DOMAIN v.list : v.list[k] \in Ordered
       /\ "dict" \in DOMAIN v =>
            /\ \A k \in DOMAIN v.dict : v.dict[k][2] \in Ordered
            /\ IsSorted(v.dict, LAMBDA a, b : Before(a[1], b[1]))

----------------------------------------------------------------------------
(* Properties *)

\* The spelling of a value, whatever comes after it, is decoded to that value,
\* and what comes after it is left.
DecodesSpellings ==
  ~Running =>
    \A v \in Values :
      IsPrefix(Spelled[v], input) =>
        status = "done" /\ value = v /\ Consumed = Spelled[v]

\* No value is decoded from a part of its spelling: a message or a file that
\* was cut short is refused.
CutTextsAreRefused ==
  status = "done" => \A v \in Values : ~IsStrictPrefix(input, Spelled[v])

\* encode gives back the text a value came from, when its dictionaries are in
\* order: the info hash, the digest of the encoding, is that of the file.
OrderedTextsAreKept ==
  status = "done" =>
    \A v \in Ordered : IsPrefix(Spelled[v], input) => Encode[value] = Consumed

=============================================================================
