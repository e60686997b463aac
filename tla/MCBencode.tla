------------------------------ MODULE MCBencode ------------------------------
(***************************************************************************)
(* Small instances of the decoder and the encoder: every short text, and   *)
(* the texts of a set of values, whole, cut short and followed by more.    *)
(***************************************************************************)
EXTENDS BencodeSpelling

Characters ==
  <<"-", "0", "1", "2", "3", "4", "5", "6", "7", "8", "9", ":", "a", "b", "d", "e", "i", "l">>
AllChars == {Characters[k] : k \in DOMAIN Characters}
Bytes    == [c \in AllChars |-> CHOOSE k \in DOMAIN Characters : Characters[k] = c]

Keys == {<< >>, <<"b">>, <<"a", "d">>}
Long == [k \in 1 .. 10 |-> "a"]

Atoms ==
  {[integer |-> n] : n \in {-8, 0, 7}}
    \cup {[string |-> s] : s \in {<< >>, <<"a">>, <<"e">>, <<"1", ":">>}}

Lists(elements) == {[list |-> s] : s \in BoundedSeq(elements, 2)}

\* Dictionaries with up to two entries, their keys different, in either order.
Dicts(elements) ==
  {[dict |-> << >>]}
    \cup {[dict |-> <<<<k, v>>>>] : k \in {<< >>, <<"b">>}, v \in elements}
    \cup {[dict |-> <<<<k, v>>, <<IF k = <<"b">> THEN <<"a", "d">> ELSE <<"b">>, w>>>>] :
            k \in {<<"b">>, <<"a", "d">>}, v \in elements, w \in elements}

Nested == Lists(Atoms) \cup Dicts(Atoms)
FewNested ==
  {[list |-> << >>], [list |-> <<[integer |-> 7]>>], [dict |-> << >>],
   [dict |-> <<<<<<"b">>, [integer |-> 0]>>, <<<<"a", "d">>, [string |-> <<"e">>]>>>>]}
AllValues ==
  Atoms \cup {[string |-> s] : s \in Keys \cup {Long}} \cup Nested
    \cup Lists(FewNested) \cup Dicts(FewNested)

\* The one spelling bencoding has for a value, were its entries written in the
\* order they are in.
RECURSIVE Spelling(_)
Spelling(v) ==
  CASE "string" \in DOMAIN v  -> Decimals[Len(v.string)] \o <<":">> \o v.string
    [] "integer" \in DOMAIN v ->
         <<"i">> \o (IF v.integer < 0 THEN <<"-">> ELSE << >>)
           \o Decimals[IF v.integer < 0 THEN -v.integer ELSE v.integer] \o <<"e">>
    [] "list" \in DOMAIN v ->
         <<"l">> \o FlattenSeq([k \in DOMAIN v.list |-> Spelling(v.list[k])]) \o <<"e">>
    [] "dict" \in DOMAIN v ->
         <<"d">> \o FlattenSeq([k \in DOMAIN v.dict |->
                        Spelling([string |-> v.dict[k][1]]) \o Spelling(v.dict[k][2])])
           \o <<"e">>

\* Bencoding wants the entries of every dictionary in the order of their keys.
RECURSIVE InOrder(_)
InOrder(v) ==
  CASE "list" \in DOMAIN v -> \A k \in DOMAIN v.list : InOrder(v.list[k])
    [] "dict" \in DOMAIN v ->
         /\ \A k \in DOMAIN v.dict : InOrder(v.dict[k][2])
         /\ IsSorted(v.dict, LAMBDA a, b : Before(a[1], b[1]))
    [] OTHER -> TRUE

OrderedValues == {v \in AllValues : InOrder(v)}

Spellings == [v \in AllValues |-> Spelling(v)]
Whole     == {Spellings[v] : v \in AllValues}
Cut       == UNION {{SubSeq(s, 1, n) : n \in 0 .. Len(s)} : s \in Whole}
Followed  == {s \o t : s \in Whole, t \in {<<"e">>, <<"1">>}}
ValueTexts == Whole \cup Cut \cup Followed
ShortTexts == BoundedSeq({"0", "1", "-", ":", "i", "l", "d", "e"}, 4)
AllTexts   == ValueTexts \cup ShortTexts

----------------------------------------------------------------------------
(* What the repository's documentation says *)

\* README: "Full encoder & decoder with strict validation".  What is accepted
\* is the spelling of what is returned.
StrictValidation == status = "done" => Consumed = Spelling(value)

=============================================================================
