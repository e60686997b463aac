------------------------------- MODULE Bencode -------------------------------
(***************************************************************************)
(* bencode::decode: one value read from the front of a text.  The C++      *)
(* functions call each other for nested values; here every call that reads *)
(* something is a step and the open lists and dictionaries are a stack of  *)
(* frames, the innermost last.  Whatever follows the value is left alone,  *)
(* as decode leaves it.                                                    *)
(*                                                                         *)
(* A text is a sequence of characters.  A value is a record with one       *)
(* field, string, integer, list or dict; the entries of a dictionary are   *)
(* pairs, in the order they were read.                                     *)
(***************************************************************************)
EXTENDS Integers, Sequences, SequencesExt

CONSTANTS
  Chars,    \* the characters that texts are made of, all bytes in the code
  Values,   \* the values of the texts
  Inputs,   \* the texts decoded
  SizeMod,  \* size_t is arithmetic modulo this, 2^64 in the code
  IntMax    \* the largest int64_t, 2^63 - 1 in the code

ASSUME BencodeAssumption ==
  /\ IntMax \in Nat
  /\ SizeMod \in Nat
  /\ {"0", "1", "2", "3", "4", "5", "6", "7", "8", "9", ":", "-", "i", "l", "d", "e"} \subseteq Chars
  /\ \A text \in Inputs : text \in Seq(Chars) /\ Len(text) < SizeMod

\* What a Value holds: one of the four, and values again.
IsValue(v) ==
  \/ v \in [string : Seq(Chars)]
  \/ v \in [integer : -(IntMax + 1) .. IntMax]
  \/ v \in [list : Seq(Values)]
  \/ /\ v \in [dict : Seq(Seq(Chars) \X Values)]
     /\ \A k \in DOMAIN v.dict : [string |-> v.dict[k][1]] \in Values

ASSUME ValuesAssumption == \A v \in Values : IsValue(v)

VARIABLES
  input,    \* the text decode was given
  rest,     \* what is left of it
  stack,    \* the lists and dictionaries being read
  value,    \* what decode returns, << >> before it does
  status    \* "running", "done" or "failed"

vars == <<input, rest, stack, value, status>>

Init ==
  /\ input \in Inputs
  /\ rest = input
  /\ stack = << >> /\ value = << >> /\ status = "running"

----------------------------------------------------------------------------
(* Numbers: std::from_chars reads the digits at the front, the rest is not *)
(* looked at.                                                              *)

Numerals == <<"0", "1", "2", "3", "4", "5", "6", "7", "8", "9">>
IsDigit(c) == \E d \in DOMAIN Numerals : Numerals[d] = c
DigitValue(c) == (CHOOSE d \in DOMAIN Numerals : Numerals[d] = c) - 1

Find(text, c) == SelectInSeq(text, LAMBDA x : x = c)

Digits(text) ==
  LET end == SelectInSeq(text, LAMBDA x : ~IsDigit(x))
  IN  IF end = 0 THEN text ELSE SubSeq(text, 1, end - 1)

Number(digits) ==
  LET upTo[k \in 0 .. Len(digits)] ==
        IF k = 0 THEN 0 ELSE 10 * upTo[k - 1] + DigitValue(digits[k])
  IN  upTo[Len(digits)]

----------------------------------------------------------------------------
(* What a value becomes part of *)

Running == status = "running"
Next1   == Head(rest)

\* An exception, which nothing between here and main catches.
Reject ==
  /\ status' = "failed"
  /\ UNCHANGED <<rest, stack, value>>

\* A dictionary waits for a key, then for its value.
IsDict(frame)      == "dict" \in DOMAIN frame
AwaitsKey(frame)   == IsDict(frame) /\ frame.key = << >>
AwaitsValue(frame) == IsDict(frame) /\ frame.key # << >>

Fits(frame, v) == AwaitsKey(frame) => "string" \in DOMAIN v

Extend(frame, v) ==
  CASE AwaitsKey(frame)   -> [frame EXCEPT !.key = <<v.string>>]
    [] AwaitsValue(frame) -> [dict |-> Append(frame.dict, <<frame.key[1], v>>), key |-> << >>]
    [] OTHER              -> [list |-> Append(frame.list, v)]

\* v has been read and n characters consumed: it is the result, or goes into
\* the innermost of the frames.
Yield(v, n, frames) ==
  /\ rest' = SubSeq(rest, n + 1, Len(rest))
  /\ \/ /\ frames = << >>
        /\ value' = v /\ status' = "done"
        /\ stack' = << >>
     \/ /\ frames # << >> /\ Fits(Last(frames), v)
        /\ stack' = Append(Front(frames), Extend(Last(frames), v))
        /\ UNCHANGED <<value, status>>
     \/ /\ frames # << >> /\ ~Fits(Last(frames), v)
        /\ status' = "failed"
        /\ UNCHANGED <<stack, value>>

----------------------------------------------------------------------------
(* decode_string *)

Colon  == Find(rest, ":")
Length == Number(Digits(SubSeq(rest, 1, Colon - 1)))

\* Fault: the text ends one character after the colon.
StringEndShort == (Colon + 1) % SizeMod

\* colon_pos + 1 + length, in size_t.
StringEnd == (Colon + Length) % SizeMod

\* Fault: the length is not compared with what is left.
StringIsThereUnchecked == Colon # 0 /\ Length < SizeMod

StringIsThere ==
  /\ Colon # 0
  /\ Length < SizeMod
  /\ StringEnd <= Len(rest)

\* substr takes what there is.
StringRead == SubSeq(rest, Colon + 1, IF Colon + Length <= Len(rest) THEN Colon + Length ELSE Len(rest))

DecodeString ==
  /\ Running /\ rest # << >> /\ IsDigit(Next1)
  /\ IF StringIsThere THEN Yield([string |-> StringRead], StringEnd, stack) ELSE Reject
  /\ UNCHANGED input

----------------------------------------------------------------------------
(* decode_integer *)

Terminator == Find(rest, "e")
Numeral    == SubSeq(rest, 2, Terminator - 1)
Negative   == Numeral[1] = "-"
Magnitude  == Digits(IF Negative THEN Tail(Numeral) ELSE Numeral)

IntegerRead == IF Negative THEN -Number(Magnitude) ELSE Number(Magnitude)

LeadingZero ==
  Len(Numeral) > 1 /\ (Numeral[1] = "0" \/ (Negative /\ Numeral[2] = "0"))

IntegerIsThere ==
  /\ Terminator # 0
  /\ Numeral # << >>
  /\ ~LeadingZero
  /\ Magnitude # << >>
  /\ IntegerRead \in -(IntMax + 1) .. IntMax

DecodeInteger ==
  /\ Running /\ rest # << >> /\ Next1 = "i"
  /\ IF IntegerIsThere THEN Yield([integer |-> IntegerRead], Terminator, stack) ELSE Reject
  /\ UNCHANGED input

----------------------------------------------------------------------------
(* decode_list, decode_dict, and the choice decode_one makes *)

Open(frame) ==
  /\ rest' = Tail(rest)
  /\ stack' = Append(stack, frame)
  /\ UNCHANGED <<input, value, status>>

OpenList ==
  /\ Running /\ rest # << >> /\ Next1 = "l"
  /\ Open([list |-> << >>])

OpenDict ==
  /\ Running /\ rest # << >> /\ Next1 = "d"
  /\ Open([dict |-> << >>, key |-> << >>])

Closed(frame) == IF IsDict(frame) THEN [dict |-> frame.dict] ELSE [list |-> frame.list]

MayClose ==
  /\ rest # << >> /\ Next1 = "e"
  /\ stack # << >> /\ ~AwaitsValue(Last(stack))

\* Fault: the 'e' is looked at and not removed.
CloseKeepingTerminator ==
  /\ Running /\ MayClose
  /\ Yield(Closed(Last(stack)), 0, Front(stack))
  /\ UNCHANGED input

Close ==
  /\ Running /\ MayClose
  /\ Yield(Closed(Last(stack)), 1, Front(stack))
  /\ UNCHANGED input

\* The text ends, or goes on with something that starts no value.
Unexpected ==
  /\ Running
  /\ ~(rest # << >> /\ (IsDigit(Next1) \/ Next1 \in {"i", "l", "d"}))
  /\ ~MayClose
  /\ Reject
  /\ UNCHANGED input

Stopped == ~Running /\ UNCHANGED vars

Next ==
  \/ DecodeString \/ DecodeInteger
  \/ OpenList \/ OpenDict \/ Close
  \/ Unexpected \/ Stopped

Spec == Init /\ [][Next]_vars

----------------------------------------------------------------------------
(* Properties *)

Consumed == SubSeq(input, 1, Len(input) - Len(rest))

\* The length wraps colon_pos + 1 + length around to nothing: no character is
\* removed, whatever the text.
WrapsToNothing ==
  rest # << >> /\ IsDigit(Next1) /\ Colon # 0 /\ Colon + Length = SizeMod

\* Whoever reads a value advances in the text: the loops of decode_list and
\* decode_dict, which have no other bound, come to an end.  The one exception
\* is a string whose length makes size_t wrap around to zero.
DecodingConsumes ==
  [][Running /\ ~WrapsToNothing /\ status' # "failed" => Len(rest') < Len(rest)]_vars

=============================================================================
