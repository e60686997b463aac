---------------------------- MODULE Bencode_proofs ----------------------------
(***************************************************************************)
(* That the decoder advances, that it reads every value as it is spelled   *)
(* and no part of one, and that the encoder writes what has been read, for *)
(* every set of values and every width of size_t and of the integers.      *)
(*                                                                         *)
(* What is left is always an end of the text decode was given, no longer   *)
(* than size_t can count; so the position after a string, taken modulo     *)
(* 2^64, is zero only when the length wraps it around.  Within the text of *)
(* a value, a path leads from the value to what is being read: for every   *)
(* list and dictionary around it, how many of its items have been read and *)
(* what comes after it.  The stack is what the path says.                  *)
(***************************************************************************)
EXTENDS BencodeSpelling, WellFoundedInduction, TLAPS

----------------------------------------------------------------------------
(* Numbers *)

\* A set of naturals has a least element, if it has any.
LEMMA LeastOf ==
  ASSUME NEW I \in SUBSET Nat, I # {}
  PROVE  \E i \in I : \A j \in I : i <= j
  <1>1. PICK t \in I : \A s \in I : ~(<<s, t>> \in OpToRel(<, Nat))
    BY NatLessThanWellFounded, WFMin
  <1>2. ASSUME NEW s \in I, ~(t <= s) PROVE FALSE
    <2>1. <<s, t>> \in Nat \X Nat /\ <<s, t>>[1] = s /\ <<s, t>>[2] = t /\ s < t
      BY <1>2
    <2>2. <<s, t>> \in {ss \in Nat \X Nat : ss[1] < ss[2]}
      BY <2>1
    <2> QED BY <1>1, <2>2 DEF OpToRel
  <1> QED BY <1>2

\* find returns a position of the text, or npos.
LEMMA FindBounds ==
  ASSUME NEW S, NEW text \in Seq(S), NEW c
  PROVE  /\ Find(text, c) \in 0 .. Len(text)
         /\ Find(text, c) # 0 => text[Find(text, c)] = c
  <1> DEFINE I == {i \in 1 .. Len(text) : text[i] = c}
  <1>1. Find(text, c) = IF I # {} THEN Min(I) ELSE 0
    BY DEF Find, SelectInSeq
  <1>2. Len(text) \in Nat
    OBVIOUS
  <1>3. I \in SUBSET Nat /\ I \subseteq 1 .. Len(text)
    BY <1>2
  <1>4. I # {} => Min(I) \in I
    <2> HIDE DEF I
    <2>1. I # {} => \E i \in I : \A j \in I : i <= j
      BY <1>3, LeastOf
    <2> QED BY <2>1 DEF Min
  <1>5. \A i \in I : text[i] = c
    OBVIOUS
  <1> HIDE DEF I
  <1>6. CASE I = {}
    <2>1. Find(text, c) = 0
      BY <1>1, <1>6
    <2> QED BY <1>2, <2>1
  <1>7. CASE I # {}
    <2>1. Find(text, c) \in I
      BY <1>1, <1>4, <1>7
    <2>2. Find(text, c) \in 1 .. Len(text)
      BY <1>3, <2>1
    <2> QED BY <1>2, <1>5, <2>1, <2>2
  <1> QED BY <1>6, <1>7

\* What from_chars reads is digits.
LEMMA DigitsAreDigits ==
  ASSUME NEW S, NEW text \in Seq(S)
  PROVE  Digits(text) \in Seq(S) /\ \A k \in 1 .. Len(Digits(text)) : IsDigit(Digits(text)[k])
  <1> DEFINE I == {i \in 1 .. Len(text) : ~IsDigit(text[i])}
             end == IF I # {} THEN Min(I) ELSE 0
  <1>1. Digits(text) = IF end = 0 THEN text ELSE SubSeq(text, 1, end - 1)
    BY DEF Digits, SelectInSeq
  <1>2. Len(text) \in Nat
    OBVIOUS
  <1>3. I \in SUBSET Nat /\ \A i \in I : i \in 1 .. Len(text)
    BY <1>2
  <1>4. CASE I = {}
    <2>1. Digits(text) = text
      BY <1>1, <1>4
    <2> QED BY <1>4, <2>1
  <1>5. CASE I # {}
    <2>1. PICK i \in I : \A j \in I : i <= j
      <3> HIDE DEF I
      <3> QED BY <1>3, <1>5, LeastOf
    <2>2. Min(I) \in I /\ \A j \in I : Min(I) <= j
      <3> HIDE DEF I
      <3> QED BY <2>1 DEF Min
    <2> DEFINE m == Min(I)
    <2>3. m \in 1 .. Len(text) /\ \A j \in I : m <= j
      BY <1>3, <2>2
    <2> HIDE DEF m
    <2>4. Digits(text) = SubSeq(text, 1, m - 1)
      <3>1. end = m
        BY <1>5 DEF m
      <3> HIDE DEF end
      <3> QED BY <1>1, <2>3, <3>1
    <2>5. /\ SubSeq(text, 1, m - 1) \in Seq(S) /\ Len(SubSeq(text, 1, m - 1)) = m - 1
          /\ \A k \in 1 .. m - 1 : SubSeq(text, 1, m - 1)[k] = text[k]
      BY <1>2, <2>3
    <2>6. \A k \in 1 .. m - 1 : k \in 1 .. Len(text) /\ k \notin I
      BY <1>2, <2>3
    <2>7. \A k \in 1 .. m - 1 : IsDigit(text[k])
      BY <2>6
    <2> QED BY <2>4, <2>5, <2>7
  <1> QED BY <1>4, <1>5

\* A digit has a value.
LEMMA DigitValueType ==
  ASSUME NEW c, IsDigit(c)
  PROVE  DigitValue(c) \in 0 .. 9
  <1>1. DOMAIN Numerals = 1 .. 10
    BY DEF Numerals
  <1>2. \E d \in 1 .. 10 : Numerals[d] = c
    BY <1>1 DEF IsDigit
  <1>3. (CHOOSE d \in 1 .. 10 : Numerals[d] = c) \in 1 .. 10
    BY <1>2
  <1>4. DigitValue(c) = (CHOOSE d \in 1 .. 10 : Numerals[d] = c) - 1
    BY <1>1 DEF DigitValue
  <1> HIDE DEF Numerals
  <1> QED BY <1>3, <1>4

\* How each of the places of a table follows from the one before it.
Fills(F, n, S) == F \in [1 .. n -> [S -> S]]

IsTable(g, n, S, z, F) ==
  g \in [0 .. n -> S] /\ g[0] = z /\ \A i \in 1 .. n : g[i] = F[i][g[i - 1]]

\* A table that is filled from one place to the next exists, up to any place.
LEMMA TableExists ==
  ASSUME NEW S, NEW n \in Nat, NEW z \in S, NEW F, Fills(F, n, S)
  PROVE  \E g : IsTable(g, n, S, z, F)
  <1> DEFINE Upto(m, g) == g[0] = z /\ \A i \in 1 .. m : g[i] = F[i][g[i - 1]]
             Bad == {m \in 0 .. n : ~ \E g \in [0 .. n -> S] : Upto(m, g)}
  <1>1. Bad = {}
    <2> SUFFICES ASSUME Bad # {} PROVE FALSE
      OBVIOUS
    <2>1. Bad \in SUBSET Nat
      <3> HIDE DEF Upto
      <3> QED OBVIOUS
    <2>2. PICK m \in Bad : \A k \in Bad : m <= k
      BY <2>1, LeastOf
    <2>3. m # 0
      <3>1. [i \in 0 .. n |-> z] \in [0 .. n -> S]
        OBVIOUS
      <3>2. m = 0 => Upto(m, [i \in 0 .. n |-> z])
        OBVIOUS
      <3> QED BY <3>1, <3>2
    <2>4. m \in 1 .. n /\ m - 1 \in 0 .. n /\ m - 1 \notin Bad
      <3>1. m \in 0 .. n
        BY <2>2
      <3>2. m \in 1 .. n /\ m - 1 \in 0 .. n /\ ~(m <= m - 1)
        BY <2>3, <3>1
      <3> QED BY <2>2, <3>2
    <2>5. PICK f \in [0 .. n -> S] : Upto(m - 1, f)
      BY <2>4
    <2> DEFINE g == [f EXCEPT ![m] = F[m][f[m - 1]]]
    <2>6. f[m - 1] \in S /\ F[m][f[m - 1]] \in S
      <3>1. f[m - 1] \in S
        BY <2>4, <2>5
      <3>2. F[m] \in [S -> S]
        BY <2>4 DEF Fills
      <3> QED BY <3>1, <3>2
    <2>7. g \in [0 .. n -> S]
      BY <2>6
    <2>8. ASSUME NEW i \in 1 .. m PROVE g[i] = F[i][g[i - 1]]
      <3>1. i \in 0 .. n /\ i - 1 \in 0 .. n /\ i - 1 # m /\ (i # m => i \in 1 .. m - 1)
        BY <2>4, <2>8
      <3>2. CASE i = m
        <4>1. g[m] = F[m][f[m - 1]] /\ g[m - 1] = f[m - 1]
          BY <2>4
        <4> QED BY <3>2, <4>1
      <3>3. CASE i # m
        <4>1. g[i] = f[i] /\ g[i - 1] = f[i - 1]
          BY <3>1, <3>3
        <4> QED BY <2>5, <3>1, <3>3, <4>1
      <3> QED BY <3>2, <3>3
    <2>9. g[0] = z
      BY <2>4, <2>5
    <2>10. Upto(m, g)
      BY <2>8, <2>9
    <2> HIDE DEF g, Upto
    <2> QED BY <2>2, <2>7, <2>10
  <1>2. n \in 0 .. n
    OBVIOUS
  <1>3. \E g \in [0 .. n -> S] : Upto(n, g)
    <2> HIDE DEF Upto
    <2> QED BY <1>1, <1>2
  <1> QED BY <1>3 DEF IsTable

\* A number is read digit by digit: any table of the digits so far ends with it.
LEMMA NumberIs ==
  ASSUME NEW S, NEW digits \in Seq(S), \A k \in 1 .. Len(digits) : IsDigit(digits[k])
  PROVE  /\ \E g \in [0 .. Len(digits) -> Nat] :
              /\ g[0] = 0 /\ Number(digits) = g[Len(digits)]
              /\ \A i \in 1 .. Len(digits) : g[i] = 10 * g[i - 1] + DigitValue(digits[i])
         /\ \A h : h[0] = 0 /\ (\A i \in 1 .. Len(digits) : h[i] = 10 * h[i - 1] + DigitValue(digits[i]))
              => Number(digits) = h[Len(digits)]
  <1> DEFINE n == Len(digits)
             F == [i \in 1 .. n |-> [x \in Nat |-> 10 * x + DigitValue(digits[i])]]
             Step(f) == [k \in 0 .. n |-> IF k = 0 THEN 0 ELSE 10 * f[k - 1] + DigitValue(digits[k])]
             upTo == CHOOSE f : f = Step(f)
  <1>1. n \in Nat /\ n \in 0 .. n
    OBVIOUS
  <1>2. \A k \in 1 .. n : DigitValue(digits[k]) \in Nat
    BY DigitValueType
  <1>3. F \in [1 .. n -> [Nat -> Nat]]
    BY <1>2
  <1>4. \A i \in 1 .. n, x \in Nat : F[i][x] = 10 * x + DigitValue(digits[i])
    OBVIOUS
  <1>5. Number(digits) = upTo[n]
    BY DEF Number
  <1> HIDE DEF n, F
  <1>6. PICK g \in [0 .. n -> Nat] : g[0] = 0 /\ \A i \in 1 .. n : g[i] = F[i][g[i - 1]]
    <2> DEFINE T == Nat
               z == 0
    <2>1. n \in Nat /\ z \in T /\ Fills(F, n, T)
      BY <1>1, <1>3 DEF Fills
    <2> HIDE DEF T, z
    <2>2. \E g : IsTable(g, n, T, z, F)
      BY <2>1, TableExists
    <2> QED BY <2>2 DEF T, z, IsTable
  <1>7. \A i \in 1 .. n : g[i - 1] \in Nat /\ g[i] = 10 * g[i - 1] + DigitValue(digits[i])
    <2>1. \A i \in 1 .. n : i - 1 \in 0 .. n
      BY <1>1
    <2> QED BY <1>4, <1>6, <2>1
  <1>8. g = Step(g)
    <2>1. \A k \in 0 .. n : k # 0 => k \in 1 .. n
      BY <1>1
    <2>2. \A k \in 0 .. n : g[k] = IF k = 0 THEN 0 ELSE 10 * g[k - 1] + DigitValue(digits[k])
      BY <1>6, <1>7, <2>1
    <2> QED BY <1>6, <2>2
  <1>9. upTo = Step(upTo)
    <2> HIDE DEF Step
    <2> QED BY <1>8
  <1> HIDE DEF upTo
  <1>10. upTo[0] = 0 /\ \A i \in 1 .. n : upTo[i] = 10 * upTo[i - 1] + DigitValue(digits[i])
    <2>1. \A i \in 1 .. n : i \in 0 .. n /\ i # 0
      BY <1>1
    <2>2. 0 \in 0 .. n
      BY <1>1
    <2> QED BY <1>9, <2>1, <2>2
  <1>11. ASSUME NEW h, h[0] = 0, \A i \in 1 .. n : h[i] = 10 * h[i - 1] + DigitValue(digits[i])
         PROVE  \A i \in 0 .. n : h[i] = g[i]
    <2> DEFINE Bad == {i \in 0 .. n : h[i] # g[i]}
    <2>1. ASSUME Bad # {} PROVE FALSE
      <3>1. Bad \in SUBSET Nat
        BY <1>1
      <3>2. PICK i \in Bad : \A k \in Bad : i <= k
        BY <2>1, <3>1, LeastOf
      <3>3. i \in 0 .. n /\ h[i] # g[i]
        BY <3>2
      <3>4. i # 0
        BY <1>6, <1>11, <3>3
      <3>5. i \in 1 .. n /\ i - 1 \in 0 .. n /\ ~(i <= i - 1)
        BY <1>1, <3>3, <3>4
      <3>6. h[i - 1] = g[i - 1]
        BY <3>2, <3>5
      <3> QED BY <1>7, <1>11, <3>3, <3>5, <3>6
    <2> QED BY <2>1
  <1>12. upTo[n] = g[n]
    BY <1>1, <1>10, <1>11
  <1>13. \A h : h[0] = 0 /\ (\A i \in 1 .. n : h[i] = 10 * h[i - 1] + DigitValue(digits[i])) => h[n] = g[n]
    BY <1>1, <1>11
  <1> QED BY <1>5, <1>6, <1>7, <1>12, <1>13 DEF n

\* A length, or a magnitude, is a natural number.
LEMMA NumberType ==
  ASSUME NEW S, NEW digits \in Seq(S), \A k \in 1 .. Len(digits) : IsDigit(digits[k])
  PROVE  Number(digits) \in Nat
  <1>1. PICK g \in [0 .. Len(digits) -> Nat] : Number(digits) = g[Len(digits)]
    BY NumberIs
  <1>2. Len(digits) \in 0 .. Len(digits)
    OBVIOUS
  <1> QED BY <1>1, <1>2

\* One more digit.
LEMMA NumberAppended ==
  ASSUME NEW S, NEW digits \in Seq(S), \A k \in 1 .. Len(digits) : IsDigit(digits[k]),
         NEW c \in S, IsDigit(c)
  PROVE  /\ Append(digits, c) \in Seq(S)
         /\ \A k \in 1 .. Len(Append(digits, c)) : IsDigit(Append(digits, c)[k])
         /\ Number(Append(digits, c)) = 10 * Number(digits) + DigitValue(c)
  <1> DEFINE n == Len(digits)
             longer == Append(digits, c)
  <1>1. /\ n \in Nat /\ longer \in Seq(S) /\ Len(longer) = n + 1 /\ longer[n + 1] = c
        /\ \A k \in 1 .. n : longer[k] = digits[k]
    OBVIOUS
  <1>2. \A k \in 1 .. n + 1 : k # n + 1 => k \in 1 .. n
    BY <1>1
  <1>3. \A k \in 1 .. n + 1 : IsDigit(longer[k])
    BY <1>1, <1>2
  <1>4. PICK g \in [0 .. n + 1 -> Nat] :
          /\ g[0] = 0 /\ Number(longer) = g[n + 1]
          /\ \A i \in 1 .. n + 1 : g[i] = 10 * g[i - 1] + DigitValue(longer[i])
    <2> HIDE DEF longer, n
    <2>1. \A k \in 1 .. Len(longer) : IsDigit(longer[k])
      BY <1>1, <1>3
    <2>2. \E g \in [0 .. Len(longer) -> Nat] :
            /\ g[0] = 0 /\ Number(longer) = g[Len(longer)]
            /\ \A i \in 1 .. Len(longer) : g[i] = 10 * g[i - 1] + DigitValue(longer[i])
      BY <1>1, <2>1, NumberIs
    <2> QED BY <1>1, <2>2
  <1> HIDE DEF longer
  <1>5. \A i \in 1 .. n : i \in 1 .. n + 1
    BY <1>1
  <1>6. \A i \in 1 .. n : g[i] = 10 * g[i - 1] + DigitValue(digits[i])
    BY <1>1, <1>4, <1>5
  <1>7. Number(digits) = g[n]
    BY <1>4, <1>6, NumberIs
  <1>8. n + 1 \in 1 .. n + 1 /\ (n + 1) - 1 = n
    BY <1>1
  <1>9. Number(longer) = 10 * g[n] + DigitValue(c)
    BY <1>1, <1>4, <1>8
  <1> QED BY <1>1, <1>3, <1>7, <1>9 DEF longer

\* The value of the numerals.
LEMMA NumeralIs ==
  ASSUME NEW n \in 0 .. 9
  PROVE  /\ Numerals[n + 1] \in Chars /\ IsDigit(Numerals[n + 1])
         /\ DigitValue(Numerals[n + 1]) = n
         /\ n # 0 => Numerals[n + 1] # "0"
  <1>1. DOMAIN Numerals = 1 .. 10 /\ n + 1 \in 1 .. 10
    BY DEF Numerals
  <1>2. /\ Numerals[1] = "0" /\ Numerals[2] = "1" /\ Numerals[3] = "2" /\ Numerals[4] = "3"
        /\ Numerals[5] = "4" /\ Numerals[6] = "5" /\ Numerals[7] = "6" /\ Numerals[8] = "7"
        /\ Numerals[9] = "8" /\ Numerals[10] = "9"
    BY DEF Numerals
  <1>3. \A d \in 1 .. 10 : d = 1 \/ d = 2 \/ d = 3 \/ d = 4 \/ d = 5 \/ d = 6 \/ d = 7 \/ d = 8 \/ d = 9 \/ d = 10
    OBVIOUS
  <1>4. \A d \in 1 .. 10 : Numerals[d] \in Chars
    BY <1>2, <1>3, BencodeAssumption
  <1>5. \A d, e \in 1 .. 10 : Numerals[d] = Numerals[e] => d = e
    BY <1>2, <1>3
  <1>6. (CHOOSE d \in 1 .. 10 : Numerals[d] = Numerals[n + 1]) = n + 1
    BY <1>1, <1>5
  <1>7. DigitValue(Numerals[n + 1]) = (n + 1) - 1
    BY <1>1, <1>6 DEF DigitValue
  <1>8. n # 0 => Numerals[n + 1] # "0"
    BY <1>1, <1>2, <1>5
  <1> QED BY <1>1, <1>4, <1>7, <1>8 DEF IsDigit

\* Decimals is defined for every number.
LEMMA DecimalsStep ==
  \A n \in Nat :
    Decimals[n] =
      IF n < 10 THEN <<Numerals[n + 1]>> ELSE Append(Decimals[n \div 10], Numerals[(n % 10) + 1])
  <1> DEFINE Text == Seq(Chars)
             Rule(g, i) == IF i < 10 THEN <<Numerals[i + 1]>> ELSE Append(g[i \div 10], Numerals[(i % 10) + 1])
             Upto(n, g) == \A i \in 0 .. n : g[i] = Rule(g, i)
             Step(f) == [n \in Nat |-> Rule(f, n)]
  <1>1. \A i \in Nat : ~(i < 10) => i \div 10 \in Nat /\ i \div 10 < i /\ i \div 10 # 0 /\ i % 10 \in 0 .. 9
    OBVIOUS
  <1>2. ASSUME NEW i \in Nat, NEW g, i < 10 \/ g[i \div 10] \in Text PROVE Rule(g, i) \in Text
    <2>1. CASE i < 10
      <3>1. Numerals[i + 1] \in Chars
        BY <2>1, NumeralIs
      <3> QED BY <2>1, <3>1
    <2>2. CASE ~(i < 10)
      <3>1. Numerals[(i % 10) + 1] \in Chars
        BY <1>1, <2>2, NumeralIs
      <3> QED BY <1>2, <2>2, <3>1
    <2> QED BY <2>1, <2>2
  <1>3. ASSUME NEW i \in Nat, NEW g, NEW h, i < 10 \/ g[i \div 10] = h[i \div 10] PROVE Rule(g, i) = Rule(h, i)
    BY <1>3
  <1> HIDE DEF Rule, Text
  <1>4. \A n \in Nat : \E g \in [0 .. n -> Text] : Upto(n, g)
    <2> DEFINE Bad == {n \in Nat : ~ \E g \in [0 .. n -> Text] : Upto(n, g)}
    <2> SUFFICES ASSUME Bad # {} PROVE FALSE
      OBVIOUS
    <2>1. Bad \in SUBSET Nat
      <3> HIDE DEF Upto
      <3> QED OBVIOUS
    <2>2. PICK n \in Bad : \A k \in Bad : n <= k
      <3> HIDE DEF Bad
      <3> QED BY <2>1, LeastOf
    <2>3. n \in Nat /\ ~ \E g \in [0 .. n -> Text] : Upto(n, g)
      <3> HIDE DEF Upto
      <3> QED BY <2>2
    <2>4. PICK f : n # 0 => f \in [0 .. n - 1 -> Text] /\ Upto(n - 1, f)
      <3>1. CASE n # 0
        <4>1. n - 1 \in Nat /\ ~(n <= n - 1)
          BY <2>3, <3>1
        <4>2. n - 1 \notin Bad
          <5> HIDE DEF Bad
          <5> QED BY <2>2, <4>1
        <4>3. \E g \in [0 .. n - 1 -> Text] : Upto(n - 1, g)
          <5> HIDE DEF Upto
          <5> QED BY <4>1, <4>2
        <4> HIDE DEF Upto
        <4> QED BY <4>3
      <3>2. CASE n = 0
        BY <3>2
      <3> QED BY <3>1, <3>2
    <2> DEFINE g == [i \in 0 .. n |-> IF i = n THEN Rule(f, n) ELSE f[i]]
    <2>5. \A i \in 0 .. n : i \in Nat /\ (i # n => n # 0 /\ i \in 0 .. n - 1)
      BY <2>3
    <2>6. n < 10 \/ (n # 0 /\ n \div 10 \in 0 .. n - 1)
      <3>1. ~(n < 10) => n \div 10 \in Nat /\ n \div 10 < n
        BY <1>1, <2>3
      <3> QED BY <2>3, <3>1
    <2>7. Rule(f, n) \in Text
      <3>1. n < 10 \/ f[n \div 10] \in Text
        BY <2>4, <2>6
      <3> QED BY <1>2, <2>3, <3>1
    <2>8. g \in [0 .. n -> Text]
      <3>1. \A i \in 0 .. n : i # n => f[i] \in Text
        BY <2>4, <2>5
      <3> QED BY <2>7, <3>1
    <2>9. ASSUME NEW i \in 0 .. n PROVE g[i] = Rule(g, i)
      <3>1. i < 10 \/ (i \div 10 \in 0 .. n /\ i \div 10 # n)
        <4>1. i \in Nat /\ i <= n /\ (~(i < 10) => i \div 10 \in Nat /\ i \div 10 < i)
          BY <1>1, <2>3, <2>9
        <4> QED BY <2>3, <4>1
      <3>2. i < 10 \/ g[i \div 10] = f[i \div 10]
        BY <3>1
      <3>3. i \in Nat
        BY <2>3
      <3> HIDE DEF g
      <3>4. Rule(g, i) = Rule(f, i)
        BY <1>3, <3>2, <3>3
      <3>5. g[i] = IF i = n THEN Rule(f, n) ELSE f[i]
        BY DEF g
      <3>6. i # n => f[i] = Rule(f, i)
        BY <2>4, <2>5
      <3> QED BY <3>4, <3>5, <3>6
    <2>10. Upto(n, g)
      BY <2>9
    <2> HIDE DEF g, Upto
    <2> QED BY <2>3, <2>8, <2>10
  <1>5. ASSUME NEW n \in Nat, NEW m \in Nat, m <= n, NEW g, NEW h, Upto(n, g), Upto(m, h)
        PROVE  g[m] = h[m]
    <2> DEFINE Bad == {i \in 0 .. m : g[i] # h[i]}
    <2>1. ASSUME Bad # {} PROVE FALSE
      <3>1. Bad \in SUBSET Nat
        OBVIOUS
      <3>2. PICK i \in Bad : \A k \in Bad : i <= k
        <4> HIDE DEF Bad
        <4> QED BY <2>1, <3>1, LeastOf
      <3>3. i \in Nat /\ i \in 0 .. n /\ i \in 0 .. m /\ g[i] # h[i]
        BY <1>5, <3>2
      <3>4. i < 10 \/ (i \div 10 \in 0 .. m /\ ~(i <= i \div 10))
        <4>1. ~(i < 10) => i \div 10 \in Nat /\ i \div 10 < i
          BY <1>1, <3>3
        <4> QED BY <3>3, <4>1
      <3>5. i < 10 \/ g[i \div 10] = h[i \div 10]
        BY <3>2, <3>4
      <3>6. Rule(g, i) = Rule(h, i)
        BY <1>3, <3>3, <3>5
      <3>7. g[i] = Rule(g, i) /\ h[i] = Rule(h, i)
        BY <1>5, <3>3
      <3> QED BY <3>3, <3>6, <3>7
    <2> QED BY <2>1
  <1> DEFINE Table(n) == CHOOSE g \in [0 .. n -> Text] : Upto(n, g)
             F == [n \in Nat |-> Table(n)[n]]
  <1>6. \A n \in Nat : Upto(n, Table(n))
    <2> HIDE DEF Upto
    <2> QED BY <1>4
  <1> HIDE DEF Table
  <1>7. ASSUME NEW n \in Nat PROVE F[n] = Rule(F, n)
    <2>1. n \in 0 .. n
      OBVIOUS
    <2>2. Table(n)[n] = Rule(Table(n), n)
      BY <1>6, <2>1
    <2>3. n < 10 \/ Table(n)[n \div 10] = F[n \div 10]
      <3>1. ~(n < 10) => n \div 10 \in Nat /\ n \div 10 <= n
        BY <1>1
      <3>2. ~(n < 10) => Table(n)[n \div 10] = Table(n \div 10)[n \div 10]
        <4> HIDE DEF Upto
        <4> QED BY <1>5, <1>6, <3>1
      <3> QED BY <3>1, <3>2
    <2>4. F[n] = Table(n)[n]
      OBVIOUS
    <2> HIDE DEF F
    <2> QED BY <1>3, <2>2, <2>3, <2>4
  <1>8. F = Step(F)
    <2>1. F = [n \in Nat |-> F[n]]
      OBVIOUS
    <2> HIDE DEF F
    <2> QED BY <1>7, <2>1
  <1>9. Decimals = Step(Decimals)
    <2>1. Decimals = CHOOSE f : f = Step(f)
      BY DEF Decimals, Step, Rule
    <2> HIDE DEF F, Step
    <2> QED BY <1>8, <2>1
  <1>10. \A n \in Nat : Decimals[n] = Rule(Decimals, n)
    BY <1>9
  <1> QED BY <1>10 DEF Rule

\* The digits of a number are read as that number, and do not begin with a zero.
LEMMA DecimalIs ==
  ASSUME NEW n \in Nat
  PROVE  /\ Decimals[n] \in Seq(Chars) /\ Len(Decimals[n]) \in Nat \ {0}
         /\ \A k \in 1 .. Len(Decimals[n]) : IsDigit(Decimals[n][k])
         /\ Number(Decimals[n]) = n
         /\ (Len(Decimals[n]) > 1 \/ n # 0) => Decimals[n][1] # "0"
  <1> DEFINE Right(m) == /\ Decimals[m] \in Seq(Chars) /\ Len(Decimals[m]) \in Nat \ {0}
                         /\ \A k \in 1 .. Len(Decimals[m]) : IsDigit(Decimals[m][k])
                         /\ Number(Decimals[m]) = m
                         /\ (Len(Decimals[m]) > 1 \/ m # 0) => Decimals[m][1] # "0"
             Bad == {m \in Nat : ~Right(m)}
  <1>1. ASSUME Bad # {} PROVE FALSE
    <2>1. Bad \in SUBSET Nat
      <3> HIDE DEF Right
      <3> QED OBVIOUS
    <2>2. PICK m \in Bad : \A k \in Bad : m <= k
      <3> HIDE DEF Bad
      <3> QED BY <1>1, <2>1, LeastOf
    <2>3. m \in Nat /\ ~Right(m)
      <3> HIDE DEF Right
      <3> QED BY <2>2
    <2>4. CASE m < 10
      <3> DEFINE c == Numerals[m + 1]
      <3>1. Decimals[m] = <<c>>
        BY <2>3, <2>4, DecimalsStep
      <3>2. c \in Chars /\ IsDigit(c) /\ DigitValue(c) = m /\ (m # 0 => c # "0")
        BY <2>3, <2>4, NumeralIs
      <3> HIDE DEF c
      <3>3. Number(<< >>) = 0
        <4>1. << >> \in Seq(Chars) /\ Len(<< >>) = 0
          OBVIOUS
        <4>2. \A k \in 1 .. Len(<< >>) : IsDigit(<< >>[k])
          BY <4>1
        <4>3. \E g \in [0 .. Len(<< >>) -> Nat] : g[0] = 0 /\ Number(<< >>) = g[Len(<< >>)]
          BY <4>1, <4>2, NumberIs
        <4> QED BY <4>1, <4>3
      <3>4. Number(Append(<< >>, c)) = 10 * 0 + DigitValue(c)
        <4>1. << >> \in Seq(Chars) /\ \A k \in 1 .. Len(<< >>) : IsDigit(<< >>[k])
          OBVIOUS
        <4>2. Number(Append(<< >>, c)) = 10 * Number(<< >>) + DigitValue(c)
          BY <3>2, <4>1, NumberAppended
        <4> QED BY <3>3, <4>2
      <3>5. Append(<< >>, c) = <<c>>
        OBVIOUS
      <3>6. Number(<<c>>) = m
        BY <2>3, <3>2, <3>4, <3>5
      <3>7. <<c>> \in Seq(Chars) /\ Len(<<c>>) = 1 /\ <<c>>[1] = c
        BY <3>2
      <3>8. \A k \in 1 .. 1 : IsDigit(<<c>>[k])
        BY <3>2, <3>7
      <3> QED BY <2>3, <3>1, <3>2, <3>6, <3>7, <3>8
    <2>5. CASE ~(m < 10)
      <3> DEFINE q == m \div 10
                 c == Numerals[(m % 10) + 1]
                 d == Decimals[q]
      <3>1. q \in Nat /\ q # 0 /\ ~(m <= q) /\ m % 10 \in 0 .. 9 /\ m = 10 * q + (m % 10)
        BY <2>3, <2>5
      <3>2. Right(q)
        <4> HIDE DEF Right, q
        <4>1. q \notin Bad
          <5> HIDE DEF Bad
          <5> QED BY <2>2, <3>1
        <4> QED BY <3>1, <4>1
      <3>3. Decimals[m] = Append(d, c)
        BY <2>3, <2>5, DecimalsStep
      <3>4. c \in Chars /\ IsDigit(c) /\ DigitValue(c) = m % 10
        BY <3>1, NumeralIs
      <3>5. /\ d \in Seq(Chars) /\ Len(d) \in Nat \ {0} /\ \A k \in 1 .. Len(d) : IsDigit(d[k])
            /\ Number(d) = q /\ d[1] # "0"
        BY <3>1, <3>2
      <3> HIDE DEF q, c, d
      <3>6. /\ Append(d, c) \in Seq(Chars)
            /\ \A k \in 1 .. Len(Append(d, c)) : IsDigit(Append(d, c)[k])
            /\ Number(Append(d, c)) = m
        <4>1. /\ Append(d, c) \in Seq(Chars)
              /\ \A k \in 1 .. Len(Append(d, c)) : IsDigit(Append(d, c)[k])
              /\ Number(Append(d, c)) = 10 * Number(d) + DigitValue(c)
          BY <3>4, <3>5, NumberAppended
        <4> QED BY <3>1, <3>4, <3>5, <4>1
      <3>7. Len(Append(d, c)) = Len(d) + 1 /\ Append(d, c)[1] = d[1]
        BY <3>4, <3>5
      <3>8. Len(Append(d, c)) \in Nat \ {0}
        BY <3>5, <3>7
      <3> QED BY <2>3, <3>3, <3>5, <3>6, <3>7, <3>8
    <2> QED BY <2>4, <2>5
  <1> QED BY <1>1

----------------------------------------------------------------------------
(* Values and spellings *)

\* The four kinds of values, told apart by their field.
LEMMA Kinds ==
  ASSUME NEW v \in Values
  PROVE  \/ /\ DOMAIN v = {"string"} /\ v.string \in Seq(Chars) /\ v = [string |-> v.string]
            /\ Spelled[v] = Decimals[Len(v.string)] \o <<":">> \o v.string
         \/ /\ DOMAIN v = {"integer"} /\ v.integer \in -(IntMax + 1) .. IntMax /\ v = [integer |-> v.integer]
            /\ Spelled[v] = <<"i">>
                 \o (IF v.integer < 0 THEN <<"-">> \o Decimals[-v.integer] ELSE Decimals[v.integer])
                 \o <<"e">>
         \/ /\ DOMAIN v = {"list"} /\ v.list \in Seq(Values) /\ v = [list |-> v.list]
            /\ Spelled[v] = <<"l">> \o RestOf(v, 0)
         \/ /\ DOMAIN v = {"dict"} /\ v.dict \in Seq(Seq(Chars) \X Values) /\ v = [dict |-> v.dict]
            /\ \A k \in DOMAIN v.dict : [string |-> v.dict[k][1]] \in Values
            /\ Spelled[v] = <<"d">> \o RestOf(v, 0)
  <1>1. IsValue(v) /\ IsSpelled(v)
    BY ValuesAssumption, SpellingAssumption
  <1>2. CASE v \in [string : Seq(Chars)]
    <2>1. DOMAIN v = {"string"} /\ v.string \in Seq(Chars) /\ v = [string |-> v.string]
      BY <1>2
    <2>2. "string" \in DOMAIN v
      BY <2>1
    <2>3. Spelled[v] = Decimals[Len(v.string)] \o <<":">> \o v.string
      BY <1>1, <2>2, <2>1 DEF IsSpelled
    <2> QED BY <2>1, <2>3
  <1>3. CASE v \in [integer : -(IntMax + 1) .. IntMax]
    <2>1. DOMAIN v = {"integer"} /\ v.integer \in -(IntMax + 1) .. IntMax /\ v = [integer |-> v.integer]
      BY <1>3
    <2>2. "integer" \in DOMAIN v /\ "string" \notin DOMAIN v /\ "list" \notin DOMAIN v /\ "dict" \notin DOMAIN v
      BY <2>1
    <2>3. Spelled[v] = <<"i">>
            \o (IF v.integer < 0 THEN <<"-">> \o Decimals[-v.integer] ELSE Decimals[v.integer])
            \o <<"e">>
      BY <1>1, <2>2 DEF IsSpelled
    <2> QED BY <2>1, <2>3
  <1>4. CASE v \in [list : Seq(Values)]
    <2>1. DOMAIN v = {"list"} /\ v.list \in Seq(Values) /\ v = [list |-> v.list]
      BY <1>4
    <2>2. "list" \in DOMAIN v /\ "string" \notin DOMAIN v /\ "integer" \notin DOMAIN v /\ "dict" \notin DOMAIN v
      BY <2>1
    <2>3. Spelled[v] = <<"l">> \o RestOf(v, 0)
      BY <1>1, <2>2 DEF IsSpelled
    <2> QED BY <2>1, <2>3
  <1>5. CASE /\ v \in [dict : Seq(Seq(Chars) \X Values)]
             /\ \A k \in DOMAIN v.dict : [string |-> v.dict[k][1]] \in Values
    <2>1. DOMAIN v = {"dict"} /\ v.dict \in Seq(Seq(Chars) \X Values) /\ v = [dict |-> v.dict]
      BY <1>5
    <2>2. "dict" \in DOMAIN v /\ "string" \notin DOMAIN v /\ "integer" \notin DOMAIN v /\ "list" \notin DOMAIN v
      BY <2>1
    <2>3. Spelled[v] = <<"d">> \o RestOf(v, 0)
      BY <1>1, <2>2 DEF IsSpelled
    <2> QED BY <1>5, <2>1, <2>3
  <1> QED BY <1>1, <1>2, <1>3, <1>4, <1>5 DEF IsValue

\* What a list or a dictionary spells are values.
LEMMA ItemsType ==
  ASSUME NEW w \in Values, IsContainer(w)
  PROVE  Items(w) \in Seq(Values)
  <1>1. CASE DOMAIN w = {"list"} /\ w.list \in Seq(Values)
    <2>1. Items(w) = w.list
      BY <1>1 DEF Items
    <2> QED BY <1>1, <2>1
  <1>2. CASE /\ DOMAIN w = {"dict"} /\ w.dict \in Seq(Seq(Chars) \X Values)
             /\ \A k \in DOMAIN w.dict : [string |-> w.dict[k][1]] \in Values
    <2> DEFINE n == Len(w.dict)
               item(i) == IF i % 2 = 1 THEN [string |-> w.dict[(i + 1) \div 2][1]] ELSE w.dict[i \div 2][2]
    <2>1. n \in Nat /\ DOMAIN w.dict = 1 .. n
      BY <1>2
    <2>2. Items(w) = [i \in 1 .. 2 * n |-> item(i)]
      BY <1>2 DEF Items
    <2>3. ASSUME NEW i \in 1 .. 2 * n PROVE item(i) \in Values
      <3>1. /\ i % 2 = 1 => (i + 1) \div 2 \in 1 .. n
            /\ i % 2 # 1 => i \div 2 \in 1 .. n
        <4> HIDE DEF n
        <4> QED BY <2>1, <2>3
      <3>2. CASE i % 2 = 1
        BY <1>2, <2>1, <3>1, <3>2
      <3>3. CASE i % 2 # 1
        <4>1. w.dict[i \div 2] \in Seq(Chars) \X Values
          BY <1>2, <2>1, <3>1, <3>3
        <4> QED BY <3>3, <4>1
      <3> QED BY <3>2, <3>3
    <2> HIDE DEF item, n
    <2>4. 2 * n \in Nat
      BY <2>1
    <2> QED BY <2>2, <2>3, <2>4
  <1>3. ~(DOMAIN w = {"string"}) /\ ~(DOMAIN w = {"integer"})
    BY DEF IsContainer
  <1> QED BY <1>1, <1>2, <1>3, Kinds

\* What is left of a list or a dictionary to spell, item by item.
LEMMA RestOfIs ==
  ASSUME NEW w \in Values, IsContainer(w)
  PROVE  /\ \A n \in 0 .. Len(Items(w)) : RestOf(w, n) \in Seq(Chars)
         /\ RestOf(w, Len(Items(w))) = <<"e">>
         /\ \A n \in 0 .. Len(Items(w)) - 1 :
              RestOf(w, n) = Spelled[Items(w)[n + 1]] \o RestOf(w, n + 1)
  <1> DEFINE count == Len(Items(w))
             Text == Seq(Chars)
             F == [k \in 1 .. count |-> [x \in Text |-> Spelled[Items(w)[count - k + 1]] \o x]]
             end == <<"e">>
             Step(f) == [k \in 0 .. count |->
                           IF k = 0 THEN <<"e">> ELSE Spelled[Items(w)[count - k + 1]] \o f[k - 1]]
             last == CHOOSE f : f = Step(f)
  <1>1. count \in Nat /\ Items(w) \in Seq(Values)
    BY ItemsType
  <1>2. \A n \in 0 .. count : RestOf(w, n) = last[count - n]
    BY DEF RestOf
  <1> HIDE DEF last
  <1>3. \A k \in 1 .. count : Spelled[Items(w)[count - k + 1]] \in Text
    <2>1. \A k \in 1 .. count : count - k + 1 \in 1 .. count
      <3> HIDE DEF count
      <3> QED BY <1>1
    <2>2. \A k \in 1 .. count : Items(w)[count - k + 1] \in Values
      BY <1>1, <2>1
    <2> QED BY <2>2, SpellingAssumption
  <1>4. /\ \A k \in 1 .. count, x \in Text : Spelled[Items(w)[count - k + 1]] \o x \in Text
        /\ Fills(F, count, Text) /\ end \in Text
    <2>1. ASSUME NEW k \in 1 .. count, NEW x \in Text
          PROVE  Spelled[Items(w)[count - k + 1]] \o x \in Text
      BY <1>3
    <2>2. end \in Text
      <3>1. "e" \in Chars
        BY BencodeAssumption
      <3> QED BY <3>1
    <2> HIDE DEF count, Text, end
    <2>3. F \in [1 .. count -> [Text -> Text]]
      BY <2>1
    <2> HIDE DEF F
    <2> QED BY <2>1, <2>2, <2>3 DEF Fills
  <1>5. PICK g : IsTable(g, count, Text, end, F)
    <2> HIDE DEF F, Text, end, count
    <2> QED BY <1>1, <1>4, TableExists
  <1>6. /\ g \in [0 .. count -> Text] /\ g[0] = end
        /\ \A k \in 1 .. count : g[k] = Spelled[Items(w)[count - k + 1]] \o g[k - 1]
    <2>1. g \in [0 .. count -> Text] /\ g[0] = end /\ \A k \in 1 .. count : g[k] = F[k][g[k - 1]]
      BY <1>5 DEF IsTable
    <2>2. \A k \in 1 .. count : g[k - 1] \in Text
      <3>1. \A k \in 1 .. count : k - 1 \in 0 .. count
        BY <1>1
      <3> HIDE DEF count
      <3> QED BY <2>1, <3>1
    <2>3. \A k \in 1 .. count, x \in Text : F[k][x] = Spelled[Items(w)[count - k + 1]] \o x
      OBVIOUS
    <2> HIDE DEF F, count
    <2> QED BY <2>1, <2>2, <2>3
  <1>7. g = Step(g)
    <2>1. \A k \in 0 .. count : k # 0 => k \in 1 .. count
      BY <1>1
    <2>2. \A k \in 0 .. count :
            g[k] = IF k = 0 THEN <<"e">> ELSE Spelled[Items(w)[count - k + 1]] \o g[k - 1]
      BY <1>6, <2>1
    <2> HIDE DEF count
    <2> QED BY <1>6, <2>2
  <1>8. last = Step(last)
    <2> HIDE DEF Step
    <2> QED BY <1>7 DEF last
  <1>9. /\ last[0] = <<"e">>
        /\ \A k \in 1 .. count : last[k] = Spelled[Items(w)[count - k + 1]] \o last[k - 1]
    <2>1. 0 \in 0 .. count /\ \A k \in 1 .. count : k \in 0 .. count /\ k # 0
      BY <1>1
    <2> HIDE DEF count
    <2> QED BY <1>8, <2>1
  <1>10. \A k \in 0 .. count : last[k] \in Text
    <2> DEFINE Bad == {k \in 0 .. count : last[k] \notin Text}
    <2>1. ASSUME Bad # {} PROVE FALSE
      <3>1. Bad \in SUBSET Nat
        BY <1>1
      <3>2. PICK k \in Bad : \A j \in Bad : k <= j
        BY <2>1, <3>1, LeastOf
      <3>3. k \in 0 .. count /\ last[k] \notin Text
        BY <3>2
      <3>4. k # 0
        BY <1>4, <1>9, <3>3 DEF end
      <3>5. k \in 1 .. count /\ k - 1 \in 0 .. count /\ ~(k <= k - 1)
        <4> HIDE DEF count
        <4> QED BY <1>1, <3>3, <3>4
      <3>6. last[k - 1] \in Text
        BY <3>2, <3>5
      <3>7. last[k] = Spelled[Items(w)[count - k + 1]] \o last[k - 1]
        BY <1>9, <3>5
      <3>8. Spelled[Items(w)[count - k + 1]] \o last[k - 1] \in Text
        <4> HIDE DEF count, Text
        <4> QED BY <1>4, <3>5, <3>6
      <3> QED BY <3>3, <3>7, <3>8
    <2> QED BY <2>1
  <1>11. RestOf(w, count) = <<"e">>
    <2>1. count \in 0 .. count /\ count - count = 0
      BY <1>1
    <2> HIDE DEF count
    <2> QED BY <1>2, <1>9, <2>1
  <1>12. ASSUME NEW n \in 0 .. count PROVE RestOf(w, n) \in Text
    <2>1. count - n \in 0 .. count
      BY <1>1, <1>12
    <2> HIDE DEF count
    <2> QED BY <1>2, <1>10, <2>1
  <1>13. ASSUME NEW n \in 0 .. count - 1
         PROVE  RestOf(w, n) = Spelled[Items(w)[n + 1]] \o RestOf(w, n + 1)
    <2>1. /\ count - n \in 1 .. count /\ count - (count - n) + 1 = n + 1
          /\ n \in 0 .. count /\ n + 1 \in 0 .. count /\ count - (n + 1) = (count - n) - 1
      BY <1>1, <1>13
    <2> HIDE DEF count
    <2> QED BY <1>2, <1>9, <2>1
  <1> QED BY <1>11, <1>12, <1>13

----------------------------------------------------------------------------
(* What is left *)

\* Two sequences are the same if their lengths and all their elements are.
LEMMA SeqEqual ==
  ASSUME NEW S, NEW s \in Seq(S), NEW t \in Seq(S), Len(s) = Len(t),
         \A i \in 1 .. Len(t) : s[i] = t[i]
  PROVE  s = t
  OBVIOUS

\* What is left is an end of the text.
RestIsAnEnd ==
  /\ input \in Inputs
  /\ \E n \in 0 .. Len(input) : rest = SubSeq(input, n + 1, Len(input))

\* What is left has a length that size_t can count.
LEMMA RestType ==
  ASSUME RestIsAnEnd
  PROVE  rest \in Seq(Chars) /\ Len(rest) \in Nat /\ Len(rest) < SizeMod /\ SizeMod \in Nat
  <1>1. input \in Seq(Chars) /\ Len(input) < SizeMod /\ SizeMod \in Nat
    BY BencodeAssumption DEF RestIsAnEnd
  <1>2. PICK n \in 0 .. Len(input) : rest = SubSeq(input, n + 1, Len(input))
    BY DEF RestIsAnEnd
  <1>3. Len(input) \in Nat
    BY <1>1
  <1>4. rest \in Seq(Chars) /\ Len(rest) = Len(input) - n
    BY <1>1, <1>2, <1>3
  <1> QED BY <1>1, <1>2, <1>3, <1>4

\* What is left after n more characters.
LEMMA Dropped ==
  ASSUME RestIsAnEnd, NEW n \in 0 .. Len(rest), input' = input,
         rest' = SubSeq(rest, n + 1, Len(rest))
  PROVE  RestIsAnEnd' /\ Len(rest') = Len(rest) - n
  <1>1. input \in Seq(Chars) /\ Len(input) \in Nat
    BY BencodeAssumption DEF RestIsAnEnd
  <1>2. PICK m \in 0 .. Len(input) : rest = SubSeq(input, m + 1, Len(input))
    BY DEF RestIsAnEnd
  <1>3. /\ Len(rest) = Len(input) - m /\ rest \in Seq(Chars) /\ Len(rest) \in Nat
        /\ \A i \in 1 .. Len(rest) : rest[i] = input[m + i]
    BY <1>1, <1>2
  <1>4. m + n \in 0 .. Len(input)
    BY <1>1, <1>2, <1>3
  <1>5. /\ Len(rest') = Len(rest) - n
        /\ \A i \in 1 .. Len(rest) - n : rest'[i] = rest[n + i]
        /\ rest' \in Seq(Chars)
    BY <1>3
  <1> DEFINE end == SubSeq(input, m + n + 1, Len(input))
  <1>6. /\ end \in Seq(Chars) /\ Len(end) = Len(input) - (m + n)
        /\ \A i \in 1 .. Len(input) - (m + n) : end[i] = input[m + n + i]
    BY <1>1, <1>4
  <1> HIDE DEF end
  <1>7. Len(rest') = Len(end)
    <2>1. Len(rest) - n = Len(input) - (m + n)
      BY <1>1, <1>2, <1>3
    <2> QED BY <1>5, <1>6, <2>1
  <1>8. ASSUME NEW i \in 1 .. Len(end) PROVE rest'[i] = end[i]
    <2>1. i \in 1 .. Len(rest) - n /\ n + i \in 1 .. Len(rest) /\ m + (n + i) = m + n + i
      BY <1>1, <1>2, <1>3, <1>6
    <2> QED BY <1>3, <1>5, <1>6, <1>7, <2>1
  <1>9. rest' = end
    BY <1>5, <1>6, <1>7, <1>8, SeqEqual
  <1> QED BY <1>4, <1>5, <1>9 DEF RestIsAnEnd, end

\* Once around: a sum of two that are each less than size_t can count, and which
\* it wraps around to zero.
LEMMA OnceAround ==
  ASSUME NEW s \in Nat, NEW a \in Nat, 0 < a, a < 2 * s
  PROVE  a % s \in 0 .. s - 1 /\ (a % s = 0 => a = s)
  <1> DEFINE q == a \div s
             r == a % s
  <1>1. q \in Nat /\ r \in 0 .. s - 1 /\ a = s * q + r
    <2>1. s \in Nat \ {0}
      OBVIOUS
    <2> QED BY <2>1
  <1> HIDE DEF q
  <1>2. CASE r = 0
    <2>1. q # 0
      BY <1>1, <1>2
    <2>2. q >= 2 => s * q >= s * 2
      BY <1>1
    <2>3. q = 1
      <3>1. s * q \in Int /\ a = s * q
        BY <1>1, <1>2
      <3>2. ~(q >= 2)
        BY <2>2, <3>1
      <3> QED BY <1>1, <2>1, <3>2
    <2> QED BY <1>1, <1>2, <2>3
  <1> QED BY <1>1, <1>2

\* decode_string removes no more than there is, and something unless the length
\* wraps the sum around to nothing.
LEMMA StringEndBounds ==
  ASSUME RestIsAnEnd, rest # << >>, IsDigit(Next1), StringIsThere
  PROVE  StringEnd \in 0 .. Len(rest) /\ (~WrapsToNothing => StringEnd # 0)
  <1>1. rest \in Seq(Chars) /\ Len(rest) \in Nat /\ Len(rest) < SizeMod /\ SizeMod \in Nat
    BY RestType
  <1>2. Colon \in 1 .. Len(rest)
    BY <1>1, FindBounds DEF Colon, StringIsThere
  <1>3. Length \in Nat /\ Length < SizeMod
    <2>1. SubSeq(rest, 1, Colon - 1) \in Seq(Chars)
      BY <1>1, <1>2
    <2> DEFINE digits == Digits(SubSeq(rest, 1, Colon - 1))
    <2>2. digits \in Seq(Chars) /\ \A k \in 1 .. Len(digits) : IsDigit(digits[k])
      BY <2>1, DigitsAreDigits
    <2>3. Number(digits) \in Nat
      <3> HIDE DEF digits
      <3> QED BY <2>2, NumberType
    <2> QED BY <2>3 DEF Length, StringIsThere
  <1> DEFINE a == Colon + Length
  <1>4. a \in Nat /\ 0 < a /\ a < 2 * SizeMod
    BY <1>1, <1>2, <1>3
  <1>5. a % SizeMod \in 0 .. SizeMod - 1 /\ (a % SizeMod = 0 => a = SizeMod)
    <2> HIDE DEF a
    <2> QED BY <1>1, <1>4, OnceAround
  <1>6. StringEnd = a % SizeMod /\ StringEnd <= Len(rest)
    BY DEF StringEnd, StringIsThere
  <1>7. Colon # 0
    BY <1>2
  <1> QED BY <1>1, <1>5, <1>6, <1>7 DEF WrapsToNothing

\* decode_integer removes what is up to its terminator.
LEMMA TerminatorBounds ==
  ASSUME RestIsAnEnd, IntegerIsThere
  PROVE  Terminator \in 1 .. Len(rest)
  <1>1. rest \in Seq(Chars) /\ Len(rest) \in Nat
    BY RestType
  <1> QED BY <1>1, FindBounds DEF Terminator, IntegerIsThere

----------------------------------------------------------------------------
(* Steps *)

\* What a step is to do: leave an end of the text, and less of it when it reads.
Consumes ==
  /\ RestIsAnEnd'
  /\ Running /\ ~WrapsToNothing /\ status' # "failed" /\ vars' # vars => Len(rest') < Len(rest)

\* Every step leaves an end of the text, and a step that reads leaves less,
\* unless a length wraps around to nothing.
LEMMA StepsConsume ==
  ASSUME RestIsAnEnd, [Next]_vars
  PROVE  Consumes
  <1>1. rest \in Seq(Chars) /\ Len(rest) \in Nat
    BY RestType
  <1>2. ASSUME NEW n \in 0 .. Len(rest), input' = input,
               rest' = SubSeq(rest, n + 1, Len(rest)), ~WrapsToNothing => n # 0
        PROVE  Consumes
    <2>1. RestIsAnEnd' /\ Len(rest') = Len(rest) - n
      BY <1>2, Dropped
    <2>2. ~WrapsToNothing => n \in 1 .. Len(rest)
      BY <1>1, <1>2
    <2> QED BY <1>1, <2>1, <2>2 DEF Consumes
  <1>3. ASSUME Reject, input' = input PROVE Consumes
    BY <1>3 DEF Reject, RestIsAnEnd, Consumes
  <1>4. ASSUME rest # << >>, input' = input, rest' = Tail(rest) PROVE Consumes
    <2>1. 1 \in 0 .. Len(rest) /\ rest' = SubSeq(rest, 1 + 1, Len(rest))
      BY <1>1, <1>4
    <2> QED BY <1>2, <1>4, <2>1
  <1>5. CASE DecodeString
    <2>1. rest # << >> /\ IsDigit(Next1) /\ input' = input
      BY <1>5 DEF DecodeString
    <2>2. CASE StringIsThere
      <3>1. rest' = SubSeq(rest, StringEnd + 1, Len(rest))
        BY <1>5, <2>2 DEF DecodeString, Yield
      <3>2. StringEnd \in 0 .. Len(rest) /\ (~WrapsToNothing => StringEnd # 0)
        BY <2>1, <2>2, StringEndBounds
      <3> QED BY <1>2, <2>1, <3>1, <3>2
    <2>3. CASE ~StringIsThere
      <3>1. Reject
        BY <1>5, <2>3 DEF DecodeString
      <3> QED BY <1>3, <2>1, <3>1
    <2> QED BY <2>2, <2>3
  <1>6. CASE DecodeInteger
    <2>1. input' = input
      BY <1>6 DEF DecodeInteger
    <2>2. CASE IntegerIsThere
      <3>1. rest' = SubSeq(rest, Terminator + 1, Len(rest))
        BY <1>6, <2>2 DEF DecodeInteger, Yield
      <3>2. Terminator \in 0 .. Len(rest) /\ Terminator # 0
        BY <1>1, <2>2, TerminatorBounds
      <3> QED BY <1>2, <2>1, <3>1, <3>2
    <2>3. CASE ~IntegerIsThere
      <3>1. Reject
        BY <1>6, <2>3 DEF DecodeInteger
      <3> QED BY <1>3, <2>1, <3>1
    <2> QED BY <2>2, <2>3
  <1>7. CASE OpenList
    <2>1. rest # << >> /\ input' = input /\ rest' = Tail(rest)
      BY <1>7 DEF OpenList, Open
    <2> QED BY <1>4, <2>1
  <1>8. CASE OpenDict
    <2>1. rest # << >> /\ input' = input /\ rest' = Tail(rest)
      BY <1>8 DEF OpenDict, Open
    <2> QED BY <1>4, <2>1
  <1>9. CASE Close
    <2>1. rest # << >> /\ input' = input /\ rest' = SubSeq(rest, 1 + 1, Len(rest))
      BY <1>9 DEF Close, MayClose, Yield
    <2>2. 1 \in 0 .. Len(rest)
      BY <1>1, <2>1
    <2> QED BY <1>2, <2>1, <2>2
  <1>10. CASE Unexpected
    <2>1. Reject /\ input' = input
      BY <1>10 DEF Unexpected
    <2> QED BY <1>3, <2>1
  <1>11. CASE UNCHANGED vars
    BY <1>11 DEF vars, RestIsAnEnd, Consumes
  <1>12. CASE Stopped
    BY <1>12 DEF Stopped, vars, RestIsAnEnd, Consumes
  <1> QED BY <1>5, <1>6, <1>7, <1>8, <1>9, <1>10, <1>11, <1>12 DEF Next

\* decode never looks outside its text: whatever has been read, what is left is
\* an end of it.
THEOREM LeavesAnEnd == Spec => []RestIsAnEnd
  <1>1. Init => RestIsAnEnd
    <2> SUFFICES ASSUME Init PROVE RestIsAnEnd
      OBVIOUS
    <2>1. input \in Inputs /\ rest = input
      BY DEF Init
    <2>2. input \in Seq(Chars)
      BY <2>1, BencodeAssumption
    <2>3. 0 \in 0 .. Len(input) /\ rest = SubSeq(input, 0 + 1, Len(input))
      BY <2>1, <2>2
    <2> QED BY <2>1, <2>3 DEF RestIsAnEnd
  <1>2. RestIsAnEnd /\ [Next]_vars => RestIsAnEnd'
    BY StepsConsume DEF Consumes
  <1> QED BY <1>1, <1>2, PTL DEF Spec

\* Whoever reads a value advances in the text, for every text and every width of
\* size_t, unless a string's length wraps around to nothing.
THEOREM DecoderAdvances == Spec => DecodingConsumes
  <1> DEFINE Advance == Running /\ ~WrapsToNothing /\ status' # "failed" => Len(rest') < Len(rest)
  <1>1. RestIsAnEnd /\ [Next]_vars => [Advance]_vars
    BY StepsConsume DEF Consumes
  <1> QED BY <1>1, LeavesAnEnd, PTL DEF Spec, DecodingConsumes

----------------------------------------------------------------------------
(* Texts and parts of texts *)

\* One text after another.
Joins(S, s, t, both) ==
  /\ both \in Seq(S) /\ Len(both) = Len(s) + Len(t)
  /\ \A i \in 1 .. Len(s) : both[i] = s[i]
  /\ \A i \in 1 .. Len(t) : both[Len(s) + i] = t[i]

LEMMA Joined ==
  ASSUME NEW S, NEW s \in Seq(S), NEW t \in Seq(S)
  PROVE  Joins(S, s, t, s \o t)
  BY DEF Joins

LEMMA Regrouped ==
  ASSUME NEW S, NEW s \in Seq(S), NEW t \in Seq(S), NEW u \in Seq(S)
  PROVE  (s \o t) \o u = s \o (t \o u)
  OBVIOUS

\* A text that is cut somewhere: before or after the end of what it starts with.
LEMMA Starts ==
  ASSUME NEW S, NEW s \in Seq(S), NEW more \in Seq(S), NEW u \in Seq(S), NEW after \in Seq(S),
         s \o more = u \o after
  PROVE  /\ \A i \in 1 .. Len(s) : i <= Len(u) => s[i] = u[i]
         /\ Len(s) >= Len(u) => SubSeq(s, Len(u) + 1, Len(s)) \o more = after
         /\ Len(s) < Len(u) => more # << >>
  <1> DEFINE both == s \o more
             m == Len(s)
             n == Len(u)
  <1>1. /\ m \in Nat /\ n \in Nat /\ Len(more) \in Nat /\ Len(after) \in Nat
        /\ Len(both) = m + Len(more) /\ both \in Seq(S)
        /\ \A i \in 1 .. m : both[i] = s[i]
        /\ \A i \in 1 .. Len(more) : both[m + i] = more[i]
    <2>1. m \in Nat /\ n \in Nat /\ Len(more) \in Nat /\ Len(after) \in Nat
      OBVIOUS
    <2>2. Joins(S, s, more, both)
      BY Joined
    <2> QED BY <2>1, <2>2 DEF Joins
  <1>2. /\ Len(both) = n + Len(after)
        /\ \A i \in 1 .. n : both[i] = u[i]
        /\ \A i \in 1 .. Len(after) : both[n + i] = after[i]
    <2>1. Joins(S, u, after, both)
      BY Joined
    <2> QED BY <2>1 DEF Joins
  <1> HIDE DEF both
  <1>3. \A i \in 1 .. m : i <= n => s[i] = u[i]
    BY <1>1, <1>2
  <1>4. m < n => more # << >>
    BY <1>1, <1>2
  <1>5. ASSUME m >= n PROVE SubSeq(s, n + 1, m) \o more = after
    <2> DEFINE end == SubSeq(s, n + 1, m)
    <2>1. end \in Seq(S) /\ Len(end) = m - n /\ \A i \in 1 .. m - n : end[i] = s[n + i]
      BY <1>1, <1>5
    <2> HIDE DEF end
    <2>2. /\ end \o more \in Seq(S) /\ Len(end \o more) = (m - n) + Len(more)
          /\ \A i \in 1 .. m - n : (end \o more)[i] = end[i]
          /\ \A i \in 1 .. Len(more) : (end \o more)[(m - n) + i] = more[i]
      <3>1. Joins(S, end, more, end \o more)
        BY <2>1, Joined
      <3> QED BY <2>1, <3>1 DEF Joins
    <2>3. Len(end \o more) = Len(after)
      BY <1>1, <1>2, <2>2
    <2>4. ASSUME NEW i \in 1 .. Len(after) PROVE (end \o more)[i] = after[i]
      <3>1. CASE i \in 1 .. m - n
        <4>1. n + i \in 1 .. m
          BY <1>1, <3>1
        <4> QED BY <1>1, <1>2, <2>1, <2>2, <3>1, <4>1
      <3>2. CASE i \notin 1 .. m - n
        <4>1. /\ i - (m - n) \in 1 .. Len(more) /\ (m - n) + (i - (m - n)) = i
              /\ m + (i - (m - n)) = n + i
          BY <1>1, <1>2, <1>5, <3>2
        <4> DEFINE j == i - (m - n)
        <4>2. (end \o more)[(m - n) + j] = more[j] /\ both[m + j] = more[j]
          BY <1>1, <2>2, <4>1
        <4> QED BY <1>2, <4>1, <4>2
      <3> QED BY <3>1, <3>2
    <2> QED BY <2>2, <2>3, <2>4, SeqEqual DEF end
  <1> QED BY <1>3, <1>4, <1>5

\* Where a character is found first, and that it is not found.
LEMMA FindIs ==
  ASSUME NEW S, NEW text \in Seq(S), NEW c
  PROVE  /\ \A k \in 1 .. Len(text) :
              text[k] = c /\ (\A i \in 1 .. k - 1 : text[i] # c) => Find(text, c) = k
         /\ (\A i \in 1 .. Len(text) : text[i] # c) => Find(text, c) = 0
  <1> DEFINE I == {i \in 1 .. Len(text) : text[i] = c}
  <1>1. Find(text, c) = IF I # {} THEN Min(I) ELSE 0
    BY DEF Find, SelectInSeq
  <1>2. Len(text) \in Nat
    OBVIOUS
  <1>3. ASSUME NEW k \in 1 .. Len(text), text[k] = c, \A i \in 1 .. k - 1 : text[i] # c
        PROVE  Find(text, c) = k
    <2>1. k \in I /\ \A j \in I : k <= j
      BY <1>2, <1>3
    <2>2. \A j \in I : (\A h \in I : j <= h) => j = k
      <3>1. I \subseteq Nat
        BY <1>2
      <3> HIDE DEF I
      <3> QED BY <2>1, <3>1
    <2>3. Min(I) = k
      <3> HIDE DEF I
      <3> QED BY <2>1, <2>2 DEF Min
    <2> QED BY <1>1, <2>1, <2>3
  <1>4. (\A i \in 1 .. Len(text) : text[i] # c) => I = {}
    OBVIOUS
  <1> HIDE DEF I
  <1> QED BY <1>1, <1>3, <1>4

\* Digits that nothing follows are read to their end.
LEMMA DigitsOfDigits ==
  ASSUME NEW S, NEW text \in Seq(S), \A k \in 1 .. Len(text) : IsDigit(text[k])
  PROVE  Digits(text) = text
  <1> DEFINE I == {i \in 1 .. Len(text) : ~IsDigit(text[i])}
  <1>1. I = {}
    OBVIOUS
  <1> QED BY <1>1 DEF Digits, SelectInSeq

\* The characters that are not digits.
LEMMA NoDigits ==
  /\ ~IsDigit(":") /\ ~IsDigit("-") /\ ~IsDigit("i")
  /\ ~IsDigit("l") /\ ~IsDigit("d") /\ ~IsDigit("e")
  <1>1. DOMAIN Numerals = 1 .. 10
    BY DEF Numerals
  <1>2. /\ Numerals[1] = "0" /\ Numerals[2] = "1" /\ Numerals[3] = "2" /\ Numerals[4] = "3"
        /\ Numerals[5] = "4" /\ Numerals[6] = "5" /\ Numerals[7] = "6" /\ Numerals[8] = "7"
        /\ Numerals[9] = "8" /\ Numerals[10] = "9"
    BY DEF Numerals
  <1>3. \A d \in 1 .. 10 : d = 1 \/ d = 2 \/ d = 3 \/ d = 4 \/ d = 5 \/ d = 6 \/ d = 7 \/ d = 8 \/ d = 9 \/ d = 10
    OBVIOUS
  <1>4. \A d \in 1 .. 10 : Numerals[d] \notin {":", "-", "i", "l", "d", "e"}
    BY <1>2, <1>3
  <1> QED BY <1>1, <1>4 DEF IsDigit

\* size_t holds a sum that is less than it can count.
LEMMA NotWrapped ==
  ASSUME NEW s \in Nat, NEW a \in Nat, a < s
  PROVE  a % s = a
  <1> DEFINE q == a \div s
             r == a % s
  <1>1. q \in Nat /\ r \in 0 .. s - 1 /\ a = s * q + r
    <2>1. s \in Nat \ {0}
      OBVIOUS
    <2> QED BY <2>1
  <1> HIDE DEF q, r
  <1>2. q = 0
    <2>1. q >= 1 => s * q >= s * 1
      BY <1>1
    <2> QED BY <1>1, <2>1
  <1> QED BY <1>1, <1>2 DEF r

----------------------------------------------------------------------------
(* Strings and integers, read from their spellings *)

\* The text of the length and of the string.
LEMMA StringSpelled ==
  ASSUME NEW v \in Values, DOMAIN v = {"string"}
  PROVE  LET digits == Decimals[Len(v.string)]
             n == Len(digits)
             text == Spelled[v]
         IN  /\ v.string \in Seq(Chars) /\ v = [string |-> v.string] /\ Len(v.string) \in Nat
             /\ digits \in Seq(Chars) /\ n \in Nat \ {0} /\ Number(digits) = Len(v.string)
             /\ \A k \in 1 .. n : IsDigit(digits[k])
             /\ text \in Seq(Chars) /\ Len(text) = n + 1 + Len(v.string) /\ Len(text) < SizeMod
             /\ \A k \in 1 .. n : text[k] = digits[k]
             /\ text[n + 1] = ":"
             /\ \A k \in 1 .. Len(v.string) : text[n + 1 + k] = v.string[k]
  <1> DEFINE digits == Decimals[Len(v.string)]
             n == Len(digits)
             text == Spelled[v]
             colon == <<":">>
             before == digits \o colon
             s == v.string
  <1>1. /\ v.string \in Seq(Chars) /\ v = [string |-> v.string]
        /\ text = before \o s
    BY Kinds
  <1>2. Len(s) \in Nat
    BY <1>1
  <1>3. /\ digits \in Seq(Chars) /\ n \in Nat \ {0} /\ Number(digits) = Len(v.string)
        /\ \A k \in 1 .. n : IsDigit(digits[k])
    BY <1>2, DecimalIs
  <1>4. colon \in Seq(Chars) /\ Len(colon) = 1 /\ colon[1] = ":"
    BY BencodeAssumption
  <1>5. text \in Seq(Chars) /\ Len(text) < SizeMod
    BY SpellingAssumption
  <1> HIDE DEF digits, n, text, colon, s
  <1>6. Joins(Chars, digits, colon, before)
    BY <1>3, <1>4, Joined
  <1>7. before \in Seq(Chars) /\ Len(before) = n + 1 /\ before[n + 1] = ":" /\ \A k \in 1 .. n : before[k] = digits[k]
    BY <1>4, <1>6 DEF Joins, n
  <1> HIDE DEF before
  <1>8. Joins(Chars, before, s, text)
    BY <1>1, <1>7, Joined DEF s
  <1>9. /\ Len(text) = n + 1 + Len(s)
        /\ \A k \in 1 .. n + 1 : text[k] = before[k]
        /\ \A k \in 1 .. Len(s) : text[n + 1 + k] = s[k]
    BY <1>7, <1>8 DEF Joins
  <1>10. n + 1 \in 1 .. n + 1 /\ \A k \in 1 .. n : k \in 1 .. n + 1
    BY <1>3
  <1> QED BY <1>1, <1>2, <1>3, <1>5, <1>7, <1>9, <1>10 DEF digits, n, text, s

\* decode_string reads a string whose spelling is all there, and refuses one
\* whose spelling is cut.
LEMMA StringIsRead ==
  ASSUME NEW v \in Values, DOMAIN v = {"string"}, rest \in Seq(Chars),
         NEW more \in Seq(Chars), NEW after \in Seq(Chars), rest \o more = Spelled[v] \o after
  PROVE  /\ rest # << >> => IsDigit(Next1)
         /\ Len(rest) >= Len(Spelled[v]) =>
              StringIsThere /\ [string |-> StringRead] = v /\ StringEnd = Len(Spelled[v])
         /\ Len(rest) < Len(Spelled[v]) => ~StringIsThere
  <1> DEFINE digits == Decimals[Len(v.string)]
             n == Len(digits)
             text == Spelled[v]
             s == v.string
  <1>1. /\ s \in Seq(Chars) /\ v = [string |-> s] /\ Len(s) \in Nat
        /\ digits \in Seq(Chars) /\ n \in Nat \ {0} /\ Number(digits) = Len(s)
        /\ \A k \in 1 .. n : IsDigit(digits[k])
        /\ text \in Seq(Chars) /\ Len(text) = n + 1 + Len(s) /\ Len(text) < SizeMod
        /\ \A k \in 1 .. n : text[k] = digits[k]
        /\ text[n + 1] = ":"
        /\ \A k \in 1 .. Len(s) : text[n + 1 + k] = s[k]
    BY StringSpelled
  <1>2. \A i \in 1 .. Len(rest) : i <= Len(text) => rest[i] = text[i]
    BY <1>1, Starts, SMTT(30)
  <1>3. Len(rest) \in Nat /\ SizeMod \in Nat
    BY BencodeAssumption
  <1> HIDE DEF digits, n, text, s
  <1>4. ASSUME NEW i \in 1 .. Len(rest), i <= n
        PROVE  IsDigit(rest[i]) /\ rest[i] # ":" /\ rest[i] = digits[i]
    <2>1. i \in 1 .. n /\ i <= Len(text)
      BY <1>1, <1>3, <1>4
    <2>2. rest[i] = digits[i] /\ IsDigit(digits[i])
      BY <1>1, <1>2, <2>1
    <2> QED BY <2>2, NoDigits
  <1>5. rest # << >> => IsDigit(Next1)
    <2>1. rest # << >> => 1 \in 1 .. Len(rest) /\ 1 <= n /\ Next1 = rest[1]
      BY <1>1, <1>3 DEF Next1
    <2> QED BY <1>4, <2>1
  <1>6. CASE Len(rest) <= n
    <2>1. \A i \in 1 .. Len(rest) : rest[i] # ":"
      BY <1>1, <1>3, <1>4, <1>6
    <2>2. Find(rest, ":") = 0
      BY <2>1, FindIs
    <2>3. ~StringIsThere
      BY <2>2 DEF StringIsThere, Colon
    <2>4. ~(Len(rest) >= Len(text))
      BY <1>1, <1>3, <1>6
    <2> QED BY <1>5, <2>3, <2>4 DEF text
  <1>7. CASE Len(rest) > n
    <2>1. n + 1 \in 1 .. Len(rest) /\ n + 1 <= Len(text)
      BY <1>1, <1>3, <1>7
    <2>2. rest[n + 1] = ":" /\ \A i \in 1 .. (n + 1) - 1 : rest[i] # ":"
      <3>1. \A i \in 1 .. (n + 1) - 1 : i \in 1 .. Len(rest) /\ i <= n
        BY <1>1, <1>3, <1>7
      <3> QED BY <1>1, <1>2, <1>4, <2>1, <3>1
    <2>3. Colon = n + 1
      BY <2>1, <2>2, FindIs DEF Colon
    <2>4. SubSeq(rest, 1, Colon - 1) = digits
      <3>1. /\ SubSeq(rest, 1, n) \in Seq(Chars) /\ Len(SubSeq(rest, 1, n)) = n
            /\ \A i \in 1 .. n : SubSeq(rest, 1, n)[i] = rest[i]
        BY <1>1, <1>3, <1>7
      <3>2. ASSUME NEW i \in 1 .. n PROVE rest[i] = digits[i]
        <4>1. i \in 1 .. Len(rest) /\ i <= n
          BY <1>1, <1>3, <1>7
        <4> QED BY <1>4, <4>1
      <3>3. SubSeq(rest, 1, n) = digits
        BY <1>1, <3>1, <3>2, SeqEqual DEF n
      <3>4. Colon - 1 = n
        BY <1>1, <2>3
      <3> QED BY <3>3, <3>4
    <2>5. Length = Len(s)
      <3>1. Digits(digits) = digits
        BY <1>1, DigitsOfDigits DEF n
      <3> QED BY <1>1, <2>4, <3>1 DEF Length
    <2>6. Colon + Length = Len(text) /\ Length < SizeMod /\ Colon # 0
      BY <1>1, <1>3, <2>3, <2>5
    <2>7. StringEnd = Len(text)
      <3>1. Len(text) \in Nat
        BY <1>1
      <3>2. Len(text) % SizeMod = Len(text)
        BY <1>1, <1>3, <3>1, NotWrapped
      <3> QED BY <2>6, <3>2 DEF StringEnd
    <2>8. StringIsThere <=> Len(text) <= Len(rest)
      BY <2>6, <2>7 DEF StringIsThere
    <2>9. ASSUME Len(text) <= Len(rest) PROVE [string |-> StringRead] = v
      <3> DEFINE part == SubSeq(rest, n + 2, Len(text))
      <3>1. StringRead = part
        <4>1. Colon + 1 = n + 2
          BY <1>1, <2>3
        <4> QED BY <2>6, <2>9, <4>1 DEF StringRead
      <3>2. /\ part \in Seq(Chars) /\ Len(part) = Len(s)
            /\ \A k \in 1 .. Len(s) : part[k] = rest[n + 1 + k]
        BY <1>1, <1>3, <2>9
      <3> HIDE DEF part
      <3>3. \A k \in 1 .. Len(s) : n + 1 + k \in 1 .. Len(rest) /\ n + 1 + k <= Len(text)
        BY <1>1, <1>3, <2>9
      <3>4. \A k \in 1 .. Len(s) : part[k] = s[k]
        BY <1>1, <1>2, <3>2, <3>3
      <3>5. part = s
        BY <1>1, <3>2, <3>4, SeqEqual
      <3> QED BY <1>1, <3>1, <3>5
    <2>10. Len(rest) >= Len(text) <=> Len(text) <= Len(rest)
      BY <1>1, <1>3
    <2>11. Len(rest) < Len(text) <=> ~(Len(text) <= Len(rest))
      BY <1>1, <1>3
    <2> QED BY <1>5, <2>7, <2>8, <2>9, <2>10, <2>11 DEF text
  <1>8. Len(rest) <= n \/ Len(rest) > n
    BY <1>1, <1>3
  <1> QED BY <1>6, <1>7, <1>8

\* The text of an integer: its sign and its digits are between the two letters.
LEMMA IntegerSpelled ==
  ASSUME NEW v \in Values, DOMAIN v = {"integer"}
  PROVE  LET size == IF v.integer < 0 THEN -v.integer ELSE v.integer
             digits == Decimals[size]
             written == IF v.integer < 0 THEN <<"-">> \o digits ELSE digits
             n == Len(written)
             text == Spelled[v]
         IN  /\ v = [integer |-> v.integer] /\ v.integer \in -(IntMax + 1) .. IntMax /\ IntMax \in Nat
             /\ size \in Nat /\ digits \in Seq(Chars) /\ Len(digits) \in Nat \ {0} /\ Number(digits) = size
             /\ \A k \in 1 .. Len(digits) : IsDigit(digits[k])
             /\ (Len(digits) > 1 \/ size # 0) => digits[1] # "0"
             /\ written \in Seq(Chars) /\ n \in Nat \ {0}
             /\ v.integer < 0 => /\ n = Len(digits) + 1 /\ written[1] = "-"
                                 /\ \A k \in 1 .. Len(digits) : written[k + 1] = digits[k]
             /\ text \in Seq(Chars) /\ Len(text) = n + 2 /\ Len(text) < SizeMod
             /\ text[1] = "i" /\ text[n + 2] = "e"
             /\ \A k \in 1 .. n : text[k + 1] = written[k]
  <1> DEFINE m == v.integer
             size == IF m < 0 THEN -m ELSE m
             digits == Decimals[size]
             sign == <<"-">>
             signed == sign \o digits
             written == IF m < 0 THEN signed ELSE digits
             n == Len(written)
             first == <<"i">>
             final == <<"e">>
             before == first \o written
             text == Spelled[v]
  <1>1. /\ v = [integer |-> m] /\ m \in -(IntMax + 1) .. IntMax
        /\ text = before \o final
    <2>1. /\ v = [integer |-> m] /\ m \in -(IntMax + 1) .. IntMax
          /\ text = <<"i">> \o (IF m < 0 THEN <<"-">> \o Decimals[-m] ELSE Decimals[m]) \o <<"e">>
      BY Kinds
    <2>2. (IF m < 0 THEN <<"-">> \o Decimals[-m] ELSE Decimals[m]) = written
      OBVIOUS
    <2> QED BY <2>1, <2>2
  <1>2. IntMax \in Nat /\ m \in Int /\ size \in Nat
    BY <1>1, BencodeAssumption
  <1>3. text \in Seq(Chars) /\ Len(text) < SizeMod
    BY SpellingAssumption
  <1>4. /\ first \in Seq(Chars) /\ Len(first) = 1 /\ first[1] = "i"
        /\ final \in Seq(Chars) /\ Len(final) = 1 /\ final[1] = "e"
        /\ sign \in Seq(Chars) /\ Len(sign) = 1 /\ sign[1] = "-"
    BY BencodeAssumption
  <1> HIDE DEF m, size, first, final, sign, text
  <1>5. /\ digits \in Seq(Chars) /\ Len(digits) \in Nat \ {0} /\ Number(digits) = size
        /\ \A k \in 1 .. Len(digits) : IsDigit(digits[k])
        /\ (Len(digits) > 1 \/ size # 0) => digits[1] # "0"
    BY <1>2, DecimalIs
  <1> HIDE DEF digits
  <1>6. Joins(Chars, sign, digits, signed)
    BY <1>4, <1>5, Joined
  <1>7. /\ signed \in Seq(Chars) /\ Len(signed) = Len(digits) + 1 /\ signed[1] = "-"
        /\ \A k \in 1 .. Len(digits) : signed[k + 1] = digits[k]
    <2>1. /\ signed \in Seq(Chars) /\ Len(signed) = 1 + Len(digits) /\ signed[1] = sign[1]
          /\ \A k \in 1 .. Len(digits) : signed[1 + k] = digits[k]
      BY <1>4, <1>6 DEF Joins
    <2> HIDE DEF signed
    <2>2. \A k \in 1 .. Len(digits) : 1 + k = k + 1
      BY <1>5
    <2> QED BY <1>4, <1>5, <2>1, <2>2
  <1> HIDE DEF signed
  <1>8. written \in Seq(Chars) /\ n \in Nat \ {0}
    BY <1>5, <1>7
  <1>9. m < 0 => /\ n = Len(digits) + 1 /\ written[1] = "-"
                 /\ \A k \in 1 .. Len(digits) : written[k + 1] = digits[k]
    BY <1>7
  <1> DEFINE wanted == /\ Len(text) = n + 2 /\ text[1] = "i" /\ text[n + 2] = "e"
                       /\ \A k \in 1 .. n : text[k + 1] = written[k]
  <1>10. wanted
    <2> HIDE DEF written
    <2>1. Joins(Chars, first, written, before)
      BY <1>4, <1>8, Joined
    <2>2. /\ before \in Seq(Chars) /\ Len(before) = 1 + n /\ before[1] = first[1]
          /\ \A k \in 1 .. n : before[1 + k] = written[k]
      BY <1>4, <2>1 DEF Joins
    <2> HIDE DEF before
    <2>3. Joins(Chars, before, final, text)
      BY <1>1, <1>4, <2>2, Joined
    <2>4. /\ Len(text) = n + 2 /\ \A k \in 1 .. 1 + n : text[k] = before[k]
          /\ \A k \in 1 .. 1 : text[1 + n + k] = final[k]
      BY <1>4, <1>8, <2>2, <2>3 DEF Joins
    <2>5. text[1] = "i"
      BY <1>4, <1>8, <2>2, <2>4
    <2>6. text[n + 2] = "e"
      <3>1. 1 + n + 1 = n + 2
        BY <1>8
      <3> QED BY <1>4, <2>4, <3>1
    <2>7. ASSUME NEW k \in 1 .. n PROVE text[k + 1] = written[k]
      <3>1. 1 + k \in 1 .. 1 + n /\ 1 + k = k + 1
        BY <1>8, <2>7
      <3> QED BY <2>2, <2>4, <3>1
    <2> QED BY <2>4, <2>5, <2>6, <2>7
  <1> QED BY <1>1, <1>2, <1>3, <1>5, <1>8, <1>9, <1>10 DEF m, size, digits, text, signed, sign

\* decode_integer reads an integer whose spelling is all there, and refuses one
\* whose spelling is cut.
LEMMA IntegerIsRead ==
  ASSUME NEW v \in Values, DOMAIN v = {"integer"}, rest \in Seq(Chars),
         NEW more \in Seq(Chars), NEW after \in Seq(Chars), rest \o more = Spelled[v] \o after
  PROVE  /\ rest # << >> => Next1 = "i"
         /\ Len(rest) >= Len(Spelled[v]) =>
              IntegerIsThere /\ [integer |-> IntegerRead] = v /\ Terminator = Len(Spelled[v])
         /\ Len(rest) < Len(Spelled[v]) => ~IntegerIsThere
  <1> DEFINE m == v.integer
             size == IF m < 0 THEN -m ELSE m
             digits == Decimals[size]
             written == IF m < 0 THEN <<"-">> \o digits ELSE digits
             n == Len(written)
             text == Spelled[v]
  <1>1. /\ v = [integer |-> m] /\ m \in -(IntMax + 1) .. IntMax /\ IntMax \in Nat
        /\ size \in Nat /\ digits \in Seq(Chars) /\ Len(digits) \in Nat \ {0} /\ Number(digits) = size
        /\ \A k \in 1 .. Len(digits) : IsDigit(digits[k])
        /\ (Len(digits) > 1 \/ size # 0) => digits[1] # "0"
        /\ written \in Seq(Chars) /\ n \in Nat \ {0}
        /\ m < 0 => /\ n = Len(digits) + 1 /\ written[1] = "-"
                    /\ \A k \in 1 .. Len(digits) : written[k + 1] = digits[k]
        /\ text \in Seq(Chars) /\ Len(text) = n + 2 /\ Len(text) < SizeMod
        /\ text[1] = "i" /\ text[n + 2] = "e"
        /\ \A k \in 1 .. n : text[k + 1] = written[k]
    BY IntegerSpelled
  <1>2. ~(m < 0) => written = digits /\ n = Len(digits)
    OBVIOUS
  <1>3. m \in Int /\ (m < 0 => m = -size /\ size # 0) /\ (~(m < 0) => m = size)
    BY <1>1
  <1> HIDE DEF text, n, written, digits, size, m
  <1>4. Len(rest) \in Nat
    OBVIOUS
  <1>5. \A i \in 1 .. Len(rest) : i <= Len(text) => rest[i] = text[i]
    BY <1>1, Starts, SMTT(30) DEF text
  <1>6. ASSUME NEW k \in 1 .. n PROVE written[k] # "e"
    <2>1. CASE m < 0
      <3>1. k = 1 \/ (k - 1 \in 1 .. Len(digits) /\ (k - 1) + 1 = k)
        BY <1>1, <1>6, <2>1
      <3>2. ASSUME k - 1 \in 1 .. Len(digits), (k - 1) + 1 = k PROVE written[k] # "e"
        <4> DEFINE j == k - 1
        <4>1. j \in 1 .. Len(digits) /\ j + 1 = k
          BY <3>2
        <4> HIDE DEF j
        <4>2. written[k] = digits[j] /\ IsDigit(digits[j])
          BY <1>1, <2>1, <4>1
        <4> QED BY <4>2, NoDigits
      <3>3. k = 1 => written[k] # "e"
        BY <1>1, <2>1
      <3> QED BY <3>1, <3>2, <3>3
    <2>2. CASE ~(m < 0)
      <3>1. IsDigit(written[k])
        BY <1>1, <1>2, <1>6, <2>2
      <3> QED BY <3>1, NoDigits
    <2> QED BY <2>1, <2>2
  <1>7. ASSUME NEW i \in 1 .. Len(rest), i <= n + 1 PROVE rest[i] # "e"
    <2>1. i <= Len(text) /\ (i = 1 \/ (i - 1 \in 1 .. n /\ (i - 1) + 1 = i))
      BY <1>1, <1>4, <1>7
    <2>2. rest[i] = text[i]
      BY <1>5, <2>1
    <2>3. ASSUME i - 1 \in 1 .. n, (i - 1) + 1 = i PROVE text[i] # "e"
      <3> DEFINE j == i - 1
      <3>1. j \in 1 .. n /\ j + 1 = i
        BY <2>3
      <3> HIDE DEF j
      <3> QED BY <1>1, <1>6, <3>1
    <2>4. i = 1 => text[i] # "e"
      BY <1>1
    <2> QED BY <2>1, <2>2, <2>3, <2>4
  <1>8. rest # << >> => Next1 = "i"
    <2>1. rest # << >> => 1 \in 1 .. Len(rest) /\ 1 <= Len(text) /\ Next1 = rest[1]
      BY <1>1, <1>4 DEF Next1
    <2> QED BY <1>1, <1>5, <2>1
  <1>9. CASE Len(rest) < Len(text)
    <2>1. \A i \in 1 .. Len(rest) : rest[i] # "e"
      <3>1. \A i \in 1 .. Len(rest) : i <= n + 1
        BY <1>1, <1>4, <1>9
      <3> QED BY <1>7, <3>1
    <2>2. Terminator = 0
      BY <2>1, FindIs DEF Terminator
    <2>3. ~(Len(rest) >= Len(text))
      BY <1>1, <1>4, <1>9
    <2> QED BY <1>8, <2>2, <2>3 DEF IntegerIsThere, text
  <1>10. CASE Len(rest) >= Len(text)
    <2>1. n + 2 \in 1 .. Len(rest) /\ n + 2 <= Len(text) /\ ~(Len(rest) < Len(text))
      BY <1>1, <1>4, <1>10
    <2>2. Terminator = n + 2
      <3>1. rest[n + 2] = "e"
        BY <1>1, <1>5, <2>1
      <3>2. ASSUME NEW i \in 1 .. (n + 2) - 1 PROVE rest[i] # "e"
        <4>1. i \in 1 .. Len(rest) /\ i <= n + 1
          BY <1>1, <1>4, <1>10, <3>2
        <4> QED BY <1>7, <4>1
      <3> QED BY <2>1, <3>1, <3>2, FindIs DEF Terminator
    <2>3. Numeral = written
      <3> DEFINE part == SubSeq(rest, 2, n + 1)
      <3>1. part \in Seq(Chars) /\ Len(part) = n /\ \A k \in 1 .. n : part[k] = rest[k + 1]
        BY <1>1, <1>4, <2>1
      <3> HIDE DEF part
      <3>2. ASSUME NEW k \in 1 .. n PROVE part[k] = written[k]
        <4>1. k + 1 \in 1 .. Len(rest) /\ k + 1 <= Len(text)
          BY <1>1, <1>4, <2>1, <3>2, SMTT(30)
        <4> QED BY <1>1, <1>5, <3>1, <4>1, ZenonT(40)
      <3>3. part = written
        BY <1>1, <3>1, <3>2, SeqEqual DEF n
      <3>4. Terminator - 1 = n + 1
        BY <1>1, <2>2
      <3> QED BY <3>3, <3>4 DEF Numeral, part
    <2>4. Numeral # << >> /\ 1 \in 1 .. n /\ Len(Numeral) = n
      BY <1>1, <2>3 DEF n
    <2>5. Negative <=> m < 0
      <3>1. m < 0 => Negative
        BY <1>1, <2>3 DEF Negative
      <3>2. ~(m < 0) => ~Negative
        <4>1. ~(m < 0) => IsDigit(written[1])
          BY <1>1, <1>2, <2>4
        <4> QED BY <2>3, <4>1, NoDigits DEF Negative
      <3> QED BY <3>1, <3>2
    <2>6. Magnitude = digits
      <3>1. CASE m < 0
        <4> DEFINE part == Tail(written)
        <4>1. part \in Seq(Chars) /\ Len(part) = Len(digits) /\ \A k \in 1 .. Len(digits) : part[k] = written[k + 1]
          BY <1>1, <3>1 DEF n
        <4> HIDE DEF part
        <4>2. part = digits
          BY <1>1, <3>1, <4>1, SeqEqual
        <4>3. Digits(digits) = digits
          BY <1>1, DigitsOfDigits
        <4>4. Magnitude = Digits(part)
          BY <2>3, <2>5, <3>1 DEF Magnitude, part
        <4> QED BY <4>2, <4>3, <4>4
      <3>2. CASE ~(m < 0)
        <4>1. Digits(digits) = digits
          BY <1>1, DigitsOfDigits
        <4> QED BY <1>2, <2>3, <2>5, <3>2, <4>1 DEF Magnitude
      <3> QED BY <3>1, <3>2
    <2>7. IntegerRead = m
      <3>1. Number(Magnitude) = size
        BY <1>1, <2>6
      <3> QED BY <1>3, <2>5, <3>1 DEF IntegerRead
    <2>8. ~LeadingZero
      <3>1. CASE m < 0
        <4>1. 1 \in 1 .. Len(digits) /\ written[1] = "-" /\ digits[1] # "0"
          BY <1>1, <1>3, <3>1
        <4>2. written[2] = digits[1]
          <5>1. written[1 + 1] = digits[1]
            BY <1>1, <3>1, <4>1
          <5> QED BY <5>1
        <4> QED BY <2>3, <4>1, <4>2 DEF LeadingZero
      <3>2. CASE ~(m < 0)
        <4>1. n > 1 => written[1] # "0"
          BY <1>1, <1>2, <3>2
        <4> QED BY <2>3, <2>4, <2>5, <3>2, <4>1 DEF LeadingZero
      <3> QED BY <3>1, <3>2
    <2>9. Terminator # 0 /\ Magnitude # << >>
      BY <1>1, <2>2, <2>6
    <2>10. IntegerIsThere
      BY <1>1, <2>4, <2>7, <2>8, <2>9 DEF IntegerIsThere
    <2>11. Terminator = Len(text)
      BY <1>1, <2>2
    <2> QED BY <1>1, <1>8, <2>1, <2>7, <2>10, <2>11 DEF text
  <1>11. Len(rest) < Len(text) \/ Len(rest) >= Len(text)
    BY <1>1, <1>4
  <1> QED BY <1>9, <1>10, <1>11

----------------------------------------------------------------------------
(* Lists and dictionaries, made of their items *)

\* What decode keeps of a list or a dictionary after n of the items it spells.
Frame(w, n) ==
  IF "list" \in DOMAIN w THEN [list |-> SubSeq(w.list, 1, n)]
  ELSE [dict |-> SubSeq(w.dict, 1, n \div 2),
        key  |-> IF n % 2 = 1 THEN <<w.dict[(n + 1) \div 2][1]>> ELSE << >>]

LEMMA ListFrames ==
  ASSUME NEW w \in Values, DOMAIN w = {"list"}
  PROVE  /\ Frame(w, 0) = [list |-> << >>]
         /\ \A n \in 0 .. Len(Items(w)) - 1 :
              /\ Fits(Frame(w, n), Items(w)[n + 1])
              /\ Extend(Frame(w, n), Items(w)[n + 1]) = Frame(w, n + 1)
         /\ Closed(Frame(w, Len(Items(w)))) = w
         /\ ~AwaitsValue(Frame(w, Len(Items(w))))
  <1> DEFINE s == w.list
             c == Len(s)
  <1>1. s \in Seq(Values) /\ w = [list |-> s] /\ c \in Nat
    <2>1. w.list \in Seq(Values) /\ w = [list |-> w.list]
      BY Kinds
    <2> QED BY <2>1
  <1>2. Items(w) = s
    BY DEF Items
  <1>3. \A n : Frame(w, n) = [list |-> SubSeq(s, 1, n)]
    BY DEF Frame
  <1> HIDE DEF s
  <1>4. \A n : ~AwaitsKey(Frame(w, n)) /\ ~AwaitsValue(Frame(w, n)) /\ ~IsDict(Frame(w, n))
    <2>1. \A n : DOMAIN Frame(w, n) = {"list"}
      BY <1>3
    <2> QED BY <2>1 DEF AwaitsKey, AwaitsValue, IsDict
  <1>5. SubSeq(s, 1, 0) = << >> /\ SubSeq(s, 1, c) = s
    BY <1>1
  <1>6. ASSUME NEW n \in 0 .. c - 1
        PROVE  /\ Fits(Frame(w, n), Items(w)[n + 1])
               /\ Extend(Frame(w, n), Items(w)[n + 1]) = Frame(w, n + 1)
    <2> DEFINE a == SubSeq(s, 1, n)
               b == SubSeq(s, 1, n + 1)
    <2>1. /\ a \in Seq(Values) /\ Len(a) = n /\ \A i \in 1 .. n : a[i] = s[i]
          /\ b \in Seq(Values) /\ Len(b) = n + 1 /\ \A i \in 1 .. n + 1 : b[i] = s[i]
          /\ n \in Nat /\ n + 1 \in 1 .. c /\ s[n + 1] \in Values
      BY <1>1, <1>6
    <2> HIDE DEF a, b
    <2>2. /\ Append(a, s[n + 1]) \in Seq(Values) /\ Len(Append(a, s[n + 1])) = n + 1
          /\ Append(a, s[n + 1])[n + 1] = s[n + 1]
          /\ \A i \in 1 .. n : Append(a, s[n + 1])[i] = a[i]
      BY <2>1
    <2>3. \A i \in 1 .. n + 1 : Append(a, s[n + 1])[i] = b[i]
      BY <2>1, <2>2
    <2>4. Append(a, s[n + 1]) = b
      BY <2>1, <2>2, <2>3, SeqEqual
    <2>5. Extend(Frame(w, n), s[n + 1]) = [list |-> Append(Frame(w, n).list, s[n + 1])]
      BY <1>4 DEF Extend
    <2>6. Frame(w, n).list = a /\ Frame(w, n + 1) = [list |-> b]
      <3>1. Frame(w, n) = [list |-> a] /\ Frame(w, n + 1) = [list |-> b]
        BY <1>3 DEF a, b
      <3> QED BY <3>1
    <2> QED BY <1>2, <1>4, <2>4, <2>5, <2>6 DEF Fits
  <1>7. Closed(Frame(w, c)) = w
    <2>1. Closed(Frame(w, c)) = [list |-> Frame(w, c).list]
      BY <1>4 DEF Closed
    <2> QED BY <1>1, <1>3, <1>5, <2>1
  <1> QED BY <1>2, <1>3, <1>4, <1>5, <1>6, <1>7

LEMMA DictFrames ==
  ASSUME NEW w \in Values, DOMAIN w = {"dict"}
  PROVE  /\ Frame(w, 0) = [dict |-> << >>, key |-> << >>]
         /\ \A n \in 0 .. Len(Items(w)) - 1 :
              /\ Fits(Frame(w, n), Items(w)[n + 1])
              /\ Extend(Frame(w, n), Items(w)[n + 1]) = Frame(w, n + 1)
         /\ Closed(Frame(w, Len(Items(w)))) = w
         /\ ~AwaitsValue(Frame(w, Len(Items(w))))
  <1> DEFINE s == w.dict
             c == Len(s)
             Pair == Seq(Chars) \X Values
             key(n) == IF n % 2 = 1 THEN <<s[(n + 1) \div 2][1]>> ELSE << >>
             item(i) == IF i % 2 = 1 THEN [string |-> s[(i + 1) \div 2][1]] ELSE s[i \div 2][2]
  <1>1. s \in Seq(Pair) /\ w = [dict |-> s] /\ c \in Nat
    <2>1. w.dict \in Seq(Seq(Chars) \X Values) /\ w = [dict |-> w.dict]
      BY Kinds
    <2> QED BY <2>1
  <1>2. Items(w) = [i \in 1 .. 2 * c |-> item(i)] /\ Len(Items(w)) = 2 * c
    <2>1. Items(w) = [i \in 1 .. 2 * c |-> item(i)]
      BY DEF Items
    <2>2. 2 * c \in Nat
      BY <1>1
    <2> HIDE DEF c, item
    <2>3. Items(w) \in Seq(Values)
      BY ItemsType DEF IsContainer
    <2> QED BY <2>1, <2>2, <2>3
  <1>3. \A n : Frame(w, n) = [dict |-> SubSeq(s, 1, n \div 2), key |-> key(n)]
    BY DEF Frame
  <1> HIDE DEF s
  <1>4. \A n : /\ IsDict(Frame(w, n)) /\ Frame(w, n).key = key(n) /\ Frame(w, n).dict = SubSeq(s, 1, n \div 2)
               /\ AwaitsKey(Frame(w, n)) <=> key(n) = << >>
               /\ AwaitsValue(Frame(w, n)) <=> key(n) # << >>
    <2> HIDE DEF key
    <2>1. \A n : "dict" \in DOMAIN Frame(w, n) /\ Frame(w, n).key = key(n) /\ Frame(w, n).dict = SubSeq(s, 1, n \div 2)
      BY <1>3
    <2> QED BY <2>1 DEF AwaitsKey, AwaitsValue, IsDict
  <1>5. \A n \in Nat : (key(n) = << >>) <=> n % 2 # 1
    OBVIOUS
  <1>6. ASSUME NEW n \in 0 .. 2 * c - 1, n % 2 # 1
        PROVE  /\ Fits(Frame(w, n), Items(w)[n + 1])
               /\ Extend(Frame(w, n), Items(w)[n + 1]) = Frame(w, n + 1)
    <2>1. n \in Nat /\ n + 1 \in 1 .. 2 * c /\ (n + 1) % 2 = 1 /\ (n + 1) \div 2 = n \div 2 /\ ((n + 1) + 1) \div 2 = (n + 2) \div 2
      BY <1>1, <1>6
    <2> DEFINE word == s[(n + 2) \div 2][1]
               v == [string |-> word]
    <2>2. Items(w)[n + 1] = v
      BY <1>2, <2>1
    <2>3. key(n + 1) = <<word>>
      BY <2>1
    <2> HIDE DEF word
    <2>4. AwaitsKey(Frame(w, n)) /\ ~AwaitsValue(Frame(w, n)) /\ "string" \in DOMAIN v /\ v.string = word
      BY <1>4, <1>5, <1>6, <2>1
    <2> HIDE DEF v, key
    <2> DEFINE f == Frame(w, n)
    <2>5. Extend(f, v) = [f EXCEPT !.key = <<v.string>>]
      <3>1. AwaitsKey(f) /\ ~AwaitsValue(f)
        BY <2>4
      <3> HIDE DEF f
      <3> QED BY <3>1 DEF Extend
    <2>6. [f EXCEPT !.key = <<v.string>>] = [dict |-> SubSeq(s, 1, n \div 2), key |-> <<word>>]
      <3> DEFINE a == SubSeq(s, 1, n \div 2)
                 old == key(n)
      <3>1. f = [dict |-> a, key |-> old]
        BY <1>3
      <3> HIDE DEF f, a, old
      <3>2. [f EXCEPT !.key = <<word>>] = [dict |-> a, key |-> <<word>>]
        BY <3>1
      <3> QED BY <2>4, <3>2 DEF a
    <2>7. Frame(w, n + 1) = [dict |-> SubSeq(s, 1, (n + 1) \div 2), key |-> key(n + 1)]
      BY <1>3
    <2> QED BY <2>1, <2>2, <2>3, <2>4, <2>5, <2>6, <2>7 DEF Fits
  <1>7. ASSUME NEW n \in 0 .. 2 * c - 1, n % 2 = 1
        PROVE  /\ Fits(Frame(w, n), Items(w)[n + 1])
               /\ Extend(Frame(w, n), Items(w)[n + 1]) = Frame(w, n + 1)
    <2> DEFINE k == n \div 2
    <2>1. n \in Nat /\ n + 1 \in 1 .. 2 * c /\ (n + 1) % 2 # 1 /\ (n + 1) \div 2 = k + 1 /\ k \in Nat /\ k + 1 \in 1 .. c
      BY <1>1, <1>7
    <2> DEFINE pair == s[k + 1]
    <2>2. Items(w)[n + 1] = pair[2] /\ key(n) = <<pair[1]>> /\ key(n + 1) = << >>
      BY <1>2, <1>7, <2>1
    <2>3. pair \in Pair /\ <<pair[1], pair[2]>> = pair
      BY <1>1, <2>1
    <2> DEFINE a == SubSeq(s, 1, k)
               b == SubSeq(s, 1, k + 1)
    <2> HIDE DEF Pair, pair
    <2>4. /\ a \in Seq(Pair) /\ Len(a) = k /\ \A i \in 1 .. k : a[i] = s[i]
          /\ b \in Seq(Pair) /\ Len(b) = k + 1 /\ \A i \in 1 .. k + 1 : b[i] = s[i]
      <3> HIDE DEF k
      <3> QED BY <1>1, <2>1
    <2> HIDE DEF a, b
    <2>5. /\ Append(a, pair) \in Seq(Pair) /\ Len(Append(a, pair)) = k + 1
          /\ Append(a, pair)[k + 1] = pair
          /\ \A i \in 1 .. k : Append(a, pair)[i] = a[i]
      <3> HIDE DEF k
      <3> QED BY <2>1, <2>3, <2>4
    <2>6. \A i \in 1 .. k + 1 : Append(a, pair)[i] = b[i]
      <3>1. b[k + 1] = pair
        <4> HIDE DEF k
        <4> QED BY <2>1, <2>4 DEF pair
      <3> HIDE DEF k
      <3> QED BY <2>1, <2>4, <2>5, <3>1
    <2>7. Append(a, pair) = b
      BY <2>3, <2>4, <2>5, <2>6, SeqEqual
    <2>8. /\ key(n) # << >> /\ ~AwaitsKey(Frame(w, n)) /\ AwaitsValue(Frame(w, n))
      <3>1. key(n) # << >>
        BY <1>5, <1>7, <2>1
      <3> HIDE DEF key
      <3> QED BY <1>4, <3>1
    <2>9. Frame(w, n).key[1] = pair[1] /\ Frame(w, n).dict = a
      <3>1. <<pair[1]>>[1] = pair[1]
        OBVIOUS
      <3> HIDE DEF key
      <3> QED BY <1>4, <2>2, <3>1 DEF a
    <2>10. Extend(Frame(w, n), pair[2]) = [dict |-> Append(Frame(w, n).dict, <<Frame(w, n).key[1], pair[2]>>), key |-> << >>]
      BY <2>8 DEF Extend
    <2>11. Frame(w, n + 1) = [dict |-> b, key |-> << >>]
      <3> HIDE DEF key, k
      <3> QED BY <1>3, <2>1, <2>2 DEF b
    <2> HIDE DEF key
    <2> QED BY <2>2, <2>3, <2>7, <2>8, <2>9, <2>10, <2>11 DEF Fits
  <1>8. (2 * c) \div 2 = c /\ (2 * c) % 2 # 1 /\ 2 * c \in Nat /\ 0 \div 2 = 0 /\ 0 % 2 # 1
    BY <1>1
  <1>9. SubSeq(s, 1, 0) = << >> /\ SubSeq(s, 1, c) = s
    <2> HIDE DEF Pair
    <2> QED BY <1>1
  <1>10. Frame(w, 0) = [dict |-> << >>, key |-> << >>]
    BY <1>3, <1>8, <1>9
  <1>11. Closed(Frame(w, 2 * c)) = w
    <2>1. Closed(Frame(w, 2 * c)) = [dict |-> Frame(w, 2 * c).dict]
      <3> HIDE DEF key
      <3> QED BY <1>4 DEF Closed
    <2>2. Frame(w, 2 * c).dict = s
      <3> HIDE DEF key, c
      <3> QED BY <1>4, <1>8, <1>9 DEF c
    <2> QED BY <1>1, <2>1, <2>2
  <1>12. ~AwaitsValue(Frame(w, 2 * c))
    BY <1>4, <1>5, <1>8
  <1>13. ASSUME NEW n \in 0 .. 2 * c - 1
         PROVE  /\ Fits(Frame(w, n), Items(w)[n + 1])
                /\ Extend(Frame(w, n), Items(w)[n + 1]) = Frame(w, n + 1)
    BY <1>6, <1>7
  <1> QED BY <1>2, <1>10, <1>11, <1>12, <1>13

\* Reading the items one by one makes the list or the dictionary.
LEMMA FrameIs ==
  ASSUME NEW w \in Values, IsContainer(w)
  PROVE  /\ "list" \in DOMAIN w => Frame(w, 0) = [list |-> << >>]
         /\ "dict" \in DOMAIN w => Frame(w, 0) = [dict |-> << >>, key |-> << >>]
         /\ \A n \in 0 .. Len(Items(w)) - 1 :
              /\ Fits(Frame(w, n), Items(w)[n + 1])
              /\ Extend(Frame(w, n), Items(w)[n + 1]) = Frame(w, n + 1)
         /\ Closed(Frame(w, Len(Items(w)))) = w
         /\ ~AwaitsValue(Frame(w, Len(Items(w))))
  <1>1. DOMAIN w = {"list"} \/ DOMAIN w = {"dict"}
    <2>1. DOMAIN w = {"string"} \/ DOMAIN w = {"integer"} \/ DOMAIN w = {"list"} \/ DOMAIN w = {"dict"}
      BY Kinds
    <2> QED BY <2>1 DEF IsContainer
  <1>2. CASE DOMAIN w = {"list"}
    <2>1. "dict" \notin DOMAIN w
      BY <1>2
    <2> QED BY <1>2, <2>1, ListFrames
  <1>3. CASE DOMAIN w = {"dict"}
    <2>1. "list" \notin DOMAIN w
      BY <1>3
    <2> QED BY <1>3, <2>1, DictFrames
  <1> QED BY <1>1, <1>2, <1>3

----------------------------------------------------------------------------
(* Where decode is while it reads a value *)

\* The lists and dictionaries that decode is inside of while it reads v, the
\* outermost first: how many of its items each has, and what comes after it.
Levels == [of : Values, read : Nat, after : Seq(Chars)]

\* The value that is read next, and what comes after it.
Wanted(path, v, tail, u, after) ==
  IF path = << >> THEN u = v /\ after = tail
  ELSE /\ Last(path).read < Len(Items(Last(path).of))
       /\ u = Items(Last(path).of)[Last(path).read + 1]
       /\ after = RestOf(Last(path).of, Last(path).read + 1) \o Last(path).after

IsLevel(level, outer, v, tail) ==
  /\ IsContainer(level.of) /\ level.read <= Len(Items(level.of))
  /\ Wanted(outer, v, tail, level.of, level.after)

IsPath(path, v, tail) ==
  /\ path \in Seq(Levels)
  /\ \A j \in 1 .. Len(path) : IsLevel(path[j], SubSeq(path, 1, j - 1), v, tail)

Frames(path) == [j \in 1 .. Len(path) |-> Frame(path[j].of, path[j].read)]

\* A text that goes on with the value that is read next, or with the end of
\* the innermost list or dictionary.
Due(path, v, tail, text) ==
  \/ \E u \in Values, after \in Seq(Chars) :
       Wanted(path, v, tail, u, after) /\ text = Spelled[u] \o after
  \/ /\ path # << >> /\ Last(path).read = Len(Items(Last(path).of))
     /\ text = <<"e">> \o Last(path).after

AnyFrame == {Frame(w, n) : w \in Values, n \in Nat}

LEMMA FramesType ==
  ASSUME NEW path \in Seq(Levels)
  PROVE  /\ Frames(path) \in Seq(AnyFrame) /\ Len(Frames(path)) = Len(path)
         /\ \A j \in 1 .. Len(path) : Frames(path)[j] = Frame(path[j].of, path[j].read)
         /\ Frames(path) = << >> <=> path = << >>
         /\ path # << >> => Last(Frames(path)) = Frame(Last(path).of, Last(path).read)
  <1>1. Len(path) \in Nat
    OBVIOUS
  <1>2. ASSUME NEW j \in 1 .. Len(path) PROVE Frame(path[j].of, path[j].read) \in AnyFrame
    <2>1. path[j] \in Levels
      OBVIOUS
    <2>2. path[j].of \in Values /\ path[j].read \in Nat
      BY <2>1 DEF Levels
    <2> QED BY <2>2 DEF AnyFrame
  <1>3. Frames(path) \in Seq(AnyFrame) /\ Len(Frames(path)) = Len(path)
    BY <1>1, <1>2 DEF Frames
  <1>4. \A j \in 1 .. Len(path) : Frames(path)[j] = Frame(path[j].of, path[j].read)
    BY DEF Frames
  <1>5. Frames(path) = << >> <=> path = << >>
    BY <1>1, <1>3
  <1>6. path # << >> => Last(Frames(path)) = Frame(Last(path).of, Last(path).read)
    <2>1. path # << >> => Len(path) \in 1 .. Len(path)
      BY <1>1
    <2> QED BY <1>3, <1>4, <2>1 DEF Last
  <1> QED BY <1>3, <1>4, <1>5, <1>6

\* Outside of the innermost list or dictionary.
LEMMA Outside ==
  ASSUME NEW v, NEW tail, NEW path, IsPath(path, v, tail), path # << >>
  PROVE  /\ Front(path) \in Seq(Levels) /\ Last(path) \in Levels
         /\ IsPath(Front(path), v, tail) /\ IsLevel(Last(path), Front(path), v, tail)
         /\ Frames(Front(path)) = Front(Frames(path))
  <1> DEFINE n == Len(path)
             outer == Front(path)
  <1>1. path \in Seq(Levels) /\ n \in Nat \ {0} /\ n \in 1 .. n
    BY DEF IsPath
  <1>2. outer \in Seq(Levels) /\ Len(outer) = n - 1 /\ \A j \in 1 .. n - 1 : outer[j] = path[j]
    <2>1. Len(path) = n
      OBVIOUS
    <2>2. outer = SubSeq(path, 1, n - 1)
      BY DEF Front
    <2> HIDE DEF n, outer
    <2>3. /\ SubSeq(path, 1, n - 1) \in Seq(Levels) /\ Len(SubSeq(path, 1, n - 1)) = n - 1
          /\ \A j \in 1 .. n - 1 : SubSeq(path, 1, n - 1)[j] = path[j]
      BY <1>1, <2>1
    <2> QED BY <2>2, <2>3
  <1>3. Last(path) \in Levels
    BY <1>1 DEF Last
  <1>4. \A j \in 1 .. n : IsLevel(path[j], SubSeq(path, 1, j - 1), v, tail)
    BY DEF IsPath
  <1>5. IsLevel(Last(path), outer, v, tail)
    BY <1>1, <1>4 DEF Last, Front
  <1> HIDE DEF outer, n
  <1>6. ASSUME NEW j \in 1 .. n - 1 PROVE IsLevel(outer[j], SubSeq(outer, 1, j - 1), v, tail)
    <2> DEFINE a == SubSeq(path, 1, j - 1)
               b == SubSeq(outer, 1, j - 1)
    <2>1. /\ j \in 1 .. n /\ j - 1 \in Nat
          /\ a \in Seq(Levels) /\ Len(a) = j - 1 /\ \A i \in 1 .. j - 1 : a[i] = path[i]
          /\ b \in Seq(Levels) /\ Len(b) = j - 1 /\ \A i \in 1 .. j - 1 : b[i] = outer[i]
      BY <1>1, <1>2, <1>6 DEF n
    <2> HIDE DEF a, b
    <2>2. \A i \in 1 .. j - 1 : i \in 1 .. n - 1
      BY <1>1, <1>6
    <2>3. \A i \in 1 .. j - 1 : a[i] = b[i]
      BY <1>2, <2>1, <2>2
    <2>4. a = b
      BY <2>1, <2>3, SeqEqual
    <2>5. IsLevel(path[j], a, v, tail)
      BY <1>4, <2>1 DEF a
    <2> QED BY <1>2, <2>4, <2>5 DEF b
  <1>7. IsPath(outer, v, tail)
    BY <1>2, <1>6 DEF IsPath
  <1>8. Frames(outer) = Front(Frames(path))
    <2> DEFINE a == Frames(outer)
               b == Front(Frames(path))
    <2>1. a \in Seq(AnyFrame) /\ Len(a) = n - 1 /\ \A j \in 1 .. n - 1 : a[j] = Frame(outer[j].of, outer[j].read)
      BY <1>2, FramesType
    <2>2. b \in Seq(AnyFrame) /\ Len(b) = n - 1 /\ \A j \in 1 .. n - 1 : b[j] = Frame(path[j].of, path[j].read)
      <3> DEFINE f == Frames(path)
      <3>1. f \in Seq(AnyFrame) /\ Len(f) = n /\ \A j \in 1 .. n : f[j] = Frame(path[j].of, path[j].read)
        BY <1>1, FramesType DEF n
      <3> HIDE DEF f
      <3>2. b = SubSeq(f, 1, n - 1)
        BY <3>1 DEF Front, f
      <3>3. SubSeq(f, 1, n - 1) \in Seq(AnyFrame) /\ Len(SubSeq(f, 1, n - 1)) = n - 1
            /\ \A j \in 1 .. n - 1 : j \in 1 .. n /\ SubSeq(f, 1, n - 1)[j] = f[j]
        BY <1>1, <3>1
      <3> HIDE DEF b
      <3> QED BY <3>1, <3>2, <3>3
    <2> HIDE DEF a, b
    <2>3. \A j \in 1 .. n - 1 : a[j] = b[j]
      BY <1>2, <2>1, <2>2
    <2> QED BY <2>1, <2>2, <2>3, SeqEqual DEF a, b
  <1> QED BY <1>2, <1>3, <1>5, <1>7, <1>8 DEF outer

\* Inside of one more list or dictionary, some of its items read.
LEMMA Inside ==
  ASSUME NEW v, NEW tail, NEW path, IsPath(path, v, tail),
         NEW level \in Levels, IsLevel(level, path, v, tail)
  PROVE  LET new == Append(path, level)
         IN  /\ IsPath(new, v, tail)
             /\ Frames(new) = Append(Frames(path), Frame(level.of, level.read))
             /\ Due(new, v, tail, RestOf(level.of, level.read) \o level.after)
  <1> DEFINE n == Len(path)
             new == Append(path, level)
             w == level.of
             m == level.read
  <1>1. path \in Seq(Levels) /\ n \in Nat
    BY DEF IsPath
  <1>2. /\ new \in Seq(Levels) /\ Len(new) = n + 1 /\ new[n + 1] = level
        /\ \A j \in 1 .. n : new[j] = path[j]
    BY <1>1
  <1>3. \A j \in 1 .. n : IsLevel(path[j], SubSeq(path, 1, j - 1), v, tail)
    BY DEF IsPath
  <1>4. /\ w \in Values /\ m \in Nat /\ level.after \in Seq(Chars)
        /\ IsContainer(w) /\ m <= Len(Items(w))
    <2>1. w \in Values /\ m \in Nat /\ level.after \in Seq(Chars)
      BY DEF Levels
    <2> QED BY <2>1 DEF IsLevel
  <1> HIDE DEF new, n
  <1>5. ASSUME NEW j \in 1 .. n + 1 PROVE IsLevel(new[j], SubSeq(new, 1, j - 1), v, tail)
    <2> DEFINE a == SubSeq(path, 1, j - 1)
               b == SubSeq(new, 1, j - 1)
    <2>1. /\ j - 1 \in Nat /\ j - 1 <= n
          /\ a \in Seq(Levels) /\ Len(a) = j - 1 /\ \A i \in 1 .. j - 1 : a[i] = path[i]
          /\ b \in Seq(Levels) /\ Len(b) = j - 1 /\ \A i \in 1 .. j - 1 : b[i] = new[i]
      BY <1>1, <1>2, <1>5 DEF n
    <2> HIDE DEF a, b
    <2>2. \A i \in 1 .. j - 1 : i \in 1 .. n
      BY <1>1, <2>1
    <2>3. \A i \in 1 .. j - 1 : a[i] = b[i]
      BY <1>2, <2>1, <2>2
    <2>4. a = b
      BY <2>1, <2>3, SeqEqual
    <2>5. CASE j \in 1 .. n
      <3>1. IsLevel(path[j], a, v, tail)
        BY <1>3, <2>5 DEF a
      <3> QED BY <1>2, <2>4, <2>5, <3>1 DEF b
    <2>6. CASE j \notin 1 .. n
      <3>1. j = n + 1
        BY <1>1, <1>5, <2>6
      <3>2. a = path
        <4>1. Len(a) = n /\ \A i \in 1 .. n : a[i] = path[i]
          BY <1>1, <2>1, <3>1
        <4> QED BY <1>1, <2>1, <4>1, SeqEqual DEF n
      <3> QED BY <1>2, <2>4, <3>1, <3>2 DEF b
    <2> QED BY <2>5, <2>6
  <1>6. IsPath(new, v, tail)
    BY <1>2, <1>5 DEF IsPath
  <1>7. Frames(new) = Append(Frames(path), Frame(w, m))
    <2> DEFINE a == Frames(new)
               f == Frames(path)
               frame == Frame(w, m)
    <2>1. a \in Seq(AnyFrame) /\ Len(a) = n + 1 /\ \A j \in 1 .. n + 1 : a[j] = Frame(new[j].of, new[j].read)
      BY <1>2, FramesType
    <2>2. f \in Seq(AnyFrame) /\ Len(f) = n /\ \A j \in 1 .. n : f[j] = Frame(path[j].of, path[j].read)
      BY <1>1, FramesType DEF n
    <2>3. frame \in AnyFrame
      BY <1>4 DEF AnyFrame
    <2>4. a[n + 1] = frame
      BY <1>1, <1>2, <2>1
    <2> HIDE DEF a, f, frame
    <2>5. Append(f, frame) \in Seq(AnyFrame) /\ Len(Append(f, frame)) = n + 1 /\ Append(f, frame)[n + 1] = frame
          /\ \A j \in 1 .. n : Append(f, frame)[j] = f[j]
      BY <2>2, <2>3
    <2>6. ASSUME NEW j \in 1 .. n + 1 PROVE a[j] = Append(f, frame)[j]
      <3>1. j = n + 1 \/ j \in 1 .. n
        BY <1>1, <2>6
      <3>2. j \in 1 .. n => a[j] = f[j]
        BY <1>2, <2>1, <2>2
      <3> QED BY <2>4, <2>5, <3>1, <3>2
    <2> QED BY <2>1, <2>5, <2>6, SeqEqual DEF a, f, frame
  <1>8. new # << >> /\ Last(new) = level
    <2>1. Len(new) # 0
      BY <1>1, <1>2
    <2> QED BY <1>2, <2>1 DEF Last
  <1>9. Due(new, v, tail, RestOf(w, m) \o level.after)
    <2>1. Items(w) \in Seq(Values) /\ Len(Items(w)) \in Nat
      BY <1>4, ItemsType
    <2>2. CASE m = Len(Items(w))
      <3>1. RestOf(w, m) = <<"e">>
        BY <1>4, <2>2, RestOfIs
      <3> QED BY <1>8, <2>2, <3>1 DEF Due
    <2>3. CASE m # Len(Items(w))
      <3> DEFINE u == Items(w)[m + 1]
                 later == RestOf(w, m + 1)
      <3>1. m \in 0 .. Len(Items(w)) - 1 /\ m + 1 \in 0 .. Len(Items(w)) /\ m + 1 \in 1 .. Len(Items(w))
            /\ m < Len(Items(w))
        BY <1>4, <2>1, <2>3
      <3>2. u \in Values /\ Spelled[u] \in Seq(Chars)
        BY <2>1, <3>1, SpellingAssumption
      <3>3. later \in Seq(Chars) /\ RestOf(w, m) = Spelled[u] \o later
        BY <1>4, <3>1, RestOfIs
      <3>4. Wanted(new, v, tail, u, later \o level.after)
        BY <1>8, <3>1 DEF Wanted
      <3> HIDE DEF u, later
      <3>5. later \o level.after \in Seq(Chars)
        BY <1>4, <3>3
      <3>6. RestOf(w, m) \o level.after = Spelled[u] \o (later \o level.after)
        <4> DEFINE first == Spelled[u]
                   final == level.after
        <4>1. first \in Seq(Chars) /\ final \in Seq(Chars)
          BY <1>4, <3>2
        <4> HIDE DEF first, final
        <4>2. (first \o later) \o final = first \o (later \o final)
          BY <3>3, <4>1, Regrouped
        <4> QED BY <3>3, <4>2 DEF first, final
      <3> QED BY <3>2, <3>4, <3>5, <3>6 DEF Due
    <2> QED BY <2>2, <2>3
  <1> QED BY <1>6, <1>7, <1>9 DEF new

\* While v is read from a text that goes on with tail, or of which more was cut.
Reading(v, tail, more) ==
  \/ status = "failed" /\ more # << >>
  \/ status = "done" /\ value = v /\ rest \o more = tail
  \/ /\ status = "running"
     /\ \E path :
          IsPath(path, v, tail) /\ stack = Frames(path) /\ Due(path, v, tail, rest \o more)

ReadsSpellings ==
  \A v \in Values, tail \in Seq(Chars), more \in Seq(Chars) :
    input \o more = Spelled[v] \o tail => Reading(v, tail, more)

\* The value that was wanted is the result, or goes where it belongs.
LEMMA WantedIsRead ==
  ASSUME NEW v, NEW tail, NEW more, NEW path, IsPath(path, v, tail),
         NEW u \in Values, NEW after, Wanted(path, v, tail, u, after),
         Running, NEW n, Yield(u, n, Frames(path)), rest' \o more = after
  PROVE  Reading(v, tail, more)'
  <1>1. path \in Seq(Levels)
    BY DEF IsPath
  <1>2. CASE path = << >>
    <2>1. Frames(path) = << >>
      BY <1>1, <1>2, FramesType
    <2>2. value' = u /\ status' = "done"
      BY <2>1 DEF Yield
    <2>3. u = v /\ after = tail
      BY <1>2 DEF Wanted
    <2> QED BY <2>2, <2>3 DEF Reading
  <1>3. CASE path # << >>
    <2> DEFINE level == Last(path)
               w == level.of
               m == level.read
               outer == Front(path)
    <2>1. /\ level \in Levels /\ outer \in Seq(Levels) /\ IsPath(outer, v, tail)
          /\ IsLevel(level, outer, v, tail) /\ Frames(outer) = Front(Frames(path))
      BY <1>3, Outside
    <2>2. m < Len(Items(w)) /\ u = Items(w)[m + 1] /\ after = RestOf(w, m + 1) \o level.after
      BY <1>3 DEF Wanted
    <2>3. w \in Values /\ m \in Nat /\ level.after \in Seq(Chars) /\ IsContainer(w)
      BY <2>1 DEF Levels, IsLevel
    <2>4. Frames(path) # << >> /\ Last(Frames(path)) = Frame(w, m)
      BY <1>1, <1>3, FramesType
    <2> DEFINE further == [of |-> w, read |-> m + 1, after |-> level.after]
    <2>5. m \in 0 .. Len(Items(w)) - 1 /\ m + 1 <= Len(Items(w))
      <3>1. Len(Items(w)) \in Nat
        BY <2>3, ItemsType
      <3> QED BY <2>2, <2>3, <3>1
    <2>6. further \in Levels /\ IsLevel(further, outer, v, tail)
      <3>1. further \in Levels
        BY <2>3 DEF Levels
      <3>2. Wanted(outer, v, tail, w, level.after)
        BY <2>1 DEF IsLevel
      <3>3. further.of = w /\ further.read = m + 1 /\ further.after = level.after
        OBVIOUS
      <3> HIDE DEF further
      <3> QED BY <2>3, <2>5, <3>1, <3>2, <3>3 DEF IsLevel
    <2>7. Fits(Frame(w, m), u) /\ Extend(Frame(w, m), u) = Frame(w, m + 1)
      BY <2>2, <2>3, <2>5, FrameIs
    <2>8. stack' = Append(Front(Frames(path)), Extend(Last(Frames(path)), u)) /\ status' = status
      BY <2>4, <2>7 DEF Yield
    <2> DEFINE new == Append(outer, further)
    <2>9. further.of = w /\ further.read = m + 1 /\ further.after = level.after
      OBVIOUS
    <2>10. /\ IsPath(new, v, tail)
           /\ Frames(new) = Append(Frames(outer), Frame(w, m + 1))
           /\ Due(new, v, tail, RestOf(w, m + 1) \o level.after)
      <3> HIDE DEF further, outer
      <3>1. /\ IsPath(new, v, tail)
            /\ Frames(new) = Append(Frames(outer), Frame(further.of, further.read))
            /\ Due(new, v, tail, RestOf(further.of, further.read) \o further.after)
        BY <2>1, <2>6, Inside
      <3> QED BY <2>9, <3>1
    <2>11. stack' = Frames(new)
      BY <2>1, <2>4, <2>7, <2>8, <2>10
    <2>12. Due(new, v, tail, rest' \o more)
      BY <2>2, <2>10
    <2> HIDE DEF new
    <2>13. status' = "running"
      BY <2>8 DEF Running
    <2> QED BY <2>10, <2>11, <2>12, <2>13 DEF Reading
  <1> QED BY <1>2, <1>3

\* What the first character says decode does next.
LEMMA FirstDecides ==
  ASSUME [Next]_vars, vars' # vars, Running
  PROVE  /\ rest = << >> => Unexpected
         /\ rest # << >> /\ IsDigit(Next1) => DecodeString
         /\ rest # << >> /\ Next1 = "i" => DecodeInteger
         /\ rest # << >> /\ Next1 = "l" => OpenList
         /\ rest # << >> /\ Next1 = "d" => OpenDict
         /\ rest # << >> /\ Next1 = "e" /\ MayClose => Close
  <1>1. DecodeString \/ DecodeInteger \/ OpenList \/ OpenDict \/ Close \/ Unexpected
    BY DEF Next, Stopped
  <1>2. /\ DecodeString => rest # << >> /\ IsDigit(Next1)
        /\ DecodeInteger => rest # << >> /\ Next1 = "i"
        /\ OpenList => rest # << >> /\ Next1 = "l"
        /\ OpenDict => rest # << >> /\ Next1 = "d"
        /\ Close => rest # << >> /\ Next1 = "e"
        /\ Unexpected => rest = << >> \/ (~IsDigit(Next1) /\ Next1 \notin {"i", "l", "d"} /\ ~MayClose)
    BY DEF DecodeString, DecodeInteger, OpenList, OpenDict, Close, MayClose, Unexpected
  <1> QED BY <1>1, <1>2, NoDigits

\* The spelling of a list or a dictionary: the first character, then the items.
LEMMA ContainerSpelled ==
  ASSUME NEW u \in Values, IsContainer(u)
  PROVE  \/ /\ DOMAIN u = {"list"} /\ Spelled[u][1] = "l"
            /\ Len(Spelled[u]) = 1 + Len(RestOf(u, 0)) /\ Spelled[u] = <<"l">> \o RestOf(u, 0)
         \/ /\ DOMAIN u = {"dict"} /\ Spelled[u][1] = "d"
            /\ Len(Spelled[u]) = 1 + Len(RestOf(u, 0)) /\ Spelled[u] = <<"d">> \o RestOf(u, 0)
  <1> DEFINE later == RestOf(u, 0)
  <1>1. later \in Seq(Chars)
    <2>1. Items(u) \in Seq(Values)
      BY ItemsType
    <2>2. 0 \in 0 .. Len(Items(u))
      BY <2>1
    <2> QED BY <2>2, RestOfIs
  <1>2. \/ DOMAIN u = {"list"} /\ Spelled[u] = <<"l">> \o later
        \/ DOMAIN u = {"dict"} /\ Spelled[u] = <<"d">> \o later
    <2>1. \/ DOMAIN u = {"string"} \/ DOMAIN u = {"integer"}
          \/ DOMAIN u = {"list"} /\ Spelled[u] = <<"l">> \o later
          \/ DOMAIN u = {"dict"} /\ Spelled[u] = <<"d">> \o later
      BY Kinds
    <2> QED BY <2>1 DEF IsContainer
  <1> HIDE DEF later
  <1>3. ASSUME NEW c \in Chars PROVE (<<c>> \o later)[1] = c /\ Len(<<c>> \o later) = 1 + Len(later)
    BY <1>1
  <1>4. "l" \in Chars /\ "d" \in Chars
    BY BencodeAssumption
  <1> QED BY <1>2, <1>3, <1>4 DEF later

\* decode goes on into a list or a dictionary.
LEMMA ContainerIsOpened ==
  ASSUME NEW v, NEW tail, NEW more \in Seq(Chars), NEW path, IsPath(path, v, tail),
         NEW u \in Values, NEW after \in Seq(Chars), Wanted(path, v, tail, u, after),
         IsContainer(u), Running, rest \in Seq(Chars), rest # << >>,
         rest \o more = Spelled[u] \o after, stack = Frames(path),
         [Next]_vars, vars' # vars
  PROVE  Reading(v, tail, more)'
  <1> DEFINE later == RestOf(u, 0)
             level == [of |-> u, read |-> 0, after |-> after]
             new == Append(path, level)
  <1>1. Items(u) \in Seq(Values) /\ 0 \in 0 .. Len(Items(u)) /\ 0 <= Len(Items(u))
    <2>1. Items(u) \in Seq(Values)
      BY ItemsType
    <2> QED BY <2>1
  <1>2. later \in Seq(Chars)
    BY <1>1, RestOfIs
  <1>3. level \in Levels /\ level.of = u /\ level.read = 0 /\ level.after = after
    BY DEF Levels
  <1> HIDE DEF level
  <1>4. IsLevel(level, path, v, tail)
    BY <1>1, <1>3 DEF IsLevel
  <1>5. /\ IsPath(new, v, tail)
        /\ Frames(new) = Append(Frames(path), Frame(u, 0))
        /\ Due(new, v, tail, later \o after)
    <2>1. /\ IsPath(new, v, tail)
          /\ Frames(new) = Append(Frames(path), Frame(level.of, level.read))
          /\ Due(new, v, tail, RestOf(level.of, level.read) \o level.after)
      BY <1>3, <1>4, Inside
    <2> QED BY <1>3, <2>1
  <1>6. \/ DOMAIN u = {"list"} /\ Spelled[u][1] = "l" /\ Spelled[u] = <<"l">> \o later
        \/ DOMAIN u = {"dict"} /\ Spelled[u][1] = "d" /\ Spelled[u] = <<"d">> \o later
    BY ContainerSpelled
  <1> HIDE DEF later, new
  <1>7. ASSUME NEW c \in Chars, Spelled[u] = <<c>> \o later
        PROVE  Next1 = c /\ Tail(rest) \o more = later \o after
    <2> DEFINE first == <<c>>
    <2>1. first \in Seq(Chars) /\ Len(first) = 1 /\ first[1] = c
      OBVIOUS
    <2>2. Spelled[u] = first \o later
      BY <1>7
    <2> HIDE DEF first
    <2>3. (first \o later) \o after = first \o (later \o after)
      BY <1>2, <2>1, Regrouped, SMTT(30)
    <2>4. later \o after \in Seq(Chars)
      BY <1>2
    <2>5. rest \o more = first \o (later \o after)
      BY <2>2, <2>3
    <2>6. /\ \A i \in 1 .. Len(rest) : i <= Len(first) => rest[i] = first[i]
          /\ Len(rest) >= Len(first) => SubSeq(rest, Len(first) + 1, Len(rest)) \o more = later \o after
      BY <2>1, <2>4, <2>5, Starts, ZenonT(40)
    <2>7. Len(rest) \in Nat /\ Len(rest) >= 1 /\ 1 \in 1 .. Len(rest) /\ Next1 = rest[1]
      BY DEF Next1
    <2>8. SubSeq(rest, 2, Len(rest)) = Tail(rest)
      OBVIOUS
    <2>9. Next1 = c
      BY <2>1, <2>6, <2>7
    <2>10. SubSeq(rest, 2, Len(rest)) \o more = later \o after
      <3>1. 1 + 1 = 2 /\ Len(rest) >= Len(first)
        BY <2>1, <2>7
      <3> QED BY <2>1, <2>6, <3>1
    <2> QED BY <2>8, <2>9, <2>10
  <1>8. "l" \in Chars /\ "d" \in Chars
    BY BencodeAssumption
  <1>9. rest' = Tail(rest) /\ stack' = Append(stack, Frame(u, 0)) /\ status' = status /\ Tail(rest) \o more = later \o after
    <2>1. CASE DOMAIN u = {"list"} /\ Spelled[u] = <<"l">> \o later
      <3>1. Next1 = "l" /\ Tail(rest) \o more = later \o after
        BY <1>7, <1>8, <2>1
      <3>2. OpenList
        BY <3>1, FirstDecides
      <3>3. Frame(u, 0) = [list |-> << >>]
        BY <2>1, FrameIs
      <3> QED BY <3>1, <3>2, <3>3 DEF OpenList, Open
    <2>2. CASE DOMAIN u = {"dict"} /\ Spelled[u] = <<"d">> \o later
      <3>1. Next1 = "d" /\ Tail(rest) \o more = later \o after
        BY <1>7, <1>8, <2>2
      <3>2. OpenDict
        BY <3>1, FirstDecides
      <3>3. Frame(u, 0) = [dict |-> << >>, key |-> << >>]
        BY <2>2, FrameIs
      <3> QED BY <3>1, <3>2, <3>3 DEF OpenDict, Open
    <2> QED BY <1>6, <2>1, <2>2
  <1>10. status' = "running" /\ stack' = Frames(new) /\ Due(new, v, tail, rest' \o more)
    BY <1>5, <1>9 DEF Running
  <1> QED BY <1>5, <1>10 DEF Reading

\* decode reads a string or an integer, or refuses it where it is cut.
LEMMA AtomIsRead ==
  ASSUME NEW v, NEW tail, NEW more \in Seq(Chars), NEW path, IsPath(path, v, tail),
         NEW u \in Values, NEW after \in Seq(Chars), Wanted(path, v, tail, u, after),
         ~IsContainer(u), Running, rest \in Seq(Chars), rest # << >>,
         rest \o more = Spelled[u] \o after, stack = Frames(path),
         [Next]_vars, vars' # vars
  PROVE  Reading(v, tail, more)'
  <1>1. DOMAIN u = {"string"} \/ DOMAIN u = {"integer"}
    <2>1. DOMAIN u = {"string"} \/ DOMAIN u = {"integer"} \/ DOMAIN u = {"list"} \/ DOMAIN u = {"dict"}
      BY Kinds
    <2> QED BY <2>1 DEF IsContainer
  <1>2. Spelled[u] \in Seq(Chars) /\ Len(Spelled[u]) \in Nat /\ Len(rest) \in Nat
    <2>1. Spelled[u] \in Seq(Chars)
      BY SpellingAssumption
    <2> QED BY <2>1
  <1>3. /\ Len(rest) >= Len(Spelled[u]) =>
             SubSeq(rest, Len(Spelled[u]) + 1, Len(rest)) \o more = after
        /\ Len(rest) < Len(Spelled[u]) => more # << >>
    BY <1>2, Starts
  <1>4. Len(rest) >= Len(Spelled[u]) \/ Len(rest) < Len(Spelled[u])
    BY <1>2
  <1>5. ASSUME Len(rest) < Len(Spelled[u]), Reject PROVE Reading(v, tail, more)'
    BY <1>3, <1>5 DEF Reject, Reading
  <1>6. ASSUME Len(rest) >= Len(Spelled[u]), NEW n, n = Len(Spelled[u]), Yield(u, n, stack)
        PROVE  Reading(v, tail, more)'
    <2>1. rest' = SubSeq(rest, Len(Spelled[u]) + 1, Len(rest))
      BY <1>6 DEF Yield
    <2>2. rest' \o more = after
      BY <1>3, <1>6, <2>1
    <2> QED BY <1>6, <2>2, WantedIsRead
  <1>7. CASE DOMAIN u = {"string"}
    <2>1. /\ IsDigit(Next1)
          /\ Len(rest) >= Len(Spelled[u]) =>
               StringIsThere /\ [string |-> StringRead] = u /\ StringEnd = Len(Spelled[u])
          /\ Len(rest) < Len(Spelled[u]) => ~StringIsThere
      BY <1>7, StringIsRead
    <2>2. DecodeString
      BY <2>1, FirstDecides
    <2>3. CASE Len(rest) >= Len(Spelled[u])
      <3>1. Yield(u, StringEnd, stack)
        BY <2>1, <2>2, <2>3 DEF DecodeString
      <3> QED BY <1>6, <2>1, <2>3, <3>1
    <2>4. CASE Len(rest) < Len(Spelled[u])
      <3>1. Reject
        BY <2>1, <2>2, <2>4 DEF DecodeString
      <3> QED BY <1>5, <2>4, <3>1
    <2> QED BY <1>4, <2>3, <2>4
  <1>8. CASE DOMAIN u = {"integer"}
    <2>1. /\ Next1 = "i"
          /\ Len(rest) >= Len(Spelled[u]) =>
               IntegerIsThere /\ [integer |-> IntegerRead] = u /\ Terminator = Len(Spelled[u])
          /\ Len(rest) < Len(Spelled[u]) => ~IntegerIsThere
      BY <1>8, IntegerIsRead
    <2>2. DecodeInteger
      BY <2>1, FirstDecides
    <2>3. CASE Len(rest) >= Len(Spelled[u])
      <3>1. Yield(u, Terminator, stack)
        BY <2>1, <2>2, <2>3 DEF DecodeInteger
      <3> QED BY <1>6, <2>1, <2>3, <3>1
    <2>4. CASE Len(rest) < Len(Spelled[u])
      <3>1. Reject
        BY <2>1, <2>2, <2>4 DEF DecodeInteger
      <3> QED BY <1>5, <2>4, <3>1
    <2> QED BY <1>4, <2>3, <2>4
  <1> QED BY <1>1, <1>7, <1>8

\* No spelling is empty: what is wanted is missing where the text ends.
LEMMA EndIsMissed ==
  ASSUME NEW u \in Values, NEW more \in Seq(Chars), NEW after \in Seq(Chars),
         << >> \o more = Spelled[u] \o after
  PROVE  more # << >>
  <1>1. Spelled[u] \in Seq(Chars) /\ << >> \in Seq(Chars) /\ Len(<< >>) = 0
    BY SpellingAssumption
  <1>2. Len(Spelled[u]) > 0
    <2>1. DOMAIN u = {"string"} \/ DOMAIN u = {"integer"} \/ DOMAIN u = {"list"} \/ DOMAIN u = {"dict"}
      BY Kinds
    <2>2. CASE DOMAIN u = {"string"}
      <3> DEFINE n == Len(Decimals[Len(u.string)])
                 m == Len(u.string)
                 all == Len(Spelled[u])
      <3>1. all = n + 1 + m /\ n \in Nat \ {0} /\ m \in Nat
        BY <2>2, StringSpelled
      <3> HIDE DEF n, m
      <3> QED BY <3>1
    <2>3. CASE DOMAIN u = {"integer"}
      <3> DEFINE size == IF u.integer < 0 THEN -u.integer ELSE u.integer
                 n == Len(IF u.integer < 0 THEN <<"-">> \o Decimals[size] ELSE Decimals[size])
      <3>1. Len(Spelled[u]) = n + 2 /\ n \in Nat \ {0}
        BY <2>3, IntegerSpelled
      <3> HIDE DEF n
      <3> QED BY <3>1
    <2>4. CASE DOMAIN u = {"list"} \/ DOMAIN u = {"dict"}
      <3>1. IsContainer(u)
        BY <2>4 DEF IsContainer
      <3>2. RestOf(u, 0) \in Seq(Chars)
        <4>1. Items(u) \in Seq(Values)
          BY <3>1, ItemsType
        <4>2. 0 \in 0 .. Len(Items(u))
          BY <4>1
        <4> QED BY <3>1, <4>2, RestOfIs
      <3>3. Len(Spelled[u]) = 1 + Len(RestOf(u, 0))
        BY <3>1, ContainerSpelled
      <3> QED BY <3>2, <3>3
    <2> QED BY <2>1, <2>2, <2>3, <2>4
  <1> QED BY <1>1, <1>2, Starts

\* decode goes on as what it reads says.
LEMMA StepsRead ==
  ASSUME NEW v \in Values, NEW tail \in Seq(Chars), NEW more \in Seq(Chars),
         RestIsAnEnd, Reading(v, tail, more), [Next]_vars
  PROVE  Reading(v, tail, more)'
  <1>1. CASE UNCHANGED vars
    <2>1. rest' = rest /\ stack' = stack /\ value' = value /\ status' = status
      BY <1>1 DEF vars
    <2> QED BY <2>1 DEF Reading
  <1>2. CASE ~Running
    <2>1. UNCHANGED vars
      BY <1>2 DEF Next, DecodeString, DecodeInteger, OpenList, OpenDict, Close, Unexpected, Stopped
    <2> QED BY <1>1, <2>1
  <1>3. CASE Running /\ vars' # vars
    <2>1. rest \in Seq(Chars)
      BY RestType
    <2>2. PICK path : IsPath(path, v, tail) /\ stack = Frames(path) /\ Due(path, v, tail, rest \o more)
      BY <1>3 DEF Reading, Running
    <2>3. ASSUME rest = << >>, more # << >> PROVE Reading(v, tail, more)'
      <3>1. Reject
        BY <1>3, <2>3, FirstDecides DEF Unexpected
      <3> QED BY <2>3, <3>1 DEF Reject, Reading
    <2>4. ASSUME NEW u \in Values, NEW after \in Seq(Chars),
                 Wanted(path, v, tail, u, after), rest \o more = Spelled[u] \o after
          PROVE  Reading(v, tail, more)'
      <3>1. CASE rest = << >>
        <4>1. more # << >>
          BY <2>4, <3>1, EndIsMissed
        <4> QED BY <2>3, <3>1, <4>1
      <3>2. CASE rest # << >> /\ IsContainer(u)
        BY <1>3, <2>1, <2>2, <2>4, <3>2, ContainerIsOpened
      <3>3. CASE rest # << >> /\ ~IsContainer(u)
        BY <1>3, <2>1, <2>2, <2>4, <3>3, AtomIsRead
      <3> QED BY <3>1, <3>2, <3>3
    <2>5. ASSUME path # << >>, Last(path).read = Len(Items(Last(path).of)),
                 rest \o more = <<"e">> \o Last(path).after
          PROVE  Reading(v, tail, more)'
      <3> DEFINE level == Last(path)
                 w == level.of
                 final == <<"e">>
      <3>1. /\ path \in Seq(Levels) /\ level \in Levels /\ IsPath(Front(path), v, tail)
            /\ IsLevel(level, Front(path), v, tail) /\ Frames(Front(path)) = Front(Frames(path))
        BY <2>2, <2>5, Outside DEF IsPath
      <3>2. /\ w \in Values /\ level.after \in Seq(Chars) /\ IsContainer(w)
            /\ Wanted(Front(path), v, tail, w, level.after)
        BY <3>1 DEF Levels, IsLevel
      <3>3. stack # << >> /\ Last(stack) = Frame(w, Len(Items(w))) /\ Front(stack) = Frames(Front(path))
        BY <2>2, <2>5, <3>1, FramesType
      <3>4. Closed(Last(stack)) = w /\ ~AwaitsValue(Last(stack))
        BY <3>2, <3>3, FrameIs
      <3>5. final \in Seq(Chars) /\ Len(final) = 1 /\ final[1] = "e"
        BY BencodeAssumption
      <3>6. rest \o more = final \o level.after
        BY <2>5
      <3> HIDE DEF final, level
      <3>7. /\ \A i \in 1 .. Len(rest) : i <= Len(final) => rest[i] = final[i]
            /\ Len(rest) >= Len(final) => SubSeq(rest, Len(final) + 1, Len(rest)) \o more = level.after
            /\ Len(rest) < Len(final) => more # << >>
        BY <2>1, <3>2, <3>5, <3>6, Starts
      <3>8. CASE rest = << >>
        <4>1. more # << >>
          BY <3>5, <3>7, <3>8
        <4> QED BY <2>3, <3>8, <4>1
      <3>9. CASE rest # << >>
        <4>1. Len(rest) \in Nat /\ Len(rest) >= 1 /\ 1 \in 1 .. Len(rest) /\ Next1 = rest[1]
          BY <2>1, <3>9 DEF Next1
        <4>2. Next1 = "e" /\ SubSeq(rest, 1 + 1, Len(rest)) \o more = level.after
          BY <3>5, <3>7, <4>1
        <4>3. MayClose
          BY <3>3, <3>4, <3>9, <4>2 DEF MayClose
        <4>4. Close
          BY <1>3, <3>9, <4>2, <4>3, FirstDecides
        <4>5. Yield(w, 1, Frames(Front(path)))
          BY <3>3, <3>4, <4>4 DEF Close
        <4>6. rest' \o more = level.after
          BY <4>2, <4>5 DEF Yield
        <4> QED BY <1>3, <3>1, <3>2, <4>5, <4>6, WantedIsRead
      <3> QED BY <3>8, <3>9
    <2> QED BY <2>2, <2>4, <2>5 DEF Due
  <1> QED BY <1>1, <1>2, <1>3

\* A text is its parts, wherever it is split.
SplitAt(S, text, k) ==
  /\ SubSeq(text, k + 1, Len(text)) \in Seq(S)
  /\ Len(SubSeq(text, k + 1, Len(text))) = Len(text) - k
  /\ SubSeq(text, 1, k) \o SubSeq(text, k + 1, Len(text)) = text

LEMMA Parts ==
  ASSUME NEW S, NEW text \in Seq(S), NEW k \in 0 .. Len(text)
  PROVE  SplitAt(S, text, k)
  <1> DEFINE n == Len(text)
             a == SubSeq(text, 1, k)
             b == SubSeq(text, k + 1, n)
  <1>1. /\ n \in Nat /\ k \in Nat /\ k <= n
        /\ a \in Seq(S) /\ Len(a) = k /\ \A i \in 1 .. k : a[i] = text[i]
        /\ b \in Seq(S) /\ Len(b) = n - k /\ \A i \in 1 .. n - k : b[i] = text[k + i]
    OBVIOUS
  <1> HIDE DEF n, a, b
  <1>2. Joins(S, a, b, a \o b)
    BY <1>1, Joined
  <1>3. Len(a \o b) = n /\ a \o b \in Seq(S)
    BY <1>1, <1>2 DEF Joins
  <1>4. ASSUME NEW i \in 1 .. n PROVE (a \o b)[i] = text[i]
    <2>1. CASE i <= k
      <3>1. i \in 1 .. k
        BY <1>1, <2>1
      <3> QED BY <1>1, <1>2, <3>1 DEF Joins
    <2>2. CASE ~(i <= k)
      <3> DEFINE j == i - k
      <3>1. j \in 1 .. n - k /\ k + j = i
        BY <1>1, <2>2
      <3> HIDE DEF j
      <3> QED BY <1>1, <1>2, <3>1 DEF Joins
    <2> QED BY <2>1, <2>2
  <1>5. a \o b = text
    BY <1>3, <1>4, SeqEqual DEF n
  <1> QED BY <1>1, <1>5 DEF SplitAt, n, a, b

\* Whatever is spelled, decode reads it and leaves what follows, or refuses it
\* where it is cut.
THEOREM SpellingsAreRead == Spec => []ReadsSpellings
  <1>1. Init => ReadsSpellings
    <2> SUFFICES ASSUME Init, NEW v \in Values, NEW tail \in Seq(Chars), NEW more \in Seq(Chars),
                        input \o more = Spelled[v] \o tail
                 PROVE  Reading(v, tail, more)
      BY DEF ReadsSpellings
    <2>1. rest = input /\ stack = << >> /\ status = "running"
      BY DEF Init
    <2> DEFINE path == << >>
    <2>2. IsPath(path, v, tail) /\ Frames(path) = << >>
      <3>1. path \in Seq(Levels) /\ Len(path) = 0
        OBVIOUS
      <3> HIDE DEF path
      <3>2. IsPath(path, v, tail)
        BY <3>1 DEF IsPath
      <3>3. Frames(path) = << >>
        BY <3>1, FramesType DEF path
      <3> QED BY <3>2, <3>3
    <2>3. Wanted(path, v, tail, v, tail)
      BY DEF Wanted
    <2> HIDE DEF path
    <2>4. Due(path, v, tail, rest \o more)
      BY <2>1, <2>3 DEF Due
    <2> QED BY <2>1, <2>2, <2>4 DEF Reading
  <1>2. ReadsSpellings /\ RestIsAnEnd /\ [Next]_vars => ReadsSpellings'
    <2> SUFFICES ASSUME ReadsSpellings, RestIsAnEnd, [Next]_vars,
                        NEW v \in Values, NEW tail \in Seq(Chars), NEW more \in Seq(Chars),
                        input' \o more = Spelled[v] \o tail
                 PROVE  Reading(v, tail, more)'
      BY DEF ReadsSpellings
    <2>1. input' = input
      BY DEF Next, DecodeString, DecodeInteger, OpenList, OpenDict, Open, Close, Unexpected, Stopped, vars
    <2>2. Reading(v, tail, more)
      BY <2>1 DEF ReadsSpellings
    <2> QED BY <2>2, StepsRead
  <1> QED BY <1>1, <1>2, LeavesAnEnd, PTL DEF Spec

\* The spelling of any value, whatever comes after it, is decoded to that value,
\* and what comes after it is left.
THEOREM ValuesAreDecoded == Spec => []DecodesSpellings
  <1>1. ReadsSpellings /\ RestIsAnEnd => DecodesSpellings
    <2> SUFFICES ASSUME ReadsSpellings, RestIsAnEnd, ~Running,
                        NEW v \in Values, IsPrefix(Spelled[v], input)
                 PROVE  status = "done" /\ value = v /\ Consumed = Spelled[v]
      BY DEF DecodesSpellings
    <2> DEFINE text == Spelled[v]
               n == Len(text)
               m == Len(input)
               tail == SubSeq(input, n + 1, m)
               more == << >>
    <2>1. /\ input \in Seq(Chars) /\ m \in Nat /\ text \in Seq(Chars) /\ n \in Nat
          /\ n <= m /\ SubSeq(text, 1, n) = SubSeq(input, 1, n) /\ more \in Seq(Chars)
      BY BencodeAssumption, SpellingAssumption DEF RestIsAnEnd, IsPrefix
    <2> HIDE DEF text, more
    <2>2. text = SubSeq(input, 1, n)
      <3>1. SubSeq(text, 1, n) = text
        BY <2>1
      <3> QED BY <2>1, <3>1
    <2>3. tail \in Seq(Chars) /\ Len(tail) = m - n /\ SubSeq(input, 1, n) \o tail = input
      <3>1. n \in 0 .. Len(input)
        BY <2>1
      <3>2. SplitAt(Chars, input, n)
        BY <2>1, <3>1, Parts
      <3> QED BY <3>2 DEF SplitAt
    <2>5. input \o more = input
      BY <2>1 DEF more
    <2> HIDE DEF tail
    <2>6. input \o more = text \o tail
      BY <2>2, <2>3, <2>5
    <2>7. Reading(v, tail, more)
      BY <2>1, <2>3, <2>6 DEF ReadsSpellings, text
    <2>8. status = "done" /\ value = v /\ rest \o more = tail
      BY <2>7 DEF Reading, Running, more
    <2>9. rest = tail
      <3>1. rest \in Seq(Chars)
        BY RestType
      <3>2. rest \o << >> = rest
        BY <3>1
      <3> QED BY <2>8, <3>2 DEF more
    <2>10. Consumed = SubSeq(input, 1, n)
      <3>1. m - (m - n) = n
        BY <2>1
      <3> QED BY <2>3, <2>9, <3>1 DEF Consumed
    <2> QED BY <2>2, <2>8, <2>10 DEF text
  <1> QED BY <1>1, SpellingsAreRead, LeavesAnEnd, PTL

\* No value is decoded from a part of its spelling, whatever the value and
\* wherever its spelling is cut.
THEOREM CutValuesAreRefused == Spec => []CutTextsAreRefused
  <1>1. ReadsSpellings /\ RestIsAnEnd => CutTextsAreRefused
    <2> SUFFICES ASSUME ReadsSpellings, RestIsAnEnd, status = "done",
                        NEW v \in Values, IsStrictPrefix(input, Spelled[v])
                 PROVE  FALSE
      BY DEF CutTextsAreRefused
    <2> DEFINE text == Spelled[v]
               n == Len(text)
               m == Len(input)
               more == SubSeq(text, m + 1, n)
               tail == << >>
    <2>1. /\ input \in Seq(Chars) /\ m \in Nat /\ text \in Seq(Chars) /\ n \in Nat
          /\ m <= n /\ SubSeq(input, 1, m) = SubSeq(text, 1, m) /\ tail \in Seq(Chars)
          /\ input # text
      BY BencodeAssumption, SpellingAssumption DEF RestIsAnEnd, IsPrefix, IsStrictPrefix
    <2> HIDE DEF text, tail
    <2>2. input = SubSeq(text, 1, m)
      <3>1. SubSeq(input, 1, m) = input
        BY <2>1
      <3> QED BY <2>1, <3>1
    <2>3. more \in Seq(Chars) /\ SubSeq(text, 1, m) \o more = text
      <3>1. m \in 0 .. Len(text)
        BY <2>1
      <3>2. SplitAt(Chars, text, m)
        BY <2>1, <3>1, Parts
      <3> QED BY <3>2 DEF SplitAt
    <2>5. text \o tail = text
      BY <2>1 DEF tail
    <2>6. more # << >>
      <3>1. more = << >> => SubSeq(text, 1, m) = text
        <4>1. SubSeq(text, 1, m) \in Seq(Chars)
          BY <2>1, <2>2
        <4>2. SubSeq(text, 1, m) \o << >> = SubSeq(text, 1, m)
          BY <4>1
        <4> QED BY <2>3, <4>2
      <3> QED BY <2>1, <2>2, <3>1
    <2> HIDE DEF more
    <2>7. input \o more = text \o tail
      BY <2>2, <2>3, <2>5
    <2>8. Reading(v, tail, more)
      BY <2>1, <2>3, <2>7 DEF ReadsSpellings, text
    <2>9. rest \o more = << >>
      BY <2>8 DEF Reading, tail
    <2>10. rest \in Seq(Chars)
      BY RestType
    <2> QED BY <2>3, <2>6, <2>9, <2>10
  <1> QED BY <1>1, SpellingsAreRead, LeavesAnEnd, PTL

----------------------------------------------------------------------------
(* What encode writes *)

\* encode writes a number as its spelling has it.
LEMMA DecimalsAgree == Decimal = Decimals
  <1> DEFINE Step(f) == [n \in Nat |-> IF n < 10 THEN <<Numerals[n + 1]>>
                                       ELSE Append(f[n \div 10], Numerals[(n % 10) + 1])]
  <1>1. Decimal = CHOOSE f : f = Step(f)
    BY DEF Decimal
  <1>2. Decimals = CHOOSE f : f = Step(f)
    BY DEF Decimals
  <1> QED BY <1>1, <1>2

\* What is in a list or a dictionary is spelled shorter than it.
LEMMA ItemsAreShorter ==
  ASSUME NEW w \in Values, IsContainer(w), NEW k \in 1 .. Len(Items(w))
  PROVE  /\ Items(w)[k] \in Values
         /\ Len(Spelled[Items(w)[k]]) \in Nat /\ Len(Spelled[w]) \in Nat
         /\ Len(Spelled[Items(w)[k]]) < Len(Spelled[w])
  <1> DEFINE count == Len(Items(w))
             size(n) == Len(RestOf(w, n))
             part(n) == Len(Spelled[Items(w)[n + 1]])
  <1>1. Items(w) \in Seq(Values) /\ count \in Nat
    BY ItemsType
  <1>2. \A n \in 0 .. count : size(n) \in Nat
    <2>1. \A n \in 0 .. count : RestOf(w, n) \in Seq(Chars)
      BY RestOfIs
    <2> QED BY <2>1
  <1>3. ASSUME NEW n \in 0 .. count - 1
        PROVE  part(n) \in Nat /\ size(n) = part(n) + size(n + 1)
    <2>1. n + 1 \in 1 .. count /\ n + 1 \in 0 .. count
      BY <1>1, <1>3
    <2> DEFINE a == Spelled[Items(w)[n + 1]]
               b == RestOf(w, n + 1)
    <2>2. a \in Seq(Chars)
      BY <1>1, <2>1, SpellingAssumption
    <2>3. b \in Seq(Chars) /\ RestOf(w, n) = a \o b
      BY <1>3, <2>1, RestOfIs
    <2> HIDE DEF a, b
    <2>4. Len(a) \in Nat /\ Len(a \o b) = Len(a) + Len(b)
      BY <2>2, <2>3
    <2> QED BY <2>3, <2>4 DEF a, b
  <1>4. Len(Spelled[w]) = 1 + size(0)
    BY ContainerSpelled
  <1> HIDE DEF count, size, part
  <1>5. \A n \in 0 .. count : size(n) <= size(0)
    <2> DEFINE Bad == {n \in 0 .. count : ~(size(n) <= size(0))}
    <2>1. ASSUME Bad # {} PROVE FALSE
      <3>1. Bad \in SUBSET Nat
        BY <1>1
      <3>2. PICK n \in Bad : \A i \in Bad : n <= i
        <4> HIDE DEF Bad
        <4> QED BY <2>1, <3>1, LeastOf
      <3>3. n \in 0 .. count /\ ~(size(n) <= size(0)) /\ 0 \in 0 .. count
        BY <1>1, <3>2
      <3>4. n # 0
        BY <1>2, <3>3
      <3>5. n - 1 \in 0 .. count - 1 /\ n - 1 \in 0 .. count /\ ~(n <= n - 1) /\ (n - 1) + 1 = n
        BY <1>1, <3>3, <3>4
      <3>6. size(n - 1) <= size(0)
        BY <3>2, <3>5
      <3>7. part(n - 1) \in Nat /\ size(n - 1) = part(n - 1) + size(n)
        BY <1>3, <3>5
      <3> QED BY <1>2, <3>3, <3>5, <3>6, <3>7
    <2> QED BY <2>1
  <1>6. /\ k - 1 \in 0 .. count - 1 /\ k - 1 \in 0 .. count /\ k \in 0 .. count
        /\ (k - 1) + 1 = k /\ 0 \in 0 .. count
    BY <1>1 DEF count
  <1>7. part(k - 1) \in Nat /\ size(k - 1) = part(k - 1) + size(k) /\ size(k - 1) <= size(0)
    BY <1>3, <1>5, <1>6
  <1>8. part(k - 1) < 1 + size(0)
    BY <1>2, <1>6, <1>7
  <1>9. part(k - 1) = Len(Spelled[Items(w)[k]])
    BY <1>6 DEF part
  <1>10. Items(w)[k] \in Values
    BY <1>1
  <1>11. 1 + size(0) \in Nat
    BY <1>2, <1>6
  <1> QED BY <1>4, <1>7, <1>8, <1>9, <1>10, <1>11

\* What encode writes for a value, given what it writes for others.
Written(g, v) ==
  CASE "list" \in DOMAIN v ->
         <<"l">> \o FlattenSeq([k \in DOMAIN v.list |-> g[v.list[k]]]) \o <<"e">>
    [] "dict" \in DOMAIN v ->
         LET order   == KeyOrder(v.dict)
             entries == [k \in DOMAIN v.dict |-> EncodeString(v.dict[k][1]) \o g[v.dict[k][2]]]
         IN  <<"d">> \o FlattenSeq([k \in DOMAIN entries |-> entries[order[k]]]) \o <<"e">>
    [] "string" \in DOMAIN v  -> EncodeString(v.string)
    [] "integer" \in DOMAIN v -> EncodeInteger(v.integer)

\* A dictionary's items are its keys and its values.
LEMMA DictCount ==
  ASSUME NEW w \in Values, DOMAIN w = {"dict"}
  PROVE  Len(Items(w)) = 2 * Len(w.dict)
  <1> DEFINE s == w.dict
             c == Len(s)
             item(i) == IF i % 2 = 1 THEN [string |-> s[(i + 1) \div 2][1]] ELSE s[i \div 2][2]
  <1>1. s \in Seq(Seq(Chars) \X Values)
    BY Kinds
  <1>2. 2 * c \in Nat
    BY <1>1
  <1>3. Items(w) = [i \in 1 .. 2 * c |-> item(i)]
    BY DEF Items
  <1>4. Items(w) \in Seq(Values)
    BY ItemsType DEF IsContainer
  <1> HIDE DEF s, c, item
  <1>5. Len(Items(w)) = 2 * c
    BY <1>2, <1>3, <1>4
  <1> QED BY <1>5 DEF s, c

\* The values of a dictionary are among its items.
LEMMA DictItems ==
  ASSUME NEW w \in Values, DOMAIN w = {"dict"}, NEW k \in DOMAIN w.dict
  PROVE  /\ 2 * k \in 1 .. Len(Items(w)) /\ Items(w)[2 * k] = w.dict[k][2]
         /\ 2 * k - 1 \in 1 .. Len(Items(w)) /\ Items(w)[2 * k - 1] = [string |-> w.dict[k][1]]
  <1> DEFINE s == w.dict
             c == Len(s)
             item(i) == IF i % 2 = 1 THEN [string |-> s[(i + 1) \div 2][1]] ELSE s[i \div 2][2]
  <1>1. s \in Seq(Seq(Chars) \X Values)
    BY Kinds
  <1>2. c \in Nat /\ DOMAIN s = 1 .. c
    BY <1>1
  <1>3. Items(w) = [i \in 1 .. 2 * c |-> item(i)]
    BY DEF Items
  <1>4. k \in 1 .. c
    BY <1>2
  <1> HIDE DEF s, c
  <1>5. /\ 2 * k \in 1 .. 2 * c /\ (2 * k) % 2 # 1 /\ (2 * k) \div 2 = k
        /\ 2 * k - 1 \in 1 .. 2 * c /\ (2 * k - 1) % 2 = 1 /\ ((2 * k - 1) + 1) \div 2 = k
        /\ 2 * c \in Nat
    <2>1. k \in Nat /\ c \in Nat /\ 2 * k \in Nat /\ 2 * c \in Nat /\ k >= 1 /\ k <= c
      BY <1>2, <1>4
    <2>2. (2 * k) % 2 = 0 /\ (2 * k) \div 2 = k
      BY <2>1
    <2>3. (2 * k - 1) % 2 = 1
      BY <2>1
    <2>4. ((2 * k - 1) + 1) \div 2 = k
      BY <2>1, <2>2
    <2> DEFINE a == 2 * k
               b == 2 * c
    <2>9. a \in Nat /\ b \in Nat /\ a >= 2 /\ a <= b
      BY <2>1
    <2> HIDE DEF a, b
    <2>10. a \in 1 .. b /\ a - 1 \in 1 .. b
      BY ONLY <2>9
    <2>5. 2 * k \in 1 .. 2 * c
      BY <2>10 DEF a, b
    <2>6. 2 * k - 1 \in 1 .. 2 * c
      BY <2>10 DEF a, b
    <2>7. (2 * k) % 2 # 1
      BY <2>2
    <2> QED BY ONLY <2>1, <2>2, <2>3, <2>4, <2>5, <2>6, <2>7
  <1>6. Len(Items(w)) = 2 * c
    BY DictCount DEF s, c
  <1>7. Items(w)[2 * k] = item(2 * k) /\ Items(w)[2 * k - 1] = item(2 * k - 1)
    BY <1>3, <1>5
  <1> QED BY <1>4, <1>5, <1>6, <1>7 DEF s, c

\* What is written for a value depends on what is written for what is in it.
LEMMA WrittenFromItems ==
  ASSUME NEW v \in Values, NEW g, NEW h,
         IsContainer(v) => \A k \in 1 .. Len(Items(v)) : g[Items(v)[k]] = h[Items(v)[k]]
  PROVE  Written(g, v) = Written(h, v)
  <1>1. CASE DOMAIN v = {"string"} \/ DOMAIN v = {"integer"}
    <2>1. "list" \notin DOMAIN v /\ "dict" \notin DOMAIN v
      BY <1>1
    <2> QED BY <1>1, <2>1 DEF Written
  <1>2. CASE DOMAIN v = {"list"}
    <2>1. v.list \in Seq(Values) /\ IsContainer(v) /\ Items(v) = v.list
      BY <1>2, Kinds DEF IsContainer, Items
    <2>2. DOMAIN v.list = 1 .. Len(v.list)
      BY <2>1
    <2>3. [k \in DOMAIN v.list |-> g[v.list[k]]] = [k \in DOMAIN v.list |-> h[v.list[k]]]
      BY <2>1, <2>2
    <2>4. "list" \in DOMAIN v /\ "dict" \notin DOMAIN v
      BY <1>2
    <2> DEFINE parts(f) == [k \in DOMAIN v.list |-> f[v.list[k]]]
    <2>5. Written(g, v) = <<"l">> \o FlattenSeq(parts(g)) \o <<"e">>
      BY ONLY <1>2, <2>4 DEF Written
    <2>6. Written(h, v) = <<"l">> \o FlattenSeq(parts(h)) \o <<"e">>
      BY ONLY <1>2, <2>4 DEF Written
    <2> HIDE DEF parts
    <2>7. parts(g) = parts(h)
      BY <2>3 DEF parts
    <2> QED BY ONLY <2>5, <2>6, <2>7
  <1>3. CASE DOMAIN v = {"dict"}
    <2>1. IsContainer(v)
      BY <1>3 DEF IsContainer
    <2>2. ASSUME NEW k \in DOMAIN v.dict PROVE g[v.dict[k][2]] = h[v.dict[k][2]]
      <3>1. 2 * k \in 1 .. Len(Items(v)) /\ Items(v)[2 * k] = v.dict[k][2]
        BY <1>3, DictItems
      <3> QED BY <2>1, <3>1
    <2>3. [k \in DOMAIN v.dict |-> EncodeString(v.dict[k][1]) \o g[v.dict[k][2]]]
            = [k \in DOMAIN v.dict |-> EncodeString(v.dict[k][1]) \o h[v.dict[k][2]]]
      BY <2>2
    <2>4. "dict" \in DOMAIN v /\ "list" \notin DOMAIN v
      BY <1>3
    <2> DEFINE order == KeyOrder(v.dict)
               entries(f) == [k \in DOMAIN v.dict |-> EncodeString(v.dict[k][1]) \o f[v.dict[k][2]]]
               text(e) == <<"d">> \o FlattenSeq([k \in DOMAIN e |-> e[order[k]]]) \o <<"e">>
    <2>5. Written(g, v) = text(entries(g))
      BY ONLY <1>3, <2>4 DEF Written
    <2>6. Written(h, v) = text(entries(h))
      BY ONLY <1>3, <2>4 DEF Written
    <2>7. entries(g) = entries(h)
      BY <2>3
    <2> HIDE DEF entries, text
    <2> QED BY ONLY <2>5, <2>6, <2>7
  <1>4. DOMAIN v = {"string"} \/ DOMAIN v = {"integer"} \/ DOMAIN v = {"list"} \/ DOMAIN v = {"dict"}
    BY Kinds
  <1> QED BY <1>1, <1>2, <1>3, <1>4

\* encode is defined for every value.
LEMMA EncodeIs ==
  \A v \in Values : Encode[v] = Written(Encode, v)
  <1> DEFINE Size(v) == Len(Spelled[v])
             Upto(n, g) == \A v \in Values : Size(v) <= n => g[v] = Written(g, v)
             Step(f) == [v \in Values |-> Written(f, v)]
  <1>1. \A v \in Values : Size(v) \in Nat
    <2>1. \A v \in Values : Spelled[v] \in Seq(Chars)
      BY SpellingAssumption
    <2> QED BY <2>1
  <1>2. \A v \in Values : IsContainer(v) => \A k \in 1 .. Len(Items(v)) :
          Items(v)[k] \in Values /\ Size(Items(v)[k]) < Size(v)
    BY ItemsAreShorter
  <1> HIDE DEF Size
  <1>3. \A n \in Nat : \E g : Upto(n, g)
    <2> DEFINE Bad == {n \in Nat : ~ \E g : Upto(n, g)}
    <2> SUFFICES ASSUME Bad # {} PROVE FALSE
      OBVIOUS
    <2>1. Bad \in SUBSET Nat
      <3> HIDE DEF Upto
      <3> QED OBVIOUS
    <2>2. PICK n \in Bad : \A i \in Bad : n <= i
      <3> HIDE DEF Bad
      <3> QED BY <2>1, LeastOf
    <2>3. n \in Nat /\ ~ \E g : Upto(n, g)
      <3> HIDE DEF Upto
      <3> QED BY <2>2
    <2>4. PICK f : n # 0 => Upto(n - 1, f)
      <3>1. CASE n # 0
        <4>1. n - 1 \in Nat /\ ~(n <= n - 1)
          BY <2>3, <3>1
        <4>2. n - 1 \notin Bad
          <5> HIDE DEF Bad
          <5> QED BY <2>2, <4>1
        <4>3. \E g : Upto(n - 1, g)
          <5> HIDE DEF Upto
          <5> QED BY <4>1, <4>2
        <4> HIDE DEF Upto
        <4> QED BY <4>3
      <3>2. CASE n = 0
        BY <3>2
      <3> QED BY <3>1, <3>2
    <2> DEFINE g == Step(f)
    <2>5. ASSUME NEW v \in Values, Size(v) <= n PROVE g[v] = Written(g, v)
      <3>1. g[v] = Written(f, v)
        OBVIOUS
      <3>2. ASSUME IsContainer(v), NEW k \in 1 .. Len(Items(v)) PROVE f[Items(v)[k]] = g[Items(v)[k]]
        <4> DEFINE u == Items(v)[k]
        <4>1. u \in Values /\ Size(u) < Size(v)
          BY <1>2, <3>2
        <4> HIDE DEF u
        <4>2. n # 0 /\ Size(u) <= n - 1
          BY <1>1, <2>3, <2>5, <4>1
        <4>3. f[u] = Written(f, u)
          BY <2>4, <4>1, <4>2
        <4>4. g[u] = Written(f, u)
          BY <4>1
        <4> QED BY <4>3, <4>4 DEF u
      <3> HIDE DEF g
      <3>3. Written(f, v) = Written(g, v)
        BY <3>2, WrittenFromItems
      <3> QED BY <3>1, <3>3
    <2>6. Upto(n, g)
      BY <2>5
    <2> HIDE DEF Upto, g
    <2> QED BY <2>3, <2>6
  <1>4. ASSUME NEW n \in Nat, NEW m \in Nat, m <= n, NEW g, NEW h, Upto(n, g), Upto(m, h),
               NEW w \in Values, Size(w) <= m
        PROVE  g[w] = h[w]
    <2> DEFINE Bad == {i \in Nat : \E v \in Values : Size(v) = i /\ i <= m /\ g[v] # h[v]}
    <2>1. ASSUME Bad # {} PROVE FALSE
      <3>1. Bad \in SUBSET Nat
        OBVIOUS
      <3>2. PICK i \in Bad : \A j \in Bad : i <= j
        <4> HIDE DEF Bad
        <4> QED BY <2>1, <3>1, LeastOf
      <3>3. PICK v \in Values : Size(v) = i /\ i <= m /\ g[v] # h[v]
        BY <3>2
      <3>4. ASSUME IsContainer(v), NEW k \in 1 .. Len(Items(v)) PROVE g[Items(v)[k]] = h[Items(v)[k]]
        <4> DEFINE u == Items(v)[k]
        <4>1. u \in Values /\ Size(u) < Size(v)
          BY <1>2, <3>4
        <4> HIDE DEF u
        <4>2. Size(u) \in Nat /\ Size(u) <= m /\ ~(i <= Size(u))
          BY <1>1, <3>3, <4>1
        <4>3. Size(u) \notin Bad
          <5> HIDE DEF Bad
          <5> QED BY <3>2, <4>2
        <4> QED BY <4>1, <4>2, <4>3 DEF u
      <3>5. Written(g, v) = Written(h, v)
        BY <3>4, WrittenFromItems
      <3>6. Size(v) <= n /\ Size(v) <= m
        BY <1>1, <1>4, <3>3
      <3> QED BY <1>4, <3>3, <3>5, <3>6
    <2>2. Size(w) \notin Bad
      <3> HIDE DEF Bad
      <3> QED BY <2>1
    <2> QED BY <1>1, <1>4, <2>2
  <1> DEFINE Table(n) == CHOOSE g : Upto(n, g)
             F == [v \in Values |-> Table(Size(v))[v]]
  <1>5. \A n \in Nat : Upto(n, Table(n))
    <2> HIDE DEF Upto
    <2> QED BY <1>3
  <1> HIDE DEF Table
  <1>6. ASSUME NEW v \in Values PROVE F[v] = Written(F, v)
    <2> DEFINE n == Size(v)
               g == Table(n)
    <2>1. n \in Nat /\ Upto(n, g) /\ n <= n
      BY <1>1, <1>5
    <2>2. g[v] = Written(g, v)
      BY <2>1
    <2>3. ASSUME IsContainer(v), NEW k \in 1 .. Len(Items(v)) PROVE g[Items(v)[k]] = F[Items(v)[k]]
      <3> DEFINE u == Items(v)[k]
                 m == Size(u)
                 h == Table(m)
      <3>1. u \in Values /\ m < n
        BY <1>2, <2>3
      <3>2. m \in Nat /\ m <= n /\ m <= m /\ Upto(m, h)
        BY <1>1, <1>5, <2>1, <3>1
      <3>3. F[u] = h[u]
        BY <3>1
      <3> HIDE DEF u, m, g, h, n, F, Upto
      <3>4. g[u] = h[u]
        BY <1>4, <2>1, <3>1, <3>2 DEF m
      <3> QED BY <3>3, <3>4 DEF u
    <2>4. F[v] = g[v]
      OBVIOUS
    <2> HIDE DEF F, g
    <2>5. Written(g, v) = Written(F, v)
      BY <2>3, WrittenFromItems
    <2> QED BY <2>2, <2>4, <2>5
  <1>7. F = Step(F)
    <2>1. F = [v \in Values |-> F[v]]
      OBVIOUS
    <2> HIDE DEF F
    <2> QED BY <1>6, <2>1
  <1>8. Encode = CHOOSE f : f = Step(f)
    BY DEF Encode, Written
  <1>9. Encode = Step(Encode)
    <2> HIDE DEF F, Step
    <2> QED BY <1>7, <1>8
  <1> QED BY <1>9

\* The parts of a text that are left after each of them.
Pieces(parts, later) == \A k \in 1 .. Len(parts) : later[k - 1] = parts[k] \o later[k]

\* Parts written one after another, before what is left after the last.
LEMMA Flattened ==
  ASSUME NEW S, NEW parts \in Seq(Seq(S)), NEW later \in [0 .. Len(parts) -> Seq(S)],
         Pieces(parts, later)
  PROVE  FlattenSeq(parts) \in Seq(S) /\ FlattenSeq(parts) \o later[Len(parts)] = later[0]
  <1> DEFINE n == Len(parts)
             Text == Seq(S)
             Step(f) == [i \in 1 .. n |-> IF i = 1 THEN parts[i] ELSE f[i - 1] \o parts[i]]
             flatten == CHOOSE f : f = Step(f)
  <1>1. /\ n \in Nat /\ \A k \in 1 .. n : parts[k] \in Text
        /\ \A x, y \in Text : x \o y \in Text
        /\ << >> \in Text /\ \A x \in Text : << >> \o x = x
        /\ \A k \in 0 .. n : later[k] \in Text
    <2>1. \A x, y \in Text : x \o y \in Text
      OBVIOUS
    <2>2. \A x \in Text : << >> \o x = x
      <3> TAKE x \in Text
      <3> DEFINE both == << >> \o x
      <3>1. both \in Seq(S) /\ Len(both) = Len(x) /\ \A i \in 1 .. Len(x) : both[i] = x[i]
        OBVIOUS
      <3> HIDE DEF both
      <3>2. both = x
        BY <3>1, SeqEqual
      <3> QED BY <3>2 DEF both
    <2>3. << >> \in Text
      OBVIOUS
    <2>4. n \in Nat /\ \A k \in 1 .. n : parts[k] \in Text
      OBVIOUS
    <2>5. \A k \in 0 .. n : later[k] \in Text
      OBVIOUS
    <2> QED BY <2>1, <2>2, <2>3, <2>4, <2>5
  <1>2. \A k \in 1 .. n : later[k - 1] = parts[k] \o later[k]
    BY DEF Pieces
  <1>3. CASE n = 0
    <2>1. parts = << >>
      BY <1>3
    <2>2. FlattenSeq(parts) = parts
      BY <1>3 DEF FlattenSeq
    <2>3. n \in 0 .. n /\ 0 \in 0 .. n
      BY <1>1
    <2> HIDE DEF n, Text
    <2>4. FlattenSeq(parts) \in Text /\ FlattenSeq(parts) \o later[n] = later[0]
      BY <1>1, <1>3, <2>1, <2>2, <2>3
    <2> QED BY <2>4 DEF n, Text
  <1>4. CASE n # 0
    <2> DEFINE F == [k \in 1 .. n |-> [x \in Text |-> x \o parts[k]]]
               z == << >>
    <2>1. FlattenSeq(parts) = flatten[n]
      BY <1>4 DEF FlattenSeq
    <2> HIDE DEF flatten, n, Text
    <2>2. Fills(F, n, Text) /\ z \in Text
      BY <1>1 DEF Fills
    <2>3. PICK g : IsTable(g, n, Text, z, F)
      <3> HIDE DEF F, z
      <3> QED BY <1>1, <2>2, TableExists
    <2> DEFINE h == [i \in 1 .. n |-> g[i]]
    <2>4. \A i \in 1 .. n : g[i] = g[i - 1] \o parts[i] /\ g[i - 1] \in Text /\ g[0] = << >>
      <3> TAKE i \in 1 .. n
      <3>1. g[i] = F[i][g[i - 1]] /\ g \in [0 .. n -> Text] /\ g[0] = << >>
        BY <2>3 DEF IsTable
      <3>2. i - 1 \in 0 .. n
        BY <1>1
      <3> HIDE DEF z
      <3>3. g[i - 1] \in Text
        BY <3>1, <3>2
      <3> QED BY <3>1, <3>3
    <2>5. \A i \in 1 .. n : h[i] = IF i = 1 THEN parts[i] ELSE h[i - 1] \o parts[i]
      <3> TAKE i \in 1 .. n
      <3>1. CASE i = 1
        <4>1. g[1] = g[1 - 1] \o parts[1] /\ g[0] = << >>
          BY <2>4, <3>1
        <4>2. g[1] = << >> \o parts[1] /\ parts[1] \in Text
          BY <1>1, <3>1, <4>1
        <4> QED BY <1>1, <3>1, <4>2
      <3>2. CASE i # 1
        <4>1. i - 1 \in 1 .. n
          BY <1>1, <3>2
        <4> QED BY <2>4, <3>2, <4>1
      <3> QED BY <3>1, <3>2
    <2>6. h = Step(h)
      <3>1. h = [i \in 1 .. n |-> h[i]]
        OBVIOUS
      <3> HIDE DEF h
      <3> QED BY <2>5, <3>1
    <2>7. flatten = Step(flatten)
      <3> HIDE DEF h, Step
      <3> QED BY <2>6 DEF flatten
    <2>8. \A i \in 1 .. n : flatten[i] = IF i = 1 THEN parts[i] ELSE flatten[i - 1] \o parts[i]
      BY <2>7
    <2> DEFINE Good(i) == flatten[i] \in Text /\ flatten[i] \o later[i] = later[0]
               Bad == {i \in 1 .. n : ~Good(i)}
    <2>9. ASSUME Bad # {} PROVE FALSE
      <3>1. Bad \in SUBSET Nat
        <4> HIDE DEF Good
        <4> QED BY <1>1
      <3>2. PICK i \in Bad : \A j \in Bad : i <= j
        <4> HIDE DEF Bad
        <4> QED BY <2>9, <3>1, LeastOf
      <3>3. i \in 1 .. n /\ ~Good(i)
        BY <3>2
      <3>4. CASE i = 1
        <4>1. flatten[1] = parts[1] /\ parts[1] \in Text
          BY <1>1, <2>8, <3>3, <3>4
        <4>2. later[0] = parts[1] \o later[1]
          <5>1. 1 - 1 = 0
            OBVIOUS
          <5> QED BY <1>2, <3>3, <3>4, <5>1
        <4> QED BY <3>3, <3>4, <4>1, <4>2
      <3>5. CASE i # 1
        <4>1. i - 1 \in 1 .. n /\ ~(i <= i - 1) /\ i - 1 \in 0 .. n /\ i \in 0 .. n
          BY <1>1, <3>3, <3>5
        <4>2. Good(i - 1)
          <5> HIDE DEF Good
          <5> QED BY <3>2, <4>1
        <4> DEFINE a == flatten[i - 1]
                   b == parts[i]
                   c == later[i]
        <4>3. a \in Text /\ b \in Text /\ c \in Text
          BY <1>1, <3>3, <4>1, <4>2
        <4>4. flatten[i] = a \o b
          BY <2>8, <3>3, <3>5
        <4>5. a \o (b \o c) = later[0]
          BY <1>2, <3>3, <4>2
        <4> HIDE DEF a, b, c
        <4>6. (a \o b) \o c = a \o (b \o c)
          BY <4>3, Regrouped DEF Text
        <4>7. a \o b \in Text
          BY <1>1, <4>3
        <4>8. (a \o b) \o c = later[0] /\ flatten[i] \o later[i] = (a \o b) \o c
          BY <4>4, <4>5, <4>6 DEF c
        <4> QED BY <3>3, <4>4, <4>7, <4>8
      <3> QED BY <3>4, <3>5
    <2>10. n \in 1 .. n
      BY <1>1, <1>4
    <2>11. Good(n)
      <3> HIDE DEF Good
      <3> QED BY <2>9, <2>10
    <2> QED BY <2>1, <2>11 DEF n, Text
  <1> QED BY <1>3, <1>4

\* Of two keys at most one is before the other.
LEMMA OneIsBefore ==
  ASSUME NEW s \in Seq(Chars), NEW t \in Seq(Chars), Before(s, t), Before(t, s)
  PROVE  FALSE
  <1>1. PICK k \in 1 .. Len(t) :
          /\ k - 1 <= Len(s) /\ SubSeq(s, 1, k - 1) = SubSeq(t, 1, k - 1)
          /\ k <= Len(s) => Byte[s[k]] < Byte[t[k]]
    BY DEF Before
  <1>2. PICK m \in 1 .. Len(s) :
          /\ m - 1 <= Len(t) /\ SubSeq(t, 1, m - 1) = SubSeq(s, 1, m - 1)
          /\ m <= Len(t) => Byte[t[m]] < Byte[s[m]]
    BY DEF Before
  <1>3. Len(s) \in Nat /\ Len(t) \in Nat
    OBVIOUS
  <1>4. k \in Nat /\ m \in Nat /\ k >= 1 /\ m >= 1 /\ k <= Len(t) /\ m <= Len(s)
    BY <1>3
  <1>5. ASSUME NEW i \in Nat, 1 <= i, i <= Len(s), i <= Len(t)
        PROVE  Byte[s[i]] \in Int /\ Byte[t[i]] \in Int
    <2>1. s[i] \in Chars /\ t[i] \in Chars
      BY <1>3, <1>5
    <2>2. Byte[s[i]] \in 0 .. 255 /\ Byte[t[i]] \in 0 .. 255
      BY <2>1, ByteAssumption
    <2>3. \A x \in 0 .. 255 : x \in Int
      OBVIOUS
    <2> QED BY ONLY <2>2, <2>3
  <1>6. ASSUME k < m PROVE FALSE
    <2>1. k <= m - 1 /\ k <= Len(s)
      BY <1>2, <1>3, <1>4, <1>6
    <2>2. s[k] = t[k]
      <3>1. SubSeq(t, 1, m - 1)[k] = t[k]
        BY <1>2, <1>3, <1>4, <2>1
      <3>2. SubSeq(s, 1, m - 1)[k] = s[k]
        BY <1>3, <1>4, <2>1
      <3> QED BY <1>2, <3>1, <3>2
    <2>3. Byte[s[k]] < Byte[t[k]]
      BY <1>1, <2>1
    <2> QED BY <1>4, <1>5, <2>1, <2>2, <2>3
  <1>7. ASSUME m < k PROVE FALSE
    <2>1. m <= k - 1 /\ m <= Len(t)
      BY <1>1, <1>3, <1>4, <1>7
    <2>2. s[m] = t[m]
      <3>1. SubSeq(t, 1, k - 1)[m] = t[m]
        BY <1>3, <1>4, <2>1
      <3>2. SubSeq(s, 1, k - 1)[m] = s[m]
        BY <1>1, <1>3, <1>4, <2>1
      <3> QED BY <1>1, <3>1, <3>2
    <2>3. Byte[t[m]] < Byte[s[m]]
      BY <1>2, <2>1
    <2> QED BY <1>4, <1>5, <2>1, <2>2, <2>3
  <1>8. ASSUME k = m PROVE FALSE
    <2>1. Byte[s[k]] < Byte[t[k]] /\ Byte[t[k]] < Byte[s[k]]
      BY <1>1, <1>2, <1>4, <1>8
    <2> QED BY <1>4, <1>5, <1>8, <2>1
  <1> QED BY <1>4, <1>6, <1>7, <1>8

\* The entries that are in the order of their keys stay in it.
LEMMA KeyOrderIsKept ==
  ASSUME NEW items \in Seq(Seq(Chars) \X Values),
         \A i, j \in 1 .. Len(items) : i < j => Before(items[i][1], items[j][1])
  PROVE  KeyOrder(items) = [i \in 1 .. Len(items) |-> i]
  <1> DEFINE n == Len(items)
             D == 1 .. n
             Key(i) == items[i][1]
             Keeps(p) == \A i, j \in D : i < j => ~Before(Key(p[j]), Key(p[i]))
             same == [i \in D |-> i]
             order == KeyOrder(items)
  <1>1. n \in Nat /\ DOMAIN items = D /\ \A i \in D : Key(i) \in Seq(Chars)
    OBVIOUS
  <1>2. \A i, j \in D : i < j => Before(Key(i), Key(j)) /\ ~Before(Key(j), Key(i))
    <2> SUFFICES ASSUME NEW i \in D, NEW j \in D, i < j
                 PROVE  Before(Key(i), Key(j)) /\ ~Before(Key(j), Key(i))
      OBVIOUS
    <2>1. Before(Key(i), Key(j))
      OBVIOUS
    <2> HIDE DEF Key
    <2> QED BY <1>1, <2>1, OneIsBefore
  <1>3. same \in Bijection(D, D) /\ Keeps(same)
    <2>1. same \in Bijection(D, D)
      BY DEF Bijection, Injection, Surjection, IsInjective
    <2>2. Keeps(same)
      <3> HIDE DEF Key
      <3> QED BY <1>2
    <2> QED BY <2>1, <2>2
  <1>4. order = CHOOSE p \in Bijection(D, D) : Keeps(p)
    BY <1>1 DEF KeyOrder
  <1>5. order \in Bijection(D, D) /\ Keeps(order)
    <2> HIDE DEF order, same, Keeps, D
    <2> QED BY <1>3, <1>4
  <1> HIDE DEF order
  <1>6. /\ order \in [D -> D]
        /\ \A i, j \in D : order[i] = order[j] => i = j
        /\ \A j \in D : \E i \in D : order[i] = j
    BY <1>5 DEF Bijection, Injection, Surjection, IsInjective
  <1>7. \A i, j \in D : i < j => order[i] < order[j]
    <2> SUFFICES ASSUME NEW i \in D, NEW j \in D, i < j, ~(order[i] < order[j]) PROVE FALSE
      OBVIOUS
    <2>1. order[i] \in D /\ order[j] \in D /\ order[i] # order[j]
      <3>1. i # j
        BY <1>1
      <3>2. order[i] \in D /\ order[j] \in D
        BY <1>6
      <3> HIDE DEF D
      <3> QED BY <1>6, <3>1, <3>2
    <2>2. order[j] < order[i]
      BY <1>1, <2>1
    <2>3. Before(Key(order[j]), Key(order[i]))
      <3> HIDE DEF Key
      <3> QED BY <1>2, <2>1, <2>2
    <2> QED BY <1>5, <2>3
  <1> HIDE DEF Key, Keeps
  <1> DEFINE Bad == {i \in D : order[i] # i}
  <1>8. ASSUME Bad # {} PROVE FALSE
    <2>1. Bad \in SUBSET Nat
      BY <1>1
    <2>2. PICK i \in Bad : \A j \in Bad : i <= j
      <3> HIDE DEF Bad
      <3> QED BY <1>8, <2>1, LeastOf
    <2>3. i \in D /\ order[i] # i /\ order[i] \in D
      BY <1>6, <2>2
    <2>4. \A j \in D : j < i => order[j] = j
      <3> TAKE j \in D
      <3>1. j < i => ~(i <= j)
        BY <1>1, <2>3
      <3> QED BY <2>2, <3>1
    <2>5. CASE order[i] < i
      <3>1. order[order[i]] = order[i]
        BY <2>3, <2>4, <2>5
      <3> QED BY <1>6, <2>3, <3>1
    <2>6. CASE i < order[i]
      <3>1. PICK j \in D : order[j] = i
        BY <1>6, <2>3
      <3>2. ~(j < i)
        BY <1>1, <2>3, <2>4, <3>1
      <3>3. j # i
        BY <2>3, <3>1
      <3>4. i < j
        BY <1>1, <2>3, <3>2, <3>3
      <3>5. order[i] < i
        BY <1>7, <2>3, <3>1, <3>4
      <3> QED BY <1>1, <2>3, <2>6, <3>5
    <2> QED BY <1>1, <2>3, <2>5, <2>6
  <1>9. order = [i \in D |-> order[i]]
    BY <1>6
  <1>10. \A i \in D : order[i] = i
    BY <1>8
  <1>11. order = same
    BY <1>9, <1>10
  <1> QED BY <1>11 DEF order

\* A string and a number are written as they are spelled.
LEMMA AtomsAreWritten ==
  \A v \in Values :
    /\ DOMAIN v = {"string"} => Spelled[v] = EncodeString(v.string)
    /\ DOMAIN v = {"integer"} => Spelled[v] = EncodeInteger(v.integer)
  <1> TAKE v \in Values
  <1>1. IsSpelled(v)
    BY SpellingAssumption
  <1>2. CASE DOMAIN v = {"string"}
    <2>1. /\ "string" \in DOMAIN v /\ DOMAIN v # {"integer"}
          /\ "integer" \notin DOMAIN v /\ "list" \notin DOMAIN v /\ "dict" \notin DOMAIN v
      BY <1>2
    <2>2. Spelled[v] = Decimals[Len(v.string)] \o <<":">> \o v.string
      BY <1>1, <2>1 DEF IsSpelled
    <2> QED BY <2>1, <2>2, DecimalsAgree DEF EncodeString
  <1>3. CASE DOMAIN v = {"integer"}
    <2>1. "integer" \in DOMAIN v /\ "string" \notin DOMAIN v /\ DOMAIN v # {"string"}
          /\ "list" \notin DOMAIN v /\ "dict" \notin DOMAIN v
      BY <1>3
    <2>2. Spelled[v] = <<"i">>
           \o (IF v.integer < 0 THEN <<"-">> \o Decimals[-v.integer] ELSE Decimals[v.integer])
           \o <<"e">>
      BY <1>1, <2>1 DEF IsSpelled
    <2> QED BY <2>1, <2>2, DecimalsAgree DEF EncodeInteger
  <1> QED BY <1>2, <1>3

\* What is written between the ends of a list or a dictionary.
LEMMA ContainerIsWritten ==
  ASSUME NEW parts \in Seq(Seq(Chars)), NEW later \in [0 .. Len(parts) -> Seq(Chars)],
         Pieces(parts, later), later[Len(parts)] = <<"e">>, NEW first \in Chars
  PROVE  <<first>> \o FlattenSeq(parts) \o <<"e">> = <<first>> \o later[0]
  <1> DEFINE middle == FlattenSeq(parts)
             start == <<first>>
             end == <<"e">>
  <1>1. middle \in Seq(Chars) /\ middle \o end = later[0]
    BY Flattened
  <1>2. start \in Seq(Chars) /\ end \in Seq(Chars)
    BY BencodeAssumption
  <1> HIDE DEF middle, start, end
  <1>3. (start \o middle) \o end = start \o (middle \o end)
    <2>1. \A s, t, u \in Seq(Chars) : (s \o t) \o u = s \o (t \o u)
      BY Regrouped
    <2> QED BY ONLY <1>1, <1>2, <2>1
  <1> QED BY <1>1, <1>3 DEF middle, start, end

\* encode writes an ordered value as it is spelled, if it does what is in it.
LEMMA OrderedFromItems ==
  ASSUME NEW v \in Ordered,
         \A u \in Ordered : Len(Spelled[u]) < Len(Spelled[v]) => Encode[u] = Spelled[u]
  PROVE  Encode[v] = Spelled[v]
  <1>1. v \in Values /\ Encode[v] = Written(Encode, v)
    BY OrderAssumption, EncodeIs
  <1>2. CASE DOMAIN v = {"string"}
    <2>1. "string" \in DOMAIN v /\ "list" \notin DOMAIN v /\ "dict" \notin DOMAIN v /\ "integer" \notin DOMAIN v
      BY <1>2
    <2>2. Written(Encode, v) = EncodeString(v.string)
      BY <2>1 DEF Written
    <2> QED BY <1>1, <1>2, <2>2, AtomsAreWritten
  <1>3. CASE DOMAIN v = {"integer"}
    <2>1. "integer" \in DOMAIN v /\ "list" \notin DOMAIN v /\ "dict" \notin DOMAIN v /\ "string" \notin DOMAIN v
      BY <1>3
    <2>2. Written(Encode, v) = EncodeInteger(v.integer)
      BY <2>1 DEF Written
    <2> QED BY <1>1, <1>3, <2>2, AtomsAreWritten
  <1>4. CASE DOMAIN v = {"list"}
    <2> DEFINE items == v.list
               n == Len(items)
               parts == [k \in DOMAIN items |-> Encode[items[k]]]
               later == [k \in 0 .. n |-> RestOf(v, k)]
    <2>1. items \in Seq(Values) /\ IsContainer(v) /\ Items(v) = items
      BY <1>1, <1>4, Kinds DEF IsContainer, Items
    <2>2. n \in Nat /\ DOMAIN items = 1 .. n
      BY <2>1
    <2>3. /\ "list" \in DOMAIN v /\ "dict" \notin DOMAIN v
          /\ "string" \notin DOMAIN v /\ "integer" \notin DOMAIN v
      BY <1>4
    <2>4. Encode[v] = <<"l">> \o FlattenSeq(parts) \o <<"e">>
      BY <1>1, <2>3 DEF Written
    <2>5. \A k \in 1 .. n : items[k] \in Ordered /\ Encode[items[k]] = Spelled[items[k]]
                            /\ Spelled[items[k]] \in Seq(Chars)
      <3> TAKE k \in 1 .. n
      <3>1. items[k] \in Ordered
        BY <2>2, <2>3, OrderAssumption
      <3>2. k \in 1 .. Len(Items(v))
        BY <2>1
      <3>3. Len(Spelled[Items(v)[k]]) < Len(Spelled[v])
        BY <1>1, <2>1, <3>2, ItemsAreShorter
      <3>4. items[k] \in Values /\ Len(Spelled[items[k]]) < Len(Spelled[v])
        BY <2>1, <2>2, <3>3
      <3> HIDE DEF items, n
      <3> QED BY <3>1, <3>4, SpellingAssumption
    <2>6. /\ \A k \in 0 .. n : RestOf(v, k) \in Seq(Chars)
          /\ RestOf(v, n) = <<"e">>
          /\ \A k \in 0 .. n - 1 : RestOf(v, k) = Spelled[items[k + 1]] \o RestOf(v, k + 1)
      BY <1>1, <2>1, RestOfIs
    <2>7. parts \in Seq(Seq(Chars)) /\ Len(parts) = n /\ \A k \in 1 .. n : parts[k] = Spelled[items[k]]
      <3>1. parts = [k \in 1 .. n |-> Spelled[items[k]]]
        BY <2>2, <2>5
      <3> HIDE DEF parts, items, n
      <3> QED BY <2>2, <2>5, <3>1
    <2>8. later \in [0 .. n -> Seq(Chars)] /\ later[n] = <<"e">> /\ later[0] = RestOf(v, 0)
      BY <2>2, <2>6
    <2>9. Pieces(parts, later)
      <3> SUFFICES ASSUME NEW k \in 1 .. n PROVE later[k - 1] = parts[k] \o later[k]
        BY <2>7 DEF Pieces
      <3>1. k - 1 \in 0 .. n - 1 /\ k - 1 \in 0 .. n /\ k \in 0 .. n /\ (k - 1) + 1 = k
        BY <2>2
      <3>2. later[k - 1] = RestOf(v, k - 1) /\ later[k] = RestOf(v, k)
        BY <3>1
      <3> HIDE DEF later, parts, items, n
      <3>3. RestOf(v, k - 1) = Spelled[items[k]] \o RestOf(v, k)
        BY <2>6, <3>1
      <3> QED BY <2>7, <3>2, <3>3
    <2>10. "l" \in Chars
      BY BencodeAssumption
    <2> HIDE DEF parts, later, n
    <2>11. <<"l">> \o FlattenSeq(parts) \o <<"e">> = <<"l">> \o later[0]
      BY <2>7, <2>8, <2>9, <2>10, ContainerIsWritten
    <2>12. Spelled[v] = <<"l">> \o RestOf(v, 0)
      <3>1. DOMAIN v # {"dict"}
        BY <2>3
      <3> QED BY <1>1, <2>1, <3>1, ContainerSpelled
    <2> QED BY <2>4, <2>8, <2>11, <2>12
  <1>5. CASE DOMAIN v = {"dict"}
    <2> DEFINE items == v.dict
               n == Len(items)
               entries == [k \in DOMAIN items |-> EncodeString(items[k][1]) \o Encode[items[k][2]]]
               order == KeyOrder(items)
               parts == [k \in DOMAIN entries |-> entries[order[k]]]
               later == [k \in 0 .. n |-> RestOf(v, 2 * k)]
               Key(k) == Spelled[Items(v)[2 * k - 1]]
               Val(k) == Spelled[Items(v)[2 * k]]
    <2>1. items \in Seq(Seq(Chars) \X Values) /\ IsContainer(v)
      BY <1>1, <1>5, Kinds DEF IsContainer
    <2>2. n \in Nat /\ DOMAIN items = 1 .. n
      BY <2>1
    <2>3. /\ "dict" \in DOMAIN v /\ "list" \notin DOMAIN v
          /\ "string" \notin DOMAIN v /\ "integer" \notin DOMAIN v
      BY <1>5
    <2>4. Encode[v] = <<"d">> \o FlattenSeq(parts) \o <<"e">>
      BY <1>1, <2>3 DEF Written
    <2>5. order = [k \in 1 .. n |-> k]
      <3>1. \A i, j \in 1 .. n : i < j => Before(items[i][1], items[j][1])
        <4>1. IsSorted(items, LAMBDA a, b : Before(a[1], b[1]))
          BY <2>3, OrderAssumption
        <4> QED BY <4>1 DEF IsSorted
      <3> HIDE DEF items
      <3> QED BY <2>1, <3>1, KeyOrderIsKept
    <2>6. ASSUME NEW k \in 1 .. n
          PROVE  /\ Items(v)[2 * k] \in Values /\ Items(v)[2 * k - 1] \in Values
                 /\ Key(k) \in Seq(Chars) /\ Val(k) \in Seq(Chars)
                 /\ EncodeString(items[k][1]) = Key(k) /\ Encode[items[k][2]] = Val(k)
      <3>1. /\ 2 * k \in 1 .. Len(Items(v)) /\ Items(v)[2 * k] = items[k][2]
            /\ 2 * k - 1 \in 1 .. Len(Items(v)) /\ Items(v)[2 * k - 1] = [string |-> items[k][1]]
        BY <1>1, <1>5, <2>2, DictItems
      <3> DEFINE key == Items(v)[2 * k - 1]
                 val == Items(v)[2 * k]
      <3>2. key \in Values /\ val \in Values /\ Len(Spelled[val]) < Len(Spelled[v])
        BY <1>1, <2>1, <3>1, ItemsAreShorter
      <3>3. val \in Ordered
        BY <2>2, <2>3, <3>1, OrderAssumption
      <3>4. DOMAIN key = {"string"} /\ key.string = items[k][1]
        BY <3>1
      <3> HIDE DEF key, val, items, n
      <3>5. Spelled[key] = EncodeString(items[k][1])
        BY <3>2, <3>4, AtomsAreWritten
      <3>6. Encode[val] = Spelled[val]
        BY <3>2, <3>3
      <3>7. Spelled[key] \in Seq(Chars) /\ Spelled[val] \in Seq(Chars)
        BY <3>2, SpellingAssumption
      <3> QED BY <3>1, <3>2, <3>5, <3>6, <3>7 DEF key, val
    <2>7. Len(Items(v)) = 2 * n
      BY <1>1, <1>5, <2>2, DictCount
    <2>8. /\ \A k \in 0 .. 2 * n : RestOf(v, k) \in Seq(Chars)
          /\ RestOf(v, 2 * n) = <<"e">>
          /\ \A k \in 0 .. 2 * n - 1 : RestOf(v, k) = Spelled[Items(v)[k + 1]] \o RestOf(v, k + 1)
      BY <1>1, <2>1, <2>7, RestOfIs
    <2>9. parts \in Seq(Seq(Chars)) /\ Len(parts) = n /\ \A k \in 1 .. n : parts[k] = Key(k) \o Val(k)
      <3>1. entries = [k \in 1 .. n |-> Key(k) \o Val(k)]
        <4> HIDE DEF items, n, Key, Val
        <4> QED BY <2>2, <2>6
      <3>2. DOMAIN entries = 1 .. n
        BY <2>2
      <3> HIDE DEF entries, order, items, n, Key, Val
      <3>3. parts = [k \in 1 .. n |-> Key(k) \o Val(k)]
        BY <2>5, <3>1, <3>2
      <3>4. \A k \in 1 .. n : Key(k) \o Val(k) \in Seq(Chars)
        BY <2>6
      <3> HIDE DEF parts
      <3>5. n \in Nat /\ DOMAIN parts = 1 .. n /\ \A k \in 1 .. n : parts[k] = Key(k) \o Val(k)
        BY <2>2, <3>3 DEF parts
      <3>6. parts \in [1 .. n -> Seq(Chars)]
        BY <3>3, <3>4
      <3>7. parts \in Seq(Seq(Chars))
        BY ONLY <3>5, <3>6
      <3>8. Len(parts) = n
        BY ONLY <3>5, <3>7
      <3> QED BY <3>5, <3>7, <3>8
    <2>10. later \in [0 .. n -> Seq(Chars)] /\ later[n] = <<"e">> /\ later[0] = RestOf(v, 0)
      <3>1. \A k \in 0 .. n : 2 * k \in 0 .. 2 * n
        <4> HIDE DEF n
        <4> QED BY <2>2
      <3>2. n \in 0 .. n /\ 0 \in 0 .. n /\ 2 * 0 = 0
        BY <2>2
      <3> HIDE DEF n
      <3> QED BY <2>8, <3>1, <3>2
    <2>11. Pieces(parts, later)
      <3> SUFFICES ASSUME NEW k \in 1 .. n PROVE later[k - 1] = parts[k] \o later[k]
        BY <2>9 DEF Pieces
      <3>1. k - 1 \in 0 .. n /\ k \in 0 .. n
        BY <2>2
      <3>2. later[k - 1] = RestOf(v, 2 * (k - 1)) /\ later[k] = RestOf(v, 2 * k)
        BY <3>1
      <3>3. /\ 2 * (k - 1) \in 0 .. 2 * n - 1 /\ 2 * k - 1 \in 0 .. 2 * n - 1 /\ 2 * k \in 0 .. 2 * n
            /\ 2 * (k - 1) + 1 = 2 * k - 1 /\ (2 * k - 1) + 1 = 2 * k
        <4> HIDE DEF n
        <4> QED BY <2>2
      <3> DEFINE r == RestOf(v, 2 * k)
      <3>4. RestOf(v, 2 * (k - 1)) = Key(k) \o RestOf(v, 2 * k - 1)
        <4> HIDE DEF n
        <4> QED BY <2>8, <3>3
      <3>5. RestOf(v, 2 * k - 1) = Val(k) \o r
        <4> HIDE DEF n
        <4> QED BY <2>8, <3>3
      <3>6. Key(k) \in Seq(Chars) /\ Val(k) \in Seq(Chars) /\ r \in Seq(Chars)
        BY <2>6, <2>8, <3>3
      <3> HIDE DEF Key, Val, r, later, parts
      <3>7. (Key(k) \o Val(k)) \o r = Key(k) \o (Val(k) \o r)
        BY <3>6, Regrouped
      <3>8. parts[k] = Key(k) \o Val(k)
        BY <2>9
      <3> QED BY <3>2, <3>4, <3>5, <3>7, <3>8 DEF r
    <2>12. "d" \in Chars
      BY BencodeAssumption
    <2> HIDE DEF parts, later, n
    <2>13. <<"d">> \o FlattenSeq(parts) \o <<"e">> = <<"d">> \o later[0]
      BY <2>9, <2>10, <2>11, <2>12, ContainerIsWritten
    <2>14. Spelled[v] = <<"d">> \o RestOf(v, 0)
      <3>1. DOMAIN v # {"list"}
        BY <2>3
      <3> QED BY <1>1, <2>1, <3>1, ContainerSpelled
    <2> QED BY <2>4, <2>10, <2>13, <2>14
  <1>6. DOMAIN v = {"string"} \/ DOMAIN v = {"integer"} \/ DOMAIN v = {"list"} \/ DOMAIN v = {"dict"}
    BY <1>1, Kinds
  <1> QED BY <1>2, <1>3, <1>4, <1>5, <1>6

\* encode writes every ordered value as it is spelled (encoder.cpp:20-50).
THEOREM EncodesOrdered == \A v \in Ordered : Encode[v] = Spelled[v]
  <1> DEFINE Size(v) == Len(Spelled[v])
             Bad == {i \in Nat : \E v \in Ordered : Size(v) = i /\ Encode[v] # Spelled[v]}
  <1>1. \A v \in Ordered : Size(v) \in Nat
    <2>1. \A v \in Ordered : Spelled[v] \in Seq(Chars)
      BY SpellingAssumption, OrderAssumption
    <2> QED BY <2>1
  <1>2. ASSUME Bad # {} PROVE FALSE
    <2>1. Bad \in SUBSET Nat
      <3> HIDE DEF Size
      <3> QED OBVIOUS
    <2>2. PICK i \in Bad : \A j \in Bad : i <= j
      <3> HIDE DEF Bad
      <3> QED BY <1>2, <2>1, LeastOf
    <2>3. PICK v \in Ordered : Size(v) = i /\ Encode[v] # Spelled[v]
      BY <2>2
    <2>4. \A u \in Ordered : Size(u) < Size(v) => Encode[u] = Spelled[u]
      <3> SUFFICES ASSUME NEW u \in Ordered, Size(u) < Size(v) PROVE Encode[u] = Spelled[u]
        OBVIOUS
      <3> HIDE DEF Size
      <3>1. Size(u) \in Nat /\ Size(v) \in Nat /\ ~(i <= Size(u))
        BY <1>1, <2>3
      <3>2. Size(u) \notin Bad
        <4> HIDE DEF Bad
        <4> QED BY <2>2, <3>1
      <3> QED BY <3>1, <3>2
    <2> QED BY <2>3, <2>4, OrderedFromItems
  <1>3. \A v \in Ordered : Size(v) \notin Bad
    <2> HIDE DEF Bad
    <2> QED BY <1>2
  <1> HIDE DEF Size
  <1> QED BY <1>1, <1>3

\* A value whose dictionaries are in order is written as it was read: the info
\* hash, taken of the encoding, is that of the file's own text.
THEOREM OrderedValuesAreKept == Spec => []OrderedTextsAreKept
  <1>1. DecodesSpellings => OrderedTextsAreKept
    <2> SUFFICES ASSUME DecodesSpellings, status = "done",
                        NEW v \in Ordered, IsPrefix(Spelled[v], input)
                 PROVE  Encode[value] = Consumed
      BY DEF OrderedTextsAreKept
    <2>1. v \in Values /\ ~Running
      BY OrderAssumption DEF Running
    <2>2. value = v /\ Consumed = Spelled[v]
      BY <2>1 DEF DecodesSpellings
    <2> QED BY <2>2, EncodesOrdered
  <1> QED BY <1>1, ValuesAreDecoded, PTL

=============================================================================
