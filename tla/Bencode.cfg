\* Every text of up to four characters, and the texts of the values: whole, cut
\* short and followed by more.  SizeMod is such that the length of 111: wraps
\* around to nothing.
SPECIFICATION Spec
CONSTANTS
  Chars <- AllChars
  Byte <- Bytes
  Inputs <- AllTexts
  Values <- AllValues
  Spelled <- Spellings
  Ordered <- OrderedValues
  SizeMod = 115
  IntMax = 7
INVARIANTS
  DecodesSpellings
  CutTextsAreRefused
  OrderedTextsAreKept
PROPERTY
  DecodingConsumes
