\* A decoder that is strict.
SPECIFICATION Spec
CONSTANTS
  Chars <- AllChars
  Byte <- Bytes
  Inputs <- ShortTexts
  Values <- AllValues
  Spelled <- Spellings
  Ordered <- OrderedValues
  SizeMod = 1000000
  IntMax = 7
INVARIANT
  StrictValidation
