\* SHA-1's own block and length, and every message of up to two blocks.
SPECIFICATION Spec
CONSTANTS
  BlockSize = 64
  LengthSize = 8
  MaxMessage = 130
INVARIANTS
  DigestIsOfTheMessage
