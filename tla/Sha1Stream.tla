------------------------------ MODULE Sha1Stream ------------------------------
(***************************************************************************)
(* util::Sha1 as a stream: update buffers what it is given in a block and  *)
(* processes the block whenever it is full, finalize pads the message.     *)
(* The compression itself is abstracted to the list of the blocks it has   *)
(* processed: a digest is right when those are the blocks of the padded    *)
(* message.                                                                *)
(*                                                                         *)
(* A byte of the message is its position in it, so that a byte lost,       *)
(* repeated or out of place shows.  An object is used for one message, as   *)
(* every caller does: nothing follows finalize.                            *)
(***************************************************************************)
EXTENDS Integers, Sequences

CONSTANTS
  BlockSize,    \* block_.size(), 64 in the code
  LengthSize,   \* bytes of the length at the end of the padding, 8 in the code
  MaxMessage    \* bound on the length of a message

ASSUME Sha1Assumption ==
  /\ BlockSize \in Nat /\ LengthSize \in Nat \ {0}
  /\ LengthSize < BlockSize
  /\ MaxMessage \in Nat

VARIABLES
  message,    \* the length of what update has been given so far
  chunk,      \* what the update under way has still to take: data.size()
  block,      \* the buffer block_
  blockLen,   \* block_len_
  totalLen,   \* total_len_
  processed,  \* the blocks given to process_block
  final       \* finalize has returned

vars == <<message, chunk, block, blockLen, totalLen, processed, final>>

\* What a byte of a block may hold: a byte of the message, the 0x80 and the
\* zeros of the padding, a byte of the length n.
Byte(k) == [byte |-> k]
Stop    == [pad |-> 128]
Zero    == [pad |-> 0]
LengthByte(n, k) == [length |-> n, at |-> k]

MessageByte   == [byte : 1 .. MaxMessage]
Padding       == {Stop, Zero}
LengthBytes   == [length : 0 .. MaxMessage, at : 1 .. LengthSize]
Contents      == MessageByte \cup Padding \cup LengthBytes

\* block_ is zeroed by the constructor.
Init ==
  /\ message = 0 /\ chunk = 0
  /\ block = [k \in 1 .. BlockSize |-> Zero]
  /\ blockLen = 0 /\ totalLen = 0
  /\ processed = << >>
  /\ final = FALSE

----------------------------------------------------------------------------

\* update is called with n bytes.
Update(n) ==
  /\ ~final /\ chunk = 0
  /\ message + n <= MaxMessage
  /\ message' = message + n
  /\ totalLen' = totalLen + n
  /\ chunk' = n
  /\ UNCHANGED <<block, blockLen, processed, final>>

\* The bytes of the message that memcpy puts after the blockLen there are.
Copied(n) ==
  [k \in 1 .. BlockSize |->
     IF k \in blockLen + 1 .. blockLen + n
     THEN Byte(message - chunk + k - blockLen)
     ELSE block[k]]

Room == BlockSize - blockLen

\* n bytes go into the block, and into the hash when they fill it.
Put(n) ==
  /\ block' = Copied(n)
  /\ IF n = Room
     THEN processed' = Append(processed, block') /\ blockLen' = 0
     ELSE blockLen' = blockLen + n /\ UNCHANGED processed

\* One turn of the loop of update.
Take ==
  /\ chunk > 0
  /\ LET n == IF chunk < Room THEN chunk ELSE Room
     IN  Put(n) /\ chunk' = chunk - n
  /\ UNCHANGED <<message, totalLen, final>>

\* Where the length starts in the last block: 56 bytes come before it.
LengthAt == BlockSize - LengthSize

\* The buffer with the 0x80 that ends the message, zeros after it.
Stopped ==
  [k \in 1 .. BlockSize |->
     IF k <= blockLen THEN block[k] ELSE IF k = blockLen + 1 THEN Stop ELSE Zero]

\* The same with the length in its place, or the length alone.
WithLength(bytes) ==
  [k \in 1 .. BlockSize |-> IF k <= LengthAt THEN bytes[k] ELSE LengthByte(totalLen, k - LengthAt)]

Zeros == [k \in 1 .. BlockSize |-> Zero]

\* Fault: a block just full of message and 0x80 is taken for one with no room.
OverflowsEarly == blockLen + 1 >= LengthAt

\* block_len_ > 56, once the 0x80 is there.
Overflows == blockLen + 1 > LengthAt

\* finalize: one block, or two when the length does not fit after the 0x80.
Finalize ==
  /\ ~final /\ chunk = 0
  /\ processed' = IF Overflows
                  THEN processed \o <<Stopped, WithLength(Zeros)>>
                  ELSE Append(processed, WithLength(Stopped))
  /\ block' = processed'[Len(processed')]
  /\ blockLen' = IF Overflows THEN 0 ELSE blockLen + 1
  /\ final' = TRUE
  /\ UNCHANGED <<message, chunk, totalLen>>

Done == final /\ UNCHANGED vars

Next == (\E n \in 0 .. MaxMessage : Update(n)) \/ Take \/ Finalize \/ Done

Spec == Init /\ [][Next]_vars

----------------------------------------------------------------------------
(* Properties *)

Taken == message - chunk

\* The length counted is that of the message, the block never is full between
\* two steps.
TypeOK ==
  /\ message \in 0 .. MaxMessage /\ chunk \in 0 .. message
  /\ block \in [1 .. BlockSize -> Contents]
  /\ blockLen \in 0 .. BlockSize - 1 /\ totalLen = message
  /\ processed \in Seq([1 .. BlockSize -> Contents])
  /\ final \in BOOLEAN

\* Every byte of the message taken so far is in a block processed or in the
\* buffer, in its place, and nothing else is.
BufferHoldsTheRest ==
  ~final =>
    /\ Taken = Len(processed) * BlockSize + blockLen
    /\ \A k \in 1 .. blockLen : block[k] = Byte(Len(processed) * BlockSize + k)
    /\ \A b \in 1 .. Len(processed), k \in 1 .. BlockSize :
         processed[b][k] = Byte((b - 1) * BlockSize + k)

\* FIPS 180: the message, 0x80, as few zeros as make whole blocks together with
\* the length, the length.
PaddedBlocks(n) == (n + 1 + LengthSize + BlockSize - 1) \div BlockSize

Padded(n) ==
  LET last == PaddedBlocks(n) * BlockSize
  IN  [b \in 1 .. PaddedBlocks(n) |-> [k \in 1 .. BlockSize |->
        LET at == (b - 1) * BlockSize + k
        IN  CASE at <= n                                -> Byte(at)
              [] at = n + 1                             -> Stop
              [] at > n + 1 /\ at <= last - LengthSize  -> Zero
              [] at > last - LengthSize                 -> LengthByte(n, at - last + LengthSize)]]

\* However the message was cut into calls of update, what is processed is the
\* padded message.
DigestIsOfTheMessage == final => processed = Padded(message)

=============================================================================
