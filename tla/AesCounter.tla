----------------------------- MODULE AesCounter -----------------------------
(***************************************************************************)
(* The counter mode of pkg/security/aes.go: Encrypt and Decrypt cut a text *)
(* into blocks and combine each with the pad the cipher makes of the nonce *)
(* and of the number of the block, which is split into two words.  The two *)
(* are written apart, and have to cut and to number alike.                 *)
(*                                                                         *)
(* The cipher is a constructor: the pads of two counter blocks are the     *)
(* same only if the blocks are.  A byte is combined with its place in a    *)
(* pad, and comes out again if it is combined with the same place of the   *)
(* same pad (exclusive or); otherwise it is garbage.  The URI encoding of  *)
(* the text and base64 around it undo each other and are left out.         *)
(***************************************************************************)
EXTENDS Integers, Sequences

CONSTANTS BlockSize,  \* BlockSize
          Word,       \* the numbers of a word of the counter, 2^32
          MaxLength   \* bound on the length of the text, in bytes

\* The parameters are as Services assumes them.
AesAssumption ==
  BlockSize \in Nat \ {0} /\ Word \in Nat \ {0} /\ MaxLength \in Nat

VARIABLES
  text,    \* the bytes given to Encrypt, each known by its place
  cipher,  \* what Encrypt returns without the nonce: bytes with place and pad
  plain,   \* what Decrypt returns
  done     \* "new", "encrypted", "decrypted"

vars == << text, cipher, plain, done >>

Garbage == 0

Init ==
  /\ text \in {[n \in 1..length |-> n] : length \in 0..MaxLength}
  /\ cipher = << >> /\ plain = << >> /\ done = "new"

\* math.Ceil(float64(length) / float64(BlockSize))
Blocks(length) == (length + BlockSize - 1) \div BlockSize

\* A bug to detect: a last block that is full counts as empty.
LengthOfMod(b, length) ==
  IF b < Blocks(length) - 1 THEN BlockSize ELSE length % BlockSize

\* block size is reduced on the final block
LengthOf(b, length) ==
  IF b < Blocks(length) - 1 THEN BlockSize ELSE ((length - 1) % BlockSize) + 1

\* The cipher's output for the counter block of block b, on either side
EncryptPad(b) == << b % Word, b \div Word >>

DecryptPad(b) == << b % Word, (b + 1) \div Word >>

\* The blocks one after the other, each byte combined with its place in the pad
Encrypt ==
  /\ done = "new"
  /\ done' = "encrypted"
  /\ cipher' =
       LET Block(b) == [i \in 1..LengthOf(b, Len(text)) |->
                          [byte |-> text[b * BlockSize + i],
                           pad |-> << EncryptPad(b), i >>]]
           First[n \in 0..Blocks(Len(text))] ==
             IF n = 0 THEN << >> ELSE First[n - 1] \o Block(n - 1)
       IN  First[Blocks(Len(text))]
  /\ UNCHANGED << text, plain >>

\* start and end of each block, the last one reaching to the end; a ciphertext
\* of the nonce alone decrypts to nothing
Decrypt ==
  /\ done = "encrypted"
  /\ done' = "decrypted"
  /\ plain' = [n \in 1..Len(cipher) |->
                 LET b == (n - 1) \div BlockSize
                     i == ((n - 1) % BlockSize) + 1
                 IN  IF cipher[n].pad = << DecryptPad(b), i >>
                       THEN cipher[n].byte ELSE Garbage]
  /\ UNCHANGED << text, cipher >>

Next == Encrypt \/ Decrypt

Spec == Init /\ [][Next]_vars

-----------------------------------------------------------------------------
(* The properties *)

\* What is encrypted comes out of Decrypt as it was, whatever its length and the
\* fill of its last block, up to 2^32 - 1 blocks: there the two compute the high
\* word differently.
RoundTrip ==
  done = "decrypted" /\ Blocks(Len(text)) < Word => plain = text
=============================================================================
