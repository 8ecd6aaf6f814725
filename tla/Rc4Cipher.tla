----------------------------- MODULE Rc4Cipher ------------------------------
(***************************************************************************)
(* The client encryption of pkg/security/rc4.go.  The key is made of       *)
(* random bytes that are sent along, after four bytes of a header: each    *)
(* one, combined with a salt and taken modulo itself, is a byte of the     *)
(* key.  What is encrypted may be cut into lines for a file, and put       *)
(* together again.                                                         *)
(*                                                                         *)
(* The cipher is external: a key determines the bytes that those of the    *)
(* text are combined with (exclusive or), and here keys have the same ones *)
(* only if they are the same.  Base64 undoes itself; what it makes of the  *)
(* bytes, and CiphertextFormat cuts, is four characters for three of them. *)
(***************************************************************************)
EXTENDS Integers, Sequences

CONSTANTS Bytes,      \* the random bytes to choose from, of 1..255
          KeyLength,  \* bytes of a key, 16
          SubLen,     \* subLen
          MaxSecret   \* bound on the length of the text

\* The parameters are as Services assumes them.
Rc4Assumption ==
  /\ Bytes \subseteq 1..255 /\ KeyLength \in Nat \ {0}
  /\ SubLen \in Nat \ {0} /\ MaxSecret \in Nat

VARIABLES
  secret,     \* the bytes of the text
  sent,       \* what Rc4ClientEncrypt returns, before base64
  lines,      \* the lengths of the lines CiphertextFormat makes of it
  characters, \* how many characters CiphertextReplace leaves of them
  opened,     \* what Rc4ClientDecrypt returns
  step        \* "new", "sent", "formatted", "replaced", "opened"

vars == << secret, sent, lines, characters, opened, step >>

Salt == 67
Header == << 2, 0, 0, 0 >>

Init ==
  /\ secret \in {[n \in 1..length |-> n] : length \in 0..MaxSecret}
  /\ sent = << >> /\ lines = << >> /\ characters = 0 /\ opened = << >> /\ step = "new"

Bit(c, k) == (c \div 2^k) % 2

\* The exclusive or of two bytes
Xor(a, b) ==
  LET Low[k \in 0..8] ==  \* of the lower k bits
        IF k = 0 THEN 0
        ELSE Low[k - 1] + IF Bit(a, k - 1) = Bit(b, k - 1) THEN 0 ELSE 2^(k - 1)
  IN  Low[8]

\* (c ^ salt) % c
KeyByte(c) == Xor(c, Salt) % c

\* The n-th byte of the stream of a key, as a pair: no two keys share one.
Stream(key, n) == << key, n >>

\* XORKeyStream: a byte that is combined a second time comes out again.
Rc4ClientEncrypt ==
  /\ step = "new"
  /\ \E bw \in [1..KeyLength -> Bytes] :
       LET key == [i \in 1..KeyLength |-> KeyByte(bw[i])]
       IN  sent' = Header \o bw \o [n \in DOMAIN secret |-> << secret[n], Stream(key, n) >>]
  /\ step' = "sent"
  /\ UNCHANGED << secret, lines, characters, opened >>

Base64Length(bytes) == 4 * ((bytes + 2) \div 3)

\* The lines are full but for the last one, which may be full, too.
CiphertextFormat ==
  /\ step = "sent"
  /\ LET length == Base64Length(Len(sent))
         l == (length + SubLen - 1) \div SubLen
     IN  lines' = [i \in 1..l |-> IF i * SubLen < length THEN SubLen
                                  ELSE length - (i - 1) * SubLen]
  /\ step' = "formatted"
  /\ UNCHANGED << secret, sent, characters, opened >>

CiphertextReplace ==
  /\ step = "formatted"
  /\ characters' = LET Sum[i \in 0..Len(lines)] == IF i = 0 THEN 0 ELSE Sum[i - 1] + lines[i]
                 IN  Sum[Len(lines)]
  /\ step' = "replaced"
  /\ UNCHANGED << secret, sent, lines, opened >>

\* src[i+4], and src[20:]; the ciphertext may come without a detour over lines.
Rc4ClientDecrypt ==
  /\ \/ step = "sent"
     \/ step = "replaced" /\ characters = Base64Length(Len(sent))
  /\ LET key == [i \in 1..KeyLength |-> KeyByte(sent[Len(Header) + i])]
         first == Len(Header) + KeyLength
     IN  opened' = [n \in 1..(Len(sent) - first) |->
                      IF sent[first + n][2] = Stream(key, n) THEN sent[first + n][1] ELSE 0]
  /\ step' = "opened"
  /\ UNCHANGED << secret, sent, lines, characters >>

Next == Rc4ClientEncrypt \/ CiphertextFormat \/ CiphertextReplace \/ Rc4ClientDecrypt

Spec == Init /\ [][Next]_vars

-----------------------------------------------------------------------------
(* The properties *)

\* The client's text comes out as it was, whatever the random bytes, and a
\* ciphertext that was cut into lines has as many characters as before when
\* they are put together.
ClientRoundTrip ==
  /\ step = "opened" => opened = secret
  /\ step = "replaced" => characters = Base64Length(Len(sent))
=============================================================================
