-------------------------------- MODULE Base64 --------------------------------
(***************************************************************************)
(* base64_decode (utils/base64.cpp).  A character is its place 0 .. 63 in  *)
(* kBase64Alphabet, Pad for '=' or Alien for any other.  The 32-bit word   *)
(* of a chunk is its three upper bytes, here one 24-bit number, and in its *)
(* lowest bits the number of them that count.                              *)
(***************************************************************************)
EXTENDS Integers, Sequences, SequencesExt

Pad == 64
Alien == 65
Chars == 0 .. 65

BadKey == [ok |-> FALSE, bytes |-> <<>>]
Bytes(b) == [ok |-> TRUE, bytes |-> b]

(* Fault: a chunk of two tokens counts two bytes.                          *)
NumBytesOfTwo(n) == IF n \in {2, 3} THEN 2 ELSE 3

(* The switch; its default also takes a chunk that starts with '='.        *)
num_bytes(n) == CASE n = 2 -> 1 [] n = 3 -> 2 [] OTHER -> 3

(* One chunk, padded to four characters: tokens up to the first '='.       *)
base64_decode_chunk(chunk) ==
  LET Padded(k) == IF k <= Len(chunk) THEN chunk[k] ELSE Pad
      n == CHOOSE n \in 0 .. 4 : /\ n < 4 => Padded(n + 1) = Pad
                                 /\ \A k \in 1 .. n : Padded(k) # Pad
      Token(k) == IF k <= n THEN Padded(k) ELSE 0
      val == ((Token(1) * 64 + Token(2)) * 64 + Token(3)) * 64 + Token(4)
      byte == <<val \div 65536, (val \div 256) % 256, val % 256>>
  IN IF n = 1 \/ \E k \in 1 .. n : Padded(k) = Alien
     THEN BadKey
     ELSE Bytes(SubSeq(byte, 1, num_bytes(n)))

base64_decode(encoded) ==
  LET from[i \in 0 .. (Len(encoded) + 3) \div 4] ==
        IF 4 * i >= Len(encoded) THEN Bytes(<<>>)
        ELSE LET chunk == base64_decode_chunk(
                   SubSeq(encoded, 4 * i + 1, Min({4 * i + 4, Len(encoded)})))
                 rest == from[i + 1]
             IN IF chunk.ok /\ rest.ok THEN Bytes(chunk.bytes \o rest.bytes)
                ELSE BadKey
  IN from[0]

-----------------------------------------------------------------------------
(* RFC 4648, bit by bit: each token is six bits, eight bits are a byte,    *)
(* bits that fill no byte are dropped.                                     *)

Tokens(encoded) == SelectSeq(encoded, LAMBDA c : c # Pad)

Bit(tokens, b) == (tokens[b \div 6 + 1] \div 2^(5 - (b % 6))) % 2

Reference(encoded) ==
  LET t == Tokens(encoded)
      bits(j) == [k \in 0 .. 7 |-> Bit(t, 8 * (j - 1) + k) * 2^(7 - k)]
  IN [j \in 1 .. (6 * Len(t)) \div 8 |->
        SumFunction(bits(j))]

(* Tokens of the alphabet, padded at the end or not at all.                *)
WellFormed(encoded) ==
  LET n == Len(Tokens(encoded)) IN
  /\ \A k \in 1 .. n : encoded[k] < Pad
  /\ Len(encoded) \in {n, ((n + 3) \div 4) * 4}
  /\ n % 4 # 1
=============================================================================
