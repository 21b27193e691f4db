------------------------------- MODULE Base64 --------------------------------
(***************************************************************************)
(* The base64 of net_base.cc, in which EtcdClient writes each key and each *)
(* value that it puts.  A byte is a number, a character is its code, and a *)
(* loop over groups is a function of the place in the result: a group is   *)
(* three bytes or four characters, and what a last group lacks counts as 0.*)
(***************************************************************************)
EXTENDS Integers, Sequences

Byte == 0 .. 255
Equals == 61        \* the code of '='

base64_charset_table == [v \in 0 .. 63 |->
    CASE v < 26 -> 65 + v
      [] v \in 26 .. 51 -> 97 + (v - 26)
      [] v \in 52 .. 61 -> 48 + (v - 52)
      [] v = 62 -> 43
      [] v = 63 -> 47]

\* The value of a character, and of one that is not in the table something.
base64_reverse(c) ==
    CASE c = 43 -> 62
      [] c = 47 -> 63
      [] c >= 97 -> 26 + (c - 97)
      [] c \in 65 .. 96 -> c - 65
      [] OTHER -> 52 + (c - 48)

-----------------------------------------------------------------------------
\* Three bytes as four values of six bits.
Sextets(a, b, c) == << a \div 4,
                       (a % 4) * 16 + (b \div 16),
                       (b % 16) * 4 + (c \div 64),
                       c % 64 >>

\* How many characters come before the '='.
Significant(n) == (4 * n + 2) \div 3

ByteAt(input, i) == IF i <= Len(input) THEN input[i] ELSE 0
SextetAt(input, k) ==
    LET g == (k - 1) \div 4
    IN  Sextets(ByteAt(input, 3 * g + 1), ByteAt(input, 3 * g + 2), ByteAt(input, 3 * g + 3))
            [((k - 1) % 4) + 1]

base64Encoding(input) ==
    [k \in 1 .. 4 * ((Len(input) + 2) \div 3) |->
        IF k <= Significant(Len(input)) THEN base64_charset_table[SextetAt(input, k)]
                                        ELSE Equals]

-----------------------------------------------------------------------------
\* Four values of six bits as three bytes.
Bytes(p, q, r, s) == << (p * 4 + (q \div 16)) % 256,
                        (q * 16 + (r \div 4)) % 256,
                        (r * 64 + s) % 256 >>

\* The loop stops at the first '='.
Before(input) ==
    LET ends == {k \in 1 .. Len(input) : input[k] = Equals}
    IN  IF ends = {} THEN Len(input)
        ELSE (CHOOSE k \in ends : \A l \in ends : k <= l) - 1

ValueAt(input, i) == IF i <= Before(input) THEN base64_reverse(input[i]) ELSE 0
PushedAt(input, j) ==
    LET g == (j - 1) \div 3
    IN  Bytes(ValueAt(input, 4 * g + 1), ValueAt(input, 4 * g + 2),
              ValueAt(input, 4 * g + 3), ValueAt(input, 4 * g + 4))[((j - 1) % 3) + 1]

\* What the loop and the cases behind it push.
Pushed(input) ==
    [j \in 1 .. 3 * (Before(input) \div 4) + (Before(input) % 4) |-> PushedAt(input, j)]

\* The last byte goes if it is 0.  Nothing is said of no bytes at all: back() of
\* the empty string is undefined.
base64Decoding(input) ==
    LET decoded == Pushed(input)
        n       == Len(decoded)
    IN  IF decoded[n] = 0 THEN SubSeq(decoded, 1, n - 1) ELSE decoded

-----------------------------------------------------------------------------
(* What both are for.                                                      *)

\* RFC 4648, by its bits: they are cut into pieces of six, the last filled with 0,
\* and '=' fills up the last four characters.
Bit(s, w, i) == IF (i - 1) \div w < Len(s)
                THEN (s[((i - 1) \div w) + 1] \div 2 ^ (w - 1 - ((i - 1) % w))) % 2
                ELSE 0
Alphabet(v) == base64_charset_table[v]
IsBase64Of(text, s) ==
    LET m == (8 * Len(s) + 5) \div 6
    IN  /\ Len(text) % 4 = 0 /\ Len(text) - m \in 0 .. 2
        /\ \A k \in 1 .. Len(text) :
              IF k > m THEN text[k] = Equals
              ELSE \E v \in 0 .. 63 :
                     /\ text[k] = Alphabet(v)
                     /\ \A b \in 1 .. 6 : Bit(<<v>>, 6, b) = Bit(s, 8, 6 * (k - 1) + b)

\* Decoding undoes encoding but for one thing: a last byte that is 0 is lost when
\* the length is a multiple of three.
Loses(s) == Len(s) % 3 = 0 /\ s[Len(s)] = 0
RoundTrip(s) ==
    base64Decoding(base64Encoding(s)) = IF Loses(s) THEN SubSeq(s, 1, Len(s) - 1) ELSE s
=============================================================================
