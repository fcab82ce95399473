------------------------------- MODULE Cursor -------------------------------
(***************************************************************************)
(* The continuation token of a grep: GrepCursor and its base64url codec    *)
(* (src/src/dto/grep.rs).  A string is the sequence of its bytes; a token  *)
(* is the sequence of its characters' places in the alphabet.              *)
(***************************************************************************)
EXTENDS Integers, SequencesExt

CONSTANT MaxUsize   \* the largest usize: page number, page size or offset

\* A character that is not in the alphabet, and what a malformed token decodes to.
NotB64 == 64
Malformed == -1

digits[n \in Nat] == IF n < 10 THEN <<48 + n>> ELSE Append(digits[n \div 10], 48 + (n % 10))

chunks(s, n) ==
  [i \in 1..((Len(s) + n - 1) \div n) |-> SubSeq(s, n * (i - 1) + 1, IF n * i < Len(s) THEN n * i ELSE Len(s))]

\* One to three bytes become two to four characters.
encode_chunk(b) ==
  LET byte(i) == IF i <= Len(b) THEN b[i] ELSE 0
      n == byte(1) * 65536 + byte(2) * 256 + byte(3)
  IN SubSeq(<<n \div 262144, (n \div 4096) % 64, (n \div 64) % 64, n % 64>>, 1, Len(b) + 1)

base64_encode(input) ==
  FlattenSeq([i \in DOMAIN chunks(input, 3) |-> encode_chunk(chunks(input, 3)[i])])

\* Mutated form: a final chunk of two characters is taken to be padding.
decode_chunk_NoRemainder(c) ==
  LET sextet(i) == IF i <= Len(c) THEN c[i] ELSE 0
      n == sextet(1) * 262144 + sextet(2) * 4096 + sextet(3) * 64 + sextet(4)
  IN SubSeq(<<n \div 65536, (n \div 256) % 256, n % 256>>, 1, IF Len(c) <= 2 THEN 0 ELSE Len(c) - 1)

\* A lone character, which no encoder leaves, still yields a byte.
decode_chunk(c) ==
  LET sextet(i) == IF i <= Len(c) THEN c[i] ELSE 0
      n == sextet(1) * 262144 + sextet(2) * 4096 + sextet(3) * 64 + sextet(4)
  IN SubSeq(<<n \div 65536, (n \div 256) % 256, n % 256>>, 1, IF Len(c) = 1 THEN 1 ELSE Len(c) - 1)

base64_decode(input) ==
  FlattenSeq([i \in DOMAIN chunks(input, 4) |-> decode_chunk(chunks(input, 4)[i])])

\* The number that decimal digits show.
decimal(numeral) ==
  LET value[n \in 0..Len(numeral)] ==
        IF n = 0 THEN 0 ELSE 10 * value[n - 1] + numeral[n] - 48
  IN value[Len(numeral)]

\* Rust's parse::<usize> takes one leading plus sign (byte 43), and no number that is too
\* large.
parse(text) ==
  LET numeral == IF text # <<>> /\ text[1] = 43 THEN Tail(text) ELSE text
  IN IF numeral # <<>> /\ (\A i \in DOMAIN numeral : numeral[i] \in 48..57) /\ decimal(numeral) <= MaxUsize
       THEN decimal(numeral)
       ELSE Malformed

from_offset(offset) == base64_encode(digits[offset])

offset_of(cursor) ==
  IF \E i \in DOMAIN cursor : cursor[i] = NotB64
    THEN Malformed
    ELSE parse(base64_decode(cursor))
=============================================================================
