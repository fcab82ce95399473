-------------------------------- MODULE Text --------------------------------
(***************************************************************************)
(* Match ranges on their way from the engine to the terminal: the engine   *)
(* counts UTF-8 bytes, the server reports UTF-16 units                     *)
(* (src/src/dto/file.rs, src/src/routes/grep.rs), and the client cuts its  *)
(* string with them (Format-FffMatch, src/clients/powershell/Fff.psm1).    *)
(*                                                                         *)
(* A text is the sequence of the widths of its characters in UTF-8, 1..4.  *)
(***************************************************************************)
EXTENDS Integers, SequencesExt, FiniteSetsExt

\* What the first i numbers of a sequence add up to.
summed(numbers, i) ==
  LET sum[n \in 0..Len(numbers)] == IF n = 0 THEN 0 ELSE sum[n - 1] + numbers[n] IN sum[i]

\* Where the i-th character ends, in bytes and in UTF-16 units.
bytes(text, i) == summed(text, i)
units(text, i) == summed([n \in DOMAIN text |-> IF text[n] = 4 THEN 2 ELSE 1], i)

\* The characters that lie wholly before an offset, which may be beyond the text or
\* inside a character.
whole(text, byte) == Max({i \in 0..Len(text) : bytes(text, i) <= byte})

\* Mutated form: characters are counted, not UTF-16 units.
utf16_prefix_len_Chars(text, byte) == whole(text, byte)

utf16_prefix_len(text, byte) == units(text, whole(text, byte))

utf16_ranges(text, byteRanges) ==
  [i \in DOMAIN byteRanges |-> [start |-> utf16_prefix_len(text, byteRanges[i].start),
                                end |-> utf16_prefix_len(text, byteRanges[i].end)]]

\* The engine's byte column goes the way of a range.
col_utf16(text, col) == utf16_ranges(text, <<[start |-> col, end |-> col]>>)[1].start

printable(text, pos, r) ==
  r.start >= pos /\ r.end <= units(text, Len(text)) /\ r.end > r.start

span(from, to, lit) == [from |-> from, to |-> to, lit |-> lit]

\* The line as it is printed: spans of units, lit or not.  A range that does not fit in
\* what is left of the line is skipped.
format_match(text, ranges) ==
  LET line[n \in 0..Len(ranges)] ==
        IF n = 0 THEN [pos |-> 0, spans |-> <<>>]
        ELSE IF printable(text, line[n - 1].pos, ranges[n])
          THEN [pos |-> ranges[n].end,
                spans |-> Append(Append(line[n - 1].spans, span(line[n - 1].pos, ranges[n].start, FALSE)),
                                 span(ranges[n].start, ranges[n].end, TRUE))]
        ELSE line[n - 1]
      walk == line[Len(ranges)]
  IN Append(walk.spans, span(walk.pos, units(text, Len(text)), FALSE))
=============================================================================
