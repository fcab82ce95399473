------------------------------ MODULE MCSearch ------------------------------
(* The uses and indexes of Search that TLC considers. *)
EXTENDS Search

MCMaxUsize == 1009

\* The file search reads every glob and extension.  A directory search knows no extensions,
\* and a grep takes only what names a path for a glob, for `*` and `?` are common in code.
MCReads ==
  [preset \in Presets |-> [t \in Token |->
     CASE t.shape = "extension" /\ t.sep = "none" /\ preset # "dirSearch" -> "extension"
       [] looks_glob(t) /\ t.sep # "backslash" /\ (preset \notin {"grep", "aiGrep"} \/ t.sep = "slash") -> "glob"
       [] t.shape = "plain" /\ t.sep = "slash" -> IF preset = "aiGrep" THEN "filePath" ELSE "pathSegment"
       [] OTHER -> IF t.bangs > 0 THEN "text" ELSE "fuzzy"]]

File(id, matches) == [id |-> id, dir |-> FALSE, matches |-> matches]
Directory(id) == [id |-> id, dir |-> TRUE, matches |-> 0]

\* The indexes of up to three entries.
IndexesOf(shapes) == UNION {{[i \in 1..n |-> shape[i][i]] : shape \in [1..n -> shapes]} : n \in 0..3}
AFile(matches) == [i \in 1..3 |-> File(i, matches)]
ADirectory == [i \in 1..3 |-> Directory(i)]

NoFields == [f \in Fields \cup {"gitStatus"} |-> IF f = "gitStatus" THEN "any" ELSE <<>>]
Some == <<File(1, 1), Directory(2)>>

PageSession(kind, form, page, size, all, entries) ==
  [kind |-> kind, form |-> form, tokens |-> <<>>, start |-> page, size |-> size, all |-> all, index |-> entries]

\* Pages of every kind at the ends of the range of page numbers and sizes; files and globs
\* can be asked for to the end.
PageSessions ==
  UNION {{PageSession(kind, "raw", page, size, all, entries) :
            page \in {0, 1, 3, MCMaxUsize - 1, MCMaxUsize}, size \in {0, 1, 2, MCMaxUsize},
            all \in (IF kind \in {"search", "glob"} THEN BOOLEAN ELSE {FALSE}),
            entries \in IndexesOf({AFile(1), ADirectory})} :
         kind \in Paged}

GrepSession(kind, form, cursor, size, all, base, budget, entries) ==
  [kind |-> kind, form |-> form, start |-> cursor, size |-> size, all |-> all, base |-> base,
   budget |-> budget, index |-> entries]

\* Greps whose offsets have one digit or are about to have one more, and cursors made
\* elsewhere: none at all, a foreign character, a lone one, no number, a number with a sign,
\* one that is too large.
GrepSessions ==
  {GrepSession("grep", "raw", NoCursor, size, all, base, budget, entries) :
     size \in {0, 2}, all \in BOOLEAN, base \in {0, 8, 98, 998}, budget \in BOOLEAN,
     entries \in IndexesOf({AFile(0), AFile(1), AFile(2)})}
  \cup {GrepSession("grep", "raw", cursor, 2, FALSE, 0, FALSE, Some) :
          cursor \in {<<>>, <<NotB64>>, <<12>>, <<12, 3, 3>>, base64_encode(<<43, 49>>),
                      from_offset(MCMaxUsize), from_offset(MCMaxUsize + 1)}}
  \cup {GrepSession("multi-grep", form, NoCursor, 2, TRUE, 0, FALSE, Some) : form \in {"raw", "none"}}

\* Only a token without a separator is an asterisk and an extension.
Tokens == {t \in Token : t.shape = "extension" => t.sep = "none"}
SomeTokens == {<<>>} \cup {<<t>> : t \in Tokens} \cup {<<t, u>> : t, u \in Tokens}
Plain == {t \in Tokens : t.bangs = 0}

RawSession(kind, tokens) == [PageSession(kind, "raw", 0, 2, FALSE, Some) EXCEPT !.tokens = tokens]

ParseSession(preset, tokens) ==
  [kind |-> "parse-query", form |-> "raw", preset |-> preset, tokens |-> tokens, start |-> 0, index |-> <<>>]

FormSession(kind, form, fields) ==
  [kind |-> kind, form |-> form, fields |-> fields, start |-> 0, size |-> 2, all |-> FALSE, index |-> Some]

\* Raw queries and globs of up to two tokens, and structured queries with up to two of
\* their fields in use.
QuerySessions ==
  {RawSession(kind, tokens) : kind \in {"search", Directories}, tokens \in SomeTokens}
  \cup {ParseSession(preset, tokens) : preset \in Presets, tokens \in SomeTokens}
  \cup {RawSession("glob", <<t>>) : t \in Tokens} \cup {FormSession("glob", "none", NoFields)}
  \cup {FormSession("search", "structured", [NoFields EXCEPT ![f] = <<t>>, ![g] = <<u>>]) :
          f \in Fields, g \in Fields, t \in Plain, u \in Plain}
  \cup {FormSession("search/mixed", form, [NoFields EXCEPT !.gitStatus = "modified"]) :
          form \in {"structured", "both", "none"}}

RangesOf(bytes_) == {r \in [start : 0..(bytes_ + 1), end : 0..(bytes_ + 1)] : r.start <= r.end}

\* Lines of up to two characters, with up to two ranges that may be empty, out of order,
\* overlapping, inside a character or beyond the line.
HitSessions ==
  UNION {{[kind |-> "hit", text |-> text, ranges |-> ranges, start |-> 0, index |-> <<>>] :
            ranges \in UNION {[1..n -> RangesOf(bytes(text, Len(text)))] : n \in 1..2}} :
         text \in UNION {[1..n -> {1, 2, 4}] : n \in 0..2}}

MCSessions == PageSessions \cup GrepSessions \cup QuerySessions \cup HitSessions
=============================================================================
