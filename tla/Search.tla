------------------------------- MODULE Search -------------------------------
(***************************************************************************)
(* One use of the search, glob, grep and parse-query endpoints by the      *)
(* PowerShell client: what is asked, the pages that come back, and the     *)
(* loop that asks for the next one, over an index that may change between  *)
(* two pages (src/src/routes/search.rs, src/src/routes/grep.rs,            *)
(* src/src/routes/lifecycle.rs, src/clients/powershell/Fff.psm1).          *)
(*                                                                         *)
(* A handler answers a page under one read guard of the picker: a page is  *)
(* one step.  The index is the sequence of entries in the order in which   *)
(* the engine ranks or scans them.                                         *)
(***************************************************************************)
EXTENDS Query, Text, Cursor

CONSTANTS
  Sessions,    \* the uses considered, each with the index it starts on
  MaxPages,    \* greps after which the client gives up
  MaxChanges   \* changes of the index considered during a use

Directories == "search/directories"
Paged == {"search", Directories, "search/mixed", "glob"}

ASSUME BoundsAssumption ==
  /\ MaxUsize \in Nat \ {0} /\ MaxPages \in Nat \ {0} /\ MaxChanges \in Nat
  /\ \A s \in Sessions : Len(s.index) + MaxChanges <= MaxUsize

\* The cursor a request leaves out, which is no token; the empty token is another.
NoCursor == <<-1>>

\* An entry of the index: a file or a directory, and how many lines of it match.
Entry == [id : Nat, dir : BOOLEAN, matches : Nat]

\* What a request body can hold: a page and its size are usize, a glob has one form and so
\* has the query that parse-query shows; every file of a scan has an offset; a hit has a
\* match, and offsets in a line are unsigned.
ASSUME SessionsAssumption ==
  \A s \in Sessions :
    /\ s.index \in Seq(Entry)
    /\ s.kind \in Paged =>
         /\ s.start \in 0..MaxUsize /\ s.size \in 0..MaxUsize /\ s.all \in BOOLEAN
         /\ s.form \in (IF s.kind = "glob" THEN {"raw", "none"}
                        ELSE {"raw", "structured", "both", "none"})
    /\ s.kind = "parse-query" => s.form = "raw" /\ s.preset \in Presets
    /\ s.kind \in Paged \cup {"parse-query"} =>
         /\ s.form = "raw" => s.tokens \in Seq(Token)
         /\ s.form = "structured" => \A f \in Fields : s.fields[f] \in Seq(Token)
    /\ s.kind \in {"grep", "multi-grep"} =>
         /\ s.start \in Seq(0..NotB64) \cup {NoCursor} /\ s.size \in 0..MaxUsize /\ s.all \in BOOLEAN
         /\ s.base \in Nat /\ s.base + Len(s.index) + MaxChanges <= MaxUsize /\ s.budget \in BOOLEAN
    /\ s.kind = "hit" =>
         s.text \in Seq(1..4) /\ s.ranges \in Seq([start : Nat, end : Nat]) /\ s.ranges # <<>>

VARIABLES
  session,    \* what the caller of the client asked for
  index,      \* entries [id, dir, matches]; matches are lines that match
  place,      \* the page number or the cursor the client sends next
  pages,      \* pages it has asked for
  got,        \* what it has passed on: ids, or ids with the number of a line
  last,       \* the response to its last request, with the request it answers
  done,
  changes,    \* changes of the index so far
  disturbed   \* a change has touched the part of the index already returned

vars == <<session, index, place, pages, got, last, done, changes, disturbed>>

-----------------------------------------------------------------------------
(* Paging by number. *)

saturating_add(a, b) == IF a + b > MaxUsize THEN MaxUsize ELSE a + b
saturating_mul(a, b) == IF a * b > MaxUsize THEN MaxUsize ELSE a * b

\* Mutated form: a plain multiplication, which wraps in a release build.
page_offset_Wrapping(page, size) == (page * size) % (MaxUsize + 1)

page_offset(page, size) == saturating_mul(page, size)

has_more(page, size, total) == saturating_mul(saturating_add(page, 1), size) < total

\* The engine's page: what there is from the offset on, up to the limit.
slice(s, offset, limit) == SubSeq(s, offset + 1, IF offset + limit < Len(s) THEN offset + limit ELSE Len(s))

NoAnswer == [code |-> 0]
Refused == [code |-> 400, items |-> <<>>]

\* An item of a page, zipped from the engine's arrays and tagged with its kind.
hit(entry) == [id |-> entry.id, type |-> IF entry.dir THEN "directory" ELSE "file"]

\* A page of the entries the engine ranked for a query; a page size of zero is one.
response(req, page, entries, prepared) ==
  LET size == IF req.size = 0 THEN 1 ELSE req.size
      found == slice(entries, page_offset(page, size), size)
  IN [code |-> 200,
      items |-> [i \in DOMAIN found |-> hit(found[i])],
      more |-> has_more(page, size, Len(entries)),
      warnings |-> prepared.warnings, constraints |-> prepared.constraints]

\* The query in the form it came in; no query at all is an empty one.
prepare(req, preset) ==
  CASE req.form = "raw" ->
         [constraints |-> parse_raw(preset, req.tokens), warnings |-> warnings_for(req.tokens)]
    [] req.form = "structured" -> [constraints |-> structured_query(req.fields), warnings |-> <<>>]
    [] OTHER -> [constraints |-> <<>>, warnings |-> <<>>]

files(entries) == FlattenSeq([i \in DOMAIN entries |-> kept(~entries[i].dir, entries[i])])
directories(entries) == FlattenSeq([i \in DOMAIN entries |-> kept(entries[i].dir, entries[i])])

\* The three searches refuse a query in both forms, and each parses with its own preset.
search(req, page) ==
  IF req.form = "both" THEN Refused ELSE response(req, page, files(index), prepare(req, "fileSearch"))

search_directories(req, page) ==
  IF req.form = "both" THEN Refused ELSE response(req, page, directories(index), prepare(req, "dirSearch"))

search_mixed(req, page) ==
  IF req.form = "both" THEN Refused ELSE response(req, page, index, prepare(req, "mixedSearch"))

\* glob folds its pattern, bypasses the parser, and refuses an empty pattern.
glob(req, page) ==
  IF req.form = "none" THEN Refused
  ELSE response(req, page, files(index), [constraints |-> every("glob", fold_all(req.tokens), 0), warnings |-> <<>>])

page_of(req, page) ==
  CASE req.kind = "search" -> search(req, page)
    [] req.kind = Directories -> search_directories(req, page)
    [] req.kind = "search/mixed" -> search_mixed(req, page)
    [] req.kind = "glob" -> glob(req, page)

-----------------------------------------------------------------------------
(* Paging by cursor. *)

\* The lines a grep reports of a file.
lines(entry) == [n \in 1..entry.matches |-> [id |-> entry.id, line |-> n]]

lines_between(from, to) == FlattenSeq([i \in 1..(to - from) |-> lines(index[from + i])])

\* Where a scan from an entry on may stop: it finishes the file in which it reaches the
\* page limit, or it stops earlier when its time budget is up, after any file or none.
scan_ends(from, limit, budget) ==
  {to \in from..Len(index) :
     /\ \A mid \in from..(to - 1) : Len(lines_between(from, mid)) < limit
     /\ budget \/ Len(lines_between(from, to)) >= limit \/ to = Len(index)}

\* The engine's offset counts the files before `index` too, in which nothing matches;
\* it is 0 when the scan is exhausted.
next_cursor(req, to) ==
  LET next_file_offset == IF to < Len(index) THEN req.base + to ELSE 0 IN
    IF next_file_offset > 0 THEN from_offset(next_file_offset) ELSE NoCursor

\* Where the scan of a request begins: without a cursor at the first file, with one that
\* points beyond the last file at the end.
first_entry(req, cursor) ==
  LET offset == IF cursor = NoCursor THEN 0 ELSE offset_of(cursor) IN
    IF offset <= req.base THEN 0
    ELSE IF offset - req.base < Len(index) THEN offset - req.base ELSE Len(index)

\* The responses to a cursor: a malformed one is refused.
grep(req, cursor) ==
  LET from == first_entry(req, cursor)
      limit == IF req.size = 0 THEN 1 ELSE req.size
  IN IF cursor # NoCursor /\ offset_of(cursor) = Malformed THEN {Refused}
     ELSE {[code |-> 200, items |-> lines_between(from, to), more |-> next_cursor(req, to)] :
             to \in scan_ends(from, limit, req.budget)}

\* The same for several patterns, of which there must be one and none may be empty.
multi_grep(req, cursor) == IF req.form = "none" THEN {Refused} ELSE grep(req, cursor)

-----------------------------------------------------------------------------
(* The client's calls.  Find-FffFile and Find-FffGlob page by number,      *)
(* Find-FffText by cursor; a 400 ends a call.                              *)

Init ==
  /\ session \in Sessions
  /\ index = session.index /\ place = session.start
  /\ pages = 0 /\ got = <<>> /\ last = NoAnswer
  /\ done = FALSE /\ changes = 0 /\ disturbed = FALSE

CallPage ==
  /\ ~done /\ session.kind \in Paged
  /\ \E page \in {page_of(session, place)} :
       /\ last' = page
       /\ got' = got \o [i \in DOMAIN page.items |-> page.items[i].id]
       /\ done' = (page = Refused \/ ~session.all \/ ~page.more)
  /\ place' = place + 1 /\ pages' = pages + 1
  /\ UNCHANGED <<session, index, changes, disturbed>>

\* Mutated form: the loop has no limit on its pages, whose count is kept within bounds.
CallGrep_Unlimited ==
  /\ ~done /\ session.kind \in {"grep", "multi-grep"}
  /\ pages' = IF pages = MaxPages THEN MaxPages - 1 ELSE pages + 1
  /\ \E page \in (IF session.kind = "grep" THEN grep(session, place) ELSE multi_grep(session, place)) :
       /\ last' = page /\ got' = got \o page.items
       /\ place' = IF page = Refused THEN place ELSE page.more
       /\ done' = (page = Refused \/ ~session.all \/ page.more = NoCursor)
  /\ UNCHANGED <<session, index, changes, disturbed>>

CallGrep ==
  /\ ~done /\ session.kind \in {"grep", "multi-grep"}
  /\ pages' = pages + 1
  /\ \E page \in (IF session.kind = "grep" THEN grep(session, place) ELSE multi_grep(session, place)) :
       /\ last' = page /\ got' = got \o page.items
       /\ place' = IF page = Refused THEN place ELSE page.more
       /\ done' = (page = Refused \/ ~session.all \/ page.more = NoCursor \/ pages + 1 = MaxPages)
  /\ UNCHANGED <<session, index, changes, disturbed>>

CallParseQuery ==
  /\ ~done /\ session.kind = "parse-query"
  /\ last' = parse_query_response(session.preset, session.tokens)
  /\ done' = TRUE
  /\ UNCHANGED <<session, index, place, pages, got, changes, disturbed>>

\* Format-FffMatch of one hit of a grep.
FormatMatch ==
  /\ ~done /\ session.kind = "hit"
  /\ last' = [spans |-> format_match(session.text, utf16_ranges(session.text, session.ranges)),
              col |-> col_utf16(session.text, session.ranges[1].start)]
  /\ done' = TRUE
  /\ UNCHANGED <<session, index, place, pages, got, changes, disturbed>>

\* What the client has behind it, in the list it pages through.
consumed(list) ==
  LET ahead == IF session.kind \in Paged THEN place * (IF session.size = 0 THEN 1 ELSE session.size)
               ELSE IF place = NoCursor THEN 0 ELSE offset_of(place) - session.base
  IN SubSeq(list, 1, IF ahead < Len(list) THEN ahead ELSE Len(list))

listed(entries) ==
  CASE session.kind = Directories -> directories(entries)
    [] session.kind \in {"search", "glob"} -> files(entries)
    [] OTHER -> entries

\* The watcher or a rescan adds or removes an entry between two pages.
Change ==
  /\ ~done /\ pages > 0 /\ changes < MaxChanges
  /\ \/ \E at \in 1..(Len(index) + 1) :
          index' = InsertAt(index, at, [id |-> 10 + changes, dir |-> FALSE, matches |-> 1])
     \/ \E at \in DOMAIN index : index' = RemoveAt(index, at)
  /\ changes' = changes + 1
  /\ disturbed' = (disturbed \/ ~IsPrefix(consumed(listed(index)), listed(index')))
  /\ UNCHANGED <<session, place, pages, got, last, done>>

Call == CallPage \/ CallGrep \/ CallParseQuery \/ FormatMatch

Next == Call \/ Change

\* A client that loops goes on calling, and the server answers: weak fairness of Call,
\* which is enabled until the client is done.
Fairness == []<>done \/ []<><<Call>>_vars

Spec == Init /\ [][Next]_vars /\ Fairness

-----------------------------------------------------------------------------
(* Properties. *)

\* A page holds the entries that its number and size name, in arithmetic without bounds,
\* and hasMore says whether the next page would hold any: at the largest page number and
\* with a page size of zero too.
PageIsWhatItSays ==
  [][ (session.kind \in Paged /\ pages' > pages /\ last' # Refused) =>
        LET list == listed(index)
            size == IF session.size = 0 THEN 1 ELSE session.size
            named == {i \in DOMAIN list : i > place * size /\ i <= (place + 1) * size}
        IN /\ Len(last'.items) = Cardinality(named)
           /\ \A i \in DOMAIN last'.items :
                LET entry == list[place * size + i] IN
                  last'.items[i] = [id |-> entry.id, type |-> IF entry.dir THEN "directory" ELSE "file"]
           /\ last'.more = \E i \in DOMAIN list : i > (place + 1) * size
    ]_vars

\* All there is to return, from the page or the cursor the caller started with.
Everything ==
  IF session.kind \in Paged
    THEN LET list == listed(index)
             behind == session.start * (IF session.size = 0 THEN 1 ELSE session.size)
         IN [i \in 1..(IF behind < Len(list) THEN Len(list) - behind ELSE 0) |-> list[behind + i].id]
    ELSE lines_between(first_entry(session, session.start), Len(index))

\* While nothing changes in what was returned already, the pages follow each other without
\* a gap or a repetition; and a client that asked for everything, and was not stopped by
\* the page limit or by a time budget, has been given everything.  No token that the
\* server made is refused.
PagesTile ==
  (pages > 0 /\ ~disturbed) =>
    /\ IsPrefix(got, Everything)
    /\ last = Refused => pages = 1
    /\ (done /\ session.all /\ last # Refused /\ (session.kind \in Paged \/ (pages < MaxPages /\ ~session.budget)))
         => got = Everything

\* A client that asks for everything comes to an end, also when a time budget stops every
\* page before it has finished a file.
ClientStops == <>done

\* Under every preset, a token that is warned about is one that the engine does not apply as
\* a glob, and parse-query shows every token, among the fuzzy parts or as a constraint in the
\* sense in which it is applied: a token that looks like a glob and is not recognised as one
\* is seen there, although only a file search warns of each of them.  What is given as a
\* constraint reaches the engine in the form it matches on, in the sense that was meant.
NoSilentLoss ==
  (done /\ session.kind \in Paged \cup {"parse-query"} /\ last # Refused) =>
  LET tokens == ToSet(session.tokens)
      found == ToSet(last.constraints)
      warned == ToSet(last.warnings)
      applied(t) == \E c \in found : c.type \in {"extension", "glob"} /\ c.value = t
  IN
    /\ (session.form = "raw" /\ session.kind # "glob") =>
         /\ warned \subseteq tokens
         /\ \A t \in warned : looks_glob(t) /\ ~applied(t)
    /\ (session.form = "raw"
        /\ (session.kind = "search" \/ (session.kind = "parse-query" /\ session.preset = "fileSearch"))) =>
         \A t \in tokens : looks_glob(t) => (t \in warned) # applied(t)
    /\ session.kind = "parse-query" =>
         \A t \in tokens :
           (t \in ToSet(last.fuzzyParts)) # (\E c \in found : c.value = t /\ c.negated = (t.bangs = 1))
    /\ session.kind = "glob" => \A c \in found : c.value.sep # "backslash"
    /\ session.form = "structured" =>
         /\ \A c \in found : c.type \in {"glob", "pathSegment", "filePath"} => c.value.sep # "backslash"
         /\ \A f \in Fields, t \in Token :
              t \in ToSet(session.fields[f]) => \E c \in found :
                /\ c.nots = (IF f \in {"excludePathSegments", "excludeText"} THEN 1 ELSE 0)
                /\ c.value \in (IF c.type \in {"glob", "pathSegment", "filePath"} THEN {fold(t)} ELSE {t})

\* What is printed is the line, span after span, no span cuts a character in two, and
\* ranges that lie in order on characters are lit exactly.
HighlightsFaithful ==
  (session.kind = "hit" /\ done) =>
    LET text == session.text
        ranges == session.ranges
        spans == last.spans
        ends == {units(text, i) : i \in 0..Len(text)}
        start(i) == {n \in 0..Len(text) : bytes(text, n) = ranges[i].start}
        end(i) == {n \in 0..Len(text) : bytes(text, n) = ranges[i].end}
        ordered == /\ \A i \in DOMAIN ranges : start(i) # {} /\ end(i) # {} /\ ranges[i].start < ranges[i].end
                   /\ \A i \in 1..(Len(ranges) - 1) : ranges[i].end <= ranges[i + 1].start
        lit == FlattenSeq([i \in DOMAIN spans |-> kept(spans[i].lit, spans[i])])
    IN /\ spans[1].from = 0 /\ spans[Len(spans)].to = units(text, Len(text))
       /\ \A i \in 1..(Len(spans) - 1) : spans[i].to = spans[i + 1].from
       /\ \A i \in DOMAIN spans : spans[i].from <= spans[i].to /\ {spans[i].from, spans[i].to} \subseteq ends
       /\ ordered =>
            /\ Len(lit) = Len(ranges)
            /\ \A i \in DOMAIN ranges :
                 /\ lit[i].from = units(text, CHOOSE n \in start(i) : TRUE)
                 /\ lit[i].to = units(text, CHOOSE n \in end(i) : TRUE)
            /\ last.col = lit[1].from
=============================================================================
