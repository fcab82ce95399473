------------------------------- MODULE Query --------------------------------
(***************************************************************************)
(* The two ways a query comes in: a raw string for the engine's parser, or *)
(* constraints as data (src/src/query.rs), and how POST /v1/parse-query    *)
(* shows a parsed query (src/src/dto/lifecycle.rs).                        *)
(*                                                                         *)
(* A token keeps what the code looks at: whether it is an asterisk and an  *)
(* extension (`*.rs`), holds a glob character otherwise, or holds none;    *)
(* how its path parts are separated; and its leading `!`s.                 *)
(***************************************************************************)
EXTENDS Naturals, SequencesExt

CONSTANT Reads   \* what each preset of the engine's parser takes a token for

Token == [shape : {"extension", "glob", "plain"}, sep : {"none", "slash", "backslash"}, bangs : 0..2]

looks_glob(t) == t.shape # "plain"

Presets == {"fileSearch", "dirSearch", "mixedSearch", "grep", "aiGrep"}

\* The kinds of constraint that the parser makes of one token.
Kinds == {"extension", "glob", "text", "pathSegment", "filePath", "fileType", "gitStatus"}

Readings == [Token -> Kinds \cup {"fuzzy"}]

\* The presets differ in the kinds they recognise, and each leaves what it does not
\* recognise for fuzzy matching.  None takes a token with a backslash for a glob, and a file
\* search recognises every other token that looks like one.
ASSUME ReadsAssumption ==
  /\ Reads \in [Presets -> Readings]
  /\ \A preset \in Presets, t \in Token :
       (looks_glob(t) /\ t.sep = "backslash") => Reads[preset][t] \notin {"extension", "glob"}
  /\ \A t \in Token :
       (looks_glob(t) /\ t.sep # "backslash") => Reads["fileSearch"][t] \in {"extension", "glob"}

\* The fields of StructuredQuery that are lists of strings.
Fields == {"globs", "extensions", "pathSegments", "filePaths", "fileTypes", "text",
           "excludePathSegments", "excludeText"}

fold(token) == [token EXCEPT !.sep = IF @ = "backslash" THEN "slash" ELSE @]

\* Mutated form: path segments and globs are given to the engine as they came.
fold_all_Nothing(tokens) == tokens

fold_all(tokens) == [i \in DOMAIN tokens |-> fold(tokens[i])]

\* PreparedQuery::structured: the path-like fields are folded, the others kept.
folded(q) ==
  [f \in Fields |->
     IF f \in {"globs", "pathSegments", "filePaths", "excludePathSegments"}
       THEN fold_all(q[f]) ELSE q[f]]

\* A constraint: its kind, what it holds, and how many Nots are around it.
constraint(type, value, nots) == [type |-> type, value |-> value, nots |-> nots]

every(type, tokens, nots) == [i \in DOMAIN tokens |-> constraint(type, tokens[i], nots)]

git_status(q) ==
  IF q.gitStatus = "any" THEN <<>> ELSE <<constraint("gitStatus", q.gitStatus, 0)>>

\* PreparedQuery::query of structured constraints, in the order they are pushed.
structured_query(q) ==
  LET s == folded(q) IN
    every("glob", s.globs, 0) \o every("extension", s.extensions, 0)
      \o every("pathSegment", s.pathSegments, 0) \o every("filePath", s.filePaths, 0)
      \o every("fileType", s.fileTypes, 0) \o every("text", s.text, 0)
      \o every("pathSegment", s.excludePathSegments, 1) \o every("text", s.excludeText, 1) \o git_status(q)

\* The engine's parser on one token, with a Not around the constraint for every `!`.
parsed_token(preset, t) ==
  IF Reads[preset][t] = "fuzzy" THEN <<>> ELSE <<constraint(Reads[preset][t], t, t.bangs)>>

parse_raw(preset, tokens) == FlattenSeq([i \in DOMAIN tokens |-> parsed_token(preset, tokens[i])])

\* Some of a sequence: an entry to keep as a sequence of one, another as none.
kept(keep, e) == IF keep THEN <<e>> ELSE <<>>

\* What the parser leaves, in the order it came.
fuzzy_parts(preset, tokens) ==
  FlattenSeq([i \in DOMAIN tokens |-> kept(Reads[preset][tokens[i]] = "fuzzy", tokens[i])])

\* The warnings do not depend on the preset.
warnings_for(tokens) ==
  FlattenSeq([i \in DOMAIN tokens |-> kept(looks_glob(tokens[i]) /\ tokens[i].sep = "backslash", tokens[i])])

\* ConstraintDto::build unwraps the Nots and toggles `negated` at each.
constraint_dto(c) == [type |-> c.type, negated |-> c.nots % 2 = 1, value |-> c.value]

parse_query_response(preset, tokens) ==
  LET found == parse_raw(preset, tokens) IN
    [constraints |-> [i \in DOMAIN found |-> constraint_dto(found[i])],
     fuzzyParts |-> fuzzy_parts(preset, tokens),
     warnings |-> warnings_for(tokens)]
=============================================================================
