---------------------------- MODULE TerminalLinks ----------------------------
(***************************************************************************)
(* The links of the terminal (scripts/terminal-entry.js): URLs and paths   *)
(* that are broken over several rows are joined again, from the row where  *)
(* they start and, by a second algorithm, from the rows they continue on.  *)
(*                                                                         *)
(* A row of the screen is [wrapped, indent, words]: wrapped is xterm's     *)
(* isWrapped, indent says whether it starts with spaces, and a word is a   *)
(* record [kind, trail], trail meaning that it ends in a full stop.        *)
(*   url    https://...           seg   letters only, safe in URL and path *)
(*   path   with a slash          file  a path that ends in an extension   *)
(*   minus, plus  a list or diff marker     text  not safe in a URL        *)
(* What a link opens is the sequence of the words it is joined from, and   *)
(* a range is <<row, index of the word>>.                                  *)
(***************************************************************************)
EXTENDS Naturals, Sequences, FiniteSets, SequencesExt

WordRecords ==
  [kind: {"url", "path", "seg", "file", "minus", "plus", "text"}, trail: BOOLEAN]
ScreenRow == [wrapped: BOOLEAN, indent: BOOLEAN, words: Seq(WordRecords)]

UrlSafe(row) == row.words # <<>> /\ Head(row.words).kind # "text"
StartsUrl(row) == row.words # <<>> /\ Head(row.words).kind = "url"
Fills(row) == Len(row.words) = 1
Bulleted(row, kinds) == Len(row.words) > 1 /\ Head(row.words).kind \in kinds

(* The words of a joined link, and the ranges of its continuations, when   *)
(* the n rows after y belong to it.                                        *)
JoinedWords(s, y, w, n) == <<w>> \o [k \in 1 .. n |-> Head(s[y + k].words)]
Continuations(y, n) == {<<y + k, 1>> : k \in 1 .. n}

(* The longest run of rows after y that all join, each but the last one    *)
(* being nothing but a continuation.                                       *)
RunLength(s, y, joining) ==
  Cardinality({n \in 1 .. (Len(s) - y) :
                 /\ 1 .. n \subseteq joining
                 /\ \A k \in 1 .. (n - 1) : Fills(s[y + k])})

-----------------------------------------------------------------------------
(* URLs.                                                                   *)

(* How many rows buildFullUrl() adds to the URL word w of row y. *)
FullUrlRows(s, y, w) ==
  LET endsAtEdge(k) == k > 1 \/ Last(s[y].words) = w
      Joins(k) ==
        /\ s[y + k].wrapped \/ endsAtEdge(k)
        /\ UrlSafe(s[y + k])
        /\ ~StartsUrl(s[y + k]) /\ ~Bulleted(s[y + k], {"minus"})
  IN  RunLength(s, y, {k \in 1 .. (Len(s) - y) : Joins(k)})

TrimUrlTrailing(words) == [words EXCEPT ![Len(words)].trail = FALSE]

UrlStarts(s, y) == {i \in DOMAIN s[y].words : s[y].words[i].kind = "url"}

UrlsOfRow(s, y) ==
  {LET w == s[y].words[i]  n == FullUrlRows(s, y, w)
   IN  [kind |-> "url", at |-> <<y, i>>,
        target |-> TrimUrlTrailing(JoinedWords(s, y, w, n)),
        ranges |-> {<<y, i>>} \cup Continuations(y, n)] : i \in UrlStarts(s, y)}

(* The rows above y where a URL may start that goes on at y: those that    *)
(* end in a URL, with only continuation rows in between.                   *)
EndsInUrl(row) == row.words # <<>> /\ Last(row.words).kind = "url"
UrlOrigins(s, y) ==
  {o \in 1 .. (y - 1) :
     EndsInUrl(s[o])
     /\ \A j \in (o + 1) .. (y - 1) : UrlSafe(s[j]) /\ Fills(s[j]) /\ ~EndsInUrl(s[j])}

\* Broken variant: list and diff markers are not recognised.
ContinuesUrlAnyMarker(s, y) ==
  UrlStarts(s, y) = {} /\ UrlSafe(s[y]) /\ UrlOrigins(s, y) # {}

ContinuesUrl(s, y) ==
  /\ UrlStarts(s, y) = {}
  /\ UrlSafe(s[y]) /\ ~Bulleted(s[y], {"minus", "plus"})
  /\ UrlOrigins(s, y) # {}

UrlContinuedAt(s, y) ==
  LET o == CHOOSE o \in UrlOrigins(s, y) : TRUE
      w == Last(s[o].words)
      n == FullUrlRows(s, o, w)
  IN  [kind |-> "url", at |-> <<y, 1>>, target |-> JoinedWords(s, o, w, n),
       ranges |-> {<<o, Len(s[o].words)>>} \cup Continuations(o, n)]

UrlLinks(s, y) ==
  IF ContinuesUrl(s, y) THEN {UrlContinuedAt(s, y)} ELSE UrlsOfRow(s, y)

-----------------------------------------------------------------------------
(* Paths.                                                                  *)

PathStarts(s, y) == {i \in DOMAIN s[y].words : s[y].words[i].kind \in {"path", "file"}}
Complete(w) == w.kind = "file" /\ ~w.trail
Wrapped(s, y) == y <= Len(s) /\ s[y].wrapped

(* A row can continue a path when, its indentation aside (a soft-wrapped   *)
(* row keeps it), it starts with a letter, a tilde or a slash.             *)
PathContinues(row) ==
  /\ row.words # <<>> /\ Head(row.words).kind \notin {"text", "minus", "plus"}
  /\ ~(row.wrapped /\ row.indent)

FullPathRows(s, y, w) ==
  IF \/ Last(s[y].words) # w /\ ~Wrapped(s, y + 1)
     \/ Complete(w) /\ ~Wrapped(s, y + 1)
  THEN 0
  ELSE RunLength(s, y, {k \in 1 .. (Len(s) - y) : PathContinues(s[y + k])})

PathOf(s, y, i) ==
  LET w == s[y].words[i]  n == FullPathRows(s, y, w)
  IN  [target |-> JoinedWords(s, y, w, n), ranges |-> {<<y, i>>} \cup Continuations(y, n)]

PathsOfRow(s, y) ==
  {[kind |-> "path", at |-> <<y, i>>, target |-> PathOf(s, y, i).target,
    ranges |-> PathOf(s, y, i).ranges] : i \in PathStarts(s, y)}

(* Only the row above is looked at, and only its last path. *)
LastPath(s, y) == CHOOSE i \in PathStarts(s, y) : \A j \in PathStarts(s, y) : j <= i
ContinuesPath(s, y) ==
  /\ y > 1
  /\ PathStarts(s, y - 1) # {}
  /\ LET i == LastPath(s, y - 1)
     IN  /\ s[y].wrapped \/ (i = Len(s[y - 1].words) /\ ~Complete(s[y - 1].words[i]))
         /\ PathContinues(s[y])

PathContinuedAt(s, y) ==
  LET p == PathOf(s, y - 1, LastPath(s, y - 1))
  IN  [kind |-> "pathRest", at |-> <<y, 1>>, target |-> p.target,
       ranges |-> p.ranges \cup {<<y, 1>>}]

PathLinks(s, y) ==
  IF ContinuesPath(s, y) THEN {PathContinuedAt(s, y)} ELSE PathsOfRow(s, y)

-----------------------------------------------------------------------------
(***************************************************************************)
(* Cells and string indices: a row is a sequence of cells [chars, width],  *)
(* a cell of width 0 being the second half of a wide character.            *)
(* translateToString() skips those and writes a blank for an empty cell.   *)
(***************************************************************************)
CharLength(cell) == IF cell.chars = 0 THEN 1 ELSE cell.chars
StringOffset(cells) ==
  LET before[x \in 1 .. (Len(cells) + 1)] ==
        IF x = 1 THEN 0
        ELSE before[x - 1] + (IF cells[x - 1].width = 0 THEN 0 ELSE CharLength(cells[x - 1]))
  IN  before

(* The first cell whose text reaches beyond the index. *)
MapStringIndexToCell(cells, target) ==
  LET before == StringOffset(cells)
      found == {x \in DOMAIN cells : cells[x].width # 0 /\ before[x] + CharLength(cells[x]) > target}
  IN  IF found = {} THEN Len(cells) + 1
      ELSE CHOOSE x \in found : \A z \in found : x <= z
=============================================================================
