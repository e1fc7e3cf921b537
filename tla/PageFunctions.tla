---------------------------- MODULE PageFunctions ----------------------------
(***************************************************************************)
(* The pure functions of the pages, each checked for all inputs of a       *)
(* finite set against what it is for: a state is one input.                *)
(***************************************************************************)
EXTENDS TerminalLinks, BlockDiff, DiffRows

CONSTANTS Inputs,   \* records, with a kind
          NoInput

(* What the pages are given: a screen has rows, a row of cells characters  *)
(* of up to two cells, a document is a sequence of blocks, a text one of   *)
(* characters, and a path one of segments.  A diff is any sequence of      *)
(* heads of hunks and lines of text.                                       *)
CellRecords == [chars: Nat, width: 0 .. 2]
IsSequence(s) == s \in Seq(Range(s))
IsPath(p) == p = [abs |-> p.abs, segs |-> p.segs] /\ p.abs \in BOOLEAN /\ IsSequence(p.segs)
IsHunk(line) == line.kind = "hunk" /\ line.old \in Nat /\ line.new \in Nat
IsLine(line) == line.kind = "line" /\ IsSequence(line.text)
IsDiff(lines) == IsSequence(lines) /\ \A k \in DOMAIN lines : IsHunk(lines[k]) \/ IsLine(lines[k])
ASSUME InputsAreGiven ==
  /\ NoInput \notin Inputs
  /\ \A i \in Inputs :
       /\ i.kind = "screen" => i.screen \in Seq(ScreenRow)
       /\ i.kind = "cells" => i.cells \in Seq(CellRecords)
       /\ i.kind = "blocks" => IsSequence(i.old) /\ IsSequence(i.new)
       /\ i.kind \in {"script", "html", "code", "place", "line"} => IsSequence(i.text)
       /\ i.kind = "image" => IsPath(i.src) /\ IsPath(i.dir)
       /\ i.kind = "diff" => IsDiff(i.lines)

VARIABLE input

FunctionsInit == input = NoInput
FunctionsNext == input = NoInput /\ input' \in Inputs
FunctionsSpec == FunctionsInit /\ [][FunctionsNext]_input

Is(kind) == input # NoInput /\ input.kind = kind

(***************************************************************************)
(* The two algorithms that join a URL again (buildFullUrl() and the upward *)
(* scan, terminal-entry.js:90-130 and 225-271) find the same rows: a row   *)
(* linked as the continuation of a URL is one of the rows underlined with  *)
(* it, and they are those of the link of the row where the URL starts.     *)
(* That row's link opens the joined URL without the punctuation at its     *)
(* end, and the continuation's link opens it as it is, so that they open   *)
(* the same exactly when the URL ends in none.                             *)
(***************************************************************************)
SameLink(m, l) ==
  /\ m.ranges = l.ranges
  /\ m.target = TrimUrlTrailing(l.target)
  /\ (m.target = l.target) <=> ~Last(l.target).trail
ContinuationsAgree ==
  Is("screen") => \A y \in DOMAIN input.screen : ContinuesUrl(input.screen, y) =>
    LET l == UrlContinuedAt(input.screen, y)
    IN  /\ l.at \in l.ranges
        /\ \E above \in 1 .. (y - 1) : \E m \in UrlLinks(input.screen, above) : SameLink(m, l)

(***************************************************************************)
(* The cell a string index is mapped to holds the character of that index, *)
(* also behind wide characters (two cells) and clusters (several units).   *)
(***************************************************************************)
CellHoldsIndex ==
  Is("cells") =>
    LET before == StringOffset(input.cells)
    IN  \A t \in 0 .. (before[Len(input.cells) + 1] - 1) :
          LET x == MapStringIndexToCell(input.cells, t)
          IN  /\ x \in DOMAIN input.cells /\ input.cells[x].width # 0
              /\ before[x] <= t /\ t < before[x] + CharLength(input.cells[x])

(***************************************************************************)
(* What is written to a file reaches its page unchanged, line ends aside,  *)
(* whatever of a script's or of HTML's own characters it contains: through *)
(* the template literal of a script, and, for the source of a diagram,     *)
(* through HTML and textContent (the comment at                            *)
(* markdown-preview-entry.js:60-63); a block of code, highlighted or not,  *)
(* shows its text, and an image has its title (up to a double quote, which *)
(* escapeHtml() leaves as it is).                                       *)
(***************************************************************************)
LineFeeds(s) ==
  FlattenSeq([i \in DOMAIN s |->
    IF s[i] = "LF" /\ i > 1 /\ s[i - 1] = "CR" THEN <<>>
    ELSE IF s[i] = "CR" THEN <<"LF">> ELSE <<s[i]>>])
TextArrives ==
  /\ Is("script") => TemplateValue(EscapeForTemplate(input.text)) = LineFeeds(input.text)
  /\ Is("html") => TextContent(EscapeHtml(input.text)) = input.text
  /\ Is("code") => \A cut \in 0 .. Len(input.text) :
       TextContent(RendererCode(input.lang, input.text, cut)) = input.text
  /\ Is("html") => LET image == RendererImage(input.text, input.text)
                   IN  "dquote" \notin Range(input.text) =>
                         AttributeValue(image.alt) = input.text /\ AttributeValue(image.title) = input.text

(***************************************************************************)
(* A place that the page reports, of a definition for example, is found    *)
(* again when the file is opened there; a place that the file has no       *)
(* longer is taken to the end of its line, or of the file's last line.     *)
(***************************************************************************)
PlacesAreFound ==
  Is("place") =>
    LET lines == Cardinality(LineStarts(input.text))
        Location(pos) == LocationForPos(input.text, pos)
    IN  /\ \A pos \in 0 .. Len(input.text) :
             RevealLocation(input.text, Location(pos).line, Location(pos).column) = pos
        /\ \A line \in 1 .. (lines + 1), column \in 0 .. (Len(input.text) + 2) :
             LET found == RevealLocation(input.text, line, column)
                 there == Location(found)
             IN  /\ there.line = Min({line, lines})
                 /\ there.column = Max({1, column})
                      \/ (there.column < column /\ (found = Len(input.text) \/ input.text[found + 1] = "LF"))

(***************************************************************************)
(* The identifier at a position is the one that it is in or at the end of, *)
(* as a whole; beyond it only the end of the line counts for it, one       *)
(* character away.                                                         *)
(***************************************************************************)
Identifiers(text) ==
  LET char(i) == i \in 0 .. (Len(text) - 1) /\ IsIdentifierChar(text[i + 1])
  IN  {r \in (0 .. Len(text)) \X (0 .. Len(text)) :
         /\ r[1] < r[2] /\ \A i \in r[1] .. (r[2] - 1) : char(i)
         /\ ~char(r[1] - 1) /\ ~char(r[2]) /\ text[r[1] + 1] = "a"}
IdentifierIsThere ==
  Is("line") => \A pos \in 0 .. Len(input.text) :
    LET found == IdentifierRangeAtPos(input.text, pos)
        At(r) == r[1] <= pos /\ pos <= r[2]
    IN  /\ \A r \in Identifiers(input.text) : At(r) => found = r
        /\ found # NoRange =>
             /\ found \in Identifiers(input.text)
             /\ At(found) \/ (pos = Len(input.text) /\ pos = found[2] + 1)

(***************************************************************************)
(* As many blocks as possible are kept between two renderings of a file:   *)
(* the matched blocks are the same, in the same order, and no common       *)
(* subsequence is longer; the others are ghosts, once each, and the ghosts *)
(* leave the new blocks in their order.                                    *)
(***************************************************************************)
CommonSubsequences(old, new) ==
  LET same == {p \in (DOMAIN old) \X (DOMAIN new) : Same(old[p[1]], new[p[2]])}
  IN  {chosen \in SUBSET same : \A p, q \in chosen : p[1] < q[1] <=> p[2] < q[2]}
ChildPlaces(children, ghost, k) == {i \in DOMAIN children : children[i].ghost = ghost /\ children[i].index = k}
LongestIsKept(old, new) ==
  LET matches == Matches(old, new)
  IN  /\ matches \in CommonSubsequences(old, new)
      /\ \A other \in CommonSubsequences(old, new) : Cardinality(other) <= Cardinality(matches)
AllAreShown(old, new) ==
  LET children == Children(old, new)
      kept == {p[1] : p \in Matches(old, new)}
  IN  /\ \A k \in DOMAIN new : \E i \in DOMAIN children : ChildPlaces(children, FALSE, k) = {i}
      /\ \A k \in DOMAIN old \ kept : \E i \in DOMAIN children : ChildPlaces(children, TRUE, k) = {i}
      /\ \A i \in DOMAIN children :
           children[i].index \in IF children[i].ghost THEN DOMAIN old \ kept ELSE DOMAIN new
      /\ \A i, j \in DOMAIN children :
           i < j /\ ~children[i].ghost /\ ~children[j].ghost => children[i].index < children[j].index
BlocksAreKept ==
  Is("blocks") => LongestIsKept(input.old, input.new) /\ AllAreShown(input.old, input.new)

(***************************************************************************)
(* Where an image is looked for is where a walk along the path, as it is   *)
(* written, ends, from wherever the walk starts; only a relative path that *)
(* leaves the directory it starts in is another file (its first ".."s are  *)
(* dropped).                                                               *)
(***************************************************************************)
Walk(at, segs) ==
  LET dir[k \in 0 .. Len(segs)] ==
        IF k = 0 THEN at
        ELSE CASE IsHere(segs[k]) -> dir[k - 1]
               [] segs[k] = ".." /\ dir[k - 1] = <<>> -> <<>>
               [] segs[k] = ".." /\ dir[k - 1] # <<>> -> Front(dir[k - 1])
               [] OTHER -> Append(dir[k - 1], segs[k])
  IN  dir[Len(segs)]
ImageIsFound ==
  Is("image") =>
    LET start == IF input.src.abs \/ input.dir.abs THEN <<>> ELSE <<"up", "cwd">>
        written == (IF input.src.abs THEN <<>> ELSE input.dir.segs) \o input.src.segs
        path == ResolveImagePath(input.src, input.dir)
        leaves == \E n \in 0 .. Len(written) : ~IsPrefix(start, Walk(start, SubSeq(written, 1, n)))
    IN  leaves \/ (path.abs = (start = <<>>) /\ Walk(start, path.segs) = Walk(start, written))

(***************************************************************************)
(* The table of a diff is what is wanted for its lines, one after the      *)
(* other, after the code has been highlighted, whatever the tokens and     *)
(* whatever fails in between: for a line a row that shows sign and text,   *)
(* with its numbers, counted from the head of its hunk (before the first   *)
(* one from 0); for a hunk its head, and before it, when it is not the     *)
(* first one, how many lines are hidden since the last old line shown, if  *)
(* any are.  A line without a sign, like "\ No newline at end of file",    *)
(* counts as context.  No row is wanted for an empty line and for one that *)
(* the code takes for a header; as it does so by the first three           *)
(* characters, a removed "--" or an added "++" line has no row either and  *)
(* is not counted: the numbers are those of the files up to such a line.   *)
(***************************************************************************)
HasRow(line) == line.kind = "line" /\ line.text # <<>> /\ ~IsHeader(line.text)
HasOldRow(line) == HasRow(line) /\ Head(line.text) # "+"
HasNewRow(line) == HasRow(line) /\ Head(line.text) # "-"
OldLinesOf(lines, h, k) == {i \in (h + 1) .. k : HasOldRow(lines[i])}
NewLinesOf(lines, h, k) == {i \in (h + 1) .. k : HasNewRow(lines[i])}
IsHunkOf(lines, h, k) == (h # 0 => lines[h].kind = "hunk") /\ \A i \in (h + 1) .. k : lines[i].kind = "line"
HunkOf(lines, k) == CHOOSE h \in 0 .. k : IsHunkOf(lines, h, k)
NextOld(lines, h, k) == (IF h = 0 THEN 0 ELSE lines[h].old) + Cardinality(OldLinesOf(lines, h, k))
NextNew(lines, h, k) == (IF h = 0 THEN 0 ELSE lines[h].new) + Cardinality(NewLinesOf(lines, h, k))
LineWanted(lines, k) ==
  LET h == HunkOf(lines, k)
      text == lines[k].text
  IN  <<"line", IF HasOldRow(lines[k]) THEN NextOld(lines, h, k - 1) ELSE 0,
                IF HasNewRow(lines[k]) THEN NextNew(lines, h, k - 1) ELSE 0,
                IF Head(text) \in {"+", "-", " "} THEN text ELSE <<" ">> \o text>>
LastOld(lines, k) ==
  LET shown == OldLinesOf(lines, 0, k)
      last == CHOOSE i \in shown : \A j \in shown : j <= i
  IN  IF shown = {} THEN 0 ELSE NextOld(lines, HunkOf(lines, last), last - 1)
HiddenBefore(lines, k) == lines[k].old - LastOld(lines, k - 1) - 1
WantedFor(lines, k) ==
  IF lines[k].kind = "line" THEN IF HasRow(lines[k]) THEN <<LineWanted(lines, k)>> ELSE <<>>
  ELSE IF HunkOf(lines, k - 1) # 0 /\ HiddenBefore(lines, k) > 0
       THEN <<<<"hidden", HiddenBefore(lines, k)>>, <<"hunk">>>>
  ELSE <<<<"hunk">>>>
ShownRow(row, lang, how, cut) ==
  IF row.class = "hunk" THEN <<"hunk">>
  ELSE IF row.class = "expand-row" THEN <<"hidden", row.old>>
  ELSE <<"line", row.old, row.new, <<row.sign>> \o ShownCode(row, lang, how, cut)>>
ShownRows(rows, lang, how, cut) == [n \in DOMAIN rows |-> ShownRow(rows[n], lang, how, cut)]
Cuts(lines) == UNION {0 .. Len(lines[k].text) : k \in {i \in DOMAIN lines : lines[i].kind = "line"}}
DiffShowsLines ==
  Is("diff") =>
    LET rows == BuildDiffRows(input.lines)
        wanted == FlattenSeq([k \in DOMAIN input.lines |-> WantedFor(input.lines, k)])
    IN  \A cut \in Cuts(input.lines), lang \in {"go", "sh", "other"}, how \in Highlighters :
          ShownRows(rows, lang, how, cut) = wanted

(***************************************************************************)
(* Whatever language is found for a file, its highlighter has it (but for  *)
(* SCSS in the editor), and a file that is highlighted in the editor is    *)
(* highlighted in its diff: four tables in two languages agree.            *)
(***************************************************************************)
LanguagesAgree ==
  Is("file") =>
    LET editor == DetectLanguage(input.file)
        shiki == DetectShikiLang(input.file)
    IN  /\ editor \in LanguageExtensions \cup {NoLanguage, "scss"}
        /\ shiki # NoLanguage => NormalizeLang(shiki) # NoLanguage
        /\ editor # NoLanguage => NormalizeLang(editor) # NoLanguage \/ editor = "scss" \/ editor = "sass"
        /\ editor # NoLanguage => shiki # NoLanguage

(***************************************************************************)
(* The links of a screen: a URL that is broken over rows has the same rows *)
(* wherever the pointer is, and the pointer meets the characters the links *)
(* consist of.                                                             *)
(***************************************************************************)
LinksAreWhole == ContinuationsAgree /\ CellHoldsIndex

(***************************************************************************)
(* Text that passes between the app and its pages keeps its meaning: files,*)
(* blocks of code, places, identifiers and the paths of images.            *)
(***************************************************************************)
TextIsKept == TextArrives /\ PlacesAreFound /\ IdentifierIsThere /\ ImageIsFound

(***************************************************************************)
(* A diff shows its lines, in the language its editor would show them in.  *)
(***************************************************************************)
DiffIsShown == DiffShowsLines /\ LanguagesAgree
=============================================================================
