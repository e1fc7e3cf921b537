------------------------------ MODULE DiffRows ------------------------------
(***************************************************************************)
(* A diff as a table: its lines become rows with the numbers of the lines  *)
(* in both files (buildDiffRows in ChangesView.swift), whose code is then  *)
(* replaced by highlighted code, row by row (diff-shiki-entry.js); and the *)
(* languages the editor and the diff find for a file.                      *)
(*                                                                         *)
(* A line of a diff is [kind |-> "hunk", old, new], with the numbers of    *)
(* its first lines, or [kind |-> "line", text], the words that begin lines *)
(* of a diff's header being one character each.                            *)
(***************************************************************************)
EXTENDS PageText

(* Lines of the header: among them those that begin with "---" or "+++",   *)
(* the names of the files, wherever they are.                              *)
StartsWith(text, chars) == Len(text) >= Len(chars) /\ SubSeq(text, 1, Len(chars)) = chars
IsHeader(text) ==
  \E start \in {<<"-", "-", "-">>, <<"+", "+", "+">>, <<"diff ">>, <<"index ">>} : StartsWith(text, start)

Row(class, oldLine, newLine, sign, code) ==
  [class |-> class, old |-> oldLine, new |-> newLine, sign |-> sign, code |-> code]

(* The state of the loop: the rows, oldLine, newLine, prevOldEnd and the   *)
(* number of hunks (isFirstHunk: there are none).                          *)
AddHunk(s, hunk) ==
  LET hidden == hunk.old - s.prevOldEnd - 1
      rows == IF s.hunks # 0 /\ hidden > 0 THEN Append(s.rows, Row("expand-row", hidden, 0, " ", <<>>)) ELSE s.rows
  IN  [s EXCEPT !.rows = Append(rows, Row("hunk", 0, 0, " ", <<"@", "@">>)),
                !.old = hunk.old, !.new = hunk.new, !.hunks = @ + 1]

(* Any line that begins neither with a plus nor with a minus is context. *)
IsAdd(text) == Head(text) = "+"
IsDel(text) == Head(text) = "-"
CodeRow(s, text) ==
  Row(IF IsAdd(text) THEN "add" ELSE IF IsDel(text) THEN "del" ELSE "context",
      IF IsAdd(text) THEN 0 ELSE s.old, IF IsDel(text) THEN 0 ELSE s.new,
      IF IsAdd(text) \/ IsDel(text) THEN Head(text) ELSE " ",
      EscapeHtml(IF Head(text) \in {"+", "-", " "} THEN Tail(text) ELSE text))

AddLine(s, text) ==
  IF IsHeader(text) THEN s
  ELSE [s EXCEPT !.rows = Append(@, CodeRow(s, text)),
                 !.old = IF IsAdd(text) THEN @ ELSE @ + 1, !.new = IF IsDel(text) THEN @ ELSE @ + 1,
                 !.prevOldEnd = IF IsAdd(text) THEN @ ELSE s.old]

AddTo(s, line) ==
  IF line.kind = "hunk" THEN AddHunk(s, line)
  ELSE IF line.text = <<>> THEN s ELSE AddLine(s, line.text)

NoRows == [rows |-> <<>>, old |-> 0, new |-> 0, prevOldEnd |-> 0, hunks |-> 0]

BuildDiffRows(lines) ==
  LET state[k \in 0 .. Len(lines)] == IF k = 0 THEN NoRows ELSE AddTo(state[k - 1], lines[k])
  IN  state[Len(lines)].rows

-----------------------------------------------------------------------------
(* A sign in front of the code stays as it is, and is not highlighted. *)
SplitPrefix(text) ==
  IF text # <<>> /\ Head(text) \in {"+", "-", " "}
  THEN [prefix |-> <<Head(text)>>, body |-> Tail(text)]
  ELSE [prefix |-> <<>>, body |-> text]

(* The page has a function of its own for what the preview has too. *)
EscapeHTML(s) == EscapeHtml(s)
Span(token) == <<"<", "span", ">">> \o EscapeHTML(token) \o <<"<", "/span", ">">>

(* The code falls into two tokens at cut, or is one. *)
Tokens(body, cut) ==
  LET at == IF cut <= Len(body) THEN cut ELSE Len(body)
  IN  Span(SubSeq(body, 1, at)) \o Span(SubSeq(body, at + 1, Len(body)))

\* Broken variant: the sign is not put back.
HighlightCellNoPrefix(text, cut) ==
  LET body == SplitPrefix(text).body
  IN  IF body = <<>> THEN EscapeHTML(text) ELSE Tokens(body, cut)

(* The HTML of a cell. *)
HighlightCell(text, cut) ==
  LET split == SplitPrefix(text)
  IN  IF split.body = <<>> THEN EscapeHTML(text) ELSE EscapeHTML(split.prefix) \o Tokens(split.body, cut)

-----------------------------------------------------------------------------
(* Languages.  A file is [name, ext], its name being "dockerfile",         *)
(* "makefile", ".env" (whatever follows) or any other.                     *)

ShellNames == {"dockerfile", "makefile", ".env"}

(* The editor: detectLanguage(). *)
EditorLanguages ==
  [javascript |-> {"js", "mjs", "cjs"}, jsx |-> {"jsx"}, typescript |-> {"ts"}, tsx |-> {"tsx"},
   python |-> {"py", "pyi"}, html |-> {"html", "htm"}, css |-> {"css"}, json |-> {"json"},
   markdown |-> {"md"}, rust |-> {"rs"}, go |-> {"go"}, java |-> {"java", "kt"}, c |-> {"c"},
   cpp |-> {"h", "cpp", "cc", "cxx", "hpp"}, xml |-> {"xml", "svg", "plist"}, sql |-> {"sql"},
   php |-> {"php"}, yaml |-> {"yaml", "yml"}, sass |-> {"sass"}, scss |-> {"scss"},
   shell |-> {"sh", "bash", "zsh"}, toml |-> {"toml"}, ruby |-> {"rb"}, swift |-> {"swift"}]

NoLanguage == ""
Language(table, ext) ==
  IF \E l \in DOMAIN table : ext \in table[l] THEN CHOOSE l \in DOMAIN table : ext \in table[l] ELSE NoLanguage

DetectLanguage(file) ==
  IF file.name \in ShellNames THEN "shell" ELSE Language(EditorLanguages, file.ext)

(* The languages CodeMirror has a mode for. *)
LanguageExtensions ==
  {"javascript", "jsx", "typescript", "tsx", "python", "html", "css", "json", "markdown", "rust",
   "go", "java", "c", "cpp", "xml", "sql", "php", "yaml", "sass", "shell", "ruby", "swift", "toml"}

(* The diff: detectShikiLang(). *)
DiffLanguages ==
  [javascript |-> {"js", "mjs", "cjs"}, typescript |-> {"ts"}, tsx |-> {"tsx"}, jsx |-> {"jsx"},
   python |-> {"py", "pyi"}, swift |-> {"swift"}, go |-> {"go"}, rust |-> {"rs"},
   java |-> {"java", "kt"}, json |-> {"json"}, yaml |-> {"yaml", "yml"},
   markdown |-> {"md", "markdown"}, html |-> {"html", "htm"}, css |-> {"css", "scss", "sass"},
   shellscript |-> {"sh", "bash", "zsh"}, sql |-> {"sql"}, c |-> {"c", "h"},
   cpp |-> {"cpp", "cc", "cxx", "hpp"}, ruby |-> {"rb"}, php |-> {"php"}, toml |-> {"toml"},
   xml |-> {"xml", "svg", "plist"}, diff |-> {"diff", "patch"}]

DetectShikiLang(file) ==
  IF file.name \in ShellNames THEN "shellscript" ELSE Language(DiffLanguages, file.ext)

ShikiLangs ==
  {"javascript", "typescript", "tsx", "jsx", "python", "swift", "go", "rust", "java", "json",
   "yaml", "markdown", "html", "css", "shellscript", "sql", "c", "cpp", "ruby", "php", "toml",
   "xml", "diff"}

NormalizeLang(lang) ==
  LET normalized == IF lang \in {"shell", "sh", "bash", "zsh"} THEN "shellscript" ELSE lang
  IN  IF normalized \in ShikiLangs THEN normalized ELSE NoLanguage

-----------------------------------------------------------------------------
(* The promise of the highlighter is kept and awaited by every call; it may *)
(* be rejected, and tokens may fail to be found in a line.                 *)
Highlighters == {"ready", "rejected"} \X {"tokens", "throws"}

(* What a cell shows in the end, in a file whose data-lang is lang: what   *)
(* cannot be highlighted stays as it is, and so do hunk and expand rows.   *)
ShownCode(row, lang, highlighter, cut) ==
  LET text == TextContent(row.code)
  IN  IF highlighter # <<"ready", "tokens">> \/ NormalizeLang(lang) = NoLanguage \/ row.class \in {"hunk", "expand-row"}
      THEN text
      ELSE TextContent(HighlightCell(text, cut))
=============================================================================
