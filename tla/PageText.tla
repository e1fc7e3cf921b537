------------------------------ MODULE PageText ------------------------------
(***************************************************************************)
(* Text on its way into a page and out of it again: contents of files      *)
(* become template literals of scripts (CodeEditorView.swift,              *)
(* MarkdownPreviewView.swift), text becomes HTML and is read back          *)
(* (markdown-preview-entry.js, diff-shiki-entry.js), a position becomes    *)
(* a place and the identifier there (editor-entry.js), and the source of an image a    *)
(* path (markdown-preview-entry.js).                                       *)
(*                                                                         *)
(* A text is a sequence of characters: "CR" and "LF" are line ends, "quote" *)
(* is a backquote, and the name of an entity ("lt;") or of a tag ("span")  *)
(* counts as one character.                                                *)
(***************************************************************************)
EXTENDS Integers, Sequences, FiniteSets, SequencesExt

Substituted(s, c, by) == FlattenSeq([i \in DOMAIN s |-> IF s[i] = c THEN by ELSE <<s[i]>>])

-----------------------------------------------------------------------------
(* Scripts.                                                                *)

\* Broken variant: backslashes are escaped last.
EscapeForTemplateBackslashLast(s) ==
  Substituted(Substituted(Substituted(s, "quote", <<"\\", "quote">>), "$", <<"\\", "$">>), "\\", <<"\\", "\\">>)

EscapeForTemplate(s) ==
  Substituted(Substituted(Substituted(s, "\\", <<"\\", "\\">>), "quote", <<"\\", "quote">>), "$", <<"\\", "$">>)

(* What JavaScript makes of the text between two backquotes: line ends are *)
(* line feeds, and a backquote or "${" would end the text.                 *)
TemplateValue(s) ==
  LET value[i \in 1 .. (Len(s) + 2)] ==
        IF i > Len(s) THEN <<>>
        ELSE LET next == IF i < Len(s) THEN s[i + 1] ELSE "end"
             IN  CASE s[i] = "\\" -> <<IF next = "n" THEN "LF" ELSE next>> \o value[i + 2]
                   [] s[i] = "quote" \/ (s[i] = "$" /\ next = "{") -> <<"end">>
                   [] s[i] = "CR" -> <<"LF">> \o value[IF next = "LF" THEN i + 2 ELSE i + 1]
                   [] OTHER -> <<s[i]>> \o value[i + 1]
  IN  value[1]

-----------------------------------------------------------------------------
(* HTML.                                                                   *)

EscapeHtml(s) ==
  Substituted(Substituted(Substituted(s, "&", <<"&", "amp;">>), "<", <<"&", "lt;">>), ">", <<"&", "gt;">>)

(* The text that the browser reads in HTML: entities are characters, and a *)
(* "<" before a name begins a tag, which has no text.                      *)
Entities == [amp |-> "amp;", lt |-> "lt;", gt |-> "gt;"]
Names == {"span", "/span", "br"}
TextContent(html) ==
  LET text[i \in 1 .. (Len(html) + 3)] ==
        IF i > Len(html) THEN <<>>
        ELSE LET next == IF i < Len(html) THEN html[i + 1] ELSE "end"
             IN  CASE html[i] = "&" /\ next = Entities.amp -> <<"&">> \o text[i + 2]
                   [] html[i] = "&" /\ next = Entities.lt -> <<"<">> \o text[i + 2]
                   [] html[i] = "&" /\ next = Entities.gt -> <<">">> \o text[i + 2]
                   [] html[i] = "<" /\ next \in Names -> text[i + 3]
                   [] OTHER -> <<html[i]>> \o text[i + 1]
  IN  text[1]

(* The blocks of code of a Markdown file: the content of their elements.   *)
(* Their class is left out; lang is put into it as it is, so that a        *)
(* language with a double quote would end the attribute.  The source of a  *)
(* diagram is read back with textContent, so that it is escaped and not    *)
(* highlighted.                                                            *)
HljsLanguages ==
  {"javascript", "js", "typescript", "ts", "python", "bash", "sh", "zsh", "json", "yaml", "yml",
   "css", "html", "xml", "sql", "go", "swift", "rust", "markdown", "md", "diff", "shell", "dockerfile"}

(* highlight.js (external): the text in spans, here two, divided at cut;   *)
(* it throws if it is asked for a language that was not registered.        *)
HljsHighlight(lang, text, cut) ==
  IF lang \notin HljsLanguages \cup {"auto"} THEN <<"throws">>
  ELSE <<"<", "span", ">">> \o EscapeHtml(SubSeq(text, 1, cut)) \o <<"<", "/span", ">">>
         \o <<"<", "span", ">">> \o EscapeHtml(SubSeq(text, cut + 1, Len(text))) \o <<"<", "/span", ">">>

RendererCode(lang, text, cut) ==
  IF lang = "mermaid" THEN EscapeHtml(text)
  ELSE HljsHighlight(IF lang \in HljsLanguages THEN lang ELSE "auto", text, cut)

(* The attributes of an image, between double quotes. *)
RendererImage(text, title) ==
  [alt |-> EscapeHtml(text), title |-> IF title = <<>> THEN <<>> ELSE EscapeHtml(title)]
AttributeValue(html) ==
  TextContent(IF "dquote" \in Range(html) THEN SubSeq(html, 1, SelectInSeq(html, LAMBDA c : c = "dquote") - 1) ELSE html)

-----------------------------------------------------------------------------
(* Places in a file: positions count from 0, lines and columns from 1.     *)

LineStarts(text) == {i \in 0 .. Len(text) : i = 0 \/ text[i] = "LF"}

LocationForPos(text, pos) ==
  LET starts == {i \in LineStarts(text) : i <= pos}
  IN  [line |-> Cardinality(starts), column |-> pos - Max(starts) + 1]

(* The position the editor is scrolled to; -1 if it stays where it is. *)
RevealLocation(text, line, column) ==
  LET safeLine == Min({line, Cardinality(LineStarts(text))})
      from == CHOOSE i \in LineStarts(text) : Cardinality({j \in LineStarts(text) : j <= i}) = safeLine
      to == Min({i \in from .. Len(text) : i = Len(text) \/ text[i + 1] = "LF"})
  IN  IF line < 1 THEN -1 ELSE Min({from + Max({1, column}) - 1, to})

-----------------------------------------------------------------------------
(* Identifiers.  Characters are "a" (a letter), "1" (a digit) and others;  *)
(* positions count from 0, and a range is <<from, to>>.                    *)

NoRange == <<>>
IsIdentifierChar(c) == c \in {"a", "1"}

(* At the end of the line, the last character; if that is none of an       *)
(* identifier, the one before it.                                          *)
IdentifierRangeAtPos(text, pos) ==
  LET char(i) == i \in 0 .. (Len(text) - 1) /\ IsIdentifierChar(text[i + 1])
      index == IF pos = Len(text) /\ pos > 0 THEN pos - 1 ELSE pos
      at == IF char(index) THEN index ELSE index - 1
      starts == {i \in 0 .. at : \A j \in i .. at : char(j)}
      start == CHOOSE i \in starts : \A j \in starts : i <= j
      ends == {i \in at + 1 .. Len(text) : \A j \in at .. (i - 1) : char(j)}
      end == CHOOSE i \in ends : \A j \in ends : j <= i
  IN  IF ~char(at) \/ text[start + 1] # "a" THEN NoRange ELSE <<start, end>>

-----------------------------------------------------------------------------
(* Images.  A path is [abs, segs], its segments being "", ".", ".." and    *)
(* names; the source of an image may have a scheme.                        *)

IsHere(seg) == seg \in {"", "."}

NormalizePath(p) ==
  LET out[k \in 0 .. Len(p.segs)] ==
        IF k = 0 THEN <<>>
        ELSE IF IsHere(p.segs[k]) THEN out[k - 1]
        ELSE IF p.segs[k] # ".." THEN Append(out[k - 1], p.segs[k])
        ELSE IF out[k - 1] = <<>> THEN <<>> ELSE Front(out[k - 1])
  IN  [p EXCEPT !.segs = out[Len(p.segs)]]

(* The path that is asked for; dir is the directory of the Markdown file,  *)
(* the empty path if that is not known or the working directory.           *)
ResolveImagePath(src, dir) ==
  IF src.abs \/ dir = [abs |-> FALSE, segs |-> <<>>] THEN NormalizePath(src)
  ELSE NormalizePath([dir EXCEPT !.segs = @ \o src.segs])
=============================================================================
