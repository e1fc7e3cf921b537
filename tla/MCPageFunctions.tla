--------------------------- MODULE MCPageFunctions ---------------------------
(***************************************************************************)
(* The inputs: all short sequences over the characters, cells, blocks,     *)
(* segments, lines and rows that the functions tell apart.                 *)
(***************************************************************************)
EXTENDS PageFunctions

SeqsUpTo(S, n) == UNION {[1 .. k -> S] : k \in 0 .. n}
Of(kind, name, values) == {[k \in {"kind", name} |-> IF k = "kind" THEN kind ELSE v] : v \in values}

(* Screens of three rows. *)
Word(kind) == [kind |-> kind, trail |-> FALSE]
Stop(kind) == [kind |-> kind, trail |-> TRUE]
Hard(words) == [wrapped |-> FALSE, indent |-> FALSE, words |-> words]
Soft(words) == [wrapped |-> TRUE, indent |-> FALSE, words |-> words]
Indented(words) == [wrapped |-> FALSE, indent |-> TRUE, words |-> words]
ScreenRows ==
  {Hard(<<>>), Hard(<<Word("url")>>), Hard(<<Word("text"), Word("url")>>),
   Hard(<<Word("url"), Word("text")>>), Hard(<<Stop("url")>>),
   Indented(<<Word("seg")>>), Hard(<<Stop("seg")>>), Soft(<<Word("seg")>>),
   Soft(<<Word("seg"), Word("text")>>), Hard(<<Word("seg"), Word("url")>>),
   Hard(<<Word("minus"), Word("seg")>>), Hard(<<Word("plus"), Word("seg")>>),
   Hard(<<Word("text"), Word("path")>>), Hard(<<Word("text")>>)}

(* An empty cell, narrow and wide ones, and the second half of those. *)
Cells ==
  {[chars |-> 0, width |-> 0], [chars |-> 0, width |-> 1], [chars |-> 1, width |-> 1],
   [chars |-> 1, width |-> 2], [chars |-> 2, width |-> 1], [chars |-> 2, width |-> 2]}

Block(text) == [tag |-> "p", text |-> text, html |-> "plain"]
Blocks == {Block(<<"a">>), Block(<<"b">>), Block(<<"a", "b">>)}
BlockPairs ==
  {[kind |-> "blocks", old |-> o, new |-> n] : o \in SeqsUpTo(Blocks, 3), n \in SeqsUpTo(Blocks, 3)}

Path(abs, segs) == [abs |-> abs, segs |-> segs]
Images ==
  {[kind |-> "image", src |-> Path(a, s), dir |-> Path(b, d)] :
     a \in BOOLEAN, b \in BOOLEAN, s \in SeqsUpTo({"", ".", "..", "x"}, 4) \ {<<>>}, d \in {<<>>, <<"docs">>}}

Hunk(old, new) == [kind |-> "hunk", old |-> old, new |-> new]
Line(sign, code) == [kind |-> "line", text |-> <<sign>> \o code]
DiffLines ==
  {Line("+", <<"<">>), Line("-", <<"<">>), Line("-", <<" ", "&">>), Line(" ", <<"<">>),
   Line("-", <<"-", "-">>), Line("+", <<"+", "+">>), Line("\\", <<"n">>)}
LaterLines ==
  {Line("+", <<>>), Line("-", <<>>), Line(" ", <<>>), Line("-", <<"-", "-">>), Hunk(12, 12),
   [kind |-> "line", text |-> <<>>]}
(* A mode before the first hunk is not taken for a header. *)
Headers == {<<>>, <<Line("diff ", <<>>), Line("n", <<>>)>>}
Diffs ==
  {[kind |-> "diff", lines |-> headers \o <<Hunk(3, 4)>> \o a \o h \o b] :
     headers \in Headers, a \in SeqsUpTo(DiffLines, 2),
     h \in {<<>>, <<Hunk(5, 9)>>}, b \in SeqsUpTo(LaterLines, 2)}

Files ==
  {[name |-> n, ext |-> ""] : n \in {"dockerfile", "makefile", ".env", "other"}}
  \cup {[name |-> "other", ext |-> e] :
          e \in UNION {EditorLanguages[l] : l \in DOMAIN EditorLanguages}
                \cup UNION {DiffLanguages[l] : l \in DOMAIN DiffLanguages}}

Codes ==
  {[kind |-> "code", lang |-> l, text |-> t] :
     l \in {"", "mermaid", "python", "kotlin"}, t \in SeqsUpTo({"&", "<", "lt;", "br"}, 3)}

MCInputs ==
  Of("screen", "screen", [1 .. 3 -> ScreenRows]) \cup Of("cells", "cells", SeqsUpTo(Cells, 4))
  \cup Of("script", "text", SeqsUpTo({"\\", "quote", "$", "{", "n", "CR", "LF"}, 4))
  \cup Of("html", "text", SeqsUpTo({"&", "<", ">", "amp;", "lt;", "br", "dquote"}, 4))
  \cup Codes \cup Of("place", "text", SeqsUpTo({"a", "LF"}, 5))
  \cup Of("line", "text", SeqsUpTo({"a", "1", "."}, 6))
  \cup BlockPairs \cup Images \cup Diffs \cup Of("file", "file", Files)
=============================================================================
