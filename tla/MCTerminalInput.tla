--------------------------- MODULE MCTerminalInput ---------------------------
(***************************************************************************)
(* Two screens: a URL that goes on in an indented row, and a URL and a     *)
(* path, of which the path goes on in a soft-wrapped row.                  *)
(***************************************************************************)
EXTENDS TerminalInput

Word(kind) == [kind |-> kind, trail |-> FALSE]
Row(words) == [wrapped |-> FALSE, indent |-> FALSE, words |-> words]
Soft(words) == [wrapped |-> TRUE, indent |-> FALSE, words |-> words]
Indented(words) == [wrapped |-> FALSE, indent |-> TRUE, words |-> words]

MCScreens ==
  {<<Row(<<Word("text"), Word("url")>>), Indented(<<Word("seg")>>)>>,
   <<Row(<<Word("url"), Word("path")>>), Soft(<<Word("seg"), Word("text")>>)>>}
=============================================================================
