-------------------------- MODULE MCMarkdownPreview --------------------------
(* Two diagrams and a paragraph; the paragraph and a diagram changed; one *)
(* paragraph that has only another format.                                *)
EXTENDS MarkdownPreview

Para(text, html) == [tag |-> "p", text |-> text, html |-> html]
Diagram(text) == [tag |-> "mermaid", text |-> text, html |-> "code"]

MCDocs ==
  {<<Diagram(<<"a">>), Para(<<"b", "a">>, "plain"), Diagram(<<"c">>)>>,
   <<Diagram(<<"c">>), Para(<<"b", "d">>, "plain")>>,
   <<Para(<<"b", "a">>, "strong")>>}
MCQueries == {"a"}
=============================================================================
