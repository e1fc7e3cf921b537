--------------------------- MODULE MarkdownPreview ---------------------------
(***************************************************************************)
(* The preview of a Markdown file: its page (markdown-preview-entry.js)    *)
(* and the coordinator of its web view (MarkdownPreviewView.swift).  The   *)
(* file changes while its diagrams are drawn, one await after the other,   *)
(* while the text is searched, and while deleted blocks still fade away.   *)
(*                                                                         *)
(* A block of a file is [tag, text, html]; one with the tag "mermaid" is a *)
(* diagram.  A child of #preview has the identity of its element: the      *)
(* rendering it comes from, and its number in it (0 - k for the ghost of   *)
(* the k-th old block).  All text is in such elements: bare text that raw  *)
(* HTML puts right into #preview is left out (a mark in it loses its       *)
(* parent with the next rendering, and clearMarks() throws: 360-363).      *)
(***************************************************************************)
EXTENDS BlockDiff

CONSTANTS Docs,        \* contents of the file, as sequences of blocks
          Queries,     \* what the user searches for: words
          MaxChanges,  \* bound: how often the file changes
          MaxEvents    \* bound: those changes, and what the user does in the page

Blocks == UNION {ToSet(doc) : doc \in Docs}

ASSUME DocsAreSequences ==
  Docs \subseteq Seq(Blocks) /\ \A b \in Blocks : b.text \in Seq(ToSet(b.text))

ASSUME BoundsAreNumbers == MaxChanges \in Nat /\ MaxEvents \in Nat

VARIABLES
  content,  \* [doc: the content the view was given last, due: updateNSView() is]
  view,     \* the coordinator: [ready, pending: pendingContent, last: lastRendered,
            \*  scrollBack: 0 no, 1 due when the page is rendered, 2 the delay runs]
  page,     \* [root: the children, prev: prevBlocks, token: renderToken,
            \*  runs: the renderMermaidBlocks() that await a drawing]
  find,     \* [visible: findBarVisible, focused: the input has the focus,
            \*  marks: the <mark>s, current: currentIdx + 1]
  scroll,   \* [pos, scheduled: _scrollPostScheduled, store: MarkdownScrollStore]
  toApp, toPage,
  counts    \* [changes, events, group]

vars == <<content, view, page, find, scroll, toApp, toPage, counts>>

NoDoc == <<>>
Hidden == [visible |-> FALSE, focused |-> FALSE, marks |-> <<>>, current |-> 0]
IsDiagram(child) == child.block.tag = "mermaid" /\ child.class # "ghost"

(* Bound: in a behaviour the user either searches, or clicks and scrolls. *)
Groups == {"searching", "reading"}

Messages == [kind: {"ready", "openUrl"}] \cup [kind: {"scroll"}, pos: 0 .. 1]

TypeOK ==
  /\ content \in [doc: Docs, due: BOOLEAN]
  /\ view.ready \in BOOLEAN /\ view.scrollBack \in 0 .. 2
  /\ view.pending \in Docs \cup {NoDoc} /\ view.last \in Docs \cup {NoDoc}
  /\ view.ready => view.pending = NoDoc
  /\ page.prev \in Docs \cup {NoDoc} /\ page.token \in 0 .. MaxChanges + 1
  /\ \A c \in ToSet(page.root) :
       /\ c.shows \in {"html", "svg", "error"}
       /\ c.class \in {"none", "same", "added", "modified", "ghost"}
       /\ c.marks \subseteq DOMAIN c.block.text
  /\ \A r \in page.runs : r.left # {} /\ r.token \in 1 .. page.token
  /\ find.current \in 0 .. Len(find.marks) /\ (find.marks # <<>> => find.current > 0)
  /\ scroll \in [pos: 0 .. 1, scheduled: BOOLEAN, store: 0 .. 1]
  /\ \A i \in DOMAIN toApp : toApp[i] \in Messages
  /\ counts \in [changes: 0 .. MaxChanges, events: 0 .. MaxEvents, group: Groups]

(* makeNSView *)
Init ==
  /\ content \in [doc: Docs, due: {TRUE}]
  /\ view = [ready |-> FALSE, pending |-> content.doc, last |-> NoDoc, scrollBack |-> 1]
  /\ page = [root |-> <<>>, prev |-> NoDoc, token |-> 0, runs |-> {}]
  /\ find = Hidden
  /\ counts \in [changes: {0}, events: {0}, group: Groups]
  /\ scroll \in [pos: {0}, scheduled: {FALSE}, store: IF counts.group = "reading" THEN 0 .. 1 ELSE {0}]
  /\ toApp = <<[kind |-> "ready"]>> /\ toPage = <<>>

-----------------------------------------------------------------------------
(* The coordinator.                                                        *)

Script(kind) == [kind |-> kind]
RenderScript(doc) == [kind |-> "render", doc |-> doc]

\* Broken variant: content that comes while the page loads is taken as rendered.
UpdateNSViewEarly ==
  /\ content.due /\ content' = [content EXCEPT !.due = FALSE]
  /\ view' = [view EXCEPT !.last = content.doc]
  /\ toPage' = IF view.ready /\ view.last # content.doc
               THEN Append(toPage, RenderScript(content.doc)) ELSE toPage
  /\ UNCHANGED <<page, find, scroll, toApp, counts>>

(* SwiftUI updates the view once for one or more changes. *)
UpdateNSView ==
  /\ content.due /\ content' = [content EXCEPT !.due = FALSE]
  /\ IF view.last = content.doc THEN UNCHANGED <<view, toPage>>
     ELSE IF view.ready
     THEN /\ view' = [view EXCEPT !.last = content.doc]
          /\ toPage' = Append(toPage, RenderScript(content.doc))
     ELSE view' = [view EXCEPT !.last = content.doc, !.pending = content.doc] /\ UNCHANGED toPage
  /\ UNCHANGED <<page, find, scroll, toApp, counts>>

(* The messages of the page. *)
AppReceives ==
  /\ toApp # <<>>
  /\ LET m == Head(toApp)
     IN  /\ IF m.kind = "ready"
            THEN /\ view' = [view EXCEPT !.ready = TRUE, !.last = view.pending, !.pending = NoDoc]
                 /\ toPage' = Append(toPage, RenderScript(view.pending))
            ELSE UNCHANGED <<view, toPage>>
         /\ scroll' = IF m.kind = "scroll" THEN [scroll EXCEPT !.store = m.pos] ELSE scroll
  /\ toApp' = Tail(toApp)
  /\ UNCHANGED <<content, page, find, counts>>

(* Somebody writes the file, and its new content reaches the view. *)
FileChanged ==
  /\ counts.changes < MaxChanges /\ counts.events < MaxEvents
  /\ \E doc \in Docs \ {content.doc} : content' = [doc |-> doc, due |-> TRUE]
  /\ counts' = [counts EXCEPT !.changes = @ + 1, !.events = @ + 1]
  /\ UNCHANGED <<view, page, find, scroll, toApp, toPage>>

(* The delay of 50 ms after the first rendering ends. *)
ApplyInitialScroll ==
  /\ view.scrollBack = 2
  /\ view' = [view EXCEPT !.scrollBack = 0]
  /\ toPage' = Append(toPage, [kind |-> "setScrollPercent", pos |-> 1])
  /\ UNCHANGED <<content, page, find, scroll, toApp, counts>>

-----------------------------------------------------------------------------
(* Scrolling.  The page is longer than the view when it has two children.  *)

Tall(root) == Len(root) > 1

(* The position becomes pos as far as the page is long enough; a change    *)
(* fires an event, whose position is posted in the next frame.             *)
ScrolledTo(pos, root) ==
  LET at == IF Tall(root) THEN pos ELSE 0
  IN  [scroll EXCEPT !.pos = at, !.scheduled = @ \/ at # scroll.pos]

PostScrollPercent ==
  /\ scroll.scheduled
  /\ scroll' = [scroll EXCEPT !.scheduled = FALSE]
  /\ toApp' = Append(toApp, [kind |-> "scroll", pos |-> scroll.pos])
  /\ UNCHANGED <<content, view, page, find, toPage, counts>>

-----------------------------------------------------------------------------
(* Rendering.                                                              *)

Child(id, block, class) ==
  [id |-> id, block |-> block, class |-> class, shows |-> "html", marks |-> {}]

(* What applyDiffHighlights() makes of a document after another one. *)
Diff(old, new) ==
  LET children == Children(old, new)
  IN  [i \in DOMAIN children |->
         LET c == children[i]
         IN  IF c.ghost THEN Child(0 - c.index, old[c.index], "ghost")
             ELSE Child(c.index, new[c.index], DiffClass(old, new, c.index))]

(* All of them, as a constant that TLC evaluates once. *)
Diffs == {[old |-> old, new |-> new, children |-> <<>> \o Diff(old, new)] : old \in Docs, new \in Docs}

(* The children of the page after the token-th rendering. *)
Rendered(token, old, new) ==
  LET children == IF old = NoDoc THEN [k \in DOMAIN new |-> Child(k, new[k], "none")]
                  ELSE (CHOOSE d \in Diffs : d.old = old /\ d.new = new).children
  IN  [i \in DOMAIN children |-> [children[i] EXCEPT !.id = <<token, @>>]]

(* The diagrams of the page, and the first of some: live children are in   *)
(* the order of their numbers.                                             *)
Diagrams(root) == {c \in ToSet(root) : IsDiagram(c)}
FirstOf(codes) == CHOOSE c \in codes : \A d \in codes : c.id[2] <= d.id[2]

MarkdownRender(doc) ==
  LET token == page.token + 1
      root == Rendered(token, page.prev, doc)
      diagrams == Diagrams(root)
  IN  /\ page' = [root |-> root, prev |-> doc, token |-> token,
                  runs |-> IF diagrams = {} THEN page.runs
                           ELSE page.runs \cup {[token |-> token, left |-> diagrams]}]
      /\ scroll' = ScrolledTo(scroll.pos, root)

(* The element, if it is still in the page, is replaced by what is drawn. *)
Replaced(root, code, as) ==
  [i \in DOMAIN root |->
     IF root[i].id = code.id THEN [root[i] EXCEPT !.shows = as, !.marks = {}] ELSE root[i]]

(* What is left of a run once its first diagram is drawn. *)
Rest(r) ==
  LET left == r.left \ {FirstOf(r.left)} IN IF left = {} THEN {} ELSE {[r EXCEPT !.left = left]}

\* Broken variant: the loop is left when a diagram has an error.
MermaidRenderedOrGivesUp(r, as) ==
  /\ r \in page.runs
  /\ page' = IF r.token # page.token THEN [page EXCEPT !.runs = @ \ {r}]
             ELSE [page EXCEPT !.root = Replaced(@, FirstOf(r.left), as),
                               !.runs = (@ \ {r}) \cup IF as = "error" THEN {} ELSE Rest(r)]
  /\ UNCHANGED <<content, view, find, scroll, toApp, toPage, counts>>

\* Broken variant: drawn without a look at the token, at the place of the diagram.
MermaidRenderedInPlace(r, as) ==
  LET k == FirstOf(r.left).id[2]
  IN  /\ r \in page.runs
      /\ page' = [page EXCEPT
                    !.root = IF k \in DOMAIN @
                             THEN [@ EXCEPT ![k].shows = as, ![k].block = FirstOf(r.left).block] ELSE @,
                    !.runs = (@ \ {r}) \cup Rest(r)]
      /\ UNCHANGED <<content, view, find, scroll, toApp, toPage, counts>>

(* mermaid.render() answers with a drawing or an error.  A run whose token *)
(* is old ends; the others replace the diagram, and go on with the next.   *)
MermaidRendered(r, as) ==
  /\ r \in page.runs
  /\ UNCHANGED <<content, view, find, scroll, toApp, toPage, counts>>
  /\ page' = IF r.token # page.token THEN [page EXCEPT !.runs = @ \ {r}]
             ELSE [page EXCEPT !.root = Replaced(@, FirstOf(r.left), as),
                               !.runs = (@ \ {r}) \cup Rest(r)]

(* The animation of a ghost ends: it is removed. *)
GhostEnds ==
  /\ UNCHANGED <<content, view, find, toApp, toPage, counts>>
  /\ \E i \in DOMAIN page.root :
       /\ page.root[i].class = "ghost"
       /\ page' = [page EXCEPT !.root = RemoveAt(@, i)]
       /\ scroll' = ScrolledTo(scroll.pos, page'.root)

-----------------------------------------------------------------------------
(* The find bar.                                                           *)

(* A mark is <<element, what it shows, number of the word>>. *)
MarksIn(root, query) ==
  LET mark(c, k) == IF c.block.text[k] = query THEN << <<c.id, c.shows, k>> >> ELSE <<>>
      marks(c) == FlattenSeq([k \in DOMAIN c.block.text |-> mark(c, k)])
  IN  FlattenSeq([i \in DOMAIN root |-> marks(root[i])])

(* The marks become text again, in the page those whose element is still   *)
(* there; the others have their parent, outside of it.                     *)
ClearedMarks(root) ==
  [i \in DOMAIN root |->
     [root[i] EXCEPT !.marks = {k \in @ : <<root[i].id, root[i].shows, k>> \notin ToSet(find.marks)}]]

Marked(root, marks) ==
  [i \in DOMAIN root |->
     [root[i] EXCEPT !.marks =
        @ \cup {k \in DOMAIN root[i].block.text : <<root[i].id, root[i].shows, k>> \in ToSet(marks)}]]

(* A mark that is still in the page is scrolled into view: in the first    *)
(* child it is at the top.                                                 *)
InPage(mark, root) == \E c \in ToSet(root) : c.id = mark[1] /\ c.shows = mark[2]
ScrolledIntoView(mark, root) ==
  IF InPage(mark, root) THEN ScrolledTo(IF root[1].id = mark[1] THEN 0 ELSE 1, root) ELSE scroll

(* The first mark is scrolled into view. *)
DoSearch(query) ==
  LET cleared == ClearedMarks(page.root)
      marks == IF query = "" THEN <<>> ELSE MarksIn(cleared, query)
  IN  /\ page' = [page EXCEPT !.root = Marked(cleared, marks)]
      /\ find' = [find EXCEPT !.marks = marks, !.current = IF marks = <<>> THEN 0 ELSE 1]
      /\ scroll' = IF marks = <<>> THEN scroll ELSE ScrolledIntoView(Head(marks), page.root)

HideFindBar ==
  /\ page' = [page EXCEPT !.root = ClearedMarks(@)]
  /\ find' = [find EXCEPT !.visible = FALSE, !.marks = <<>>, !.current = 0]

\* Broken variant: what was marked is forgotten.
ShowFindBarForgets ==
  IF find.visible THEN HideFindBar
  ELSE /\ UNCHANGED page
       /\ find' = [visible |-> TRUE, focused |-> TRUE, marks |-> <<>>, current |-> 0]

ShowFindBar ==
  IF find.visible THEN HideFindBar
  ELSE /\ page' = [page EXCEPT !.root = ClearedMarks(@)]
       /\ find' = [visible |-> TRUE, focused |-> TRUE, marks |-> <<>>, current |-> 0]

(* Bounds: the number of things the user does in the page, and which. *)
Event(groups) ==
  /\ counts.group \in groups
  /\ page.token > 0 /\ counts.events < MaxEvents
  /\ counts' = [counts EXCEPT !.events = @ + 1]

(* The user types into the input, which keeps the focus when the bar is    *)
(* hidden, until something else is clicked.                                *)
FindInput ==
  /\ Event({"searching"}) /\ find.focused
  /\ \E query \in Queries \cup {""} : DoSearch(query)
  /\ UNCHANGED <<content, view, toApp, toPage>>

FindEnter ==
  /\ Event({"searching"}) /\ find.focused /\ find.marks # <<>>
  /\ find' = [find EXCEPT !.current = (@ % Len(find.marks)) + 1]
  /\ scroll' = ScrolledIntoView(find.marks[find'.current], page.root)
  /\ UNCHANGED <<content, view, page, toApp, toPage>>

(* Escape in the input hides the bar, and so does the key equivalent of    *)
(* the web view; Cmd+F is a key equivalent only.                           *)
FindEscape ==
  /\ Event({"searching"}) /\ find.focused
  /\ HideFindBar
  /\ UNCHANGED <<content, view, scroll, toApp, toPage>>

KeyEquivalent(kind) ==
  /\ Event({"searching"})
  /\ toPage' = Append(toPage, Script(kind))
  /\ UNCHANGED <<content, view, page, find, scroll, toApp>>

(* A click: in a link it is passed on to the app, which opens it. *)
Click(link) ==
  /\ Event(IF link THEN {"reading"} ELSE {"searching"})
  /\ find' = [find EXCEPT !.focused = FALSE]
  /\ toApp' = IF link THEN Append(toApp, [kind |-> "openUrl"]) ELSE toApp
  /\ UNCHANGED <<content, view, page, scroll, toPage>>

UserScrolls ==
  /\ Event({"reading"}) /\ Tall(page.root)
  /\ scroll' = ScrolledTo(1 - scroll.pos, page.root)
  /\ UNCHANGED <<content, view, page, find, toApp, toPage>>

-----------------------------------------------------------------------------
(* The page runs a script.  When the first rendering is done, the position *)
(* that is stored then is due.                                             *)
PageRuns ==
  /\ toPage # <<>>
  /\ toPage' = Tail(toPage)
  /\ LET s == Head(toPage)
     IN  CASE s.kind = "render" ->
                /\ MarkdownRender(s.doc)
                /\ view' = IF view.scrollBack # 1 THEN view
                           ELSE [view EXCEPT !.scrollBack = IF scroll.store > 0 THEN 2 ELSE 0]
                /\ UNCHANGED find
           [] s.kind = "setScrollPercent" ->
                /\ scroll' = ScrolledTo(s.pos, page.root)
                /\ UNCHANGED <<view, page, find>>
           [] s.kind = "showFindBar" -> ShowFindBar /\ UNCHANGED <<view, scroll>>
           [] s.kind = "hideFindBar" -> HideFindBar /\ UNCHANGED <<view, scroll>>
  /\ UNCHANGED <<content, toApp, counts>>

MermaidAnswers(token) ==
  \E r \in page.runs : r.token = token /\ \E as \in {"svg", "error"} : MermaidRendered(r, as)

Next ==
  \/ UpdateNSView \/ AppReceives \/ FileChanged \/ ApplyInitialScroll
  \/ PageRuns \/ PostScrollPercent \/ GhostEnds
  \/ \E token \in 1 .. MaxChanges + 1 : MermaidAnswers(token)
  \/ FindInput \/ FindEnter \/ FindEscape
  \/ \E kind \in {"showFindBar", "hideFindBar"} : KeyEquivalent(kind)
  \/ \E link \in BOOLEAN : Click(link)
  \/ UserScrolls

(* SwiftUI updates the view, messages and scripts arrive, frames are       *)
(* drawn, drawings are answered and animations end: as long as there is    *)
(* anything of this, some of it happens.                                   *)
Progress ==
  \/ UpdateNSView \/ AppReceives \/ PageRuns
  \/ ApplyInitialScroll \/ PostScrollPercent \/ GhostEnds
  \/ \E token \in 1 .. MaxChanges + 1 : MermaidAnswers(token)
Fairness == WF_vars(Progress)

Spec == Init /\ [][Next]_vars /\ Fairness

-----------------------------------------------------------------------------
(* Ghosts aside, the children are the blocks of a document, in its order.  *)
ShowsAll(root, doc) ==
  LET live == {i \in DOMAIN root : root[i].class # "ghost"}
  IN  \E at \in [DOMAIN doc -> live] :
        /\ \A k \in DOMAIN doc : root[at[k]].block = doc[k]
        /\ \A j, k \in DOMAIN doc : j < k => at[j] < at[k]
        /\ {at[k] : k \in DOMAIN doc} = live

BlocksOf(children) == [i \in DOMAIN children |-> children[i].block]

(***************************************************************************)
(* "A late SVG must not overwrite the DOM of a newer rendering" (the       *)
(* comment on renderToken, 155): ghosts aside, the page always shows       *)
(* the blocks of the last rendering, whichever drawings of earlier ones    *)
(* are still under way, and only its diagrams are ever drawn.              *)
(***************************************************************************)
NoOldDrawing ==
  /\ ShowsAll(page.root, page.prev)
  /\ \A c \in ToSet(page.root) : c.shows # "html" => IsDiagram(c)

(***************************************************************************)
(* Every mark in the page is one that clearMarks() knows, so that hiding   *)
(* the bar or the next search removes it: also marks made while the bar    *)
(* was hidden, and after blocks were replaced or rendered again.           *)
(***************************************************************************)
MarksAreKnown ==
  \A c \in ToSet(page.root) : \A k \in c.marks : <<c.id, c.shows, k>> \in ToSet(find.marks)

(***************************************************************************)
(* However the changes of the file interleave with the loading of the page *)
(* and with each other, in the end the page shows the content the view was *)
(* given last and nothing else: no deleted block stays as a ghost.         *)
(***************************************************************************)
PreviewShowsContent == <>[](BlocksOf(page.root) = content.doc)

(***************************************************************************)
(* In the end no diagram of the page is left as source: each is drawn or   *)
(* shows its error, whatever became of the ones before it and of the       *)
(* drawings of earlier renderings.                                         *)
(***************************************************************************)
DiagramsAreDrawn == <>[](\A c \in ToSet(page.root) : IsDiagram(c) => c.shows # "html")

(***************************************************************************)
(* The preview in every state: the live blocks are those of the last       *)
(* rendering, and the find bar's current mark is one that there is.        *)
(***************************************************************************)
Inv == TypeOK /\ NoOldDrawing
=============================================================================
