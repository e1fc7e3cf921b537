---------------------------- MODULE TerminalInput ----------------------------
(***************************************************************************)
(* What the user does on the page of a terminal                            *)
(* (scripts/terminal-entry.js): keys, the Cmd state, hovering and clicking *)
(* links, selecting with the mouse, and the output that changes the screen *)
(* meanwhile.  xterm.js is external: it asks the link providers when the   *)
(* pointer enters a row, keeps their answers while it stays in the row,    *)
(* asks again when the row of a hovered link is rendered, and calls hover, *)
(* leave and activate.                                                     *)
(*                                                                         *)
(* Keyboard events reach the page only while it has the focus, and a page  *)
(* that loses it gets a blur event.  The release of a mouse button may be  *)
(* missed.                                                                 *)
(***************************************************************************)
EXTENDS TerminalLinks

CONSTANTS Screens,     \* the screens output or a reflow may produce
          NoLink, NotCached,
          MaxWrites    \* bound: how often the screen changes

ASSUME ScreensAreRows == Screens # {} /\ Screens \subseteq Seq(ScreenRow)
ASSUME ScreensAreEquallyHigh == \A s, t \in Screens : Len(s) = Len(t)
ASSUME WritesAreBounded == MaxWrites \in Nat

VARIABLES
  screen,    \* the rows of the active buffer
  buffer,    \* [alt, atBottom, writes, reflowed]
  cache,     \* _linkCache: per row, the URL links found there
  keys,      \* [cmd: the real key, focused, metaUrl: _metaPressed, metaPath: isMetaPressed]
  asked,     \* xterm: the row it asked about last and the answers of the providers
  hover,     \* xterm: the link under the pointer, or NoLink
  hoveredRanges, hoveredPathLink,
  overlay,   \* the ranges that are underlined
  mouse,     \* [button, dragging: _isDragging, selecting: xterm's state, selection]
  posted     \* the message the last step posted to the app

vars == <<screen, buffer, cache, keys, asked, hover, hoveredRanges, hoveredPathLink,
          overlay, mouse, posted>>

Rows == 1 .. Len(screen)
MaxRows == 1 .. (CHOOSE n \in {Len(s) : s \in Screens} : \A s \in Screens : Len(s) <= n)
Message == {"none", "input", "paste", "copy", "shortcut", "selection", "openUrl", "openPath"}

TypeOK ==
  /\ screen \in Screens
  /\ buffer \in [alt: BOOLEAN, atBottom: BOOLEAN,
                 writes: 0 .. MaxWrites, reflowed: BOOLEAN]
  /\ DOMAIN cache = MaxRows
  /\ keys \in [cmd: BOOLEAN, focused: BOOLEAN, metaUrl: BOOLEAN, metaPath: BOOLEAN]
  /\ hover # NoLink => hover.kind \in {"url", "path", "pathRest"} /\ hover.at \in hover.ranges
  /\ hoveredPathLink \in BOOLEAN
  /\ mouse \in [button: BOOLEAN, dragging: BOOLEAN, selecting: BOOLEAN, selection: BOOLEAN]
  /\ posted \in Message

EmptyCache == [y \in MaxRows |-> NotCached]

Init ==
  /\ screen \in Screens
  /\ buffer = [alt |-> FALSE, atBottom |-> TRUE, writes |-> 0, reflowed |-> FALSE]
  /\ cache = EmptyCache
  /\ keys = [cmd |-> FALSE, focused |-> FALSE, metaUrl |-> FALSE, metaPath |-> FALSE]
  /\ asked = [row |-> 0, url |-> {}, path |-> NotCached]
  /\ hover = NoLink /\ hoveredRanges = {} /\ hoveredPathLink = FALSE
  /\ overlay = {}
  /\ mouse = [button |-> FALSE, dragging |-> FALSE, selecting |-> FALSE, selection |-> FALSE]
  /\ posted = "none"

-----------------------------------------------------------------------------
(* The two Cmd flags.  (The app repeats each change of Cmd it sees as the  *)
(* first responder with terminalSetMetaPressed, which by then is the one   *)
(* that calls setMetaPressed(): the key event has done that.)              *)

(* The overlay after updateMetaState(pressed) for URL links. *)
UpdateMetaState(pressed) ==
  IF keys.metaUrl = pressed THEN overlay
  ELSE IF pressed /\ hoveredRanges # {} THEN hoveredRanges
  ELSE IF ~pressed THEN {} ELSE overlay

(* setMetaPressed() for path links: their provider is registered exactly   *)
(* while the flag is set, and its release forgets the hovered path link.   *)
SetMetaPressed(pressed) == hoveredPathLink' = (hoveredPathLink /\ pressed)

(* Both flags follow a key event of the page. *)
MetaEvent(k, pressed) ==
  /\ keys' = [k EXCEPT !.metaUrl = pressed, !.metaPath = pressed]
  /\ overlay' = UpdateMetaState(pressed)
  /\ SetMetaPressed(pressed)

CmdDown ==
  /\ ~keys.cmd
  /\ IF keys.focused THEN MetaEvent([keys EXCEPT !.cmd = TRUE], TRUE)
     ELSE keys' = [keys EXCEPT !.cmd = TRUE] /\ UNCHANGED <<overlay, hoveredPathLink>>
  /\ posted' = IF keys.focused THEN "shortcut" ELSE "none"
  /\ UNCHANGED <<screen, buffer, cache, asked, hover, hoveredRanges, mouse>>

CmdUp ==
  /\ keys.cmd
  /\ IF keys.focused THEN MetaEvent([keys EXCEPT !.cmd = FALSE], FALSE)
     ELSE keys' = [keys EXCEPT !.cmd = FALSE] /\ UNCHANGED <<overlay, hoveredPathLink>>
  /\ posted' = "none"
  /\ UNCHANGED <<screen, buffer, cache, asked, hover, hoveredRanges, mouse>>

\* Broken variant: no blur listener for the URL flag.
BlurKeepsMeta ==
  /\ keys.focused
  /\ keys' = [keys EXCEPT !.focused = FALSE, !.metaPath = FALSE]
  /\ SetMetaPressed(FALSE)
  /\ posted' = "none"
  /\ UNCHANGED <<screen, buffer, cache, asked, hover, hoveredRanges, overlay, mouse>>

Blur ==
  /\ keys.focused
  /\ MetaEvent([keys EXCEPT !.focused = FALSE], FALSE)
  /\ posted' = "none"
  /\ UNCHANGED <<screen, buffer, cache, asked, hover, hoveredRanges, mouse>>

(* terminalFocus(true), or a click. *)
TerminalFocus ==
  /\ ~keys.focused
  /\ keys' = [keys EXCEPT !.focused = TRUE]
  /\ posted' = "none"
  /\ UNCHANGED <<screen, buffer, cache, asked, hover, hoveredRanges, hoveredPathLink, overlay, mouse>>

(* A key other than Cmd: with Cmd it is a command of the app, Shift+Enter  *)
(* is sent as an escape sequence, and the rest is typed.                   *)
KeyMessage(key) ==
  IF ~keys.cmd THEN "input"
  ELSE CASE key = "v" -> "paste"
         [] key = "c" -> IF mouse.selection THEN "copy" ELSE "none"
         [] OTHER -> "shortcut"

KeyDown(key) ==
  /\ keys.focused
  /\ posted' = KeyMessage(key)
  /\ keys' = IF keys.cmd THEN [keys EXCEPT !.metaUrl = TRUE] ELSE keys
  /\ overlay' = IF keys.cmd THEN UpdateMetaState(TRUE) ELSE overlay
  /\ UNCHANGED <<screen, buffer, cache, asked, hover, hoveredRanges, hoveredPathLink, mouse>>

(* After Cmd+C the app may ask for the selection itself, and gets the one  *)
(* the page has by then.                                                   *)
CopySelection ==
  /\ posted' = IF mouse.selection THEN "copy" ELSE "none"
  /\ UNCHANGED <<screen, buffer, cache, keys, asked, hover, hoveredRanges, hoveredPathLink, overlay, mouse>>

(* The handler runs for each event of the key, and sends on keydown only. *)
ShiftEnter(type) ==
  /\ keys.focused /\ ~keys.cmd
  /\ posted' = IF type = "keydown" THEN "input" ELSE "none"
  /\ UNCHANGED <<screen, buffer, cache, keys, asked, hover, hoveredRanges, hoveredPathLink, overlay, mouse>>

-----------------------------------------------------------------------------
(* Links under the pointer.                                                *)

(* provideLinks() of the URL provider, with its cache c. *)
CachedUrlLinks(s, c, y) == IF c[y] = NotCached THEN UrlLinks(s, y) ELSE c[y]

(* xterm asks the providers that are registered; the URL provider is first. *)
Ask(s, c, y) ==
  [row |-> y, url |-> CachedUrlLinks(s, c, y),
   path |-> IF keys.metaPath THEN PathLinks(s, y) ELSE NotCached]
LinkAt(answers, pos) ==
  LET At(links) == {l \in links : l.at = pos}
      paths == IF keys.metaPath /\ answers.path # NotCached THEN At(answers.path) ELSE {}
  IN  IF At(answers.url) # {} THEN CHOOSE l \in At(answers.url) : TRUE
      ELSE IF paths # {} THEN CHOOSE l \in paths : TRUE
      ELSE NoLink

(* leave() of the link that was hovered, hover() of the one that is now. *)
HoverLink(l) ==
  /\ hover' = l
  /\ hoveredRanges' = IF l = NoLink \/ l.kind # "url" THEN {} ELSE l.ranges
  /\ hoveredPathLink' = (l # NoLink /\ l.kind = "path")
  /\ overlay' = IF l = NoLink \/ (l.kind = "url" /\ ~keys.metaUrl) THEN {} ELSE l.ranges

\* Broken variant: no mouseup is dispatched for xterm.
EndOwnDrag(m) == IF m.dragging /\ ~m.button THEN [m EXCEPT !.dragging = FALSE] ELSE m

(* The mouse enters the word at pos; a drag whose button is up ends first. *)
(* (Over a path link the page also takes the Cmd state from the event:     *)
(* that changes nothing, because isMetaPressed is only set with Cmd down.) *)
EndStuckDrag(m) ==
  IF m.dragging /\ ~m.button THEN [m EXCEPT !.dragging = FALSE, !.selecting = FALSE] ELSE m

MouseMove(pos) ==
  LET answers == IF asked.row = pos[1] THEN asked ELSE Ask(screen, cache, pos[1])
  IN  /\ mouse' = EndStuckDrag(mouse)
      /\ hover # NoLink => hover.at # pos
      /\ asked' = answers
      /\ cache' = IF asked.row = pos[1] THEN cache ELSE [cache EXCEPT ![pos[1]] = answers.url]
      /\ HoverLink(LinkAt(answers, pos))
      /\ posted' = "none"
      /\ UNCHANGED <<screen, buffer, keys>>

MouseLeave ==
  /\ hover # NoLink
  /\ HoverLink(NoLink)
  /\ posted' = "none"
  /\ UNCHANGED <<screen, buffer, cache, keys, asked, mouse>>

Activate ==
  /\ hover # NoLink
  /\ posted' = IF hover.kind # "url" THEN "openPath" ELSE IF keys.metaUrl THEN "openUrl" ELSE "none"
  /\ UNCHANGED <<screen, buffer, cache, keys, asked, hover, hoveredRanges, hoveredPathLink, overlay, mouse>>

-----------------------------------------------------------------------------
(* Output and reflow.                                                      *)

ShowScreen(s) ==
  /\ buffer.writes < MaxWrites
  /\ screen' = s
  /\ posted' = "none"
  /\ UNCHANGED <<keys, mouse>>

(* xterm renders the rows that changed; it asks again for the row of the   *)
(* hovered link, and keeps what it was told of a row without one.          *)
Render(s, rendered, c) ==
  IF hover # NoLink /\ rendered
  THEN LET y == hover.at[1]
       IN  /\ asked' = Ask(s, c, y)
           /\ cache' = [c EXCEPT ![y] = CachedUrlLinks(s, c, y)]
           /\ HoverLink(LinkAt(Ask(s, c, y), hover.at))
  ELSE cache' = c /\ UNCHANGED <<asked, hover, hoveredRanges, hoveredPathLink, overlay>>

\* Broken variant: onWriteParsed does not empty the cache.
TerminalWriteKeepsCache(s, alt, rendered) ==
  /\ ShowScreen(s)
  /\ ~rendered => hover # NoLink /\ s[hover.at[1]] = screen[hover.at[1]]
  /\ Render(s, rendered, cache)
  /\ buffer' = [alt |-> alt, atBottom |-> buffer.atBottom \/ (buffer.alt /\ ~alt),
                writes |-> buffer.writes + 1, reflowed |-> FALSE]

(* terminalWrite(), then onWriteParsed once the output has been parsed. *)
TerminalWrite(s, alt, rendered) ==
  /\ ShowScreen(s)
  /\ ~rendered => hover # NoLink /\ s[hover.at[1]] = screen[hover.at[1]]
  /\ Render(s, rendered, EmptyCache)
  /\ buffer' = [alt |-> alt, atBottom |-> buffer.atBottom \/ (buffer.alt /\ ~alt),
                writes |-> buffer.writes + 1, reflowed |-> FALSE]

(* term.resize() reflows the rows and writes nothing; xterm forgets the    *)
(* link and will ask again.                                                *)
Reflow(s) ==
  /\ s # screen
  /\ ShowScreen(s)
  /\ HoverLink(NoLink)
  /\ asked' = [asked EXCEPT !.row = 0]
  /\ buffer' = [buffer EXCEPT !.writes = @ + 1, !.reflowed = TRUE]
  /\ UNCHANGED cache

ScrollUp ==
  /\ buffer.atBottom /\ ~buffer.alt
  /\ buffer' = [buffer EXCEPT !.atBottom = FALSE]
  /\ posted' = "none"
  /\ UNCHANGED <<screen, cache, keys, asked, hover, hoveredRanges, hoveredPathLink, overlay, mouse>>

-----------------------------------------------------------------------------
(* Selecting.                                                              *)

MouseStep(m, message) ==
  /\ mouse' = m
  /\ posted' = message
  /\ UNCHANGED <<screen, buffer, cache, keys, asked, hover, hoveredRanges, hoveredPathLink, overlay>>

MouseDown ==
  /\ ~mouse.button
  /\ MouseStep([button |-> TRUE, dragging |-> TRUE, selecting |-> TRUE, selection |-> FALSE], "none")

(* The selection changed: it is copied at once. *)
SelectText ==
  /\ mouse.selecting
  /\ MouseStep([mouse EXCEPT !.selection = TRUE], "selection")

MouseUp ==
  /\ mouse.button
  /\ MouseStep([mouse EXCEPT !.button = FALSE, !.dragging = FALSE, !.selecting = FALSE], "none")

(* WKWebView may miss the release; the pointer still moves. *)
MouseUpMissed ==
  /\ mouse.button
  /\ MouseStep([mouse EXCEPT !.button = FALSE], "none")
MoveWithoutButton ==
  /\ ~mouse.button /\ mouse.selecting
  /\ MouseStep(EndStuckDrag(mouse), "none")

Next ==
  \/ CmdDown \/ CmdUp \/ Blur \/ TerminalFocus
  \/ \E key \in {"v", "c", "k"} : KeyDown(key)
  \/ CopySelection
  \/ \E type \in {"keydown", "keyup"} : ShiftEnter(type)
  \/ \E y \in Rows : \E i \in DOMAIN screen[y].words : MouseMove(<<y, i>>)
  \/ MouseLeave \/ Activate
  \/ \E s \in Screens : Reflow(s) \/ \E alt, rendered \in BOOLEAN : TerminalWrite(s, alt, rendered)
  \/ ScrollUp
  \/ MouseDown \/ SelectText \/ MouseUp \/ MouseUpMissed \/ MoveWithoutButton

(* A pointer over the terminal moves on. *)
Spec == Init /\ [][Next]_vars /\ WF_vars(MoveWithoutButton)
-----------------------------------------------------------------------------
(***************************************************************************)
(* "React to links only while Cmd is pressed, against mistaken clicks"     *)
(* (the comment at terminal-entry.js:162).  _metaPressed follows the real  *)
(* key through key events, and through the blur event when the key is      *)
(* released somewhere else: a click never opens a URL without Cmd.         *)
(***************************************************************************)
UrlNeedsCmd == keys.metaUrl => keys.cmd /\ keys.focused

(***************************************************************************)
(* The overlay outlives no link: underlines are shown for the link under   *)
(* the pointer only, through Cmd changes, output, blur and moves between   *)
(* links of the two providers (hidePeerUnderlines, 154-156).               *)
(***************************************************************************)
UnderlinesAreHovered == overlay # {} => hover # NoLink /\ overlay = hover.ranges

(***************************************************************************)
(* What the page remembers of a row are the links the screen shows there,  *)
(* although it is output, and not the cache, that decides: onWriteParsed   *)
(* empties the cache before anybody asks again (180-181).  A reflow writes *)
(* nothing, so the cache may be stale from then to the next output.        *)
(***************************************************************************)
CacheIsCurrent ==
  ~buffer.reflowed => \A y \in Rows : cache[y] # NotCached => cache[y] = UrlLinks(screen, y)

(***************************************************************************)
(* "WKWebView can miss mouseup events, leaving xterm in selection-extend   *)
(* mode" (787): while the pointer moves on, xterm does not keep selecting  *)
(* after the button is up.  It rests on _isDragging covering selecting.    *)
(***************************************************************************)
DragEnds == ~mouse.button ~> (mouse.button \/ ~mouse.selecting)

(***************************************************************************)
(* The page in every state: what it holds of the key, of the link under the*)
(* pointer and of its underlines is true, whatever events it missed.       *)
(***************************************************************************)
Inv == TypeOK /\ UrlNeedsCmd /\ UnderlinesAreHovered
=============================================================================
