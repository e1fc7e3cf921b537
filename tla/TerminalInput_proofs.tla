------------------------ MODULE TerminalInput_proofs ------------------------
(***************************************************************************)
(* Proofs about the links of the terminal, for every screen, about keys,   *)
(* pointer, underlines and the link cache, for any set of screens, and     *)
(* about the view around the page (TerminalView), for any sizes and fonts. *)
(***************************************************************************)
EXTENDS TerminalInput, TerminalView, PageFunctions_proofs

-----------------------------------------------------------------------------
(* What the providers answer.                                              *)

Urls == {"url"}
Paths == {"path", "pathRest"}

(* A link lies on the screen, and is underlined where the pointer is. *)
GoodLink(l, kinds) == l.kind \in kinds /\ l.at \in l.ranges /\ l.at[1] \in MaxRows
GoodLinks(links, kinds) == \A l \in links : GoodLink(l, kinds)

(* All screens are equally high. *)
LEMMA RowsOfScreens ==
  ASSUME NEW s \in Screens
  PROVE  s \in Seq(ScreenRow) /\ MaxRows = 1 .. Len(s)
<1>1. s \in Seq(ScreenRow)
  BY ScreensAreRows
<1> DEFINE heights == {Len(x) : x \in Screens}
           Highest(n) == \A x \in Screens : Len(x) <= n
<1>2. Len(s) \in heights /\ Highest(Len(s))
  BY <1>1, ScreensAreEquallyHigh
<1>3. \A n \in heights : n = Len(s)
  BY ScreensAreEquallyHigh
<1>4. (CHOOSE n \in heights : Highest(n)) \in heights
  BY <1>2
<1> QED BY <1>1, <1>3, <1>4 DEF MaxRows

(* The URL provider answers with good links. *)
LEMMA UrlLinksAreGood ==
  ASSUME NEW s \in Screens, NEW y \in MaxRows
  PROVE  GoodLinks(UrlLinks(s, y), Urls)
<1>1. s \in Seq(ScreenRow) /\ y \in 1 .. Len(s)
  BY RowsOfScreens
<1> SUFFICES ASSUME NEW l \in UrlLinks(s, y) PROVE GoodLink(l, Urls)
  BY DEF GoodLinks
<1>2. CASE ContinuesUrl(s, y)
  <2>1. l = UrlContinuedAt(s, y) /\ l.at \in l.ranges
    BY <1>1, <1>2, LinksAgree DEF UrlLinks
  <2> QED BY <2>1 DEF UrlContinuedAt, GoodLink, Urls
<1>3. CASE ~ContinuesUrl(s, y)
  <2>1. l \in UrlsOfRow(s, y)
    BY <1>3 DEF UrlLinks
  <2> QED BY <2>1 DEF UrlsOfRow, GoodLink, Urls
<1> QED BY <1>2, <1>3

(* The path provider answers with good links. *)
LEMMA PathLinksAreGood ==
  ASSUME NEW s \in Screens, NEW y \in MaxRows
  PROVE  GoodLinks(PathLinks(s, y), Paths)
<1> SUFFICES ASSUME NEW l \in PathLinks(s, y) PROVE GoodLink(l, Paths)
  BY DEF GoodLinks
<1>1. CASE ContinuesPath(s, y)
  BY <1>1 DEF PathLinks, PathContinuedAt, GoodLink, Paths
<1>2. CASE ~ContinuesPath(s, y)
  <2>1. l \in PathsOfRow(s, y)
    BY <1>2 DEF PathLinks
  <2>2. PICK i \in PathStarts(s, y) : l = [kind |-> "path", at |-> <<y, i>>,
                                           target |-> PathOf(s, y, i).target,
                                           ranges |-> PathOf(s, y, i).ranges]
    BY <2>1 DEF PathsOfRow
  <2>3. <<y, i>> \in PathOf(s, y, i).ranges
    BY DEF PathOf
  <2> QED BY <2>2, <2>3 DEF GoodLink, Paths
<1> QED BY <1>1, <1>2

(* What xterm is told of a row: it knows which providers there are. *)
Told(a) ==
  /\ a = [row |-> a.row, url |-> a.url, path |-> a.path]
  /\ GoodLinks(a.url, Urls)
  /\ a.path # NotCached => GoodLinks(a.path, Paths)

LEMMA CachedUrlLinksAreGood ==
  ASSUME NEW s \in Screens, NEW c, NEW y \in MaxRows,
         c[y] # NotCached => GoodLinks(c[y], Urls)
  PROVE  GoodLinks(CachedUrlLinks(s, c, y), Urls)
BY UrlLinksAreGood DEF CachedUrlLinks

LEMMA AnswersAreGood ==
  ASSUME NEW s \in Screens, NEW c, NEW y \in MaxRows,
         c[y] # NotCached => GoodLinks(c[y], Urls)
  PROVE  Told(Ask(s, c, y))
<1>1. GoodLinks(CachedUrlLinks(s, c, y), Urls)
  BY CachedUrlLinksAreGood
<1>2. GoodLinks(PathLinks(s, y), Paths)
  BY PathLinksAreGood
<1> QED BY <1>1, <1>2 DEF Told, Ask

(* The link under the pointer is one of the answers. *)
LEMMA LinkAtIsGood ==
  ASSUME NEW a, Told(a), NEW pos
  PROVE  LinkAt(a, pos) = NoLink \/ GoodLink(LinkAt(a, pos), Urls \cup Paths)
<1> DEFINE At(links) == {l \in links : l.at = pos}
           paths == IF keys.metaPath /\ a.path # NotCached THEN At(a.path) ELSE {}
<1>1. CASE At(a.url) # {}
  <2>1. LinkAt(a, pos) \in a.url
    BY <1>1 DEF LinkAt
  <2> QED BY <2>1 DEF Told, GoodLinks, GoodLink
<1>2. CASE At(a.url) = {} /\ paths # {}
  <2>1. a.path # NotCached /\ LinkAt(a, pos) \in a.path
    BY <1>2 DEF LinkAt
  <2> QED BY <2>1 DEF Told, GoodLinks, GoodLink
<1>3. CASE At(a.url) = {} /\ paths = {}
  BY <1>3 DEF LinkAt
<1> QED BY <1>1, <1>2, <1>3

-----------------------------------------------------------------------------
(* The page.                                                               *)

(* Every link that anybody remembers is good. *)
LinksAreGood ==
  /\ Told(asked)
  /\ \A y \in MaxRows : cache[y] # NotCached => GoodLinks(cache[y], Urls)
  /\ hover # NoLink => GoodLink(hover, Urls \cup Paths)

(* The ranges that Cmd would underline are those of the link under the     *)
(* pointer, which is why pressing it underlines no other.                  *)
RangesAreHovered ==
  hoveredRanges = IF hover = NoLink \/ hover.kind # "url" THEN {} ELSE hover.ranges

IInv == Inv /\ LinksAreGood /\ RangesAreHovered

(* What a step may do to the links, and what then follows from it. *)
LEMMA HoverKeepsInv ==
  ASSUME NEW l, l = NoLink \/ GoodLink(l, Urls \cup Paths), HoverLink(l)
  PROVE  /\ RangesAreHovered' /\ UnderlinesAreHovered' /\ hoveredPathLink' \in BOOLEAN
         /\ (hover # NoLink => GoodLink(hover, Urls \cup Paths))'
<1>1. RangesAreHovered'
  BY DEF HoverLink, RangesAreHovered
<1>2. UnderlinesAreHovered'
  BY DEF HoverLink, UnderlinesAreHovered
<1>3. hoveredPathLink' \in BOOLEAN
  BY DEF HoverLink
<1>4. hover' = l /\ MaxRows' = MaxRows
  BY DEF HoverLink, MaxRows
<1>5. (hover # NoLink => GoodLink(hover, Urls \cup Paths))'
  BY <1>4 DEF GoodLink, Urls, Paths, MaxRows
<1> QED BY <1>1, <1>2, <1>3, <1>5

LEMMA LinksStay ==
  LinksAreGood /\ UNCHANGED <<cache, asked, hover>> => LinksAreGood'
BY DEF LinksAreGood, Told, GoodLinks, GoodLink, MaxRows, Urls, Paths

(* Steps of the keyboard, the mouse and the view leave the links alone. *)
LEMMA StepWithoutLinks ==
  ASSUME IInv,
         UNCHANGED <<screen, cache, asked, hover, hoveredRanges>>,
         buffer' \in [alt: BOOLEAN, atBottom: BOOLEAN, writes: 0 .. MaxWrites, reflowed: BOOLEAN],
         keys' \in [cmd: BOOLEAN, focused: BOOLEAN, metaUrl: BOOLEAN, metaPath: BOOLEAN],
         mouse' \in [button: BOOLEAN, dragging: BOOLEAN, selecting: BOOLEAN, selection: BOOLEAN],
         hoveredPathLink' \in BOOLEAN,
         posted' \in Message,
         overlay' \in {overlay, hoveredRanges, {}},
         keys'.metaUrl => keys'.cmd /\ keys'.focused
  PROVE  IInv'
<1>1. LinksAreGood'
  BY LinksStay DEF IInv
<1>2. RangesAreHovered'
  BY DEF IInv, RangesAreHovered
<1>3. UnderlinesAreHovered'
  BY DEF IInv, Inv, RangesAreHovered, UnderlinesAreHovered
<1>4. TypeOK'
  BY DEF IInv, Inv, TypeOK, MaxRows, Message
<1>5. UrlNeedsCmd'
  BY DEF UrlNeedsCmd
<1> QED BY <1>1, <1>2, <1>3, <1>4, <1>5 DEF IInv, Inv

(* Steps of the pointer and of the screen leave the keyboard alone. *)
LEMMA StepWithoutKeys ==
  ASSUME IInv,
         UNCHANGED keys,
         screen' \in Screens,
         buffer' \in [alt: BOOLEAN, atBottom: BOOLEAN, writes: 0 .. MaxWrites, reflowed: BOOLEAN],
         mouse' \in [button: BOOLEAN, dragging: BOOLEAN, selecting: BOOLEAN, selection: BOOLEAN],
         posted' = "none",
         Told(asked'),
         DOMAIN cache' = MaxRows,
         \A y \in MaxRows : cache'[y] # NotCached => GoodLinks(cache'[y], Urls),
         NEW l, l = NoLink \/ GoodLink(l, Urls \cup Paths), HoverLink(l)
  PROVE  IInv'
<1>1. /\ RangesAreHovered' /\ UnderlinesAreHovered' /\ hoveredPathLink' \in BOOLEAN
      /\ (hover # NoLink => GoodLink(hover, Urls \cup Paths))'
  BY HoverKeepsInv
<1>2. LinksAreGood'
  BY <1>1 DEF LinksAreGood, Told, GoodLinks, GoodLink, MaxRows, Urls, Paths
<1>3. (hover # NoLink => hover.kind \in {"url", "path", "pathRest"} /\ hover.at \in hover.ranges)'
  BY <1>1 DEF GoodLink, Urls, Paths
<1>4. TypeOK'
  BY <1>1, <1>3 DEF IInv, Inv, TypeOK, MaxRows, Message
<1>5. UrlNeedsCmd'
  BY DEF IInv, Inv, UrlNeedsCmd
<1> QED BY <1>1, <1>2, <1>4, <1>5 DEF IInv, Inv

LEMMA MetaStates == \A pressed : UpdateMetaState(pressed) \in {overlay, hoveredRanges, {}}
BY DEF UpdateMetaState

LEMMA InitInv == Init => IInv
<1> SUFFICES ASSUME Init PROVE IInv
  OBVIOUS
<1>1. TypeOK
  <2>1. DOMAIN cache = MaxRows
    BY DEF Init, EmptyCache
  <2>2. 0 \in 0 .. MaxWrites
    BY WritesAreBounded
  <2>3. buffer \in [alt: BOOLEAN, atBottom: BOOLEAN, writes: 0 .. MaxWrites, reflowed: BOOLEAN]
    BY <2>2 DEF Init
  <2> QED BY <2>1, <2>3 DEF Init, TypeOK, Message
<1>2. UrlNeedsCmd /\ UnderlinesAreHovered /\ RangesAreHovered
  BY DEF Init, UrlNeedsCmd, UnderlinesAreHovered, RangesAreHovered
<1>3. LinksAreGood
  BY DEF Init, LinksAreGood, Told, GoodLinks, EmptyCache
<1> QED BY <1>1, <1>2, <1>3 DEF IInv, Inv

(* One lemma per group of actions. *)
LEMMA KeysKeepInv ==
  ASSUME IInv,
         \/ CmdDown \/ CmdUp \/ Blur \/ TerminalFocus
         \/ \E key \in {"v", "c", "k"} : KeyDown(key)
         \/ CopySelection
         \/ \E type \in {"keydown", "keyup"} : ShiftEnter(type)
  PROVE  IInv'
<1> USE DEF IInv, Inv, TypeOK, UrlNeedsCmd, Message
<1>1. CASE CmdDown
  BY ZenonT(40), <1>1, MetaStates, StepWithoutLinks DEF CmdDown, MetaEvent, SetMetaPressed
<1>2. CASE CmdUp
  BY ZenonT(40), <1>2, MetaStates, StepWithoutLinks DEF CmdUp, MetaEvent, SetMetaPressed
<1>3. CASE Blur
  BY ZenonT(40), <1>3, MetaStates, StepWithoutLinks DEF Blur, MetaEvent, SetMetaPressed
<1>4. CASE TerminalFocus
  BY ZenonT(40), <1>4, StepWithoutLinks DEF TerminalFocus
<1>5. ASSUME NEW key \in {"v", "c", "k"}, KeyDown(key) PROVE IInv'
  BY ZenonT(40), <1>5, MetaStates, StepWithoutLinks DEF KeyDown, KeyMessage
<1>6. CASE CopySelection
  BY SMTT(30), <1>6, StepWithoutLinks DEF CopySelection
<1>7. ASSUME NEW type \in {"keydown", "keyup"}, ShiftEnter(type) PROVE IInv'
  BY SMTT(30), <1>7, StepWithoutLinks DEF ShiftEnter
<1> QED BY <1>1, <1>2, <1>3, <1>4, <1>5, <1>6, <1>7

LEMMA MouseKeepsInv ==
  ASSUME IInv,
         Activate \/ ScrollUp \/ MouseDown \/ SelectText \/ MouseUp \/ MouseUpMissed \/ MoveWithoutButton
  PROVE  IInv'
<1> USE DEF IInv, Inv, TypeOK, UrlNeedsCmd, Message
<1>1. CASE Activate
  BY SMTT(30), <1>1, StepWithoutLinks DEF Activate
<1>2. CASE ScrollUp
  BY ZenonT(40), <1>2, StepWithoutLinks DEF ScrollUp
<1>3. CASE MouseDown
  BY SMTT(30), <1>3, StepWithoutLinks DEF MouseDown, MouseStep
<1>4. CASE SelectText
  BY ZenonT(40), <1>4, StepWithoutLinks DEF SelectText, MouseStep
<1>5. CASE MouseUp
  BY ZenonT(40), <1>5, StepWithoutLinks DEF MouseUp, MouseStep
<1>6. CASE MouseUpMissed
  BY ZenonT(40), <1>6, StepWithoutLinks DEF MouseUpMissed, MouseStep
<1>7. CASE MoveWithoutButton
  BY ZenonT(40), <1>7, StepWithoutLinks DEF MoveWithoutButton, MouseStep, EndStuckDrag
<1> QED BY <1>1, <1>2, <1>3, <1>4, <1>5, <1>6, <1>7

LEMMA PointerKeepsInv ==
  ASSUME IInv,
         \/ MouseLeave
         \/ \E y \in Rows : \E i \in DOMAIN screen[y].words : MouseMove(<<y, i>>)
  PROVE  IInv'
<1> USE DEF IInv, Inv, TypeOK, LinksAreGood
<1>1. CASE MouseLeave
  <2>1. NoLink = NoLink \/ GoodLink(NoLink, Urls \cup Paths)
    OBVIOUS
  <2> QED BY <1>1, <2>1, StepWithoutKeys DEF MouseLeave
<1>2. ASSUME NEW y \in Rows, NEW i \in DOMAIN screen[y].words, MouseMove(<<y, i>>)
      PROVE  IInv'
  <2> DEFINE answers == IF asked.row = y THEN asked ELSE Ask(screen, cache, y)
             l == LinkAt(answers, <<y, i>>)
  <2>1. y \in MaxRows /\ screen \in Screens
    BY RowsOfScreens DEF Rows
  <2>2. Told(answers)
    <3>1. CASE asked.row = y
      BY <3>1
    <3>2. CASE asked.row # y
      BY <3>2, <2>1, AnswersAreGood
    <3> QED BY <3>1, <3>2
  <2>3. l = NoLink \/ GoodLink(l, Urls \cup Paths)
    BY <2>2, LinkAtIsGood
  <2>4. /\ asked' = answers /\ HoverLink(l) /\ posted' = "none"
        /\ cache' = IF asked.row = y THEN cache ELSE [cache EXCEPT ![y] = answers.url]
        /\ mouse' = EndStuckDrag(mouse) /\ UNCHANGED <<screen, buffer, keys>>
    BY <1>2 DEF MouseMove
  <2> HIDE DEF l
  <2>5. GoodLinks(answers.url, Urls)
    BY <2>2 DEF Told
  <2> HIDE DEF answers
  <2>6. \A z \in MaxRows : cache'[z] # NotCached => GoodLinks(cache'[z], Urls)
    BY <2>4, <2>5
  <2>7. mouse' \in [button: BOOLEAN, dragging: BOOLEAN, selecting: BOOLEAN, selection: BOOLEAN]
    BY <2>4 DEF EndStuckDrag
  <2>8. DOMAIN cache' = MaxRows
    BY <2>4
  <2> QED BY <2>1, <2>2, <2>3, <2>4, <2>6, <2>7, <2>8, StepWithoutKeys
<1> QED BY <1>1, <1>2

(* A rendered row is asked about again, with the cache c. *)
LEMMA RenderIsGood ==
  ASSUME IInv, NEW s \in Screens, NEW rendered, NEW c, Render(s, rendered, c),
         DOMAIN c = MaxRows,
         \A y \in MaxRows : c[y] # NotCached => GoodLinks(c[y], Urls)
  PROVE  /\ Told(asked') /\ DOMAIN cache' = MaxRows
         /\ \A y \in MaxRows : cache'[y] # NotCached => GoodLinks(cache'[y], Urls)
         /\ \/ \E l : (l = NoLink \/ GoodLink(l, Urls \cup Paths)) /\ HoverLink(l)
            \/ UNCHANGED <<asked, hover, hoveredRanges, hoveredPathLink, overlay>>
<1>1. CASE hover # NoLink /\ rendered
  <2> DEFINE y == hover.at[1]
             l == LinkAt(Ask(s, c, y), hover.at)
  <2>1. y \in MaxRows
    BY <1>1 DEF IInv, LinksAreGood, GoodLink
  <2> HIDE DEF y
  <2>2. Told(Ask(s, c, y)) /\ GoodLinks(CachedUrlLinks(s, c, y), Urls)
    BY <2>1, AnswersAreGood, CachedUrlLinksAreGood
  <2>3. l = NoLink \/ GoodLink(l, Urls \cup Paths)
    BY <2>2, LinkAtIsGood
  <2>4. asked' = Ask(s, c, y) /\ cache' = [c EXCEPT ![y] = CachedUrlLinks(s, c, y)] /\ HoverLink(l)
    BY <1>1 DEF Render, y
  <2> HIDE DEF l
  <2> QED BY <2>2, <2>3, <2>4
<1>2. CASE ~(hover # NoLink /\ rendered)
  BY <1>2 DEF Render, IInv, LinksAreGood
<1> QED BY <1>1, <1>2

LEMMA ScreenKeepsInv ==
  ASSUME IInv, NEW s \in Screens,
         Reflow(s) \/ \E alt, rendered \in BOOLEAN : TerminalWrite(s, alt, rendered)
  PROVE  IInv'
<1> DEFINE Buffers == [alt: BOOLEAN, atBottom: BOOLEAN, writes: 0 .. MaxWrites, reflowed: BOOLEAN]
<1>1. /\ screen' \in Screens /\ posted' = "none" /\ UNCHANGED <<keys, mouse>>
      /\ buffer.writes + 1 \in 0 .. MaxWrites
  <2>1. ShowScreen(s)
    BY DEF Reflow, TerminalWrite
  <2> QED BY <2>1, WritesAreBounded DEF ShowScreen, IInv, Inv, TypeOK
<1>2. mouse' \in [button: BOOLEAN, dragging: BOOLEAN, selecting: BOOLEAN, selection: BOOLEAN]
  BY <1>1 DEF IInv, Inv, TypeOK
<1>3. CASE Reflow(s)
  <2>1. NoLink = NoLink \/ GoodLink(NoLink, Urls \cup Paths)
    OBVIOUS
  <2>2. asked' = [asked EXCEPT !.row = 0] /\ cache' = cache /\ HoverLink(NoLink)
        /\ buffer' = [buffer EXCEPT !.writes = @ + 1, !.reflowed = TRUE]
    BY <1>3 DEF Reflow
  <2>3. Told(asked')
    BY <2>2 DEF Told, IInv, LinksAreGood
  <2>4. buffer' \in Buffers
    BY <1>1, <2>2 DEF IInv, Inv, TypeOK
  <2>5. DOMAIN cache' = MaxRows
        /\ \A y \in MaxRows : cache'[y] # NotCached => GoodLinks(cache'[y], Urls)
    BY <2>2 DEF IInv, Inv, TypeOK, LinksAreGood
  <2> QED BY <1>1, <1>2, <2>1, <2>2, <2>3, <2>4, <2>5, StepWithoutKeys
<1>4. ASSUME NEW alt \in BOOLEAN, NEW rendered \in BOOLEAN, TerminalWrite(s, alt, rendered)
      PROVE  IInv'
  <2>1. Render(s, rendered, EmptyCache)
    BY <1>4 DEF TerminalWrite
  <2>2. buffer' \in Buffers
    <3>1. buffer' = [alt |-> alt, atBottom |-> buffer.atBottom \/ (buffer.alt /\ ~alt),
                     writes |-> buffer.writes + 1, reflowed |-> FALSE]
      BY <1>4 DEF TerminalWrite
    <3>2. (buffer.atBottom \/ (buffer.alt /\ ~alt)) \in BOOLEAN
      OBVIOUS
    <3> QED BY <1>1, <3>1, <3>2
  <2>3. DOMAIN EmptyCache = MaxRows
        /\ \A y \in MaxRows : EmptyCache[y] # NotCached => GoodLinks(EmptyCache[y], Urls)
    BY DEF EmptyCache
  <2>4. /\ Told(asked') /\ DOMAIN cache' = MaxRows
        /\ \A y \in MaxRows : cache'[y] # NotCached => GoodLinks(cache'[y], Urls)
    BY <2>1, <2>3, RenderIsGood
  <2>5. CASE \E l : (l = NoLink \/ GoodLink(l, Urls \cup Paths)) /\ HoverLink(l)
    <3>1. PICK l : (l = NoLink \/ GoodLink(l, Urls \cup Paths)) /\ HoverLink(l)
      BY <2>5
    <3> QED BY <1>1, <1>2, <2>2, <2>4, <3>1, StepWithoutKeys
  <2>6. CASE UNCHANGED <<asked, hover, hoveredRanges, hoveredPathLink, overlay>>
    <3>1. TypeOK'
      BY <1>1, <1>2, <2>2, <2>4, <2>6 DEF IInv, Inv, TypeOK, MaxRows, Message
    <3>2. UrlNeedsCmd' /\ UnderlinesAreHovered' /\ RangesAreHovered'
      BY <1>1, <2>6 DEF IInv, Inv, UrlNeedsCmd, UnderlinesAreHovered, RangesAreHovered
    <3>3. LinksAreGood'
      BY <2>4, <2>6 DEF IInv, LinksAreGood, Told, GoodLinks, GoodLink, MaxRows, Urls, Paths
    <3> QED BY <3>1, <3>2, <3>3 DEF IInv, Inv
  <2>7. (\E l : (l = NoLink \/ GoodLink(l, Urls \cup Paths)) /\ HoverLink(l))
        \/ UNCHANGED <<asked, hover, hoveredRanges, hoveredPathLink, overlay>>
    BY <2>1, <2>3, RenderIsGood
  <2> QED BY <2>5, <2>6, <2>7
<1> QED BY <1>3, <1>4

LEMMA StepInv == IInv /\ [Next]_vars => IInv'
<1> SUFFICES ASSUME IInv, [Next]_vars PROVE IInv'
  OBVIOUS
<1>1. CASE UNCHANGED vars
  <2>1. LinksAreGood'
    BY <1>1, LinksStay DEF vars, IInv
  <2>2. TypeOK'
    BY <1>1 DEF vars, IInv, Inv, TypeOK, MaxRows, Message
  <2>3. UrlNeedsCmd' /\ UnderlinesAreHovered' /\ RangesAreHovered'
    BY <1>1 DEF vars, IInv, Inv, UrlNeedsCmd, UnderlinesAreHovered, RangesAreHovered
  <2> QED BY <2>1, <2>2, <2>3 DEF IInv, Inv
<1>2. CASE Next
  BY <1>2, KeysKeepInv, MouseKeepsInv, PointerKeepsInv, ScreenKeepsInv DEF Next
<1> QED BY <1>1, <1>2

(***************************************************************************)
(* For any set of screens, the page knows the real state of Cmd whatever   *)
(* events it missed, so that a click opens no URL without it, and what is  *)
(* underlined is the link under the pointer (keyboard, hover and blur      *)
(* handlers of terminal-entry.js).                                         *)
(***************************************************************************)
THEOREM PageIsTrue == Spec => []Inv
<1>1. IInv => Inv
  BY DEF IInv
<1> QED BY <1>1, InitInv, StepInv, PTL DEF Spec

-----------------------------------------------------------------------------
(* The cache.                                                              *)

LEMMA StepCache == IInv /\ CacheIsCurrent /\ [Next]_vars => CacheIsCurrent'
<1> SUFFICES ASSUME IInv, CacheIsCurrent, [Next]_vars PROVE CacheIsCurrent'
  OBVIOUS
<1>1. Rows = MaxRows /\ DOMAIN cache = MaxRows /\ screen \in Screens
  BY RowsOfScreens DEF Rows, IInv, Inv, TypeOK
<1>2. CASE UNCHANGED <<screen, cache>> /\ (buffer.reflowed => buffer'.reflowed)
  BY <1>2 DEF CacheIsCurrent, Rows
<1>3. ASSUME NEW y \in Rows, NEW i \in DOMAIN screen[y].words, MouseMove(<<y, i>>)
      PROVE  CacheIsCurrent'
  <2>1. UNCHANGED <<screen, buffer>> /\ cache' \in {cache, [cache EXCEPT ![y] = CachedUrlLinks(screen, cache, y)]}
    BY <1>3 DEF MouseMove, Ask
  <2> QED BY <1>1, <2>1 DEF CacheIsCurrent, Rows, CachedUrlLinks
<1>4. ASSUME NEW s \in Screens, Reflow(s) PROVE CacheIsCurrent'
  BY <1>4 DEF Reflow, CacheIsCurrent, IInv, Inv, TypeOK
<1>5. ASSUME NEW s \in Screens, NEW alt \in BOOLEAN, NEW rendered \in BOOLEAN,
             TerminalWrite(s, alt, rendered)
      PROVE  CacheIsCurrent'
  <2>1. screen' = s /\ Render(s, rendered, EmptyCache)
    BY <1>5 DEF TerminalWrite, ShowScreen
  <2>2. cache' \in {EmptyCache, [EmptyCache EXCEPT ![hover.at[1]] = UrlLinks(s, hover.at[1])]}
    <3>1. CASE hover # NoLink /\ rendered
      <4>1. hover.at[1] \in MaxRows
        BY <3>1 DEF IInv, LinksAreGood, GoodLink
      <4>2. CachedUrlLinks(s, EmptyCache, hover.at[1]) = UrlLinks(s, hover.at[1])
        BY <4>1 DEF CachedUrlLinks, EmptyCache
      <4> QED BY <2>1, <3>1, <4>2 DEF Render
    <3>2. CASE ~(hover # NoLink /\ rendered)
      BY <2>1, <3>2 DEF Render
    <3> QED BY <3>1, <3>2
  <2>3. \A y \in MaxRows : cache'[y] # NotCached => cache'[y] = UrlLinks(s, y)
    BY <2>2 DEF EmptyCache
  <2>4. Rows' = MaxRows
    BY <2>1, RowsOfScreens DEF Rows
  <2> QED BY <2>1, <2>3, <2>4 DEF CacheIsCurrent
<1>6. CASE CmdDown \/ CmdUp \/ Blur \/ TerminalFocus
           \/ (\E key \in {"v", "c", "k"} : KeyDown(key)) \/ CopySelection
           \/ (\E type \in {"keydown", "keyup"} : ShiftEnter(type))
  BY <1>2, <1>6 DEF CmdDown, CmdUp, Blur, TerminalFocus, KeyDown, CopySelection, ShiftEnter
<1>7. CASE MouseLeave \/ Activate \/ ScrollUp \/ MouseDown \/ SelectText \/ MouseUp
           \/ MouseUpMissed \/ MoveWithoutButton
  BY <1>2, <1>7 DEF MouseLeave, Activate, ScrollUp, MouseDown, SelectText, MouseUp,
                    MouseUpMissed, MoveWithoutButton, MouseStep, IInv, Inv, TypeOK
<1>8. CASE UNCHANGED vars
  BY <1>2, <1>8 DEF vars
<1> QED BY <1>3, <1>4, <1>5, <1>6, <1>7, <1>8 DEF Next

(***************************************************************************)
(* For any set of screens, the cached links of a row are the ones it shows *)
(* (terminal-entry.js:180-181), unless a reflow has changed it since.      *)
(***************************************************************************)
THEOREM CacheStaysCurrent == Spec => []CacheIsCurrent
<1>1. Init => CacheIsCurrent
  <2> SUFFICES ASSUME Init PROVE CacheIsCurrent
    OBVIOUS
  <2>1. screen \in Screens /\ cache = EmptyCache
    BY DEF Init
  <2>2. Rows = MaxRows
    BY <2>1, RowsOfScreens DEF Rows
  <2> QED BY <2>1, <2>2 DEF CacheIsCurrent, EmptyCache
<1> QED BY <1>1, InitInv, StepInv, StepCache, PTL DEF Spec

-----------------------------------------------------------------------------
(* The view around the page (TerminalView).                                *)

(* The messages of the page and the calls of the app, those among them a   *)
(* refit consists of, and how many of a set are under way.                 *)
Reasons == {"initial", "refit"}
AppMessages == [type: {"ready"}] \cup [type: {"resize"}, size: Nat \ {0}]
               \cup [type: {"fitted"}, for: Reasons, size: Nat]
PageCalls == [call: {"fit"}, for: Reasons] \cup [call: {"setFontSize"}, size: Fonts]
             \cup [call: {"reloadWebgl"}]
Refitted == [type: {"fitted"}, for: {"refit"}, size: Nat]
Refits == [call: {"fit"}, for: {"refit"}] \cup [call: {"reloadWebgl"}]

(***************************************************************************)
(* ViewInv with what it rests on.  A refit under way will load an addon:   *)
(* with the loads so far, the refits under way are no more than the        *)
(* switches of views, so that there is a loader for each.  A local project *)
(* never waits for a setup, and once it had a PTY the coordinator knows    *)
(* its size.                                                               *)
(***************************************************************************)
ChannelTypes == toApp \in Seq(AppMessages) /\ toPage \in Seq(PageCalls)
Envs == [events: 0 .. MaxEvents, window: BOOLEAN, threw: BOOLEAN, failed: BOOLEAN, unseen: BOOLEAN]
ViewBounds ==
  /\ env \in Envs
  /\ app.retry <= env.events
ReloadsAreCounted == gpu.loads + Count(toPage, Refits) + Count(toApp, Refitted) <= env.events + 1
LocalSizeIsKnown ==
  ~remote => starting = <<>> /\ (pty # NoPty \/ app.retry > 0 => app.lastResize > 0)

ViewIInv == ViewInv /\ ChannelTypes /\ ViewBounds /\ ReloadsAreCounted /\ LocalSizeIsKnown

(* The types, component by component. *)
Pages == [container: Sizes, font: Fonts, term: Nat, lastFit: Nat,
          resized: BOOLEAN, fitTimer: BOOLEAN, ptyTimer: Nat, announced: BOOLEAN]
Addons == [retries: 0 .. MaxRetries, timer: BOOLEAN, live: BOOLEAN]
Gpus == [loaders: [Loaders -> Addons], loads: 0 .. (MaxEvents + 1), current: {0} \cup Loaders]
Apps == [ready: BOOLEAN, font: Fonts, lastResize: Nat,
         initialFit: BOOLEAN, retry: 0 .. MaxEvents, retries: 0 .. PtyMaxRetries]
Ptys == [live: BOOLEAN, size: Nat]

LEMMA ViewTypes ==
  ViewTypeOK <=> page \in Pages /\ gpu \in Gpus /\ app \in Apps /\ pty \in Ptys /\ starting \in Seq(Nat)
BY DEF ViewTypeOK, Pages, Gpus, Addons, Apps, Ptys

LEMMA ConstantTypes ==
  /\ Sizes \subseteq Nat /\ 0 \in Sizes /\ Fonts \subseteq Nat \ {0} /\ PageFont \in Fonts
  /\ FitMin \in Nat \ {0} /\ Default \in Nat
  /\ MaxRetries \in Nat /\ PtyMaxRetries \in Nat /\ MaxEvents \in Nat
BY SizesAreNumbers, FontsAreNumbers, FitMinIsPositive, BoundsAreNumbers

LEMMA ProposedType ==
  ASSUME NEW p \in Pages
  PROVE  Proposed(p) \in Nat
<1>1. p.container \in Nat /\ p.font \in Nat \ {0} /\ FitMin \in Nat
  BY ConstantTypes DEF Pages
<1>2. p.container \div p.font \in Nat
  BY <1>1
<1> QED BY <1>1, <1>2 DEF Proposed

LastFitOf(p) == p.lastFit # 0 => p.term = p.lastFit

LEMMA FitKeepsPage ==
  ASSUME NEW p \in Pages, LastFitOf(p)
  PROVE  FitNow(p) \in Pages /\ LastFitOf(FitNow(p))
<1>1. Proposed(p) \in Nat
  BY ProposedType
<1>2. CASE Proposed(p) < FitMin
  BY <1>2 DEF FitNow
<1>3. CASE ~(Proposed(p) < FitMin)
  <2> DEFINE dims == Proposed(p)
             q == [p EXCEPT !.term = dims, !.lastFit = dims]
  <2>1. FitNow(p) = q
    BY <1>3 DEF FitNow, Fitted
  <2>2. q \in Pages /\ q.term = q.lastFit
    BY <1>1 DEF Pages
  <2> QED BY <2>1, <2>2 DEF LastFitOf
<1> QED BY <1>2, <1>3

(* The page of a terminal: its types, and what _lastFit says of it.        *)
LEMMA PageKeepsFit ==
  ASSUME ViewIInv, [ViewNext]_viewVars
  PROVE  page' \in Pages /\ TermIsLastFit'
<1>1. page \in Pages /\ LastFitOf(page)
  BY ViewTypes DEF ViewIInv, ViewInv, TermIsLastFit, LastFitOf
<1> SUFFICES page' \in Pages /\ LastFitOf(page')
  BY DEF TermIsLastFit, LastFitOf
<1>2. ASSUME NEW w \in Sizes, Layout(w) PROVE page' \in Pages /\ LastFitOf(page')
  BY <1>1, <1>2 DEF Layout, Pages, LastFitOf
<1>3. CASE ResizeObserved \/ PtyTimerFires \/ PostReady
  <2> DEFINE observed == [page EXCEPT !.resized = FALSE, !.fitTimer = TRUE]
             fired == [page EXCEPT !.ptyTimer = 0]
             announced == [page EXCEPT !.announced = TRUE]
  <2>1. page' \in {observed, fired, announced}
    BY <1>3 DEF ResizeObserved, PtyTimerFires, PostReady, NoTimer
  <2>2. /\ observed \in Pages /\ observed.term = page.term /\ observed.lastFit = page.lastFit
        /\ fired \in Pages /\ fired.term = page.term /\ fired.lastFit = page.lastFit
        /\ announced \in Pages /\ announced.term = page.term /\ announced.lastFit = page.lastFit
    BY <1>1 DEF Pages
  <2> HIDE DEF observed, fired, announced
  <2> QED BY <1>1, <2>1, <2>2 DEF LastFitOf
<1>4. CASE DoFit
  <2> DEFINE dims == Proposed(page)
             p == [page EXCEPT !.fitTimer = FALSE]
             q == [p EXCEPT !.term = dims, !.lastFit = dims, !.ptyTimer = dims]
  <2>1. dims \in Nat
    BY <1>1, ProposedType
  <2>2. page' \in {p, q}
    <3>1. page' = IF dims < FitMin \/ dims = page.lastFit THEN p
                  ELSE [[p EXCEPT !.term = dims, !.lastFit = dims] EXCEPT !.ptyTimer = dims]
      BY <1>4 DEF DoFit, Fitted
    <3>2. [[p EXCEPT !.term = dims, !.lastFit = dims] EXCEPT !.ptyTimer = dims] = q
      OBVIOUS
    <3> QED BY <3>1, <3>2
  <2>3. p \in Pages /\ p.term = page.term /\ p.lastFit = page.lastFit
    BY <1>1 DEF Pages
  <2>4. q \in Pages /\ q.term = q.lastFit
    BY <1>1, <2>1 DEF Pages
  <2> QED BY <1>1, <2>2, <2>3, <2>4 DEF LastFitOf
<1>5. CASE TerminalFit
  BY <1>1, <1>5, FitKeepsPage DEF TerminalFit
<1>6. CASE TerminalSetFontSize
  <2>1. Head(toPage).size \in Fonts
    <3>1. toPage # <<>> /\ Head(toPage) \in PageCalls /\ Head(toPage).call = "setFontSize"
      BY <1>6 DEF TerminalSetFontSize, Called, ViewIInv, ChannelTypes
    <3> QED BY <3>1 DEF PageCalls
  <2> DEFINE p == [page EXCEPT !.font = Head(toPage).size]
  <2>2. p \in Pages /\ LastFitOf(p)
    BY <1>1, <2>1 DEF Pages, LastFitOf
  <2>3. page' \in {page, FitNow(p)}
    BY <1>6 DEF TerminalSetFontSize
  <2> HIDE DEF p
  <2> QED BY <1>1, <2>2, <2>3, FitKeepsPage
<1>7. CASE UNCHANGED page
  BY <1>1, <1>7
<1>8. CASE ViewNext
  <2>1. CASE PageStep
    BY <2>1, <1>3, <1>4, <1>5, <1>6, <1>7 DEF PageStep, TerminalReloadWebgl, RetryLoad
  <2>2. CASE AppStep
    BY <2>2, <1>7 DEF AppStep, OnReady, InitialFitDue, OnInitialFit, OnResize,
                      OnRefit, SetupDone, RetryPty
  <2>3. CASE (\E f \in Fonts : ChangeFont(f)) \/ PerformRefit \/ SetupFails \/ ChangeWindow
             \/ PtyExits \/ PtyExitsUnseen \/ (\E k \in Loaders : ContextLoss(k))
    BY <2>3, <1>7 DEF ChangeFont, PerformRefit, SetupFails, ChangeWindow, PtyExits,
                      PtyExitsUnseen, ContextLoss
  <2> QED BY <1>2, <1>8, <2>1, <2>2, <2>3 DEF ViewNext
<1> QED BY <1>7, <1>8 DEF viewVars

(* The addons: their types, and the one the page will dispose of.          *)
LEMMA LoadedIsLive ==
  ASSUME NEW g \in Gpus, NEW k \in Loaders, NEW ok \in BOOLEAN,
         NEW h, h = IF ok THEN Loaded(g, k) ELSE LoadThrew(g, k)
  PROVE  h \in Gpus /\ (h.current # 0 => h.loaders[h.current].live) /\ h.loads = g.loads
<1> DEFINE fresh == [retries |-> 0, timer |-> FALSE, live |-> TRUE]
           quiet == [g.loaders[k] EXCEPT !.timer = FALSE]
           LoaderMaps == [Loaders -> Addons]
           freshened == [g.loaders EXCEPT ![k] = fresh]
           quieted == [g.loaders EXCEPT ![k] = quiet]
<1>1. g.loaders \in LoaderMaps /\ g.loaders[k] \in Addons /\ 0 \in 0 .. MaxRetries
  BY ConstantTypes DEF Gpus
<1>2. fresh \in Addons
  BY <1>1 DEF Addons
<1>3. quiet \in Addons
  BY <1>1 DEF Addons
<1>4. freshened \in LoaderMaps /\ quieted \in LoaderMaps /\ freshened[k] = fresh
  <2> HIDE DEF fresh, quiet
  <2> QED BY <1>1, <1>2, <1>3
<1>5. Loaded(g, k) = [g EXCEPT !.loaders = freshened, !.current = k]
  BY DEF Loaded
<1>6. LoadThrew(g, k) = [g EXCEPT !.loaders = quieted, !.current = 0]
  BY DEF LoadThrew
<1>7. /\ Loaded(g, k) \in Gpus
      /\ Loaded(g, k).current = k /\ Loaded(g, k).loaders[k] = fresh
      /\ Loaded(g, k).loads = g.loads
  <2> HIDE DEF freshened, LoaderMaps, fresh
  <2> QED BY <1>4, <1>5 DEF Gpus, LoaderMaps
<1>8. /\ LoadThrew(g, k) \in Gpus /\ LoadThrew(g, k).current = 0
      /\ LoadThrew(g, k).loads = g.loads
  <2> HIDE DEF quieted, LoaderMaps
  <2> QED BY <1>4, <1>6 DEF Gpus, LoaderMaps
<1> QED BY <1>7, <1>8

(* The addon of a loader is disposed of, and its retries may change.       *)
LEMMA DisposedTypes ==
  ASSUME NEW g \in Gpus, NEW k \in Loaders
  PROVE  LET d == Dispose(g, k)
         IN  /\ d \in Gpus /\ d.loads = g.loads /\ d.current = g.current
             /\ \A j \in Loaders \ {k} : d.loaders[j] = g.loaders[j]
             /\ d.loaders[k].retries = g.loaders[k].retries
<1> DEFINE gone == [g.loaders[k] EXCEPT !.live = FALSE]
           LoaderMaps == [Loaders -> Addons]
           rest == [g.loaders EXCEPT ![k] = gone]
<1>1. g.loaders \in LoaderMaps /\ g.loaders[k] \in Addons
  BY DEF Gpus
<1>2. gone \in Addons /\ gone.retries = g.loaders[k].retries
  BY <1>1 DEF Addons
<1>3. rest \in LoaderMaps /\ rest[k] = gone /\ \A j \in Loaders \ {k} : rest[j] = g.loaders[j]
  <2> HIDE DEF gone
  <2> QED BY <1>1, <1>2
<1>4. Dispose(g, k) = [g EXCEPT !.loaders = rest]
  BY DEF Dispose
<1> HIDE DEF rest, LoaderMaps, gone
<1> QED BY <1>2, <1>3, <1>4 DEF Gpus, LoaderMaps

LEMMA RetriedTypes ==
  ASSUME NEW g \in Gpus, NEW k \in Loaders, g.loaders[k].retries < MaxRetries
  PROVE  LET d == [g EXCEPT !.loaders[k].retries = @ + 1, !.loaders[k].timer = TRUE]
         IN  /\ d \in Gpus /\ d.loads = g.loads /\ d.current = g.current
             /\ \A j \in Loaders \ {k} : d.loaders[j] = g.loaders[j]
<1> DEFINE LoaderMaps == [Loaders -> Addons]
           n == g.loaders[k].retries + 1
           once == [g.loaders[k] EXCEPT !.retries = n]
           rest == [g.loaders EXCEPT ![k] = once]
           due == [rest[k] EXCEPT !.timer = TRUE]
           last == [rest EXCEPT ![k] = due]
<1>1. g.loaders \in LoaderMaps /\ g.loaders[k] \in Addons
  BY DEF Gpus
<1>2. n \in 0 .. MaxRetries
  BY <1>1, ConstantTypes DEF Addons
<1>3. once \in Addons
  <2> HIDE DEF n
  <2> QED BY <1>1, <1>2 DEF Addons
<1>4. rest \in LoaderMaps /\ \A j \in Loaders \ {k} : rest[j] = g.loaders[j]
  <2> HIDE DEF once
  <2> QED BY <1>1, <1>3
<1>5. due \in Addons
  <2>1. rest[k] \in Addons
    BY <1>4
  <2> HIDE DEF rest
  <2> QED BY <2>1 DEF Addons
<1>6. last \in LoaderMaps /\ \A j \in Loaders \ {k} : last[j] = rest[j]
  <2> HIDE DEF due, rest
  <2> QED BY <1>4, <1>5
<1>7. [g EXCEPT !.loaders[k].retries = @ + 1] = [g EXCEPT !.loaders = rest]
  OBVIOUS
<1>8. [g EXCEPT !.loaders = rest].loaders = rest
  BY DEF Gpus
<1>9. [g EXCEPT !.loaders[k].retries = @ + 1, !.loaders[k].timer = TRUE]
        = [[g EXCEPT !.loaders = rest] EXCEPT !.loaders = last]
  <2> DEFINE h == [g EXCEPT !.loaders = rest]
  <2>1. [g EXCEPT !.loaders[k].retries = @ + 1, !.loaders[k].timer = TRUE]
          = [[g EXCEPT !.loaders[k].retries = @ + 1] EXCEPT !.loaders[k].timer = TRUE]
    OBVIOUS
  <2>2. [h EXCEPT !.loaders[k].timer = TRUE] = [h EXCEPT !.loaders = [h.loaders EXCEPT ![k] = [h.loaders[k] EXCEPT !.timer = TRUE]]]
    <3> HIDE DEF h
    <3> QED OBVIOUS
  <2>3. h.loaders = rest
    BY <1>8
  <2>4. [h EXCEPT !.loaders[k].timer = TRUE] = [h EXCEPT !.loaders = last]
    <3> HIDE DEF h, rest
    <3> QED BY <2>2, <2>3
  <2> HIDE DEF rest, last
  <2> QED BY <1>7, <2>1, <2>4
<1> HIDE DEF rest, last, LoaderMaps
<1> QED BY <1>4, <1>6, <1>9 DEF Gpus, LoaderMaps

(* A call to reload is one of the refits that are counted.                 *)
LEMMA ReloadHasALoader ==
  ASSUME ViewIInv, Called("reloadWebgl")
  PROVE  gpu.loads + 1 \in Loaders /\ gpu.loads + 1 <= env.events + 1
<1>1. toPage \in Seq(PageCalls) /\ toPage # <<>> /\ Head(toPage).call = "reloadWebgl" /\ toApp \in Seq(AppMessages)
  BY DEF Called, ViewIInv, ChannelTypes
<1>2. Head(toPage) \in Refits
  BY <1>1 DEF PageCalls, Refits
<1>3. Count(toPage, Refits) - 1 \in Nat
  <2>1. Tail(toPage) \in Seq(PageCalls)
    BY <1>1
  <2>2. Count(Tail(toPage), Refits) \in Nat /\ Count(Tail(toPage), Refits) = Count(toPage, Refits) - 1
    BY <1>1, <1>2, <2>1, CountType, CountTail
  <2> QED BY <2>2
<1>4. Count(toApp, Refitted) \in Nat /\ Count(toPage, Refits) \in Nat
  BY <1>1, CountType
<1>5. gpu.loads \in Nat /\ env.events \in 0 .. MaxEvents /\ MaxEvents \in Nat
  BY ConstantTypes, ViewTypes DEF ViewIInv, ViewInv, Gpus, ViewBounds, Envs
<1> QED BY <1>3, <1>4, <1>5 DEF ViewIInv, ReloadsAreCounted, Loaders

LEMMA AddonsKeep ==
  ASSUME ViewIInv, [ViewNext]_viewVars
  PROVE  /\ gpu' \in Gpus /\ CurrentIsLive'
         /\ \/ gpu'.loads = gpu.loads
            \/ gpu'.loads = gpu.loads + 1 /\ \E ok \in BOOLEAN : TerminalReloadWebgl(ok)
<1> DEFINE Good(g) == g \in Gpus /\ (g.current # 0 => g.loaders[g.current].live)
           Counted == \/ gpu'.loads = gpu.loads
                      \/ gpu'.loads = gpu.loads + 1 /\ \E ok \in BOOLEAN : TerminalReloadWebgl(ok)
<1>1. Good(gpu)
  BY ViewTypes DEF ViewIInv, ViewInv, CurrentIsLive
<1> SUFFICES Good(gpu') /\ Counted
  BY DEF CurrentIsLive
<1>2. ASSUME NEW ok \in BOOLEAN, TerminalReloadWebgl(ok) PROVE Good(gpu') /\ Counted
  <2> DEFINE k == gpu.loads + 1
             free == IF gpu.current = 0 THEN gpu ELSE [Dispose(gpu, gpu.current) EXCEPT !.current = 0]
             next == [free EXCEPT !.loads = k]
  <2>1. k \in Loaders
    BY <1>2, ReloadHasALoader DEF TerminalReloadWebgl
  <2>2. free \in Gpus /\ free.loads = gpu.loads
    <3>1. CASE gpu.current = 0
      BY <1>1, <3>1
    <3>2. CASE gpu.current # 0
      <4> DEFINE d == Dispose(gpu, gpu.current)
      <4>1. d \in Gpus /\ d.loads = gpu.loads
        BY <1>1, <3>2, DisposedTypes DEF Gpus
      <4> HIDE DEF d
      <4>2. [d EXCEPT !.current = 0] \in Gpus /\ [d EXCEPT !.current = 0].loads = d.loads
        BY <4>1 DEF Gpus
      <4> QED BY <3>2, <4>1, <4>2 DEF d
    <3> QED BY <3>1, <3>2
  <2>3. gpu' = LoadWebgl(free, ok)
    BY <1>2 DEF TerminalReloadWebgl
  <2>4. next \in Gpus
    <3>1. k \in 0 .. (MaxEvents + 1)
      BY <2>1, ConstantTypes DEF Loaders
    <3> HIDE DEF free, k
    <3> QED BY <2>2, <3>1 DEF Gpus
  <2>5. gpu' = IF ok THEN Loaded(next, k) ELSE LoadThrew(next, k)
    <3> HIDE DEF free
    <3> QED BY <2>2, <2>3 DEF LoadWebgl
  <2>6. next.loads = k
    <3> HIDE DEF free, k
    <3> QED BY <2>2 DEF Gpus
  <2>7. Good(gpu') /\ gpu'.loads = next.loads
    <3> HIDE DEF next, k
    <3> QED BY <2>1, <2>4, <2>5, LoadedIsLive
  <2> QED BY <1>2, <2>6, <2>7
<1>3. ASSUME NEW k \in Loaders, NEW ok \in BOOLEAN, RetryLoad(k, ok) PROVE Good(gpu') /\ Counted
  BY <1>1, <1>3, LoadedIsLive DEF RetryLoad
<1>4. ASSUME NEW k \in Loaders, ContextLoss(k) PROVE Good(gpu') /\ Counted
  <2> DEFINE d == Dispose(gpu, k)
             lost == [d EXCEPT !.current = IF @ = k THEN 0 ELSE @]
             due == [lost EXCEPT !.loaders[k].retries = @ + 1, !.loaders[k].timer = TRUE]
  <2>1. /\ d \in Gpus /\ d.current = gpu.current /\ d.loads = gpu.loads /\ d.loaders[k].retries = gpu.loaders[k].retries
        /\ \A j \in Loaders \ {k} : d.loaders[j] = gpu.loaders[j]
    BY <1>1, DisposedTypes
  <2>2. /\ lost \in Gpus /\ lost.current = IF gpu.current = k THEN 0 ELSE gpu.current
        /\ lost.loaders = d.loaders /\ lost.loads = d.loads
    <3> HIDE DEF d
    <3> QED BY <2>1 DEF Gpus
  <2>3. gpu' = IF gpu.loaders[k].retries < MaxRetries THEN due ELSE lost
    BY <1>4 DEF ContextLoss
  <2>4. gpu.loaders[k].retries < MaxRetries =>
          /\ due \in Gpus /\ due.current = lost.current /\ due.loads = lost.loads
          /\ \A j \in Loaders \ {k} : due.loaders[j] = lost.loaders[j]
    <3> SUFFICES ASSUME gpu.loaders[k].retries < MaxRetries
                 PROVE  /\ due \in Gpus /\ due.current = lost.current /\ due.loads = lost.loads
                        /\ \A j \in Loaders \ {k} : due.loaders[j] = lost.loaders[j]
      OBVIOUS
    <3> HIDE DEF lost, d
    <3>1. lost \in Gpus /\ lost.loaders[k].retries < MaxRetries
      BY <2>1, <2>2
    <3> QED BY <3>1, RetriedTypes
  <2>5. gpu.current \in {0} \cup Loaders
    BY <1>1 DEF Gpus
  <2> HIDE DEF due, lost, d
  <2> QED BY <1>1, <2>1, <2>2, <2>3, <2>4, <2>5
<1>5. CASE UNCHANGED gpu
  BY <1>1, <1>5
<1>6. CASE ViewNext
  <2>1. CASE PageStep
    BY <2>1, <1>2, <1>3, <1>5 DEF PageStep, ResizeObserved, DoFit, PtyTimerFires,
                                  PostReady, TerminalFit, TerminalSetFontSize
  <2>2. CASE AppStep
    BY <2>2, <1>5 DEF AppStep, OnReady, InitialFitDue, OnInitialFit, OnResize,
                      OnRefit, SetupDone, RetryPty
  <2>3. CASE (\E w \in Sizes : Layout(w)) \/ (\E f \in Fonts : ChangeFont(f))
             \/ PerformRefit \/ SetupFails \/ ChangeWindow \/ PtyExits \/ PtyExitsUnseen
    BY <2>3, <1>5 DEF Layout, ChangeFont, PerformRefit, SetupFails, ChangeWindow,
                      PtyExits, PtyExitsUnseen
  <2> QED BY <1>4, <1>6, <2>1, <2>2, <2>3 DEF ViewNext
<1> QED BY <1>5, <1>6 DEF viewVars

(* Bounds: what disturbs the view is counted.                              *)

(* A start that fails is remembered, and disturbs nothing else.            *)
LEMMA StartsAreNoEvents ==
  ASSUME NEW n, StartPty(n) \/ SpawnPty(n) \/ SetupFails
  PROVE  env' \in {env, [env EXCEPT !.failed = TRUE]}
BY DEF StartPty, SpawnPty, SetupFails

LEMMA EventsAreCounted ==
  ASSUME ViewIInv, [ViewNext]_viewVars
  PROVE  /\ env' \in Envs /\ env'.events \in {env.events, env.events + 1}
         /\ Disturb => env'.events = env.events + 1
<1>1. env \in Envs /\ MaxEvents \in Nat
  BY ConstantTypes DEF ViewIInv, ViewBounds, Envs
<1> DEFINE Goal == /\ env' \in Envs /\ env'.events \in {env.events, env.events + 1}
                   /\ Disturb => env'.events = env.events + 1
<1>2. CASE Disturb
  BY <1>1, <1>2 DEF Disturb, Envs
<1>3. CASE ~Disturb /\ UNCHANGED env
  BY <1>1, <1>3
<1>4. ASSUME ~Disturb, NEW ok \in BOOLEAN, MayLoad(ok) PROVE Goal
  BY <1>1, <1>4 DEF MayLoad, Envs
<1>5. ASSUME ~Disturb, env' \in {env, [env EXCEPT !.failed = TRUE]} PROVE Goal
  BY <1>1, <1>5 DEF Envs
<1>8. CASE ~Disturb /\ (ChangeWindow \/ PtyExitsUnseen)
  <2>1. env.events \in 0 .. MaxEvents /\ env.events + 1 \in 0 .. MaxEvents
    BY <1>1, <1>8 DEF ChangeWindow, PtyExitsUnseen, Envs
  <2>2. CASE ChangeWindow
    <3>1. env' = [env EXCEPT !.events = @ + 1, !.window = ~@]
      BY <2>2 DEF ChangeWindow
    <3> QED BY <1>1, <1>8, <2>1, <3>1 DEF Envs
  <2>3. CASE PtyExitsUnseen
    <3>1. env' = [env EXCEPT !.events = @ + 1, !.unseen = TRUE]
      BY <2>3 DEF PtyExitsUnseen
    <3> QED BY <1>1, <1>8, <2>1, <3>1 DEF Envs
  <2> QED BY <1>8, <2>2, <2>3
<1>6. CASE ViewNext
  <2>1. CASE PageStep
    BY <2>1, <1>2, <1>3, <1>4 DEF PageStep, ResizeObserved, DoFit, PtyTimerFires,
         PostReady, TerminalFit, TerminalSetFontSize, TerminalReloadWebgl, RetryLoad
  <2>2. CASE AppStep
    <3>1. UNCHANGED env \/ \E n : StartPty(n) \/ SpawnPty(n) \/ SetupFails
      BY <2>2 DEF AppStep, OnReady, InitialFitDue, OnInitialFit, OnResize, OnRefit,
                  SetupDone, RetryPty
    <3>2. env' \in {env, [env EXCEPT !.failed = TRUE]}
      BY <3>1, StartsAreNoEvents
    <3> QED BY <3>2, <1>2, <1>5
  <2>3. CASE (\E w \in Sizes : Layout(w)) \/ (\E f \in Fonts : ChangeFont(f))
             \/ PerformRefit \/ PtyExits \/ (\E k \in Loaders : ContextLoss(k))
    BY <2>3, <1>2 DEF Layout, ChangeFont, PerformRefit, PtyExits, ContextLoss
  <2>4. CASE SetupFails
    BY <2>4, <1>2, <1>5, StartsAreNoEvents
  <2> QED BY <1>2, <1>8, <1>6, <2>1, <2>2, <2>3, <2>4 DEF ViewNext
<1>7. CASE UNCHANGED viewVars
  BY <1>2, <1>3, <1>7 DEF viewVars
<1> QED BY <1>6, <1>7

(* Messages and calls that are received, and sent.                         *)
LEMMA CalledTypes ==
  ASSUME ViewIInv, NEW name, Called(name)
  PROVE  /\ toPage \in Seq(PageCalls) /\ toPage # <<>> /\ Head(toPage) \in PageCalls
         /\ Head(toPage).call = name /\ Tail(toPage) \in Seq(PageCalls)
BY DEF ViewIInv, ChannelTypes, Called

LEMMA ReceivedTypes ==
  ASSUME ViewIInv, NEW type, Received(type)
  PROVE  /\ toApp \in Seq(AppMessages) /\ toApp # <<>> /\ Head(toApp) \in AppMessages
         /\ Head(toApp).type = type /\ Tail(toApp) \in Seq(AppMessages)
BY DEF ViewIInv, ChannelTypes, Received

LEMMA CallTypes ==
  /\ \A for \in Reasons : [call |-> "fit", for |-> for] \in PageCalls
  /\ \A f \in Fonts : [call |-> "setFontSize", size |-> f] \in PageCalls \ Refits
  /\ [call |-> "reloadWebgl"] \in PageCalls \cap Refits
  /\ [call |-> "fit", for |-> "initial"] \notin Refits
  /\ [call |-> "fit", for |-> "refit"] \in Refits
BY DEF PageCalls, Refits, Reasons

LEMMA MessageTypes ==
  /\ [type |-> "ready"] \in AppMessages \ Refitted
  /\ \A n \in Nat \ {0} : [type |-> "resize", size |-> n] \in AppMessages \ Refitted
  /\ \A for \in Reasons, n \in Nat : 
        /\ [type |-> "fitted", for |-> for, size |-> n] \in AppMessages
        /\ [type |-> "fitted", for |-> for, size |-> n] \in Refitted <=> for = "refit"
BY DEF AppMessages, Refitted, Reasons

(* The channels: their types, and the refits under way.                    *)
LEMMA ChannelsKeep ==
  ASSUME ViewIInv, [ViewNext]_viewVars
  PROVE  ChannelTypes' /\ ReloadsAreCounted'
<1> DEFINE calls == Count(toPage, Refits)
           messages == Count(toApp, Refitted)
           calls2 == Count(toPage', Refits)
           messages2 == Count(toApp', Refitted)
           Typed == toApp' \in Seq(AppMessages) /\ toPage' \in Seq(PageCalls)
           Goal == Typed /\ gpu'.loads + calls2 + messages2 <= env'.events + 1
<1>1. toApp \in Seq(AppMessages) /\ toPage \in Seq(PageCalls) /\ gpu.loads + calls + messages <= env.events + 1
  BY DEF ViewIInv, ChannelTypes, ReloadsAreCounted
<1>2. calls \in Nat /\ messages \in Nat
  BY <1>1, CountType
<1>3. /\ gpu.loads \in Nat /\ env.events \in Nat /\ env'.events \in Nat /\ env'.events >= env.events
      /\ Disturb => env'.events = env.events + 1
  <2>1. gpu \in Gpus /\ env \in Envs /\ MaxEvents \in Nat
    BY ConstantTypes, ViewTypes DEF ViewIInv, ViewInv, ViewBounds, Envs
  <2>2. gpu.loads \in Nat /\ env.events \in Nat
    BY <2>1 DEF Gpus, Envs
  <2> QED BY <2>2, EventsAreCounted
<1>4. SUFFICES Goal
  BY DEF ChannelTypes, ReloadsAreCounted
<1> HIDE DEF calls, messages, calls2, messages2

<1>5. ASSUME NEW ok \in BOOLEAN, TerminalReloadWebgl(ok) PROVE Goal
  <2>1. /\ toPage # <<>> /\ Tail(toPage) \in Seq(PageCalls) /\ Head(toPage) \in Refits
        /\ UNCHANGED toApp /\ toPage' = Tail(toPage)
    BY <1>5, CalledTypes DEF TerminalReloadWebgl, PageCalls, Refits
  <2>2. calls2 = calls - 1
    BY <1>1, <2>1, CountTail DEF calls, calls2
  <2>3. messages2 = messages
    BY <2>1 DEF messages, messages2
  <2>4. gpu'.loads \in Nat /\ gpu'.loads <= gpu.loads + 1
    BY <1>3, AddonsKeep
  <2>5. Typed
    BY <1>1, <2>1
  <2>6. gpu.loads + calls + messages <= env.events + 1
    BY <1>1
  <2>7. gpu'.loads + calls2 + messages2 <= env'.events + 1
    BY <1>2, <1>3, <2>2, <2>3, <2>4, <2>6
  <2> QED BY <2>5, <2>7
<1>6. SUFFICES ASSUME gpu'.loads = gpu.loads PROVE Goal
  BY <1>5, AddonsKeep

(* A step that reloads nothing, and moves the channels by one at most.     *)
<1>7. ASSUME Typed, calls2 + messages2 <= calls + messages PROVE Goal
  <2>1. calls2 \in Nat /\ messages2 \in Nat
    BY <1>7, CountType DEF calls2, messages2
  <2> HIDE DEF Typed
  <2> QED BY SMTT(30), <1>1, <1>2, <1>3, <1>6, <1>7, <2>1
<1>8. ASSUME UNCHANGED toPage, NEW m \in AppMessages \ Refitted, toApp' = Append(toApp, m)
      PROVE  Goal
  <2>1. Typed
    BY <1>1, <1>8
  <2>2. calls2 = calls /\ messages2 = messages
    BY <1>1, <1>8, CountAppend DEF calls, messages, calls2, messages2
  <2> QED BY <1>2, <1>7, <1>8, <2>1, <2>2
<1>9. ASSUME UNCHANGED toApp, NEW c \in PageCalls \ Refits, toPage' = Append(toPage, c)
      PROVE  Goal
  <2>1. Typed
    BY <1>1, <1>9
  <2>2. calls2 = calls /\ messages2 = messages
    BY <1>1, <1>9, CountAppend DEF calls, messages, calls2, messages2
  <2> QED BY <1>2, <1>7, <1>9, <2>1, <2>2
<1>10. ASSUME UNCHANGED <<toPage, toApp>> PROVE Goal
  BY <1>1, <1>2, <1>7, <1>10 DEF calls, messages, calls2, messages2

(* The page.                                                               *)
<1>11. CASE PtyTimerFires
  <2>1. page.ptyTimer \in Nat \ {0}
    BY <1>11, ViewTypes DEF PtyTimerFires, NoTimer, ViewIInv, ViewInv, Pages
  <2>2. [type |-> "resize", size |-> page.ptyTimer] \in AppMessages \ Refitted
    BY <2>1, MessageTypes
  <2> QED BY <1>8, <1>11, <2>2 DEF PtyTimerFires
<1>12. CASE PostReady
  BY <1>8, <1>12, MessageTypes DEF PostReady
<1>13. CASE TerminalFit
  <2> DEFINE c == Head(toPage)
             m == [type |-> "fitted", for |-> c.for, size |-> FitAnswer(page)]
  <2>1. c \in PageCalls /\ c.call = "fit" /\ toPage # <<>> /\ Tail(toPage) \in Seq(PageCalls)
    BY <1>13, CalledTypes DEF TerminalFit
  <2>2. c.for \in Reasons /\ (c \in Refits <=> c.for = "refit")
    BY <2>1 DEF PageCalls, Refits, Reasons
  <2>3. FitAnswer(page) \in Nat
    <3>1. Proposed(page) \in Nat
      BY ProposedType, ViewTypes DEF ViewIInv, ViewInv
    <3> QED BY <3>1 DEF FitAnswer
  <2>4. m \in AppMessages /\ (m \in Refitted <=> c.for = "refit")
    BY <2>2, <2>3, MessageTypes
  <2>5. toPage' = Tail(toPage) /\ toApp' = Append(toApp, m)
    BY <1>13 DEF TerminalFit
  <2> HIDE DEF m, c
  <2>6. Typed
    BY <1>1, <2>1, <2>4, <2>5
  <2>7. messages2 = IF m \in Refitted THEN messages + 1 ELSE messages
    BY <1>1, <2>4, <2>5, CountAppend DEF messages, messages2
  <2>8. calls2 = IF c \in Refits THEN calls - 1 ELSE calls
    BY <1>1, <2>1, <2>5, CountTail DEF calls, calls2, c
  <2> QED BY <1>2, <1>7, <2>2, <2>4, <2>5, <2>6, <2>7, <2>8
<1>14. CASE TerminalSetFontSize
  <2>1. toPage # <<>> /\ Tail(toPage) \in Seq(PageCalls) /\ UNCHANGED toApp /\ toPage' = Tail(toPage)
    BY <1>14, CalledTypes DEF TerminalSetFontSize
  <2>2. calls2 = IF Head(toPage) \in Refits THEN calls - 1 ELSE calls
    BY <1>1, <2>1, CountTail DEF calls, calls2
  <2>3. messages2 = messages
    BY <2>1 DEF messages, messages2
  <2> QED BY <1>1, <1>2, <1>7, <2>1, <2>2, <2>3

(* The app.                                                                *)
<1>15. CASE OnReady
  <2> DEFINE c == [call |-> "setFontSize", size |-> app.font]
  <2>1. c \in PageCalls \ Refits
    <3>1. app.font \in Fonts
      BY ViewTypes DEF ViewIInv, ViewInv, Apps
    <3> QED BY <3>1, CallTypes
  <2>2. toApp # <<>> /\ Tail(toApp) \in Seq(AppMessages) /\ toApp' = Tail(toApp) /\ toPage' = Append(toPage, c)
    BY <1>15, ReceivedTypes DEF OnReady
  <2> HIDE DEF c
  <2>3. Typed
    BY <1>1, <2>1, <2>2
  <2>4. calls2 = calls
    BY <1>1, <2>1, <2>2, CountAppend DEF calls, calls2
  <2>5. messages2 = IF Head(toApp) \in Refitted THEN messages - 1 ELSE messages
    BY <1>1, <2>2, CountTail DEF messages, messages2
  <2> QED BY <1>2, <1>7, <2>3, <2>4, <2>5
<1>16. CASE InitialFitDue
  <2>1. [call |-> "fit", for |-> "initial"] \in PageCalls \ Refits
    BY CallTypes DEF Reasons
  <2>2. UNCHANGED toApp /\ toPage' \in {toPage, Append(toPage, [call |-> "fit", for |-> "initial"])}
    BY <1>16 DEF InitialFitDue
  <2> QED BY <1>9, <1>10, <2>1, <2>2
<1>17. CASE OnInitialFit \/ OnResize
  <2>1. toApp # <<>> /\ Tail(toApp) \in Seq(AppMessages) /\ toApp' = Tail(toApp) /\ UNCHANGED toPage
    BY <1>17, ReceivedTypes DEF OnInitialFit, OnResize
  <2>2. Typed
    BY <1>1, <2>1
  <2>3. calls2 = calls
    BY <2>1 DEF calls, calls2
  <2>4. messages2 = IF Head(toApp) \in Refitted THEN messages - 1 ELSE messages
    BY <1>1, <2>1, CountTail DEF messages, messages2
  <2> QED BY <1>2, <1>7, <2>2, <2>3, <2>4
<1>18. CASE OnRefit
  <2> DEFINE c == [call |-> "reloadWebgl"]
  <2>1. c \in PageCalls \cap Refits
    BY CallTypes
  <2>2. Head(toApp) \in Refitted
    BY <1>18, ReceivedTypes DEF OnRefit, AppMessages, Refitted, Reasons
  <2>3. toApp # <<>> /\ Tail(toApp) \in Seq(AppMessages) /\ toApp' = Tail(toApp) /\ toPage' = Append(toPage, c)
    BY <1>18, ReceivedTypes DEF OnRefit
  <2> HIDE DEF c
  <2>4. Typed
    BY <1>1, <2>1, <2>3
  <2>5. calls2 = calls + 1
    BY <1>1, <2>1, <2>3, CountAppend DEF calls, calls2
  <2>6. messages2 = messages - 1
    BY <1>1, <2>2, <2>3, CountTail DEF messages, messages2
  <2> QED BY <1>2, <1>7, <2>4, <2>5, <2>6
<1>19. CASE PerformRefit
  <2> DEFINE c == [call |-> "fit", for |-> "refit"]
  <2>1. c \in PageCalls /\ c \in Refits
    BY CallTypes DEF Reasons
  <2>2. UNCHANGED toApp /\ toPage' = Append(toPage, c) /\ env'.events = env.events + 1
    BY <1>3, <1>19 DEF PerformRefit
  <2> HIDE DEF c
  <2>3. Typed
    BY <1>1, <2>1, <2>2
  <2>4. calls2 = calls + 1
    BY <1>1, <2>1, <2>2, CountAppend DEF calls, calls2
  <2>5. messages2 = messages
    BY <2>2 DEF messages, messages2
  <2> QED BY SMTT(30), <1>1, <1>2, <1>3, <1>6, <2>2, <2>3, <2>4, <2>5
<1>20. ASSUME NEW f \in Fonts, ChangeFont(f) PROVE Goal
  <2>1. [call |-> "setFontSize", size |-> f] \in PageCalls \ Refits
    BY CallTypes
  <2>2. UNCHANGED toApp /\ toPage' \in {toPage, Append(toPage, [call |-> "setFontSize", size |-> f])}
    BY <1>20 DEF ChangeFont
  <2> QED BY <1>9, <1>10, <2>1, <2>2
<1>21. CASE ViewNext
  <2>1. CASE PageStep
    BY <2>1, <1>5, <1>10, <1>11, <1>12, <1>13, <1>14
       DEF PageStep, ResizeObserved, DoFit, RetryLoad
  <2>2. CASE AppStep
    BY <2>2, <1>10, <1>15, <1>16, <1>17, <1>18 DEF AppStep, SetupDone, RetryPty
  <2>3. CASE (\E w \in Sizes : Layout(w)) \/ SetupFails \/ ChangeWindow \/ PtyExits
             \/ PtyExitsUnseen \/ (\E k \in Loaders : ContextLoss(k))
    BY <2>3, <1>10 DEF Layout, SetupFails, ChangeWindow, PtyExits, PtyExitsUnseen, ContextLoss
  <2> QED BY <1>19, <1>20, <1>21, <2>1, <2>2, <2>3 DEF ViewNext
<1> QED BY <1>10, <1>21 DEF viewVars

(* The app and the PTY it holds.                                           *)
LocalView(a, p, s) ==
  ~remote => /\ s = <<>>
             /\ p # NoPty => p.size = a.lastResize
             /\ p # NoPty \/ a.retry > 0 => a.lastResize > 0
GoodView(a, p, s) == a \in Apps /\ p \in Ptys /\ s \in Seq(Nat) /\ LocalView(a, p, s)

LEMMA StartedTypes ==
  ASSUME ViewIInv, NEW n \in Nat, StartPty(n)
  PROVE  /\ pty' \in Ptys /\ starting' \in Seq(Nat)
         /\ ~remote => UNCHANGED starting /\ (pty'.size = n \/ UNCHANGED pty)
         /\ remote => UNCHANGED pty
<1>1. pty \in Ptys /\ starting \in Seq(Nat)
  BY ViewTypes DEF ViewIInv, ViewInv
<1>2. CASE remote
  <2>1. starting' = Append(starting, n) /\ UNCHANGED pty
    BY <1>2 DEF StartPty
  <2> QED BY <1>1, <1>2, <2>1
<1>3. CASE ~remote
  <2>1. UNCHANGED starting /\ (pty' = [live |-> TRUE, size |-> n] \/ UNCHANGED pty)
    BY <1>3 DEF StartPty, SpawnPty
  <2>2. [live |-> TRUE, size |-> n] \in Ptys /\ [live |-> TRUE, size |-> n].size = n
    BY DEF Ptys
  <2>3. pty' \in Ptys /\ (pty'.size = n \/ UNCHANGED pty)
    BY <1>1, <2>1, <2>2
  <2>4. starting' \in Seq(Nat) /\ UNCHANGED starting
    BY <1>1, <2>1
  <2> QED BY Zenon, <1>3, <2>3, <2>4
<1> QED BY <1>2, <1>3

LEMMA AppKeeps ==
  ASSUME ViewIInv, [ViewNext]_viewVars
  PROVE  GoodView(app', pty', starting') /\ app'.retry <= env'.events /\ UNCHANGED remote
<1> DEFINE Goal == GoodView(app', pty', starting') /\ app'.retry <= env'.events
<1>1. app \in Apps /\ pty \in Ptys /\ starting \in Seq(Nat) /\ LocalView(app, pty, starting)
  BY ViewTypes DEF ViewIInv, ViewInv, LocalPtySize, LocalSizeIsKnown, LocalView
<1>2. /\ app.retry \in 0 .. MaxEvents /\ app.lastResize \in Nat /\ app.retries \in 0 .. PtyMaxRetries
      /\ env.events \in 0 .. MaxEvents /\ MaxEvents \in Nat /\ PtyMaxRetries \in Nat
      /\ app.retry <= env.events
  BY <1>1, ConstantTypes DEF Apps, ViewIInv, ViewBounds, Envs
<1>3. /\ env'.events \in 0 .. MaxEvents /\ env'.events >= env.events
      /\ Disturb => env'.events = env.events + 1
  <2>1. env'.events \in 0 .. MaxEvents
    BY EventsAreCounted DEF Envs
  <2> QED BY <1>2, <2>1, EventsAreCounted
<1>4. UNCHANGED remote
  BY DEF ViewNext, PageStep, AppStep, viewVars, ResizeObserved, DoFit, PtyTimerFires,
         PostReady, TerminalFit, TerminalSetFontSize, TerminalReloadWebgl, RetryLoad,
         OnReady, InitialFitDue, OnInitialFit, OnResize, OnRefit, SetupDone,
         RetryPty, Layout, ChangeFont, PerformRefit, SetupFails, ChangeWindow,
         PtyExits, PtyExitsUnseen, ContextLoss
<1>5. SUFFICES Goal
  BY <1>4
<1>6. ASSUME UNCHANGED <<pty, starting>>, app' \in Apps, app'.retry = app.retry, app'.lastResize = app.lastResize
      PROVE  Goal
  BY <1>1, <1>2, <1>3, <1>6 DEF GoodView, LocalView
<1>7. CASE UNCHANGED <<app, pty, starting>>
  BY <1>1, <1>6, <1>7

(* A size is remembered, and a PTY is started with it or has it now.       *)
<1>8. ASSUME NEW n \in Nat \ {0}, app' = [app EXCEPT !.lastResize = n],
             \/ pty = NoPty /\ StartPty(n)
             \/ pty' = [pty EXCEPT !.size = n] /\ UNCHANGED starting
             \/ pty = NoPty /\ UNCHANGED <<pty, starting>>
      PROVE  Goal
  <2>1. app' \in Apps /\ app'.lastResize = n /\ app'.retry = app.retry
    BY <1>1, <1>8 DEF Apps
  <2>2. CASE pty = NoPty /\ StartPty(n)
    <3>1. /\ pty' \in Ptys /\ starting' \in Seq(Nat)
          /\ ~remote => UNCHANGED starting /\ (pty'.size = n \/ pty' = NoPty)
      BY <2>2, StartedTypes
    <3> QED BY SMTT(30), <1>1, <1>2, <1>3, <2>1, <2>2, <3>1 DEF GoodView, LocalView
  <2>3. CASE pty' = [pty EXCEPT !.size = n] /\ UNCHANGED starting
    <3>1. pty' \in Ptys /\ pty'.size = n
      BY <1>1, <2>3 DEF Ptys
    <3> QED BY <1>1, <1>2, <1>3, <2>1, <2>3, <3>1 DEF GoodView, LocalView
  <2>4. CASE pty = NoPty /\ UNCHANGED <<pty, starting>>
    BY <1>1, <1>2, <1>3, <2>1, <2>4 DEF GoodView, LocalView
  <2> QED BY <1>8, <2>2, <2>3, <2>4
<1>9. CASE OnInitialFit
  <2> DEFINE n == Head(toApp).size
  <2>1. n \in Nat
    <3>1. Head(toApp) \in AppMessages /\ Head(toApp).type = "fitted"
      BY <1>9, ReceivedTypes DEF OnInitialFit
    <3> QED BY <3>1 DEF AppMessages
  <2>2. \/ UNCHANGED <<app, pty, starting>>
        \/ n # 0 /\ app' = [app EXCEPT !.lastResize = n] /\ pty = NoPty /\ StartPty(n)
    BY <1>9 DEF OnInitialFit
  <2> HIDE DEF n
  <2> QED BY <1>7, <1>8, <2>1, <2>2
<1>10. CASE OnResize
  <2> DEFINE n == Head(toApp).size
  <2>1. n \in Nat \ {0}
    <3>1. Head(toApp) \in AppMessages /\ Head(toApp).type = "resize"
      BY <1>10, ReceivedTypes DEF OnResize
    <3> QED BY <3>1 DEF AppMessages
  <2>2. \/ UNCHANGED <<app, pty, starting>>
        \/ /\ app' = [app EXCEPT !.lastResize = n]
           /\ (pty = NoPty /\ StartPty(n)) \/ (pty' = [pty EXCEPT !.size = n] /\ UNCHANGED starting)
    BY <1>10 DEF OnResize
  <2> HIDE DEF n
  <2> QED BY <1>7, <1>8, <2>1, <2>2
<1>11. CASE OnRefit
  <2> DEFINE n == Head(toApp).size
  <2>1. n \in Nat
    <3>1. Head(toApp) \in AppMessages /\ Head(toApp).type = "fitted"
      BY <1>11, ReceivedTypes DEF OnRefit
    <3> QED BY <3>1 DEF AppMessages
  <2>2. /\ UNCHANGED starting
        /\ \/ UNCHANGED <<app, pty>>
           \/ /\ n # 0 /\ app' = [app EXCEPT !.lastResize = n]
              /\ (pty = NoPty /\ UNCHANGED pty) \/ pty' = [pty EXCEPT !.size = n]
    BY <1>11 DEF OnRefit
  <2> HIDE DEF n
  <2> QED BY <1>7, <1>8, <2>1, <2>2
<1>12. CASE OnReady \/ InitialFitDue
  <2>1. UNCHANGED <<pty, starting>>
    BY <1>12 DEF OnReady, InitialFitDue
  <2>2. app' \in Apps /\ app'.retry = app.retry /\ app'.lastResize = app.lastResize
    BY <1>1, <1>12 DEF OnReady, InitialFitDue, Apps
  <2> QED BY <1>6, <2>1, <2>2
<1>13. ASSUME NEW f \in Fonts, ChangeFont(f) PROVE Goal
  <2>1. UNCHANGED <<pty, starting>> /\ app' = [app EXCEPT !.font = f]
    BY <1>13 DEF ChangeFont
  <2>2. app' \in Apps /\ app'.retry = app.retry /\ app'.lastResize = app.lastResize
    BY <1>1, <2>1 DEF Apps
  <2> QED BY <1>6, <2>1, <2>2
<1>14. CASE SetupDone
  <2>1. /\ starting # <<>> /\ UNCHANGED app /\ starting' = Tail(starting)
        /\ pty' = [live |-> TRUE, size |-> Head(starting)] \/ UNCHANGED pty
    BY <1>14 DEF SetupDone, SpawnPty
  <2>2. pty' \in Ptys /\ starting' \in Seq(Nat)
    <3>1. Head(starting) \in Nat /\ Tail(starting) \in Seq(Nat)
      BY <1>1, <2>1
    <3>2. [live |-> TRUE, size |-> Head(starting)] \in Ptys
      BY <3>1 DEF Ptys
    <3> QED BY <1>1, <2>1, <3>1, <3>2
  <2>3. remote
    BY <1>1, <2>1 DEF LocalView
  <2> QED BY <1>1, <1>2, <1>3, <1>4, <2>1, <2>2, <2>3 DEF GoodView, LocalView
<1>15. CASE SetupFails
  <2>1. starting # <<>> /\ UNCHANGED <<app, pty>> /\ starting' = Tail(starting)
    BY <1>15 DEF SetupFails
  <2>2. starting' \in Seq(Nat)
    BY <1>1, <2>1
  <2>3. remote
    BY <1>1, <2>1 DEF LocalView
  <2> QED BY <1>1, <1>2, <1>3, <1>4, <2>1, <2>2, <2>3 DEF GoodView, LocalView
<1>16. CASE PtyExits
  <2>1. pty.live /\ UNCHANGED starting /\ env'.events = env.events + 1 /\ pty # NoPty
    BY <1>3, <1>16 DEF PtyExits, NoPty
  <2>2. CASE app.retries < PtyMaxRetries
    <3> DEFINE a == [app EXCEPT !.retries = app.retries + 1, !.retry = app.retry + 1]
    <3>1. app' = a /\ pty' = NoPty
      BY <1>16, <2>2 DEF PtyExits
    <3>2. a \in Apps /\ a.retry = app.retry + 1 /\ a.lastResize = app.lastResize
      <4>1. app.retries + 1 \in 0 .. PtyMaxRetries /\ app.retry + 1 \in 0 .. MaxEvents
        BY <1>2, <1>3, <2>1, <2>2
      <4> QED BY <1>1, <4>1 DEF Apps
    <3>3. pty' \in Ptys
      BY <3>1 DEF NoPty, Ptys
    <3>4. app'.retry <= env'.events
      BY <1>2, <2>1, <3>1, <3>2
    <3> HIDE DEF a
    <3> QED BY <1>1, <1>2, <2>1, <3>1, <3>2, <3>3, <3>4 DEF GoodView, LocalView
  <2>3. CASE ~(app.retries < PtyMaxRetries)
    <3>1. UNCHANGED app /\ pty' = [pty EXCEPT !.live = FALSE]
      BY <1>16, <2>3 DEF PtyExits
    <3>2. pty' \in Ptys /\ pty'.size = pty.size
      BY <1>1, <3>1 DEF Ptys
    <3> QED BY <1>1, <1>2, <1>3, <2>1, <3>1, <3>2 DEF GoodView, LocalView
  <2> QED BY <2>2, <2>3
<1>19. CASE PtyExitsUnseen
  <2>1. pty.live /\ UNCHANGED <<app, starting>> /\ pty' = [pty EXCEPT !.live = FALSE] /\ pty # NoPty
    BY <1>19 DEF PtyExitsUnseen, NoPty
  <2>2. pty' \in Ptys /\ pty'.size = pty.size
    BY <1>1, <2>1 DEF Ptys
  <2> QED BY <1>1, <1>2, <1>3, <2>1, <2>2 DEF GoodView, LocalView
<1>17. CASE RetryPty
  <2> DEFINE n == IF app.lastResize > 0 THEN app.lastResize ELSE Default
             a == [app EXCEPT !.retry = app.retry - 1]
  <2>1. app.retry > 0 /\ app' = a /\ StartPty(n)
    BY <1>17 DEF RetryPty
  <2>2. a \in Apps /\ a.retry = app.retry - 1 /\ a.lastResize = app.lastResize
    <3>1. app.retry - 1 \in 0 .. MaxEvents
      BY <1>2, <2>1
    <3> QED BY <1>1, <3>1 DEF Apps
  <2>3. n \in Nat
    BY <1>2, ConstantTypes
  <2>4. /\ pty' \in Ptys /\ starting' \in Seq(Nat)
        /\ ~remote => UNCHANGED starting /\ (pty'.size = n \/ UNCHANGED pty)
    BY <2>1, <2>3, StartedTypes
  <2>5. ~remote => /\ app.lastResize > 0 /\ starting = <<>>
                   /\ pty # NoPty => pty.size = app.lastResize
    BY <1>1, <2>1 DEF LocalView
  <2>6. app'.retry <= env'.events
    BY <1>2, <1>3, <2>1, <2>2
  <2>7. ~remote /\ pty' # NoPty => pty'.size = app.lastResize
    BY <2>4, <2>5
  <2> HIDE DEF a, n
  <2> QED BY <2>1, <2>2, <2>4, <2>5, <2>6, <2>7 DEF GoodView, LocalView
<1>18. CASE ViewNext
  <2>1. CASE PageStep
    BY <2>1, <1>7 DEF PageStep, ResizeObserved, DoFit, PtyTimerFires, PostReady,
         TerminalFit, TerminalSetFontSize, TerminalReloadWebgl, RetryLoad
  <2>2. CASE AppStep
    BY <2>2, <1>9, <1>10, <1>11, <1>12, <1>14, <1>17 DEF AppStep
  <2>3. CASE (\E w \in Sizes : Layout(w)) \/ PerformRefit \/ ChangeWindow
             \/ (\E k \in Loaders : ContextLoss(k))
    BY <2>3, <1>7 DEF Layout, PerformRefit, ChangeWindow, ContextLoss
  <2> QED BY <1>13, <1>15, <1>16, <1>18, <1>19, <2>1, <2>2, <2>3 DEF ViewNext
<1> QED BY <1>7, <1>18 DEF viewVars

-----------------------------------------------------------------------------
LEMMA ViewInitInv == ViewInit => ViewIInv
<1> SUFFICES ASSUME ViewInit PROVE ViewIInv
  OBVIOUS
<1>1. page \in Pages /\ TermIsLastFit
  <2>1. PICK w \in Sizes : page = CreateTerminal(w)
    BY DEF ViewInit
  <2> QED BY <2>1, ConstantTypes DEF CreateTerminal, NoTimer, TermIsLastFit, Pages
<1>2. gpu \in Gpus /\ CurrentIsLive /\ gpu.loads = 1
  <2> DEFINE idle == [k \in Loaders |-> Idle]
             none == [loaders |-> idle, loads |-> 0, current |-> 0]
             next == [none EXCEPT !.loads = 1]
  <2>1. 1 \in Loaders /\ 0 \in 0 .. (MaxEvents + 1) /\ 1 \in 0 .. (MaxEvents + 1)
    BY ConstantTypes DEF Loaders
  <2>2. idle \in [Loaders -> Addons]
    BY ConstantTypes DEF Idle, Addons
  <2>3. none \in Gpus /\ none.loads = 0
    <3> HIDE DEF idle
    <3> QED BY <2>1, <2>2 DEF Gpus
  <2> HIDE DEF none
  <2>4. next \in Gpus /\ next.loads = 1
    BY <2>1, <2>3 DEF Gpus
  <2>5. gpu = Loaded(next, 1)
    BY <2>3 DEF ViewInit, LoadWebgl, none
  <2> HIDE DEF next
  <2> QED BY <2>1, <2>4, <2>5, LoadedIsLive DEF CurrentIsLive
<1>3. /\ app \in Apps /\ app.retry = 0 /\ pty = NoPty /\ pty \in Ptys
      /\ starting = <<>> /\ starting \in Seq(Nat)
  BY ConstantTypes DEF ViewInit, NoPty, Apps, Ptys
<1>4. ChannelTypes
  BY DEF ViewInit, ChannelTypes
<1>5. env \in Envs /\ env.events = 0
  BY ConstantTypes DEF ViewInit, Envs
<1>6. Count(toPage, Refits) = 0 /\ Count(toApp, Refitted) = 0
  BY CountOfEmpty DEF ViewInit
<1>7. ViewInv
  BY <1>1, <1>2, <1>3, ViewTypes DEF ViewInv, LocalPtySize
<1> QED BY <1>2, <1>3, <1>4, <1>5, <1>6, <1>7
        DEF ViewIInv, ViewBounds, ReloadsAreCounted, LocalSizeIsKnown, Envs

LEMMA ViewStep == ViewIInv /\ [ViewNext]_viewVars => ViewIInv'
<1> SUFFICES ASSUME ViewIInv, [ViewNext]_viewVars PROVE ViewIInv'
  OBVIOUS
<1>1. page' \in Pages /\ TermIsLastFit' /\ gpu' \in Gpus /\ CurrentIsLive'
  BY PageKeepsFit, AddonsKeep
<1>2. GoodView(app', pty', starting') /\ app'.retry <= env'.events /\ UNCHANGED remote
  BY AppKeeps
<1>3. ViewTypeOK'
  BY <1>1, <1>2 DEF ViewTypeOK, Pages, Gpus, Addons, Apps, Ptys, GoodView
<1>4. LocalPtySize' /\ LocalSizeIsKnown'
  BY <1>2 DEF LocalPtySize, LocalSizeIsKnown, GoodView, LocalView
<1>5. ViewBounds'
  BY <1>2, EventsAreCounted DEF ViewBounds, Envs
<1> QED BY <1>1, <1>3, <1>4, <1>5, ChannelsKeep DEF ViewIInv, ViewInv

(***************************************************************************)
(* For any sizes and fonts, and any number of disturbances and retries,    *)
(* the page never takes a disposed addon for the current one, and what the *)
(* page and the app remember of a size is true (terminal-entry.js:313-345, *)
(* 726, XTermTerminalView.swift:358).                                      *)
(***************************************************************************)
THEOREM ViewIsTrue == ViewSpec => []ViewInv
<1>1. ViewIInv => ViewInv
  BY DEF ViewIInv
<1> QED BY <1>1, ViewInitInv, ViewStep, PTL DEF ViewSpec
=============================================================================
