----------------------------- MODULE CodeEditor -----------------------------
(***************************************************************************)
(* The code editor: a CodeMirror page (WebEditor/editor-entry.js), the     *)
(* coordinator of its web view (CodeEditorView.swift), and the area that   *)
(* owns the open file (PreviewArea.swift): editing, saving, reloading when *)
(* somebody else writes the file, the target that is marked while Cmd is   *)
(* held, hover tooltips, diff markers and the scroll position.             *)
(*                                                                         *)
(* A web view lives as long as one file is open.  The page, the app's main *)
(* thread and the background queues run concurrently; messages to the app  *)
(* and scripts to the page arrive in order.                                *)
(***************************************************************************)
EXTENDS Naturals, Sequences, FiniteSets

CONSTANTS Texts,       \* contents of the file
          FirstText,   \* what is on disk when it is opened
          Words,       \* identifiers, as ranges of a text
          WordsIn,     \* the identifiers of each text
          NoText, NoWord,
          MaxEvents    \* bound: what the user, and others who write the file, do

ASSUME TextsAssumption ==
  FirstText \in Texts /\ NoText \notin Texts /\ WordsIn \in [Texts -> SUBSET Words]
ASSUME NullsAssumption == NoWord \notin Words
ASSUME EventsAssumption == MaxEvents \in Nat

VARIABLES
  page,    \* [text, posting: the debounce timer runs, marks: lines have diff
           \*  markers, overlay: so has the scrollbar, search: the panel is open]
  keys,    \* [cmd: the real key, focused, meta: isMetaPressed]
  jump,    \* [target: currentHoverTarget, mark: the marked word, lastId, refused]
  tip,     \* [pending: the id of _pendingHoverResolve, timers, lastId]
  scroll,  \* [pos: the percentage, scheduled: _scrollPostScheduled, moved, drifted,
           \*  store: MarkdownScrollStore]
  view,    \* the coordinator: [ready, pending: pendingFile, last: lastOpenedFile]
  file,    \* PreviewArea: [open: openFile, seen, edited, saved: savedContentReference,
           \*  dirty, overtaken: a save ended after the text had gone on]
  disk,    \* [text, notify: an fsevent is on its way]
  jobs,    \* what background queues and delayed blocks of the main queue still do
  toApp, toPage, events

vars == <<page, keys, jump, tip, scroll, view, file, disk, jobs, toApp, toPage, events>>

(* Bound: besides edits, a behaviour has events of one group only, and     *)
(* follows the scroll position only in the group "scrolling".              *)
Groups == {"saving", "pointing", "scrolling"}

NoFile == [text |-> NoText, line |-> 0]
NoTarget == [id |-> 0, word |-> NoWord]
Files == [text: Texts, line: 0 .. 1]
Kinds == {"ready", "contentChanged", "definitionHover", "hoverInfo", "definition", "scroll"}
JobKinds == {"watch", "read", "load", "loaded", "write", "written",
             "hunks", "findTarget", "findInfo", "scrollBack"}

TypeOK ==
  /\ page \in [text: Texts \cup {NoText}, posting: BOOLEAN, marks: BOOLEAN,
              overlay: BOOLEAN, search: BOOLEAN]
  /\ keys \in [cmd: BOOLEAN, focused: BOOLEAN, meta: BOOLEAN]
  /\ jump.lastId \in 0 .. MaxEvents /\ jump.refused \subseteq 1 .. jump.lastId
  /\ jump.target \in [id: 0 .. jump.lastId, word: Words \cup {NoWord}]
  /\ tip.pending \in {0} \cup tip.timers /\ tip.timers \subseteq 1 .. tip.lastId
  /\ scroll \in [pos: 0 .. 1, scheduled: BOOLEAN, moved: BOOLEAN, drifted: BOOLEAN,
                store: 0 .. 1]
  /\ view.pending \in Files \cup {NoFile} /\ (view.ready => view.pending = NoFile)
  /\ view.last \in Files \cup {NoFile}
  /\ file.open \in Files /\ file.seen \in Files
  /\ file.edited \in Texts /\ file.saved \in Texts
  /\ file.dirty \in BOOLEAN /\ file.overtaken \in BOOLEAN
  /\ disk \in [text: Texts, notify: BOOLEAN]
  /\ \A j \in jobs : j.kind \in JobKinds
  /\ events \in [count: 0 .. MaxEvents, group: Groups]
  /\ \A i \in DOMAIN toApp : toApp[i].kind \in Kinds

(* makeNSView: the page is loading, the file waits for it. *)
Init ==
  /\ page = [text |-> NoText, posting |-> FALSE, marks |-> FALSE,
             overlay |-> FALSE, search |-> FALSE]
  /\ keys = [cmd |-> FALSE, focused |-> FALSE, meta |-> FALSE]
  /\ jump = [target |-> NoTarget, mark |-> NoWord, lastId |-> 0, refused |-> {}]
  /\ tip = [pending |-> 0, timers |-> {}, lastId |-> 0]
  /\ events \in [count: {0}, group: Groups]
  /\ \E pos \in IF events.group = "scrolling" THEN 0 .. 1 ELSE {0} :
       scroll = [pos |-> 0, scheduled |-> FALSE, moved |-> FALSE, drifted |-> FALSE, store |-> pos]
  /\ file = [open |-> [text |-> FirstText, line |-> 0], seen |-> [text |-> FirstText, line |-> 0],
             edited |-> FirstText, saved |-> FirstText, dirty |-> FALSE, overtaken |-> FALSE]
  /\ view = [ready |-> FALSE, pending |-> file.open, last |-> NoFile]
  /\ disk = [text |-> FirstText, notify |-> FALSE]
  /\ jobs = {} /\ toApp = <<[kind |-> "ready"]>> /\ toPage = <<>>

(* Bounds: the number of events, and their group. *)
Event(groups) ==
  /\ events.group \in groups /\ events.count < MaxEvents
  /\ events' = [events EXCEPT !.count = @ + 1]
Opened == page.text # NoText
Post(message) == toApp' = Append(toApp, message)
Job(kind, text, id) == [kind |-> kind, text |-> text, id |-> id]

-----------------------------------------------------------------------------
(* The coordinator.                                                        *)

(* openFile(filename, content, line, column): the first call opens the     *)
(* file in the page, later ones replace the content, whatever the line.    *)
OpenFile(f) ==
  IF ~view.ready THEN view' = [view EXCEPT !.pending = f] /\ UNCHANGED <<toPage, jobs>>
  ELSE IF view.last = f THEN UNCHANGED <<view, toPage, jobs>>
  ELSE /\ view' = [view EXCEPT !.last = f]
       /\ toPage' = Append(toPage, [kind |-> "update", text |-> f.text])
       /\ jobs' = jobs \cup {Job("hunks", NoText, 0)}

(* The page is ready: the file that waits is opened in it, scrolled back   *)
(* to where it was left if no line is asked for.                           *)
Ready ==
  /\ view' = [ready |-> TRUE, pending |-> NoFile, last |-> view.pending]
  /\ toPage' = Append(toPage, [kind |-> "open", text |-> view.pending.text])
  /\ jobs' = jobs \cup {Job("hunks", NoText, 0)}
       \cup (IF scroll.store > 0 /\ view.pending.line = 0 THEN {Job("scrollBack", NoText, 1)} ELSE {})

(* SwiftUI renders a new openFile: onChange(of: openFile), updateNSView(). *)
ViewUpdate ==
  /\ file.seen # file.open
  /\ file' = [file EXCEPT !.seen = file.open, !.dirty = FALSE, !.overtaken = FALSE,
                          !.edited = file.open.text, !.saved = file.open.text]
  /\ OpenFile(file.open)
  /\ UNCHANGED <<page, keys, jump, tip, scroll, disk, toApp, events>>

(* userContentController(didReceive:). *)
ContentChanged(text) ==
  /\ file' = [file EXCEPT !.edited = text, !.dirty = (text # file.saved), !.overtaken = FALSE]
  /\ UNCHANGED <<view, toPage, jobs, scroll>>

AppReceives ==
  /\ toApp # <<>>
  /\ toApp' = Tail(toApp)
  /\ LET m == Head(toApp)
     IN  CASE m.kind = "ready" -> Ready /\ UNCHANGED <<file, scroll>>
           [] m.kind = "contentChanged" -> ContentChanged(m.text)
           [] m.kind = "definitionHover" ->
                jobs' = jobs \cup {Job("findTarget", NoText, m.id)}
                /\ UNCHANGED <<view, toPage, file, scroll>>
           [] m.kind = "hoverInfo" ->
                jobs' = jobs \cup {Job("findInfo", NoText, m.id)}
                /\ UNCHANGED <<view, toPage, file, scroll>>
           [] m.kind = "definition" ->
                jobs' = jobs \cup {Job("load", NoText, 0)}
                /\ UNCHANGED <<view, toPage, file, scroll>>
           [] m.kind = "scroll" ->
                scroll' = [scroll EXCEPT !.store = m.pos]
                /\ UNCHANGED <<view, toPage, jobs, file>>
  /\ UNCHANGED <<page, keys, jump, tip, disk, events>>

-----------------------------------------------------------------------------
(* Saving, and reading what somebody else wrote.                           *)

JobStep(old, new) == old \in jobs /\ jobs' = (jobs \ {old}) \cup new

SaveCurrentFile ==
  /\ Event({"saving"}) /\ file.dirty
  /\ jobs' = jobs \cup {Job("write", file.edited, 0)}
  /\ UNCHANGED <<page, keys, jump, tip, scroll, view, file, disk, toApp, toPage>>

WriteFile(j) ==
  /\ j.kind = "write"
  /\ \/ JobStep(j, {Job("written", j.text, 0)}) /\ disk' = [text |-> j.text, notify |-> TRUE]
     \/ JobStep(j, {}) /\ UNCHANGED disk
  /\ UNCHANGED <<page, keys, jump, tip, scroll, view, file, toApp, toPage, events>>

(* The write succeeded.  openFile keeps its content: "Don't re-assign      *)
(* openFile - that triggers updateNSView in the editor".  What was typed   *)
(* since counts as clean too.                                              *)
Saved(j) ==
  /\ j.kind = "written" /\ JobStep(j, {})
  /\ file' = [file EXCEPT !.dirty = FALSE, !.saved = j.text,
                          !.overtaken = (file.edited # j.text)]
  /\ UNCHANGED <<page, keys, jump, tip, scroll, view, disk, toApp, toPage, events>>

ExternalWrite(text) ==
  /\ Event(Groups) /\ text # disk.text
  /\ disk' = [text |-> text, notify |-> TRUE]
  /\ UNCHANGED <<page, keys, jump, tip, scroll, view, file, jobs, toApp, toPage>>

(* handleExternalFileChange(): dropped while dirty, before and after the   *)
(* file is read in the background.                                         *)
HandleExternalFileChange ==
  /\ disk.notify
  /\ disk' = [disk EXCEPT !.notify = FALSE]
  /\ jobs' = IF file.dirty THEN jobs ELSE jobs \cup {Job("watch", NoText, 0)}
  /\ UNCHANGED <<page, keys, jump, tip, scroll, view, file, toApp, toPage, events>>

ReadFile(j) ==
  /\ \/ j.kind = "watch" /\ JobStep(j, {Job("read", disk.text, 0)})
     \/ j.kind = "load" /\ JobStep(j, {Job("loaded", disk.text, 0)})
  /\ UNCHANGED <<page, keys, jump, tip, scroll, view, file, disk, toApp, toPage, events>>

FileChanged(j) ==
  /\ j.kind = "read" /\ JobStep(j, {})
  /\ file' = IF file.dirty THEN file ELSE [file EXCEPT !.open.text = j.text]
  /\ UNCHANGED <<page, keys, jump, tip, scroll, view, disk, toApp, toPage, events>>

(* loadFile(at:line:column:), for a definition found in the same file. *)
FileLoaded(j) ==
  /\ j.kind = "loaded" /\ JobStep(j, {})
  /\ file' = [file EXCEPT !.open = [text |-> j.text, line |-> 1]]
  /\ UNCHANGED <<page, keys, jump, tip, scroll, view, disk, toApp, toPage, events>>

(* The other answers become scripts: the hunks of git (nothing is sent if  *)
(* there are none), whether the target has a definition, what the language *)
(* server knows of the symbol, and the scroll position, 50 ms later.       *)
Answers(j) ==
  CASE j.kind = "hunks" -> {<<[kind |-> "marks"]>>, <<>>}
    [] j.kind \in {"findTarget", "findInfo"} ->
         {<<[kind |-> j.kind, id |-> j.id, found |-> found]>> : found \in BOOLEAN}
    [] j.kind = "scrollBack" -> {<<[kind |-> "scrollBack", pos |-> j.id]>>}
    [] OTHER -> {}
Answer(j) ==
  /\ JobStep(j, {})
  /\ \E script \in Answers(j) : toPage' = toPage \o script
  /\ UNCHANGED <<page, keys, jump, tip, scroll, view, file, disk, toApp, events>>

-----------------------------------------------------------------------------
(* The page: text.                                                         *)

(* Every change of the document starts the 250 ms again; what is marked is *)
(* mapped through it, and lost when its text is replaced.                  *)
DocChanged(text, kept) ==
  /\ page' = [page EXCEPT !.text = text, !.posting = TRUE,
                          !.marks = @ /\ kept]
  /\ jump' = [jump EXCEPT !.mark = IF kept /\ @ \in WordsIn[text] THEN @ ELSE NoWord]

(* The percentage refers to the height of the text, which has changed: it  *)
(* is another one now, and nobody reports it unless the view scrolls.      *)
Drift ==
  IF events.group # "scrolling" THEN UNCHANGED scroll
  ELSE \E scrolls \in BOOLEAN :
         scroll' = [scroll EXCEPT !.pos = 1 - @, !.drifted = TRUE,
                                  !.scheduled = @ \/ scrolls, !.moved = @ \/ scrolls]

Edit(text) ==
  /\ Event(Groups) /\ Opened /\ text # page.text
  /\ DocChanged(text, TRUE) /\ Drift
  /\ UNCHANGED <<keys, tip, view, file, disk, jobs, toApp, toPage>>

PostContent ==
  /\ page.posting
  /\ page' = [page EXCEPT !.posting = FALSE]
  /\ Post([kind |-> "contentChanged", text |-> page.text])
  /\ UNCHANGED <<keys, jump, tip, scroll, view, file, disk, jobs, toPage, events>>

(* The fields of a new state are empty; jumps and tooltips that the old one *)
(* waits for are not.                                                      *)
CreateEditorState(text) == [page EXCEPT !.text = text, !.marks = FALSE, !.search = FALSE]

EditorOpenFile(text) ==
  /\ page' = [CreateEditorState(text) EXCEPT !.posting = FALSE]
  /\ UNCHANGED <<jump, tip, scroll>>

\* Broken variant: only what the user types is reported.
EditorUpdateQuietly(text) ==
  /\ page' = [page EXCEPT !.text = text, !.posting = FALSE, !.marks = FALSE]
  /\ jump' = [jump EXCEPT !.mark = NoWord]
  /\ Drift /\ UNCHANGED tip

(* scrollTop is kept, the percentage is not. *)
EditorUpdateContent(text) == DocChanged(text, FALSE) /\ Drift /\ UNCHANGED tip

(* The line marks and the bars beside the scrollbar. *)
EditorSetDiffMarkers ==
  /\ page' = [page EXCEPT !.marks = TRUE, !.overlay = TRUE]
  /\ UNCHANGED <<jump, tip, scroll>>

-----------------------------------------------------------------------------
(* The page: the target under the pointer while Cmd is held.               *)

ClearJumpHover == jump' = [jump EXCEPT !.target = NoTarget, !.mark = NoWord]

(* updateJumpHoverAtCoords() and requestJumpHover(). *)
MouseMove(word) ==
  /\ Event({"pointing"}) /\ Opened /\ word \in WordsIn[page.text] \cup {NoWord}
  /\ IF ~(keys.cmd \/ keys.meta) \/ word = NoWord
     THEN ClearJumpHover /\ UNCHANGED toApp
     ELSE IF jump.target.word = word THEN UNCHANGED <<jump, toApp>>
     ELSE LET id == jump.lastId + 1
          IN  /\ jump' = [jump EXCEPT !.target = [id |-> id, word |-> word],
                                      !.mark = word, !.lastId = id]
              /\ Post([kind |-> "definitionHover", id |-> id])
  /\ UNCHANGED <<page, keys, tip, scroll, view, file, disk, jobs, toPage>>

MouseLeave ==
  /\ Opened /\ jump.target # NoTarget
  /\ ClearJumpHover
  /\ UNCHANGED <<page, keys, tip, scroll, view, file, disk, jobs, toApp, toPage, events>>

MouseDown(word) ==
  /\ Event({"pointing"}) /\ Opened /\ keys.cmd /\ word \in WordsIn[page.text]
  /\ Post([kind |-> "definition"])
  /\ UNCHANGED <<page, keys, jump, tip, scroll, view, file, disk, jobs, toPage>>

\* Broken variant: an answer is taken for the current target, whatever was asked.
EditorSetAnyJumpHoverResult(id, canJump) ==
  /\ jump' = IF ~Opened \/ jump.target = NoTarget THEN jump
             ELSE IF canJump THEN [jump EXCEPT !.mark = jump.target.word]
             ELSE [jump EXCEPT !.mark = NoWord, !.refused = @ \cup {id}]
  /\ UNCHANGED <<page, tip, scroll>>

EditorSetJumpHoverResult(id, canJump) ==
  /\ jump' = IF ~Opened \/ jump.target.id # id THEN jump
             ELSE IF canJump THEN [jump EXCEPT !.mark = jump.target.word]
             ELSE [jump EXCEPT !.mark = NoWord, !.refused = @ \cup {id}]
  /\ UNCHANGED <<page, tip, scroll>>

EditorSetMetaPressed(k, isPressed) ==
  /\ keys' = [k EXCEPT !.meta = isPressed]
  /\ IF isPressed THEN UNCHANGED jump ELSE ClearJumpHover

(* Key events reach a page that has the focus, and so does the call of     *)
(* editorSetMetaPressed by which flagsChanged repeats them.                *)
CmdDown ==
  /\ Event({"pointing"}) /\ ~keys.cmd
  /\ IF keys.focused THEN EditorSetMetaPressed([keys EXCEPT !.cmd = TRUE], TRUE)
     ELSE keys' = [keys EXCEPT !.cmd = TRUE] /\ UNCHANGED jump
  /\ UNCHANGED <<page, tip, scroll, view, file, disk, jobs, toApp, toPage>>

CmdUp ==
  /\ keys.cmd
  /\ IF keys.focused THEN EditorSetMetaPressed([keys EXCEPT !.cmd = FALSE], FALSE)
     ELSE keys' = [keys EXCEPT !.cmd = FALSE] /\ UNCHANGED jump
  /\ UNCHANGED <<page, tip, scroll, view, file, disk, jobs, toApp, toPage, events>>

(* focusEditor() or a click: the web view becomes first responder.  *)
Focus ==
  /\ Event({"pointing"}) /\ ~keys.focused
  /\ keys' = [keys EXCEPT !.focused = TRUE]
  /\ UNCHANGED <<page, jump, tip, scroll, view, file, disk, jobs, toApp, toPage>>

Blur ==
  /\ keys.focused
  /\ EditorSetMetaPressed([keys EXCEPT !.focused = FALSE], FALSE)
  /\ UNCHANGED <<page, tip, scroll, view, file, disk, jobs, toApp, toPage, events>>

(* Cmd+F: focus, and the search panel, once the file is open in the page.   *)
FindInPreview ==
  /\ Event({"pointing"}) /\ keys.cmd
  /\ keys' = [keys EXCEPT !.focused = TRUE]
  /\ toPage' = Append(toPage, [kind |-> "search"])
  /\ UNCHANGED <<page, jump, tip, scroll, view, file, disk, jobs, toApp>>

EditorOpenSearch ==
  /\ page' = [page EXCEPT !.search = @ \/ Opened]
  /\ UNCHANGED <<jump, tip, scroll>>

-----------------------------------------------------------------------------
(* The page: tooltips.                                                     *)

\* Broken variant: no timer is started while an older one runs.
SymbolHoverOneTimer(word) ==
  /\ Event({"pointing"}) /\ Opened /\ word \in WordsIn[page.text]
  /\ LET id == tip.lastId + 1
     IN  /\ tip' = [pending |-> id, lastId |-> id,
                    timers |-> IF tip.timers = {} THEN {id} ELSE tip.timers]
         /\ Post([kind |-> "hoverInfo", id |-> id])
  /\ UNCHANGED <<page, keys, jump, scroll, view, file, disk, jobs, toPage>>

SymbolHoverTooltip(word) ==
  /\ Event({"pointing"}) /\ Opened /\ word \in WordsIn[page.text]
  /\ LET id == tip.lastId + 1
     IN  /\ tip' = [pending |-> id, timers |-> tip.timers \cup {id}, lastId |-> id]
         /\ Post([kind |-> "hoverInfo", id |-> id])
  /\ UNCHANGED <<page, keys, jump, scroll, view, file, disk, jobs, toPage>>

(* 5 seconds later. *)
HoverTimeout(id) ==
  /\ id \in tip.timers
  /\ tip' = [tip EXCEPT !.timers = @ \ {id}, !.pending = IF @ = id THEN 0 ELSE @]
  /\ UNCHANGED <<page, keys, jump, scroll, view, file, disk, jobs, toApp, toPage, events>>

EditorShowHoverTooltip(id) ==
  /\ tip' = IF tip.pending = id THEN [tip EXCEPT !.pending = 0] ELSE tip
  /\ UNCHANGED <<page, jump, scroll>>

-----------------------------------------------------------------------------
(* The page: scrolling, reported once per frame.                           *)

ScrollTo(pos) ==
  scroll' = IF pos = scroll.pos THEN scroll
            ELSE [scroll EXCEPT !.pos = pos, !.scheduled = TRUE, !.moved = TRUE]

Scroll(pos) ==
  /\ Event({"scrolling"}) /\ Opened /\ pos # scroll.pos
  /\ ScrollTo(pos)
  /\ UNCHANGED <<page, keys, jump, tip, view, file, disk, jobs, toApp, toPage>>

PostScrollPercent ==
  /\ scroll.scheduled
  /\ scroll' = [scroll EXCEPT !.scheduled = FALSE, !.drifted = FALSE]
  /\ Post([kind |-> "scroll", pos |-> scroll.pos])
  /\ UNCHANGED <<page, keys, jump, tip, view, file, disk, jobs, toPage, events>>

(* A text that fits the window is not scrolled. *)
SetScrollPercent(pos) == (ScrollTo(pos) \/ UNCHANGED scroll) /\ UNCHANGED <<page, jump, tip>>

-----------------------------------------------------------------------------
(* The page runs the next script. *)
RunScript ==
  /\ toPage # <<>>
  /\ toPage' = Tail(toPage)
  /\ LET s == Head(toPage)
     IN  CASE s.kind = "open" -> EditorOpenFile(s.text)
           [] s.kind = "update" -> EditorUpdateContent(s.text)
           [] s.kind = "marks" -> EditorSetDiffMarkers
           [] s.kind = "search" -> EditorOpenSearch
           [] s.kind = "findTarget" -> EditorSetJumpHoverResult(s.id, s.found)
           [] s.kind = "findInfo" -> EditorShowHoverTooltip(s.id)
           [] s.kind = "scrollBack" -> SetScrollPercent(s.pos)
  /\ UNCHANGED <<keys, view, file, disk, jobs, toApp, events>>

Next ==
  \/ ViewUpdate \/ AppReceives \/ RunScript
  \/ SaveCurrentFile \/ HandleExternalFileChange
  \/ \E t \in Texts : ExternalWrite(t) \/ Edit(t)
  \/ \E j \in jobs : WriteFile(j) \/ Saved(j) \/ ReadFile(j) \/ FileChanged(j) \/ FileLoaded(j) \/ Answer(j)
  \/ PostContent \/ PostScrollPercent
  \/ \E w \in Words \cup {NoWord} : MouseMove(w)
  \/ MouseLeave \/ \E w \in Words : MouseDown(w) \/ SymbolHoverTooltip(w)
  \/ CmdDown \/ CmdUp \/ Focus \/ Blur \/ FindInPreview
  \/ \E id \in tip.timers : HoverTimeout(id)
  \/ \E pos \in 0 .. 1 : Scroll(pos)

(* The main thread of the app and the page run what is queued; timers and  *)
(* frames come.  Nothing is assumed of background jobs: a language server  *)
(* or a remote file may never answer.                                      *)
Spec ==
  /\ Init /\ [][Next]_vars
  /\ WF_vars(ViewUpdate) /\ WF_vars(AppReceives) /\ WF_vars(RunScript)
  /\ WF_vars(PostContent) /\ WF_vars(PostScrollPercent)
  /\ \A id \in 1 .. MaxEvents : WF_vars(HoverTimeout(id))
-----------------------------------------------------------------------------
(***************************************************************************)
(* Once edits and reloads have settled, the app's editedContent is what    *)
(* the page shows: the 250 ms debounce, messages that cross a reload, and  *)
(* the reload itself (which the page reports like an edit) leave no stale  *)
(* text behind.  The user can save it if it is not the text last saved or  *)
(* opened - unless a save ended after the text had gone on, which clears    *)
(* isDirty all the same (PreviewArea.swift:725): saveCurrentFile refuses    *)
(* until the next edit, and a reload may replace what was typed.           *)
(***************************************************************************)
Saveable == file.dirty \/ page.text = file.saved \/ file.overtaken
EditsArrive == <>[](page.text = file.edited /\ Saveable)

(***************************************************************************)
(* The underline of a jump target is the one of currentHoverTarget, and a  *)
(* target that was refused is not underlined again by a late answer, an    *)
(* edit, a reload or moves of the pointer over it.                         *)
(***************************************************************************)
MarkIsOfTarget ==
  jump.mark # NoWord => jump.mark = jump.target.word /\ jump.target.id \notin jump.refused

(***************************************************************************)
(* A tooltip request ends, by an answer, by a newer request or by its own  *)
(* timeout: an older request's timer does not use up the newer one's, and  *)
(* a language server that never answers leaves nothing pending.            *)
(***************************************************************************)
HoverSettles == \A id \in 1 .. MaxEvents : (tip.pending = id) ~> (tip.pending # id)

(***************************************************************************)
(* The position that is restored when the file is shown again is the one   *)
(* to which the page was scrolled last: reporting once per frame loses no  *)
(* final position.  (An edit or a reload after the last report moves the   *)
(* percentage without a report: editor-entry.js:682-688.)                   *)
(***************************************************************************)
ScrollIsStored == <>[](scroll.moved /\ ~scroll.drifted => scroll.store = scroll.pos)

(***************************************************************************)
(* The editor in every state: requests, answers and scripts that cross     *)
(* leave no request without its timer and no mark without its target.      *)
(***************************************************************************)
Inv == TypeOK /\ MarkIsOfTarget

(***************************************************************************)
(* What is posted late, once per pause or per frame, arrives complete: the *)
(* app has the text of the page in the end, can save it unless a save was  *)
(* overtaken, and would restore the position scrolled to last.             *)
(***************************************************************************)
PageReachesApp == EditsArrive /\ ScrollIsStored
=============================================================================
