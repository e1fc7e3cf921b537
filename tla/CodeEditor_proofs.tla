--------------------------- MODULE CodeEditor_proofs ---------------------------
(***************************************************************************)
(* Proofs about the editor page and its app, for any texts, any words and  *)
(* any number of events.                                                   *)
(***************************************************************************)
EXTENDS CodeEditor, TLAPS

Ids == Nat \ {0}

(* The values of the variables: what is posted late is the text of a file  *)
(* that was opened, ids are those that were given out, and a page that is  *)
(* ready has its file.                                                     *)
Pages == {p \in [text: Texts \cup {NoText}, posting: BOOLEAN, marks: BOOLEAN,
                 overlay: BOOLEAN, search: BOOLEAN] :
            p.posting => p.text \in Texts}
KeyStates == [cmd: BOOLEAN, focused: BOOLEAN, meta: BOOLEAN]
Jumps == {j \in [target: [id: Nat, word: Words \cup {NoWord}], mark: Words \cup {NoWord},
                 lastId: Nat, refused: SUBSET Ids] :
            j.target.id =< j.lastId /\ j.refused \subseteq 1 .. j.lastId}
Tips == {t \in [pending: Nat, timers: SUBSET Ids, lastId: Nat] :
           t.timers \subseteq 1 .. t.lastId /\ t.pending \in {0} \cup t.timers}
Scrolls == [pos: 0 .. 1, scheduled: BOOLEAN, moved: BOOLEAN, drifted: BOOLEAN, store: 0 .. 1]
Views == {v \in [ready: BOOLEAN, pending: Files \cup {NoFile}, last: Files \cup {NoFile}] :
            v.ready => v.pending = NoFile}
OpenFiles == [open: Files, seen: Files, edited: Texts, saved: Texts, dirty: BOOLEAN,
              overtaken: BOOLEAN]
Disks == [text: Texts, notify: BOOLEAN]
Counts == [count: 0 .. MaxEvents, group: Groups]

Jobs ==
  [kind: {"read", "loaded", "write", "written"}, text: Texts, id: {0}]
    \cup [kind: {"watch", "load", "hunks"}, text: {NoText}, id: {0}]
    \cup [kind: {"findTarget", "findInfo"}, text: {NoText}, id: Ids]
    \cup [kind: {"scrollBack"}, text: {NoText}, id: {1}]

Messages ==
  [kind: {"ready", "definition"}] \cup [kind: {"contentChanged"}, text: Texts]
    \cup [kind: {"definitionHover", "hoverInfo"}, id: Ids] \cup [kind: {"scroll"}, pos: 0 .. 1]

Scripts ==
  [kind: {"open"}, text: Texts \cup {NoText}] \cup [kind: {"update"}, text: Texts]
    \cup [kind: {"marks", "search"}] \cup [kind: {"scrollBack"}, pos: 0 .. 1]
    \cup [kind: {"findTarget", "findInfo"}, id: Ids, found: BOOLEAN]

Types ==
  /\ page \in Pages /\ keys \in KeyStates /\ jump \in Jumps /\ tip \in Tips
  /\ scroll \in Scrolls /\ view \in Views /\ file \in OpenFiles /\ disk \in Disks
  /\ jobs \in SUBSET Jobs /\ toApp \in Seq(Messages) /\ toPage \in Seq(Scripts)
  /\ events \in Counts /\ jump.lastId =< events.count

(* A question about a target is in one place, once: in the message, in the *)
(* search or in the answer.  Nobody has refused its target yet.            *)
OpenIds == 1 .. jump.lastId \ jump.refused

Asks(message) == message.kind = "definitionHover"
Searches(job) == job.kind = "findTarget"
Tells(script) == script.kind = "findTarget"

AskedOnce ==
  \A i \in DOMAIN toApp : Asks(toApp[i]) =>
    /\ toApp[i].id \in OpenIds
    /\ \A k \in DOMAIN toApp : Asks(toApp[k]) /\ toApp[k].id = toApp[i].id => k = i
    /\ \A j \in jobs : Searches(j) => j.id # toApp[i].id
    /\ \A k \in DOMAIN toPage : Tells(toPage[k]) => toPage[k].id # toApp[i].id

SearchedOnce ==
  \A j \in jobs : Searches(j) =>
    /\ j.id \in OpenIds
    /\ \A k \in DOMAIN toPage : Tells(toPage[k]) => toPage[k].id # j.id

AnsweredOnce ==
  \A i \in DOMAIN toPage : Tells(toPage[i]) =>
    /\ toPage[i].id \in OpenIds
    /\ \A k \in DOMAIN toPage : Tells(toPage[k]) /\ toPage[k].id = toPage[i].id => k = i

QuestionsAreSingle == AskedOnce /\ SearchedOnce /\ AnsweredOnce

IInv == Types /\ QuestionsAreSingle /\ MarkIsOfTarget

-----------------------------------------------------------------------------
LEMMA InitInv == Init => IInv
<1> SUFFICES ASSUME Init PROVE IInv
  OBVIOUS
<1> USE TextsAssumption, NullsAssumption, EventsAssumption DEF Init
<1>1. scroll \in Scrolls
  <2>1. CASE events.group = "scrolling"
    BY <2>1 DEF Scrolls
  <2>2. CASE events.group # "scrolling"
    BY <2>2 DEF Scrolls
  <2> QED BY <2>1, <2>2
<1>2. events \in Counts /\ jump.lastId =< events.count
  BY DEF Counts, Groups
<1>3. page \in Pages /\ keys \in KeyStates /\ jump \in Jumps /\ tip \in Tips
  BY DEF Pages, KeyStates, Jumps, Tips, NoTarget
<1>4. view \in Views /\ file \in OpenFiles /\ disk \in Disks
  BY DEF Views, OpenFiles, Disks, Files
<1>5. jobs \in SUBSET Jobs /\ toApp \in Seq(Messages) /\ toPage \in Seq(Scripts)
  BY DEF Messages
<1>6. QuestionsAreSingle /\ MarkIsOfTarget
  BY DEF QuestionsAreSingle, AskedOnce, SearchedOnce, AnsweredOnce, MarkIsOfTarget, Asks
<1> QED BY <1>1, <1>2, <1>3, <1>4, <1>5, <1>6 DEF IInv, Types

LEMMA InvTypes == IInv => Inv
<1> SUFFICES ASSUME Types PROVE TypeOK
  BY DEF IInv, Inv
<1> USE DEF Types
<1>1. /\ jump.lastId \in 0 .. MaxEvents /\ jump.refused \subseteq 1 .. jump.lastId
      /\ jump.target \in [id: 0 .. jump.lastId, word: Words \cup {NoWord}]
  BY EventsAssumption DEF Jumps, Counts
<1>2. \A j \in jobs : j.kind \in JobKinds
  BY DEF Jobs, JobKinds
<1>3. \A i \in DOMAIN toApp : toApp[i].kind \in Kinds
  BY DEF Messages, Kinds
<1>4. /\ view.pending \in Files \cup {NoFile} /\ (view.ready => view.pending = NoFile)
      /\ view.last \in Files \cup {NoFile}
  BY DEF Views
<1>5. tip.pending \in {0} \cup tip.timers /\ tip.timers \subseteq 1 .. tip.lastId
  BY DEF Tips
<1> QED BY <1>1, <1>2, <1>3, <1>4, <1>5
        DEF TypeOK, Pages, KeyStates, Scrolls, OpenFiles, Disks, Counts

-----------------------------------------------------------------------------
(* The percentage drifts. *)
LEMMA DriftTypes ==
  ASSUME scroll \in Scrolls, Drift
  PROVE  scroll' \in Scrolls
<1>1. CASE UNCHANGED scroll
  BY <1>1
<1>2. CASE ~UNCHANGED scroll
  <2>1. PICK scrolls \in BOOLEAN :
          scroll' = [scroll EXCEPT !.pos = 1 - @, !.drifted = TRUE,
                                   !.scheduled = @ \/ scrolls, !.moved = @ \/ scrolls]
    BY <1>2 DEF Drift
  <2>2. 1 - scroll.pos \in 0 .. 1 /\ (scroll.scheduled \/ scrolls) \in BOOLEAN /\ (scroll.moved \/ scrolls) \in BOOLEAN
    BY DEF Scrolls
  <2> QED BY <2>1, <2>2 DEF Scrolls
<1> QED BY <1>1, <1>2

(* An event is counted. *)
LEMMA Counted ==
  ASSUME events \in Counts, NEW groups, Event(groups)
  PROVE  events' \in Counts /\ events'.count = events.count + 1
BY EventsAssumption DEF Event, Counts

LEMMA Fewer ==
  ASSUME jobs \in SUBSET Jobs, NEW j, NEW new \in SUBSET Jobs, JobStep(j, new)
  PROVE  jobs' \in SUBSET Jobs
BY DEF JobStep

LEMMA Posted ==
  ASSUME toApp \in Seq(Messages), NEW m \in Messages, Post(m)
  PROVE  toApp' \in Seq(Messages)
BY DEF Post

LEMMA Sent ==
  ASSUME toPage \in Seq(Scripts), NEW r \in Scripts, toPage' = Append(toPage, r)
  PROVE  toPage' \in Seq(Scripts)
OBVIOUS

LEMMA AnswersAreScripts ==
  ASSUME NEW j \in Jobs
  PROVE  Answers(j) \subseteq Seq(Scripts)
<1>1. CASE j.kind = "hunks"
  BY <1>1 DEF Answers, Scripts
<1>2. CASE j.kind \in {"findTarget", "findInfo"}
  <2>1. j.id \in Ids
    BY <1>2 DEF Jobs
  <2>2. \A found \in BOOLEAN : [kind |-> j.kind, id |-> j.id, found |-> found] \in Scripts
    BY <1>2, <2>1 DEF Scripts
  <2>3. ASSUME NEW s \in Answers(j) PROVE s \in Seq(Scripts)
    <3>1. PICK found \in BOOLEAN : s = <<[kind |-> j.kind, id |-> j.id, found |-> found]>>
      BY <1>2, <2>3 DEF Answers
    <3> QED BY <2>2, <3>1
  <2> QED BY <2>3
<1>3. CASE j.kind = "scrollBack"
  <2>1. [kind |-> "scrollBack", pos |-> j.id] \in Scripts
    BY <1>3 DEF Jobs, Scripts
  <2> QED BY <1>3, <2>1 DEF Answers
<1>4. CASE j.kind \notin {"hunks", "findTarget", "findInfo", "scrollBack"}
  BY <1>4 DEF Answers
<1> QED BY <1>1, <1>2, <1>3, <1>4

LEMMA Cleared ==
  ASSUME jump \in Jumps, ClearJumpHover
  PROVE  jump' \in Jumps /\ jump'.lastId = jump.lastId
<1>1. NoTarget \in [id: Nat, word: Words \cup {NoWord}] /\ NoTarget.id = 0
  BY DEF NoTarget
<1>2. jump' = [target |-> NoTarget, mark |-> NoWord, lastId |-> jump.lastId,
               refused |-> jump.refused]
  BY DEF ClearJumpHover, Jumps
<1> QED BY <1>1, <1>2 DEF Jumps

LEMMA PointedAt ==
  ASSUME jump \in Jumps, toApp \in Seq(Messages), NEW w \in Words \cup {NoWord}, MouseMove(w)
  PROVE  jump' \in Jumps /\ jump'.lastId =< jump.lastId + 1 /\ toApp' \in Seq(Messages)
<1>1. CASE ClearJumpHover /\ UNCHANGED toApp
  BY <1>1, Cleared DEF Jumps
<1>2. CASE UNCHANGED <<jump, toApp>>
  BY <1>2 DEF Jumps
<1>3. ASSUME NEW id \in Ids, id = jump.lastId + 1,
             jump' = [jump EXCEPT !.target = [id |-> id, word |-> w], !.mark = w, !.lastId = id],
             Post([kind |-> "definitionHover", id |-> id])
      PROVE  jump' \in Jumps /\ jump'.lastId =< jump.lastId + 1 /\ toApp' \in Seq(Messages)
  <2>1. jump' = [target |-> [id |-> id, word |-> w], mark |-> w, lastId |-> id,
                 refused |-> jump.refused]
    BY <1>3 DEF Jumps
  <2>2. jump' \in Jumps
    BY <1>3, <2>1 DEF Jumps
  <2>3. [kind |-> "definitionHover", id |-> id] \in Messages
    BY DEF Messages
  <2>4. toApp' \in Seq(Messages)
    BY <1>3, <2>3, Posted
  <2>5. jump'.lastId =< jump.lastId + 1
    BY <1>3, <2>1 DEF Jumps
  <2> QED BY <2>2, <2>4, <2>5
<1>4. jump.lastId + 1 \in Ids
  BY DEF Jumps, Ids
<1> QED BY <1>1, <1>2, <1>3, <1>4 DEF MouseMove

LEMMA Refused ==
  ASSUME jump \in Jumps, NEW id \in Ids, NEW found, EditorSetJumpHoverResult(id, found)
  PROVE  jump' \in Jumps /\ jump'.lastId = jump.lastId
<1>1. CASE UNCHANGED jump
  BY <1>1
<1>2. CASE jump' = [jump EXCEPT !.mark = jump.target.word]
  BY <1>2 DEF Jumps
<1>3. CASE jump' = [jump EXCEPT !.mark = NoWord, !.refused = @ \cup {id}] /\ jump.target.id = id
  <2>1. id \in 1 .. jump.lastId
    BY <1>3 DEF Jumps, Ids
  <2>2. jump' = [target |-> jump.target, mark |-> NoWord, lastId |-> jump.lastId,
                 refused |-> jump.refused \cup {id}]
    BY <1>3 DEF Jumps
  <2> QED BY <2>1, <2>2 DEF Jumps
<1> QED BY <1>1, <1>2, <1>3 DEF EditorSetJumpHoverResult

LEMMA TypesStep == Types /\ [Next]_vars => Types'
<1> SUFFICES ASSUME Types, [Next]_vars PROVE Types'
  OBVIOUS
<1>a. events.count \in Nat /\ jump.lastId \in Nat
  BY EventsAssumption DEF Types, Counts, Jumps
<1> USE DEF Types
<1>1. ASSUME UNCHANGED vars PROVE Types'
  BY <1>1, <1>a DEF vars
<1>2. ASSUME ViewUpdate PROVE Types'
  <2>1. file' \in OpenFiles
    BY <1>2 DEF ViewUpdate, OpenFiles, Files
  <2>2. view' \in Views
    BY <1>2 DEF ViewUpdate, OpenFile, OpenFiles, Views
  <2>3. [kind |-> "update", text |-> file.open.text] \in Scripts
    BY DEF OpenFiles, Files, Scripts
  <2>4. toPage' \in Seq(Scripts)
    BY <1>2, <2>3, Sent DEF ViewUpdate, OpenFile
  <2>5. jobs' \in SUBSET Jobs
    BY <1>2 DEF ViewUpdate, OpenFile, Job, Jobs
  <2> QED BY <1>2, <1>a, <2>1, <2>2, <2>3, <2>4, <2>5 DEF ViewUpdate
<1>3. ASSUME SaveCurrentFile PROVE Types'
  <2>1. events' \in Counts /\ events'.count = events.count + 1
    BY <1>3, Counted DEF SaveCurrentFile
  <2>2. jobs' \in SUBSET Jobs
    BY <1>3 DEF SaveCurrentFile, Job, Jobs, OpenFiles
  <2> QED BY <1>3, <1>a, <2>1, <2>2 DEF SaveCurrentFile
<1>4. ASSUME HandleExternalFileChange PROVE Types'
  <2>1. disk' \in Disks
    BY <1>4 DEF HandleExternalFileChange, Disks
  <2>2. jobs' \in SUBSET Jobs
    BY <1>4 DEF HandleExternalFileChange, Job, Jobs
  <2> QED BY <1>4, <1>a, <2>1, <2>2 DEF HandleExternalFileChange
<1>5. ASSUME NEW t \in Texts, ExternalWrite(t) PROVE Types'
  <2>1. events' \in Counts /\ events'.count = events.count + 1
    BY <1>5, Counted DEF ExternalWrite
  <2>2. disk' \in Disks
    BY <1>5 DEF ExternalWrite, Disks
  <2> QED BY <1>5, <1>a, <2>1, <2>2 DEF ExternalWrite
<1>6. ASSUME NEW t \in Texts, Edit(t) PROVE Types'
  <2>1. events' \in Counts /\ events'.count = events.count + 1
    BY <1>6, Counted DEF Edit
  <2>2. page' \in Pages
    BY <1>6 DEF Edit, DocChanged, Pages
  <2>3. jump' \in Jumps /\ jump'.lastId = jump.lastId
    BY <1>6 DEF Edit, DocChanged, Jumps
  <2>4. scroll' \in Scrolls
    BY <1>6, DriftTypes DEF Edit
  <2> QED BY <1>6, <1>a, <2>1, <2>2, <2>3, <2>4 DEF Edit
<1>7. ASSUME NEW j \in jobs, WriteFile(j) \/ Saved(j) PROVE Types'
  <2>1. j.kind \in {"write", "written"} /\ j.text \in Texts
    BY <1>7 DEF WriteFile, Saved, Jobs
  <2>2. jobs' \in SUBSET Jobs
    BY <1>7, <2>1, Fewer DEF WriteFile, Saved, Job, Jobs
  <2>3. [text |-> j.text, notify |-> TRUE] \in Disks
    BY <2>1 DEF Disks
  <2>4. disk' \in Disks
    BY <1>7, <2>3 DEF WriteFile, Saved
  <2>5. file' \in OpenFiles
    BY <1>7, <2>1 DEF WriteFile, Saved, OpenFiles
  <2> QED BY <1>7, <1>a, <2>1, <2>2, <2>3, <2>4, <2>5 DEF WriteFile, Saved
<1>8. ASSUME NEW j \in jobs, ReadFile(j) PROVE Types'
  <2>1. jobs' \in SUBSET Jobs
    BY <1>8 DEF ReadFile, JobStep, Job, Jobs, Disks
  <2> QED BY <1>8, <1>a, <2>1 DEF ReadFile
<1>9. ASSUME NEW j \in jobs, FileChanged(j) \/ FileLoaded(j) PROVE Types'
  <2>1. j.text \in Texts
    BY <1>9 DEF FileChanged, FileLoaded, Jobs
  <2>2. jobs' \in SUBSET Jobs
    BY <1>9 DEF FileChanged, FileLoaded, JobStep
  <2>3. file' \in OpenFiles
    BY <1>9, <2>1 DEF FileChanged, FileLoaded, OpenFiles, Files
  <2> QED BY <1>9, <1>a, <2>1, <2>2, <2>3 DEF FileChanged, FileLoaded
<1>10. ASSUME NEW j \in jobs, Answer(j) PROVE Types'
  <2>1. jobs' \in SUBSET Jobs
    BY <1>10 DEF Answer, JobStep
  <2>2. Answers(j) \subseteq Seq(Scripts)
    BY AnswersAreScripts
  <2>3. toPage' \in Seq(Scripts)
    BY <1>10, <2>2 DEF Answer
  <2> QED BY <1>10, <1>a, <2>1, <2>2, <2>3 DEF Answer
<1>11. ASSUME PostContent PROVE Types'
  <2>1. page' \in Pages
    BY <1>11 DEF PostContent, Pages
  <2>2. toApp' \in Seq(Messages)
    BY <1>11 DEF PostContent, Post, Pages, Messages
  <2> QED BY <1>11, <1>a, <2>1, <2>2 DEF PostContent
<1>12. ASSUME PostScrollPercent PROVE Types'
  <2>1. scroll' \in Scrolls
    BY <1>12 DEF PostScrollPercent, Scrolls
  <2>2. toApp' \in Seq(Messages)
    BY <1>12 DEF PostScrollPercent, Post, Scrolls, Messages
  <2> QED BY <1>12, <1>a, <2>1, <2>2 DEF PostScrollPercent
<1>13. ASSUME NEW w \in Words \cup {NoWord}, MouseMove(w) PROVE Types'
  <2>1. events' \in Counts /\ events'.count = events.count + 1
    BY <1>13, Counted DEF MouseMove
  <2>2. jump' \in Jumps /\ jump'.lastId =< jump.lastId + 1 /\ toApp' \in Seq(Messages)
    BY <1>13, <1>a, PointedAt
  <2> QED BY <1>13, <1>a, <2>1, <2>2 DEF MouseMove, Jumps
<1>14. ASSUME MouseLeave PROVE Types'
  <2>1. jump' \in Jumps /\ jump'.lastId = jump.lastId
    BY <1>14, Cleared DEF MouseLeave
  <2> QED BY <1>14, <1>a, <2>1 DEF MouseLeave
<1>15. ASSUME NEW w \in Words, MouseDown(w) PROVE Types'
  <2>1. events' \in Counts /\ events'.count = events.count + 1
    BY <1>15, Counted DEF MouseDown
  <2>2. toApp' \in Seq(Messages)
    BY <1>15 DEF MouseDown, Post, Messages
  <2> QED BY <1>15, <1>a, <2>1, <2>2 DEF MouseDown
<1>16. ASSUME NEW w \in Words, SymbolHoverTooltip(w) PROVE Types'
  <2>1. events' \in Counts /\ events'.count = events.count + 1
    BY <1>16, Counted DEF SymbolHoverTooltip
  <2>2. tip' \in Tips
    BY <1>16 DEF SymbolHoverTooltip, Tips, Ids
  <2>3. toApp' \in Seq(Messages)
    BY <1>16 DEF SymbolHoverTooltip, Post, Messages, Tips, Ids
  <2> QED BY <1>16, <1>a, <2>1, <2>2, <2>3 DEF SymbolHoverTooltip
<1>17. ASSUME CmdDown \/ CmdUp \/ Focus \/ Blur PROVE Types'
  <2>1. events' = events \/ Event({"pointing"})
    BY <1>17 DEF CmdDown, CmdUp, Focus, Blur
  <2>2. events' \in Counts /\ events.count =< events'.count
    BY <2>1, <1>a, Counted
  <2>3. keys' \in KeyStates
    BY <1>17 DEF CmdDown, CmdUp, Focus, Blur, EditorSetMetaPressed, KeyStates
  <2>4. jump' \in Jumps /\ jump'.lastId = jump.lastId
    BY <1>17, Cleared DEF CmdDown, CmdUp, Focus, Blur, EditorSetMetaPressed
  <2>5. UNCHANGED <<page, tip, scroll, view, file, disk, jobs, toApp, toPage>>
    BY <1>17 DEF CmdDown, CmdUp, Focus, Blur
  <2>6. events'.count \in Nat
    BY <2>2, EventsAssumption DEF Counts
  <2> QED BY <1>17, <1>a, <2>1, <2>2, <2>3, <2>4, <2>5, <2>6 DEF Types
<1>18. ASSUME FindInPreview PROVE Types'
  <2>1. events' \in Counts /\ events'.count = events.count + 1
    BY <1>18, Counted DEF FindInPreview
  <2>2. keys' \in KeyStates
    BY <1>18 DEF FindInPreview, KeyStates
  <2>3. toPage' \in Seq(Scripts)
    BY <1>18 DEF FindInPreview, Scripts
  <2> QED BY <1>18, <1>a, <2>1, <2>2, <2>3 DEF FindInPreview
<1>19. ASSUME NEW id \in tip.timers, HoverTimeout(id) PROVE Types'
  <2>1. tip' \in Tips
    BY <1>19 DEF HoverTimeout, Tips
  <2> QED BY <1>19, <1>a, <2>1 DEF HoverTimeout
<1>20. ASSUME NEW pos \in 0 .. 1, Scroll(pos) PROVE Types'
  <2>1. events' \in Counts /\ events'.count = events.count + 1
    BY <1>20, Counted DEF Scroll
  <2>2. scroll' \in Scrolls
    BY <1>20 DEF Scroll, ScrollTo, Scrolls
  <2> QED BY <1>20, <1>a, <2>1, <2>2 DEF Scroll
<1>21. ASSUME AppReceives PROVE Types'
  <2> DEFINE m == Head(toApp)
  <2>1. m \in Messages /\ toApp' \in Seq(Messages)
    BY <1>21 DEF AppReceives
  <2>2. CASE m.kind = "ready"
    <3>1. /\ view' = [ready |-> TRUE, pending |-> NoFile, last |-> view.pending]
          /\ toPage' = Append(toPage, [kind |-> "open", text |-> view.pending.text])
      BY <1>21, <2>2 DEF AppReceives, Ready
    <3>2. view' \in Views
      BY <3>1 DEF Views
    <3>3. [kind |-> "open", text |-> view.pending.text] \in Scripts
      BY DEF Views, Files, NoFile, Scripts
    <3>4. Job("hunks", NoText, 0) \in Jobs /\ Job("scrollBack", NoText, 1) \in Jobs
      BY DEF Job, Jobs
    <3>5. jobs' \in SUBSET Jobs
      BY <1>21, <2>2, <3>4 DEF AppReceives, Ready
    <3>6. toPage' \in Seq(Scripts)
      BY <3>1, <3>3, Sent
    <3> QED BY <1>21, <2>1, <2>2, <3>2, <3>5, <3>6 DEF AppReceives
  <2>3. CASE m.kind = "contentChanged"
    <3>1. m.text \in Texts
      BY <2>1, <2>3 DEF Messages
    <3>2. file' \in OpenFiles
      BY <1>21, <2>3, <3>1 DEF AppReceives, ContentChanged, OpenFiles
    <3> QED BY <1>21, <2>1, <2>3, <3>2 DEF AppReceives, ContentChanged
  <2>4. CASE m.kind \in {"definitionHover", "hoverInfo", "definition"}
    <3>1. /\ m.kind # "definition" => m.id \in Ids
      BY <2>1, <2>4 DEF Messages
    <3>2. /\ m.kind = "definitionHover" => Job("findTarget", NoText, m.id) \in Jobs
          /\ m.kind = "hoverInfo" => Job("findInfo", NoText, m.id) \in Jobs
          /\ Job("load", NoText, 0) \in Jobs
      BY <3>1 DEF Job, Jobs
    <3>3. jobs' \in SUBSET Jobs
      BY <1>21, <2>4, <3>2 DEF AppReceives
    <3> QED BY <1>21, <2>1, <2>4, <3>3 DEF AppReceives
  <2>5. CASE m.kind = "scroll"
    <3>1. m.pos \in 0 .. 1
      BY <2>1, <2>5 DEF Messages
    <3>2. scroll' \in Scrolls
      BY <1>21, <2>5, <3>1 DEF AppReceives, Scrolls
    <3> QED BY <1>21, <2>1, <2>5, <3>2 DEF AppReceives
  <2> QED BY <2>1, <2>2, <2>3, <2>4, <2>5 DEF Messages
<1>22. ASSUME RunScript PROVE Types'
  <2> DEFINE r == Head(toPage)
  <2>1. r \in Scripts /\ toPage' \in Seq(Scripts)
    BY <1>22 DEF RunScript
  <2>2. CASE r.kind \in {"open", "update"}
    <3>1. r.text \in Texts \cup {NoText} /\ (r.kind = "update" => r.text \in Texts)
      BY <2>1, <2>2 DEF Scripts
    <3>2. page' \in Pages
      BY <1>22, <2>2, <3>1
         DEF RunScript, EditorOpenFile, CreateEditorState, EditorUpdateContent, DocChanged, Pages
    <3>3. jump' \in Jumps /\ jump'.lastId = jump.lastId
      BY <1>22, <2>2 DEF RunScript, EditorOpenFile, EditorUpdateContent, DocChanged, Jumps
    <3>4. scroll' \in Scrolls
      BY <1>22, <2>2, DriftTypes DEF RunScript, EditorOpenFile, EditorUpdateContent
    <3> QED BY <1>22, <2>1, <2>2, <3>2, <3>3, <3>4 DEF RunScript, EditorOpenFile, EditorUpdateContent
  <2>3. CASE r.kind \in {"marks", "search"}
    <3>1. page' \in Pages
      BY ZenonT(40), <1>22, <2>3 DEF RunScript, EditorSetDiffMarkers, EditorOpenSearch, Opened, Pages
    <3> QED BY <1>22, <2>1, <2>3, <3>1 DEF RunScript, EditorSetDiffMarkers, EditorOpenSearch
  <2>4. CASE r.kind = "findTarget"
    <3>1. r.id \in Ids /\ EditorSetJumpHoverResult(r.id, r.found)
      BY <1>22, <2>1, <2>4 DEF RunScript, Scripts
    <3>2. jump' \in Jumps /\ jump'.lastId = jump.lastId
      BY <3>1, Refused
    <3> QED BY <1>22, <2>1, <2>4, <3>1, <3>2 DEF RunScript, EditorSetJumpHoverResult
  <2>5. CASE r.kind = "findInfo"
    <3>1. tip' = tip \/ tip' = [tip EXCEPT !.pending = 0]
      BY <1>22, <2>5 DEF RunScript, EditorShowHoverTooltip
    <3>2. tip' \in Tips
      BY <3>1 DEF Tips
    <3> QED BY <1>22, <2>1, <2>5, <3>2 DEF RunScript, EditorShowHoverTooltip
  <2>6. CASE r.kind = "scrollBack"
    <3>1. r.pos \in 0 .. 1
      BY <2>1, <2>6 DEF Scripts
    <3>2. scroll' \in Scrolls
      BY <1>22, <2>6, <3>1 DEF RunScript, SetScrollPercent, ScrollTo, Scrolls
    <3> QED BY <1>22, <2>1, <2>6, <3>2 DEF RunScript, SetScrollPercent
  <2> QED BY <2>1, <2>2, <2>3, <2>4, <2>5, <2>6 DEF Scripts
<1> QED BY <1>1, <1>2, <1>3, <1>4, <1>5, <1>6, <1>7, <1>8, <1>9, <1>10, <1>11,
           <1>12, <1>13, <1>14, <1>15, <1>16, <1>17, <1>18, <1>19, <1>20, <1>21, <1>22 DEF Next

-----------------------------------------------------------------------------
(* Queues from which at most the first is taken, and to which no question  *)
(* and no answer about a target is added.                                  *)
AppKeeps(d) ==
  \A i \in DOMAIN toApp' : Asks(toApp'[i]) =>
    i + d \in DOMAIN toApp /\ toApp'[i] = toApp[i + d]
PageKeeps(e) ==
  \A i \in DOMAIN toPage' : Tells(toPage'[i]) =>
    i + e \in DOMAIN toPage /\ toPage'[i] = toPage[i + e]
JobsKeep == \A j \in jobs' : Searches(j) => j \in jobs
JumpKeeps == jump.lastId =< jump'.lastId /\ jump'.refused = jump.refused

LEMMA Still ==
  ASSUME Types, Types', QuestionsAreSingle, NEW d \in {0, 1}, NEW e \in {0, 1},
         AppKeeps(d), PageKeeps(e), JobsKeep, JumpKeeps
  PROVE  QuestionsAreSingle'
<1>1. DOMAIN toApp' \subseteq Nat /\ DOMAIN toPage' \subseteq Nat
  BY DEF Types
<1>2. OpenIds \subseteq OpenIds'
  BY DEF OpenIds, JumpKeeps, Types, Jumps
<1>3. AskedOnce'
  BY <1>1, <1>2 DEF QuestionsAreSingle, AskedOnce, AppKeeps, PageKeeps, JobsKeep
<1>4. SearchedOnce'
  BY <1>1, <1>2 DEF QuestionsAreSingle, SearchedOnce, PageKeeps, JobsKeep
<1>5. AnsweredOnce'
  BY <1>1, <1>2 DEF QuestionsAreSingle, AnsweredOnce, PageKeeps
<1> QED BY <1>3, <1>4, <1>5 DEF QuestionsAreSingle

(* The queues are left alone, something else is added, the first is taken. *)
LEMMA AppUnchanged == ASSUME toApp \in Seq(Messages), UNCHANGED toApp PROVE AppKeeps(0)
BY DEF AppKeeps

LEMMA PageUnchanged == ASSUME toPage \in Seq(Scripts), UNCHANGED toPage PROVE PageKeeps(0)
BY DEF PageKeeps

LEMMA AppAdds ==
  ASSUME toApp \in Seq(Messages), NEW m \in Messages, Post(m), ~Asks(m)
  PROVE  AppKeeps(0)
BY DEF AppKeeps, Post

LEMMA PageAdds ==
  ASSUME toPage \in Seq(Scripts), NEW r \in Scripts, toPage' = Append(toPage, r), ~Tells(r)
  PROVE  PageKeeps(0)
BY DEF PageKeeps

LEMMA AppTakes ==
  ASSUME toApp \in Seq(Messages), toApp # <<>>, toApp' = Tail(toApp)
  PROVE  AppKeeps(1)
BY DEF AppKeeps

LEMMA PageTakes ==
  ASSUME toPage \in Seq(Scripts), toPage # <<>>, toPage' = Tail(toPage)
  PROVE  PageKeeps(1)
BY DEF PageKeeps

(* A new target has a new id. *)
LEMMA AskStep ==
  ASSUME IInv, Types', NEW w \in Words \cup {NoWord}, MouseMove(w)
  PROVE  QuestionsAreSingle' /\ MarkIsOfTarget'
<1> DEFINE id == jump.lastId + 1
<1> USE DEF IInv, Types
<1>a. JobsKeep /\ PageKeeps(0)
  BY PageUnchanged DEF MouseMove, JobsKeep
<1>1. CASE ClearJumpHover /\ UNCHANGED toApp
  <2>1. JumpKeeps
    BY <1>1 DEF ClearJumpHover, JumpKeeps, Jumps
  <2>2. MarkIsOfTarget'
    BY <1>1 DEF ClearJumpHover, MarkIsOfTarget, Jumps
  <2> QED BY <1>a, <1>1, <2>1, <2>2, AppUnchanged, Still
<1>2. CASE UNCHANGED <<jump, toApp>>
  <2>1. JumpKeeps
    BY <1>2 DEF JumpKeeps, Jumps
  <2> QED BY <1>a, <1>2, <2>1, AppUnchanged, Still DEF MarkIsOfTarget
<1>3. CASE /\ jump' = [jump EXCEPT !.target = [id |-> id, word |-> w], !.mark = w, !.lastId = id]
           /\ Post([kind |-> "definitionHover", id |-> id])
  <2>1. /\ jump.lastId \in Nat /\ jump.refused \subseteq 1 .. jump.lastId
        /\ jump'.refused = jump.refused /\ jump'.lastId = id
        /\ jump'.mark = w /\ jump'.target = [id |-> id, word |-> w]
    BY <1>3 DEF Jumps
  <2>2. MarkIsOfTarget'
    BY <2>1 DEF MarkIsOfTarget
  <2>i. OpenIds' = 1 .. id \ jump.refused
    BY <2>1 DEF OpenIds
  <2>3. id \in OpenIds'
    BY <2>1, <2>i
  <2>o. OpenIds \subseteq OpenIds' /\ id \notin OpenIds
    BY <2>1, <2>i DEF OpenIds
  <2>4. UNCHANGED <<jobs, toPage>>
    BY DEF MouseMove
  <2>5. \A i \in DOMAIN toApp' : Asks(toApp'[i]) =>
          \/ i \in DOMAIN toApp /\ toApp'[i] = toApp[i]
          \/ i = Len(toApp) + 1 /\ toApp'[i].id = id
    BY <1>3 DEF Post
  <2>n. \A i \in DOMAIN toApp : i # Len(toApp) + 1
    OBVIOUS
  <2>6. AskedOnce'
    <3> SUFFICES ASSUME NEW i \in DOMAIN toApp', Asks(toApp'[i])
                 PROVE  /\ toApp'[i].id \in OpenIds'
                        /\ \A k \in DOMAIN toApp' :
                             Asks(toApp'[k]) /\ toApp'[k].id = toApp'[i].id => k = i
                        /\ \A j \in jobs' : Searches(j) => j.id # toApp'[i].id
                        /\ \A k \in DOMAIN toPage' :
                             Tells(toPage'[k]) => toPage'[k].id # toApp'[i].id
      BY DEF AskedOnce
    <3>1. CASE i \in DOMAIN toApp /\ toApp'[i] = toApp[i]
      BY <2>o, <2>4, <2>5, <3>1 DEF QuestionsAreSingle, AskedOnce
    <3>2. CASE i = Len(toApp) + 1 /\ toApp'[i].id = id
      BY <2>3, <2>o, <2>4, <2>5, <3>2
         DEF QuestionsAreSingle, AskedOnce, SearchedOnce, AnsweredOnce
    <3> QED BY <2>5, <3>1, <3>2
  <2>7. SearchedOnce' /\ AnsweredOnce'
    BY <2>o, <2>4 DEF QuestionsAreSingle, SearchedOnce, AnsweredOnce
  <2> QED BY <2>2, <2>6, <2>7 DEF QuestionsAreSingle
<1> QED BY <1>1, <1>2, <1>3 DEF MouseMove

(* The question passes from the message to the search. *)
LEMMA SearchStep ==
  ASSUME IInv, Types', AppReceives
  PROVE  QuestionsAreSingle' /\ MarkIsOfTarget'
<1> DEFINE m == Head(toApp)
<1> USE DEF IInv, Types
<1>1. /\ m \in Messages /\ toApp # <<>> /\ toApp' = Tail(toApp) /\ UNCHANGED jump
      /\ AppKeeps(1) /\ JumpKeeps
  BY AppTakes DEF AppReceives, JumpKeeps, Jumps
<1>2. MarkIsOfTarget'
  BY <1>1 DEF MarkIsOfTarget
<1>3. CASE m.kind = "ready"
  <2>1. [kind |-> "open", text |-> view.pending.text] \in Scripts
    BY DEF Views, Files, NoFile, Scripts
  <2>2. toPage' = Append(toPage, [kind |-> "open", text |-> view.pending.text])
    BY <1>3 DEF AppReceives, Ready
  <2>3. PageKeeps(0)
    BY <2>1, <2>2, PageAdds DEF Tells
  <2>4. \A j \in jobs' : j \in jobs \/ j.kind # "findTarget"
    <3>1. jobs' \ jobs \subseteq {Job("hunks", NoText, 0), Job("scrollBack", NoText, 1)}
      BY <1>3 DEF AppReceives, Ready
    <3> QED BY <3>1 DEF Job
  <2>5. JobsKeep
    BY <2>4 DEF JobsKeep, Searches
  <2> QED BY <1>1, <1>2, <2>3, <2>5, Still
<1>4. CASE m.kind \in {"contentChanged", "hoverInfo", "definition", "scroll"}
  <2>1. \A j \in jobs' : j \in jobs \/ j.kind # "findTarget"
    <3>1. jobs' \ jobs \subseteq {Job("findInfo", NoText, m.id), Job("load", NoText, 0)}
      BY <1>4 DEF AppReceives, ContentChanged
    <3> QED BY <3>1 DEF Job
  <2>2. UNCHANGED toPage
    BY <1>4 DEF AppReceives, ContentChanged
  <2>3. JobsKeep
    BY <2>1 DEF JobsKeep, Searches
  <2> QED BY <1>1, <1>2, <2>2, <2>3, PageUnchanged, Still
<1>5. CASE m.kind = "definitionHover"
  <2>1. jobs' = jobs \cup {Job("findTarget", NoText, m.id)} /\ UNCHANGED toPage
    BY <1>5 DEF AppReceives
  <2>2. 1 \in DOMAIN toApp /\ m = toApp[1] /\ Asks(toApp[1])
    BY <1>1, <1>5 DEF Asks
  <2>3. \A i \in DOMAIN toApp' : i \in Nat \ {0} /\ i + 1 # 1
    BY <1>1
  <2>4. \A i \in DOMAIN toApp' : Asks(toApp'[i]) => toApp'[i].id # m.id
    BY <1>1, <2>2, <2>3 DEF AppKeeps, QuestionsAreSingle, AskedOnce
  <2>5. \A j \in jobs' : Searches(j) => j \in jobs \/ j.id = m.id
    BY <2>1 DEF Job
  <2>6. OpenIds' = OpenIds
    BY <1>1 DEF OpenIds
  <2>7. AskedOnce'
    BY <1>1, <2>1, <2>3, <2>4, <2>5, <2>6 DEF QuestionsAreSingle, AskedOnce, AppKeeps
  <2>8. SearchedOnce'
    BY <2>1, <2>2, <2>5, <2>6 DEF QuestionsAreSingle, AskedOnce, SearchedOnce
  <2>9. AnsweredOnce'
    BY <2>1, <2>6 DEF QuestionsAreSingle, AnsweredOnce
  <2> QED BY <1>2, <2>7, <2>8, <2>9 DEF QuestionsAreSingle
<1> QED BY <1>1, <1>3, <1>4, <1>5 DEF Messages

(* The question passes from the search to the answer. *)
LEMMA AnswerStep ==
  ASSUME IInv, Types', NEW j \in jobs, Answer(j)
  PROVE  QuestionsAreSingle' /\ MarkIsOfTarget'
<1> USE DEF IInv, Types
<1>1. /\ jobs' = jobs \ {j} /\ UNCHANGED <<toApp, jump>>
      /\ JobsKeep /\ JumpKeeps /\ AppKeeps(0) /\ OpenIds' = OpenIds
  BY AppUnchanged DEF Answer, JobStep, JobsKeep, JumpKeeps, Jumps, OpenIds
<1>2. MarkIsOfTarget'
  BY <1>1 DEF MarkIsOfTarget
<1>3. PICK script \in Answers(j) : toPage' = toPage \o script
  BY DEF Answer
<1>4. CASE script = <<>>
  <2>1. toPage' = toPage
    BY <1>3, <1>4
  <2> QED BY <1>1, <1>2, <2>1, PageUnchanged, Still
<1>5. ASSUME NEW r \in Scripts, script = <<r>>, r.kind # "findTarget"
      PROVE  QuestionsAreSingle'
  <2>1. toPage' = Append(toPage, r)
    BY <1>3, <1>5
  <2> QED BY <1>1, <1>5, <2>1, PageAdds, Still DEF Tells
<1>6. ASSUME NEW r \in Scripts, script = <<r>>, r.kind = "findTarget", Searches(j), r.id = j.id
      PROVE  QuestionsAreSingle'
  <2>1. toPage' = Append(toPage, r)
    BY <1>3, <1>6
  <2>2. \A i \in DOMAIN toPage' : \/ i \in DOMAIN toPage /\ toPage'[i] = toPage[i]
                                  \/ i = Len(toPage) + 1 /\ toPage'[i] = r
    BY <2>1
  <2>3. \A i \in DOMAIN toPage : i # Len(toPage) + 1
    OBVIOUS
  <2>4. \A k \in jobs' : k \in jobs /\ (Searches(k) => k.id # j.id)
    <3>1. ASSUME NEW k \in jobs, Searches(k), k.id = j.id PROVE k = j
      <4>1. /\ k \in [kind: {"findTarget", "findInfo"}, text: {NoText}, id: Ids]
            /\ j \in [kind: {"findTarget", "findInfo"}, text: {NoText}, id: Ids]
        BY <1>6, <3>1 DEF Searches, Jobs
      <4>2. /\ k = [kind |-> "findTarget", text |-> NoText, id |-> k.id]
            /\ j = [kind |-> "findTarget", text |-> NoText, id |-> j.id]
        BY <1>6, <3>1, <4>1 DEF Searches
      <4> QED BY <3>1, <4>2
    <3> QED BY <1>1, <3>1
  <2>5. AskedOnce'
    BY <1>1, <1>6, <2>2, <2>4 DEF QuestionsAreSingle, AskedOnce
  <2>6. SearchedOnce'
    BY <1>1, <1>6, <2>2, <2>4 DEF QuestionsAreSingle, SearchedOnce
  <2>n. \A i \in DOMAIN toPage : Tells(toPage[i]) => toPage[i].id # r.id
    BY <1>6 DEF QuestionsAreSingle, SearchedOnce
  <2>7. AnsweredOnce'
    <3> SUFFICES ASSUME NEW i \in DOMAIN toPage', Tells(toPage'[i])
                 PROVE  /\ toPage'[i].id \in OpenIds'
                        /\ \A k \in DOMAIN toPage' :
                             Tells(toPage'[k]) /\ toPage'[k].id = toPage'[i].id => k = i
      BY DEF AnsweredOnce
    <3>1. CASE i \in DOMAIN toPage /\ toPage'[i] = toPage[i]
      BY <1>1, <2>2, <2>n, <3>1 DEF QuestionsAreSingle, AnsweredOnce
    <3>2. CASE i = Len(toPage) + 1 /\ toPage'[i] = r
      BY <1>1, <1>6, <2>2, <2>n, <3>2 DEF QuestionsAreSingle, SearchedOnce
    <3> QED BY <2>2, <3>1, <3>2
  <2> QED BY <2>5, <2>6, <2>7 DEF QuestionsAreSingle
<1>7. \/ script = <<>>
      \/ \E r \in Scripts : /\ script = <<r>>
                            /\ r.kind # "findTarget" \/ (Searches(j) /\ r.id = j.id)
  <2>1. j \in Jobs
    OBVIOUS
  <2>2. CASE j.kind = "hunks"
    BY <2>2 DEF Answers, Scripts
  <2>3. CASE j.kind \in {"findTarget", "findInfo"}
    <3>1. PICK found \in BOOLEAN : script = <<[kind |-> j.kind, id |-> j.id, found |-> found]>>
      BY <2>3 DEF Answers
    <3>2. j.id \in Ids
      BY <2>1, <2>3 DEF Jobs
    <3>3. [kind |-> j.kind, id |-> j.id, found |-> found] \in Scripts
      BY <2>3, <3>2 DEF Scripts
    <3> QED BY <2>3, <3>1, <3>3 DEF Searches
  <2>4. CASE j.kind = "scrollBack"
    <3>1. [kind |-> "scrollBack", pos |-> j.id] \in Scripts
      BY <2>1, <2>4 DEF Jobs, Scripts
    <3> QED BY <2>4, <3>1 DEF Answers
  <2> QED BY <2>2, <2>3, <2>4 DEF Answers
<1> QED BY <1>2, <1>4, <1>5, <1>6, <1>7

(* The answer is used up, and refuses its target or marks it. *)
LEMMA ScriptStep ==
  ASSUME IInv, Types', RunScript
  PROVE  QuestionsAreSingle' /\ MarkIsOfTarget'
<1> DEFINE r == Head(toPage)
<1> USE DEF IInv, Types
<1>1. /\ r \in Scripts /\ toPage # <<>> /\ toPage' = Tail(toPage) /\ UNCHANGED <<toApp, jobs>>
      /\ PageKeeps(1) /\ JobsKeep /\ AppKeeps(0)
  BY PageTakes, AppUnchanged DEF RunScript, JobsKeep
<1>2. CASE r.kind \in {"open", "marks", "search", "findInfo", "scrollBack"}
  <2>1. UNCHANGED jump
    BY <1>2 DEF RunScript, EditorOpenFile, EditorSetDiffMarkers, EditorOpenSearch,
                EditorShowHoverTooltip, SetScrollPercent
  <2>2. JumpKeeps /\ MarkIsOfTarget'
    BY <2>1 DEF JumpKeeps, MarkIsOfTarget, Jumps
  <2> QED BY <1>1, <2>2, Still
<1>3. CASE r.kind = "update"
  <2>1. jump' = [jump EXCEPT !.mark = NoWord]
    BY <1>3 DEF RunScript, EditorUpdateContent, DocChanged
  <2>2. JumpKeeps /\ MarkIsOfTarget'
    BY <2>1 DEF JumpKeeps, MarkIsOfTarget, Jumps
  <2> QED BY <1>1, <2>2, Still
<1>4. CASE r.kind = "findTarget"
  <2>1. EditorSetJumpHoverResult(r.id, r.found)
    BY <1>4 DEF RunScript
  <2>2. 1 \in DOMAIN toPage /\ r = toPage[1] /\ Tells(toPage[1]) /\ r.id \in OpenIds
    BY <1>1, <1>4 DEF Tells, QuestionsAreSingle, AnsweredOnce
  <2>3. CASE UNCHANGED jump
    <3>1. JumpKeeps /\ MarkIsOfTarget'
      BY <2>3 DEF JumpKeeps, MarkIsOfTarget, Jumps
    <3> QED BY <1>1, <3>1, Still
  <2>4. CASE jump' = [jump EXCEPT !.mark = jump.target.word] /\ jump.target.id = r.id
    <3>1. JumpKeeps
      BY <2>4 DEF JumpKeeps, Jumps
    <3>2. MarkIsOfTarget'
      BY <2>2, <2>4 DEF MarkIsOfTarget, Jumps, OpenIds
    <3> QED BY <1>1, <3>1, <3>2, Still
  <2>5. CASE jump' = [jump EXCEPT !.mark = NoWord, !.refused = @ \cup {r.id}]
    <3>1. MarkIsOfTarget'
      BY <2>5 DEF MarkIsOfTarget, Jumps
    <3>2. OpenIds' = OpenIds \ {r.id}
      BY <2>5 DEF OpenIds, Jumps
    <3>3. \A i \in DOMAIN toPage' : i \in Nat \ {0} /\ i + 1 # 1
      BY <1>1
    <3>4. \A i \in DOMAIN toPage' : Tells(toPage'[i]) => toPage'[i].id \in OpenIds'
      BY <1>1, <2>2, <3>2, <3>3 DEF PageKeeps, QuestionsAreSingle, AnsweredOnce
    <3>5. AskedOnce'
      BY <1>1, <2>2, <3>2, <3>3 DEF QuestionsAreSingle, AskedOnce, PageKeeps
    <3>6. SearchedOnce'
      BY <1>1, <2>2, <3>2, <3>3 DEF QuestionsAreSingle, SearchedOnce, PageKeeps
    <3>7. AnsweredOnce'
      BY <1>1, <3>3, <3>4 DEF QuestionsAreSingle, AnsweredOnce, PageKeeps
    <3> QED BY <3>1, <3>5, <3>6, <3>7 DEF QuestionsAreSingle
  <2> QED BY <2>1, <2>3, <2>4, <2>5 DEF EditorSetJumpHoverResult
<1> QED BY <1>1, <1>2, <1>3, <1>4 DEF Scripts

-----------------------------------------------------------------------------
LEMMA StepInv == IInv /\ [Next]_vars => IInv'
<1> SUFFICES ASSUME IInv, [Next]_vars PROVE IInv'
  OBVIOUS
<1>a. Types'
  BY TypesStep DEF IInv
<1> SUFFICES QuestionsAreSingle' /\ MarkIsOfTarget'
  BY <1>a DEF IInv
<1> USE DEF IInv, Types
(* Steps that have nothing to do with targets. *)
<1>1. ASSUME NEW d \in {0, 1}, NEW e \in {0, 1}, UNCHANGED jump,
             AppKeeps(d), PageKeeps(e), JobsKeep
      PROVE  QuestionsAreSingle' /\ MarkIsOfTarget'
  BY <1>a, <1>1, Still DEF JumpKeeps, Jumps, MarkIsOfTarget
<1>2. ASSUME UNCHANGED <<jump, jobs, toApp, toPage>>
      PROVE  QuestionsAreSingle' /\ MarkIsOfTarget'
  BY <1>1, <1>2, AppUnchanged, PageUnchanged DEF JobsKeep
<1>3. CASE UNCHANGED vars
  BY <1>2, <1>3 DEF vars
<1>4. CASE ViewUpdate
  <2>1. UNCHANGED <<jump, toApp>>
    BY <1>4 DEF ViewUpdate
  <2>2. [kind |-> "update", text |-> file.open.text] \in Scripts
    BY DEF OpenFiles, Files, Scripts
  <2>3. PageKeeps(0)
    BY <1>4, <2>2, PageUnchanged, PageAdds DEF ViewUpdate, OpenFile, Tells
  <2>4. JobsKeep
    BY <1>4 DEF ViewUpdate, OpenFile, JobsKeep, Job, Searches
  <2> QED BY <1>1, <2>1, <2>3, <2>4, AppUnchanged
<1>5. CASE SaveCurrentFile \/ HandleExternalFileChange
  <2>1. JobsKeep /\ UNCHANGED <<jump, toApp, toPage>>
    BY <1>5 DEF SaveCurrentFile, HandleExternalFileChange, JobsKeep, Job, Searches
  <2> QED BY <1>1, <2>1, AppUnchanged, PageUnchanged
<1>6. ASSUME NEW j \in jobs,
             WriteFile(j) \/ Saved(j) \/ ReadFile(j) \/ FileChanged(j) \/ FileLoaded(j)
      PROVE  QuestionsAreSingle' /\ MarkIsOfTarget'
  <2>1. JobsKeep /\ UNCHANGED <<jump, toApp, toPage>>
    BY <1>6 DEF WriteFile, Saved, ReadFile, FileChanged, FileLoaded, JobStep, JobsKeep, Job,
                Searches
  <2> QED BY <1>1, <2>1, AppUnchanged, PageUnchanged
<1>7. CASE PostContent
  <2>1. [kind |-> "contentChanged", text |-> page.text] \in Messages
    BY <1>7 DEF PostContent, Pages, Messages
  <2>2. AppKeeps(0)
    BY <1>7, <2>1, AppAdds DEF PostContent, Asks
  <2> QED BY <1>1, <1>7, <2>2, PageUnchanged DEF PostContent, JobsKeep
<1>8. CASE PostScrollPercent
  <2>1. [kind |-> "scroll", pos |-> scroll.pos] \in Messages
    BY DEF Scrolls, Messages
  <2>2. AppKeeps(0)
    BY <1>8, <2>1, AppAdds DEF PostScrollPercent, Asks
  <2> QED BY <1>1, <1>8, <2>2, PageUnchanged DEF PostScrollPercent, JobsKeep
<1>9. ASSUME NEW w \in Words, MouseDown(w) PROVE QuestionsAreSingle' /\ MarkIsOfTarget'
  <2>1. [kind |-> "definition"] \in Messages
    BY DEF Messages
  <2>2. AppKeeps(0)
    BY <1>9, <2>1, AppAdds DEF MouseDown, Asks
  <2> QED BY <1>1, <1>9, <2>2, PageUnchanged DEF MouseDown, JobsKeep
<1>10. ASSUME NEW w \in Words, SymbolHoverTooltip(w)
       PROVE  QuestionsAreSingle' /\ MarkIsOfTarget'
  <2>1. [kind |-> "hoverInfo", id |-> tip.lastId + 1] \in Messages
    BY DEF Tips, Messages, Ids
  <2>2. AppKeeps(0)
    BY <1>10, <2>1, AppAdds DEF SymbolHoverTooltip, Asks
  <2> QED BY <1>1, <1>10, <2>2, PageUnchanged DEF SymbolHoverTooltip, JobsKeep
<1>11. CASE FindInPreview
  <2>1. [kind |-> "search"] \in Scripts
    BY DEF Scripts
  <2>2. PageKeeps(0)
    BY <1>11, <2>1, PageAdds DEF FindInPreview, Tells
  <2> QED BY <1>1, <1>11, <2>2, AppUnchanged DEF FindInPreview, JobsKeep
<1>12. CASE \/ Focus
            \/ \E t \in Texts : ExternalWrite(t)
            \/ \E id \in tip.timers : HoverTimeout(id)
            \/ \E pos \in 0 .. 1 : Scroll(pos)
  BY <1>2, <1>12 DEF Focus, ExternalWrite, HoverTimeout, Scroll
(* Steps that take the mark away, or leave it. *)
<1>13. ASSUME UNCHANGED <<jobs, toApp, toPage>>,
              \/ UNCHANGED jump
              \/ ClearJumpHover
              \/ \E mark \in {NoWord, jump.mark} : jump' = [jump EXCEPT !.mark = mark]
       PROVE  QuestionsAreSingle' /\ MarkIsOfTarget'
  <2>1. JumpKeeps /\ MarkIsOfTarget'
    <3>1. CASE UNCHANGED jump
      BY <3>1 DEF JumpKeeps, MarkIsOfTarget, Jumps
    <3>2. CASE ClearJumpHover
      BY <3>2 DEF ClearJumpHover, JumpKeeps, MarkIsOfTarget, Jumps
    <3>3. ASSUME NEW mark \in {NoWord, jump.mark}, jump' = [jump EXCEPT !.mark = mark]
          PROVE  JumpKeeps /\ MarkIsOfTarget'
      BY <3>3 DEF JumpKeeps, MarkIsOfTarget, Jumps
    <3> QED BY <1>13, <3>1, <3>2, <3>3
  <2> QED BY <1>a, <1>13, <2>1, AppUnchanged, PageUnchanged, Still DEF JobsKeep
<1>14. CASE MouseLeave \/ CmdDown \/ CmdUp \/ Blur
  BY <1>13, <1>14 DEF MouseLeave, CmdDown, CmdUp, Blur, EditorSetMetaPressed
<1>15. ASSUME NEW t \in Texts, Edit(t) PROVE QuestionsAreSingle' /\ MarkIsOfTarget'
  BY <1>13, <1>15 DEF Edit, DocChanged
(* Steps of a question. *)
<1>16. ASSUME NEW w \in Words \cup {NoWord}, MouseMove(w)
       PROVE  QuestionsAreSingle' /\ MarkIsOfTarget'
  BY <1>a, <1>16, AskStep
<1>17. CASE AppReceives
  BY <1>a, <1>17, SearchStep
<1>18. ASSUME NEW j \in jobs, Answer(j) PROVE QuestionsAreSingle' /\ MarkIsOfTarget'
  BY <1>a, <1>18, AnswerStep
<1>19. CASE RunScript
  BY <1>a, <1>19, ScriptStep
<1> QED BY <1>3, <1>4, <1>5, <1>6, <1>7, <1>8, <1>9, <1>10, <1>11, <1>12, <1>14, <1>15, <1>16,
           <1>17, <1>18, <1>19 DEF Next

THEOREM Invariance == Spec => []IInv
BY InitInv, StepInv, PTL DEF Spec

\* However late the app answers and however the pointer, the Cmd key, edits and
\* reloads cross the answers (editor-entry.js:405-462, 644-657): only the current
\* target is marked, and one that was refused is not marked again.
THEOREM MarksAreOfTargets == Spec => []Inv
BY Invariance, InvTypes, PTL
=============================================================================
