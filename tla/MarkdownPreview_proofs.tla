----------------------- MODULE MarkdownPreview_proofs -----------------------
(***************************************************************************)
(* Proofs about the preview of a Markdown file, for any documents, queries *)
(* and number of events: what the page shows, and what its find bar knows. *)
(*                                                                         *)
(* First what follows for the children of a page from the functions of     *)
(* BlockDiff (PageFunctions_proofs), then the invariant.                   *)
(***************************************************************************)
EXTENDS MarkdownPreview, PageFunctions_proofs

-----------------------------------------------------------------------------
(* The children of a page after a rendering.                               *)

Classes == {"none", "same", "added", "modified", "ghost"}
Looks == {"html", "svg", "error"}
ChildTypes == [id: Nat \X Int, block: Blocks, class: Classes, shows: Looks, marks: SUBSET Nat]

IdNumbers(root) == [i \in 1 .. Len(root) |-> root[i].id[2]]

(* The live children are the blocks of doc in its order; their numbers are *)
(* those of the blocks, and those of ghosts are below 1.                   *)
Numbered(root, doc) ==
  /\ InOrder(IdNumbers(root), Len(root), Len(doc))
  /\ \A i \in 1 .. Len(root) :
       IF root[i].class = "ghost" THEN root[i].id[2] < 1
       ELSE 0 < root[i].id[2] /\ root[i].block = doc[root[i].id[2]]

Fresh(child) == child.shows = "html" /\ child.marks = {}

LEMMA DocTypes ==
  /\ \A doc \in Docs \cup {NoDoc} : doc \in Seq(Blocks) /\ Len(doc) \in Nat
  /\ \A doc \in Docs \cup {NoDoc} : \A k \in 1 .. Len(doc) : doc[k] \in Blocks
  /\ NoDoc = <<>> /\ Len(NoDoc) = 0
<1>1. NoDoc = <<>> /\ <<>> \in Seq(Blocks)
  BY DEF NoDoc
<1>2. ASSUME NEW doc \in Docs \cup {NoDoc} PROVE doc \in Seq(Blocks)
  BY <1>1, DocsAreSequences
<1>3. ASSUME NEW doc \in Docs \cup {NoDoc} PROVE Len(doc) \in Nat /\ \A k \in 1 .. Len(doc) : doc[k] \in Blocks
  <2>1. doc \in Seq(Blocks)
    BY <1>2
  <2>2. Len(doc) \in Nat /\ DOMAIN doc = 1 .. Len(doc)
    BY <2>1
  <2> QED BY <2>1, <2>2
<1>4. Len(NoDoc) = 0
  BY <1>1
<1> QED BY <1>1, <1>2, <1>3, <1>4

LEMMA DiffClassType ==
  ASSUME NEW old, NEW new, NEW k
  PROVE  DiffClass(old, new, k) \in Classes \ {"ghost"}
BY DEF DiffClass, Classes

(* The children without the token in their identities.                     *)
Bare == [id: Int, block: Blocks, class: Classes, shows: {"html"}, marks: {{}}]

LEMMA ChildType ==
  ASSUME NEW k \in Int, NEW b \in Blocks, NEW class \in Classes
  PROVE  /\ Child(k, b, class) \in Bare
         /\ Child(k, b, class).id = k /\ Child(k, b, class).block = b
         /\ Child(k, b, class).class = class
BY DEF Child, Bare

BareIds(s) == [i \in 1 .. Len(s) |-> s[i].id]

BareNumbered(s, doc) ==
  /\ s \in Seq(Bare) /\ InOrder(BareIds(s), Len(s), Len(doc))
  /\ \A i \in 1 .. Len(s) :
       IF s[i].class = "ghost" THEN s[i].id < 1 ELSE 0 < s[i].id /\ s[i].block = doc[s[i].id]

LEMMA FirstIsNumbered ==
  ASSUME NEW new \in Docs
  PROVE  BareNumbered([k \in DOMAIN new |-> Child(k, new[k], "none")], new)
<1> DEFINE s == [k \in DOMAIN new |-> Child(k, new[k], "none")]
<1>1. DOMAIN new = 1 .. Len(new) /\ Len(new) \in Nat
  BY DocTypes
<1>2. ASSUME NEW k \in 1 .. Len(new)
      PROVE  /\ s[k] \in Bare /\ s[k].id = k /\ s[k].block = new[k] /\ s[k].class = "none"
  <2>1. s[k] = Child(k, new[k], "none")
    BY <1>1
  <2>2. k \in Int /\ new[k] \in Blocks /\ "none" \in Classes
    BY <1>1, DocTypes DEF Classes
  <2> HIDE DEF s
  <2> QED BY <2>1, <2>2, ChildType
<1>3. s \in [1 .. Len(new) -> Bare]
  BY <1>1, <1>2
<1> HIDE DEF s
<1>4. s \in Seq(Bare) /\ Len(s) = Len(new)
  BY <1>1, <1>3
<1>5. \A i \in 1 .. Len(s) : BareIds(s)[i] = i
  BY <1>2, <1>4 DEF BareIds
<1>6. InOrder(BareIds(s), Len(s), Len(new))
  BY <1>1, <1>4, <1>5 DEF InOrder
<1>7. BareNumbered(s, new)
  BY <1>1, <1>2, <1>4, <1>6 DEF BareNumbered
<1> QED BY <1>7 DEF s

LEMMA DiffIsNumbered ==
  ASSUME NEW old \in Docs, NEW new \in Docs
  PROVE  BareNumbered(Diff(old, new), new)
<1> DEFINE c == Children(old, new)
           s == Diff(old, new)
<1>1. old \in Seq(Blocks) /\ new \in Seq(Blocks) /\ Len(old) \in Nat /\ Len(new) \in Nat
  BY DocTypes
<1>2. c \in ChildLists(old, new)
  BY <1>1, ChildrenAreListed
<1> HIDE DEF c
<1>3. c \in Seq(Entries) /\ Len(c) \in Nat /\ DOMAIN c = 1 .. Len(c)
  BY <1>2 DEF ChildLists
<1>4. s = [i \in 1 .. Len(c) |-> IF c[i].ghost THEN Child(0 - c[i].index, old[c[i].index], "ghost")
                                 ELSE Child(c[i].index, new[c[i].index], DiffClass(old, new, c[i].index))]
  BY <1>3 DEF Diff, c
<1> HIDE DEF s
<1>5. ASSUME NEW i \in 1 .. Len(c)
      PROVE  /\ s[i] \in Bare /\ s[i].id = NumberOf(c[i])
             /\ IF s[i].class = "ghost" THEN s[i].id < 1 ELSE 0 < s[i].id /\ s[i].block = new[s[i].id]
  <2>1. c[i] \in Entries /\ c[i].index \in IF c[i].ghost THEN 1 .. Len(old) ELSE 1 .. Len(new)
    BY <1>2, <1>3 DEF ChildLists
  <2> DEFINE k == c[i].index
  <2>2. CASE c[i].ghost
    <3>1. s[i] = Child(0 - k, old[k], "ghost") /\ k \in 1 .. Len(old)
      BY <1>4, <2>1, <2>2
    <3>2. 0 - k \in Int /\ 0 - k < 1 /\ old[k] \in Blocks /\ "ghost" \in Classes /\ NumberOf(c[i]) = 0 - k
      BY <1>1, <2>2, <3>1 DEF Classes, NumberOf
    <3> HIDE DEF k
    <3> QED BY <3>1, <3>2, ChildType
  <2>3. CASE ~c[i].ghost
    <3>1. s[i] = Child(k, new[k], DiffClass(old, new, k)) /\ k \in 1 .. Len(new)
      BY <1>4, <2>1, <2>3
    <3>2. k \in Int /\ 0 < k /\ new[k] \in Blocks /\ NumberOf(c[i]) = k
      BY <1>1, <2>3, <3>1 DEF NumberOf
    <3>3. DiffClass(old, new, k) \in Classes /\ DiffClass(old, new, k) # "ghost"
      BY DiffClassType
    <3> HIDE DEF k
    <3> QED BY <3>1, <3>2, <3>3, ChildType
  <2> QED BY <2>2, <2>3
<1>6. s \in Seq(Bare) /\ Len(s) = Len(c)
  <2>1. s \in [1 .. Len(c) -> Bare]
    BY <1>4, <1>5
  <2> QED BY <1>3, <2>1
<1>7. BareIds(s) = Numbers(c)
  BY <1>5, <1>6 DEF BareIds, Numbers
<1>8. InOrder(BareIds(s), Len(s), Len(new))
  BY <1>2, <1>6, <1>7 DEF ChildLists
<1>9. BareNumbered(s, new)
  BY <1>5, <1>6, <1>8 DEF BareNumbered
<1> QED BY <1>9 DEF s

LEMMA RenderedIsNumbered ==
  ASSUME NEW token \in Nat, NEW old \in Docs \cup {NoDoc}, NEW new \in Docs
  PROVE  /\ Rendered(token, old, new) \in Seq(ChildTypes)
         /\ Numbered(Rendered(token, old, new), new)
         /\ \A i \in 1 .. Len(Rendered(token, old, new)) : Fresh(Rendered(token, old, new)[i])
<1> DEFINE d == CHOOSE x \in Diffs : x.old = old /\ x.new = new
           s == IF old = NoDoc THEN [k \in DOMAIN new |-> Child(k, new[k], "none")] ELSE d.children
           root == Rendered(token, old, new)
<1>1. BareNumbered(s, new)
  <2>1. CASE old = NoDoc
    BY <2>1, FirstIsNumbered
  <2>2. CASE old # NoDoc
    <3> DEFINE x == [old |-> old, new |-> new, children |-> <<>> \o Diff(old, new)]
    <3>1. old \in Docs
      BY <2>2
    <3>2. x \in Diffs /\ x.old = old /\ x.new = new
      BY <3>1 DEF Diffs
    <3>3. d \in Diffs /\ d.old = old /\ d.new = new
      <4> HIDE DEF x
      <4> QED BY <3>2
    <3>4. d.children = <<>> \o Diff(old, new)
      <4> HIDE DEF d
      <4> QED BY <3>3 DEF Diffs
    <3>5. BareNumbered(Diff(old, new), new)
      BY <3>1, DiffIsNumbered
    <3>6. <<>> \o Diff(old, new) = Diff(old, new)
      BY <3>5 DEF BareNumbered
    <3> QED BY <2>2, <3>4, <3>5, <3>6
  <2> QED BY <2>1, <2>2
<1>2. root = [i \in DOMAIN s |-> [s[i] EXCEPT !.id = <<token, @>>]]
  BY DEF Rendered
<1> HIDE DEF s, root
<1>3. s \in Seq(Bare) /\ DOMAIN s = 1 .. Len(s) /\ Len(s) \in Nat
  BY <1>1 DEF BareNumbered
<1>4. ASSUME NEW i \in 1 .. Len(s)
      PROVE  /\ root[i] \in ChildTypes /\ root[i].id[2] = s[i].id /\ root[i].class = s[i].class
             /\ root[i].block = s[i].block /\ Fresh(root[i])
  <2>1. s[i] \in Bare
    BY <1>3
  <2>2. root[i] = [s[i] EXCEPT !.id = <<token, s[i].id>>]
    BY <1>2, <1>3
  <2> QED BY <2>1, <2>2 DEF Bare, ChildTypes, Looks, Fresh
<1>5. root \in Seq(ChildTypes) /\ Len(root) = Len(s)
  <2>1. root \in [1 .. Len(s) -> ChildTypes]
    BY <1>2, <1>3, <1>4
  <2> QED BY <1>3, <2>1
<1>6. IdNumbers(root) = BareIds(s)
  BY <1>4, <1>5 DEF IdNumbers, BareIds
<1>7. Numbered(root, new)
  BY <1>1, <1>4, <1>5, <1>6 DEF Numbered, BareNumbered
<1> QED BY <1>4, <1>5, <1>7 DEF root

(* So ghosts aside, the page shows the document.                           *)
LEMMA NumberedShowsAll ==
  ASSUME NEW root \in Seq(ChildTypes), NEW doc \in Docs \cup {NoDoc}, Numbered(root, doc)
  PROVE  ShowsAll(root, doc)
<1> DEFINE n == Len(doc)
           len == Len(root)
           At(k, i) == i \in 1 .. len /\ root[i].id[2] = k
           at == [k \in 1 .. n |-> CHOOSE i : At(k, i)]
<1>1. n \in Nat /\ DOMAIN doc = 1 .. n /\ len \in Nat /\ DOMAIN root = 1 .. len
  BY DocTypes
<1>2. \A i \in 1 .. len : IdNumbers(root)[i] = root[i].id[2]
  BY DEF IdNumbers
<1>3. /\ \A i \in 1 .. len : root[i].id[2] \in Int /\ root[i].id[2] =< n
      /\ \A i, j \in 1 .. len : i < j /\ 0 < root[i].id[2] /\ 0 < root[j].id[2] => root[i].id[2] < root[j].id[2]
      /\ \A k \in 1 .. n : \E i \in 1 .. len : root[i].id[2] = k
  <2> HIDE DEF n, len
  <2>1. InOrder(IdNumbers(root), len, n)
    BY DEF Numbered, n, len
  <2> QED BY SMTT(30), <1>2, <2>1 DEF InOrder
<1>4. ASSUME NEW k \in 1 .. n PROVE At(k, at[k])
  <2>1. \E i : At(k, i)
    BY <1>3
  <2> HIDE DEF At
  <2> QED BY <2>1
<1> HIDE DEF at, n, len
<1>5. at \in [1 .. n -> 1 .. len]
  BY <1>4 DEF at
<1>6. \A k \in 1 .. n : 0 < root[at[k]].id[2] /\ root[at[k]].id[2] = k
  BY <1>1, <1>4
<1>7. \A i \in 1 .. len : IF root[i].class = "ghost" THEN root[i].id[2] < 1
                          ELSE 0 < root[i].id[2] /\ root[i].block = doc[root[i].id[2]]
  BY DEF Numbered, len
<1>8. ASSUME NEW i \in 1 .. len, 0 < root[i].id[2] PROVE \E k \in 1 .. n : at[k] = i
  <2> DEFINE k == root[i].id[2]
  <2>1. k \in 1 .. n
    BY <1>1, <1>3, <1>8
  <2> HIDE DEF k
  <2>2. at[k] \in 1 .. len /\ root[at[k]].id[2] = k
    BY <1>5, <1>6, <2>1
  <2>3. ~(at[k] < i) /\ ~(i < at[k])
    BY SMTT(30), <1>1, <1>3, <1>8, <2>1, <2>2 DEF k
  <2> QED BY <1>1, <2>1, <2>2, <2>3
<1>9. {at[k] : k \in 1 .. n} = {i \in 1 .. len : root[i].class # "ghost"}
  <2>1. ASSUME NEW k \in 1 .. n PROVE at[k] \in 1 .. len /\ root[at[k]].class # "ghost"
    <3>1. at[k] \in 1 .. len /\ ~(root[at[k]].id[2] < 1)
      BY <1>1, <1>5, <1>6
    <3> QED BY <1>7, <3>1
  <2>2. ASSUME NEW i \in 1 .. len, root[i].class # "ghost" PROVE \E k \in 1 .. n : at[k] = i
    BY <1>7, <1>8, <2>2
  <2> QED BY <2>1, <2>2
<1>10. ASSUME NEW k \in 1 .. n PROVE root[at[k]].block = doc[k]
  <2>1. at[k] \in 1 .. len /\ ~(root[at[k]].id[2] < 1)
    BY <1>1, <1>5, <1>6
  <2> QED BY <1>6, <1>7, <2>1
<1>11. ASSUME NEW j \in 1 .. n, NEW k \in 1 .. n, j < k PROVE at[j] < at[k]
  <2>1. at[j] \in 1 .. len /\ at[k] \in 1 .. len
    BY <1>5
  <2>2. at[j] # at[k]
    BY <1>1, <1>6, <1>11
  <2>3. ~(at[k] < at[j])
    <3>1. /\ root[at[j]].id[2] = j /\ root[at[k]].id[2] = k
          /\ 0 < root[at[j]].id[2] /\ 0 < root[at[k]].id[2]
      BY <1>6
    <3>2. at[k] < at[j] => root[at[k]].id[2] < root[at[j]].id[2]
      BY <1>3, <2>1, <3>1
    <3> QED BY <1>1, <1>11, <3>1, <3>2
  <2> QED BY <1>1, <2>1, <2>2, <2>3
<1> DEFINE live == {i \in 1 .. len : root[i].class # "ghost"}
<1>12. \A k \in 1 .. n : at[k] \in live
  BY <1>9
<1>13. {at[k] : k \in 1 .. n} = live
  BY <1>9
<1> HIDE DEF live
<1>14. at \in [1 .. n -> live]
  BY <1>5, <1>12
<1>15. live = {i \in DOMAIN root : root[i].class # "ghost"}
  BY <1>1 DEF live
<1>16. \E f \in [DOMAIN doc -> live] :
         /\ \A k \in DOMAIN doc : root[f[k]].block = doc[k]
         /\ \A j, k \in DOMAIN doc : j < k => f[j] < f[k]
         /\ {f[k] : k \in DOMAIN doc} = live
  BY <1>1, <1>10, <1>11, <1>13, <1>14
<1> QED BY ZenonT(60), <1>15, <1>16 DEF ShowsAll

(* A change that keeps identities, blocks and classes.                     *)
LEMMA SameChildren ==
  ASSUME NEW root \in Seq(ChildTypes), NEW doc, Numbered(root, doc),
         NEW after \in Seq(ChildTypes), Len(after) = Len(root),
         \A i \in 1 .. Len(root) : /\ after[i].id = root[i].id
                                   /\ after[i].block = root[i].block /\ after[i].class = root[i].class
  PROVE  Numbered(after, doc)
<1>1. IdNumbers(after) = IdNumbers(root)
  BY DEF IdNumbers
<1> QED BY <1>1 DEF Numbered

LEMMA GhostIsTakenOut ==
  ASSUME NEW root \in Seq(ChildTypes), NEW doc \in Docs \cup {NoDoc}, Numbered(root, doc),
         NEW p \in 1 .. Len(root), root[p].class = "ghost"
  PROVE  /\ RemoveAt(root, p) \in Seq(ChildTypes) /\ Numbered(RemoveAt(root, p), doc)
         /\ \A i \in 1 .. Len(RemoveAt(root, p)) : \E j \in 1 .. Len(root) : RemoveAt(root, p)[i] = root[j]
<1> DEFINE after == RemoveAt(root, p)
           len == Len(root)
<1>1. len \in Nat /\ Len(doc) \in Nat
  BY DocTypes
<1>2. /\ after \in Seq(ChildTypes) /\ Len(after) = len - 1
      /\ \A i \in 1 .. len - 1 : after[i] = IF i < p THEN root[i] ELSE root[i + 1]
  BY RemovedAt
<1> HIDE DEF after, len
<1>3. p \in 1 .. len
  BY DEF len
<1>4. \A i \in 1 .. len - 1 : i \in 1 .. len /\ i + 1 \in 1 .. len
  BY <1>1
<1>5. \A i \in 1 .. len : IdNumbers(root)[i] = root[i].id[2]
  BY DEF IdNumbers, len
<1>6. ASSUME NEW i \in 1 .. len - 1
      PROVE  IdNumbers(after)[i] = IF i < p THEN IdNumbers(root)[i] ELSE IdNumbers(root)[i + 1]
  <2>1. IdNumbers(after)[i] = after[i].id[2]
    BY <1>2 DEF IdNumbers
  <2> QED BY <1>2, <1>4, <1>5, <2>1
<1>7. InOrder(IdNumbers(root), len, Len(doc)) /\ IdNumbers(root)[p] < 1
  BY <1>3, <1>5 DEF Numbered, len
<1>8. InOrder(IdNumbers(after), len - 1, Len(doc))
  BY <1>1, <1>3, <1>6, <1>7, RemoveKeepsOrder
<1>9. \A i \in 1 .. len : IF root[i].class = "ghost" THEN root[i].id[2] < 1
                          ELSE 0 < root[i].id[2] /\ root[i].block = doc[root[i].id[2]]
  BY DEF Numbered, len
<1>10. ASSUME NEW i \in 1 .. len - 1 PROVE \E j \in 1 .. len : after[i] = root[j]
  BY <1>2, <1>4
<1>11. Numbered(after, doc)
  BY <1>2, <1>8, <1>9, <1>10 DEF Numbered
<1> QED BY <1>2, <1>10, <1>11 DEF after, len

-----------------------------------------------------------------------------
(* The find bar's marks.                                                   *)
Marks == (Nat \X Int) \X Looks \X Nat

LEMMA MarksInType ==
  ASSUME NEW root \in Seq(ChildTypes), NEW query
  PROVE  MarksIn(root, query) \in Seq(Marks)
<1> DEFINE Mark(c, k) == IF c.block.text[k] = query THEN << <<c.id, c.shows, k>> >> ELSE <<>>
           Found(c) == [k \in DOMAIN c.block.text |-> Mark(c, k)]
           all == [i \in DOMAIN root |-> FlattenSeq(Found(root[i]))]
<1>1. ASSUME NEW c \in ChildTypes PROVE FlattenSeq(Found(c)) \in Seq(Marks)
  <2>1. c.block.text \in Seq(ToSet(c.block.text)) /\ c.id \in Nat \X Int /\ c.shows \in Looks
    BY <1>1, DocsAreSequences DEF ChildTypes
  <2>2. DOMAIN c.block.text = 1 .. Len(c.block.text) /\ Len(c.block.text) \in Nat
    BY <2>1
  <2>3. ASSUME NEW k \in 1 .. Len(c.block.text) PROVE Mark(c, k) \in Seq(Marks)
    <3>1. <<c.id, c.shows, k>> \in Marks
      BY <2>1, <2>2 DEF Marks
    <3> QED BY <3>1
  <2>4. Found(c) \in [1 .. Len(c.block.text) -> Seq(Marks)]
    <3> HIDE DEF Mark
    <3> QED BY <2>2, <2>3
  <2>5. Found(c) \in Seq(Seq(Marks))
    <3> HIDE DEF Found
    <3> QED BY <2>2, <2>4
  <2> QED BY <2>5, FlattenType
<1>2. all \in Seq(Seq(Marks))
  <2>1. DOMAIN root = 1 .. Len(root) /\ Len(root) \in Nat
    OBVIOUS
  <2>2. \A i \in 1 .. Len(root) : FlattenSeq(Found(root[i])) \in Seq(Marks)
    <3> HIDE DEF Found
    <3> QED BY <1>1
  <2>3. all \in [1 .. Len(root) -> Seq(Marks)]
    <3> HIDE DEF Found
    <3> QED BY <2>1, <2>2
  <2> HIDE DEF all
  <2> QED BY <2>1, <2>3
<1>3. MarksIn(root, query) = FlattenSeq(all)
  BY DEF MarksIn
<1> HIDE DEF all
<1> QED BY <1>2, <1>3, FlattenType

-----------------------------------------------------------------------------
(* What is always true of the children of the page: they show the last     *)
(* rendering, only diagrams are drawn, and their marks are known.          *)
GoodChild(c, marks) ==
  /\ c.shows # "html" => IsDiagram(c)
  /\ c.marks \subseteq DOMAIN c.block.text
  /\ \A k \in c.marks : <<c.id, c.shows, k>> \in ToSet(marks)

GoodRoot(root, doc, marks) ==
  /\ root \in Seq(ChildTypes) /\ Numbered(root, doc)
  /\ \A i \in 1 .. Len(root) : GoodChild(root[i], marks)

(* A diagram that is still to be drawn is a block of the document.         *)
OfDoc(c, doc) == IsDiagram(c) /\ c.id[2] \in 1 .. Len(doc) /\ c.block = doc[c.id[2]]

LEMMA RenderedRoot ==
  ASSUME NEW token \in Nat, NEW old \in Docs \cup {NoDoc}, NEW new \in Docs, NEW marks
  PROVE  GoodRoot(Rendered(token, old, new), new, marks)
<1> DEFINE root == Rendered(token, old, new)
<1>1. /\ root \in Seq(ChildTypes) /\ Numbered(root, new)
      /\ \A i \in 1 .. Len(root) : root[i].shows = "html" /\ root[i].marks = {}
  BY RenderedIsNumbered DEF Fresh
<1> HIDE DEF root
<1>2. GoodRoot(root, new, marks)
  BY <1>1 DEF GoodRoot, GoodChild
<1> QED BY <1>2 DEF root

(* The diagrams of a page are blocks of its document.                      *)
LEMMA DiagramsAreOfDoc ==
  ASSUME NEW doc \in Docs \cup {NoDoc}, NEW marks, NEW root, GoodRoot(root, doc, marks), NEW c \in Diagrams(root)
  PROVE  c \in ChildTypes /\ OfDoc(c, doc)
<1>1. PICK i \in 1 .. Len(root) : c = root[i]
  BY DEF Diagrams, ToSet, GoodRoot
<1>2. c \in ChildTypes /\ IsDiagram(c)
  BY <1>1 DEF Diagrams, GoodRoot
<1>3. 0 < c.id[2] /\ c.block = doc[c.id[2]]
  BY <1>1, <1>2 DEF GoodRoot, Numbered, IsDiagram
<1>4. c.id[2] \in Int /\ c.id[2] =< Len(doc)
  <2>1. IdNumbers(root)[i] = c.id[2]
    BY <1>1 DEF IdNumbers
  <2> QED BY <2>1 DEF GoodRoot, Numbered, InOrder
<1> QED BY <1>2, <1>3, <1>4, DocTypes DEF OfDoc

LEMMA FirstIsLeft ==
  ASSUME NEW left, left # {}, NEW doc \in Docs \cup {NoDoc}, \A c \in left : OfDoc(c, doc)
  PROVE  FirstOf(left) \in left
<1> DEFINE Places == {c.id[2] : c \in left}
<1>1. Places \subseteq Nat /\ Places # {}
  BY DocTypes DEF OfDoc
<1>2. PICK x \in Places : \A y \in Places : x =< y
  <2> HIDE DEF Places
  <2> QED BY <1>1, LeastNumber
<1>3. PICK c \in left : c.id[2] = x
  BY <1>2
<1>4. \A d \in left : c.id[2] =< d.id[2]
  BY <1>2, <1>3
<1> QED BY <1>3, <1>4 DEF FirstOf

(* A diagram takes the place of nothing but itself.                        *)
LEMMA ReplacedRoot ==
  ASSUME NEW doc \in Docs \cup {NoDoc}, NEW marks, NEW root, GoodRoot(root, doc, marks),
         NEW code, OfDoc(code, doc), NEW as \in {"svg", "error"}
  PROVE  GoodRoot(Replaced(root, code, as), doc, marks)
<1> DEFINE after == Replaced(root, code, as)
<1>1. root \in Seq(ChildTypes) /\ DOMAIN root = 1 .. Len(root) /\ Len(root) \in Nat
  BY DEF GoodRoot
<1>2. ASSUME NEW i \in 1 .. Len(root)
      PROVE  /\ after[i] \in ChildTypes
             /\ after[i].id = root[i].id /\ after[i].block = root[i].block /\ after[i].class = root[i].class
             /\ GoodChild(after[i], marks)
  <2>1. root[i] \in ChildTypes /\ GoodChild(root[i], marks)
    BY <1>1 DEF GoodRoot
  <2>2. CASE root[i].id = code.id
    <3> DEFINE c == root[i]
               d == [c EXCEPT !.shows = as, !.marks = {}]
    <3>1. after[i] = d
      BY <1>1, <2>2 DEF Replaced
    <3>2. d \in ChildTypes /\ d.id = c.id /\ d.block = c.block /\ d.class = c.class /\ d.marks = {}
      BY <2>1 DEF ChildTypes, Looks
    <3>3. IsDiagram(c)
      <4>1. c.id[2] \in 1 .. Len(doc) /\ code.block = doc[c.id[2]] /\ code.block.tag = "mermaid"
        BY <2>2 DEF OfDoc, IsDiagram
      <4>2. ~(c.id[2] < 1)
        BY <4>1, DocTypes
      <4>3. c.class # "ghost" /\ c.block = doc[c.id[2]]
        BY <4>2 DEF GoodRoot, Numbered
      <4> QED BY <4>1, <4>3 DEF IsDiagram
    <3>4. IsDiagram(d)
      BY <3>2, <3>3 DEF IsDiagram
    <3> HIDE DEF d
    <3> QED BY <3>1, <3>2, <3>4 DEF GoodChild
  <2>3. CASE root[i].id # code.id
    <3>1. after[i] = root[i]
      BY <1>1, <2>3 DEF Replaced
    <3> QED BY <2>1, <3>1
  <2> QED BY <2>2, <2>3
<1>3. after \in Seq(ChildTypes) /\ Len(after) = Len(root)
  <2>1. after \in [1 .. Len(root) -> ChildTypes]
    <3>1. after = [i \in 1 .. Len(root) |-> after[i]]
      BY <1>1 DEF Replaced
    <3> HIDE DEF after
    <3> QED BY <1>2, <3>1
  <2> HIDE DEF after
  <2> QED BY <1>1, <2>1
<1> HIDE DEF after
<1>4. Numbered(after, doc)
  <2>1. Numbered(root, doc)
    BY DEF GoodRoot
  <2> QED BY <1>1, <1>2, <1>3, <2>1, SameChildren
<1>5. GoodRoot(after, doc, marks)
  BY <1>2, <1>3, <1>4 DEF GoodRoot
<1> QED BY <1>5 DEF after

LEMMA RemovedRoot ==
  ASSUME NEW doc \in Docs \cup {NoDoc}, NEW marks, NEW root, GoodRoot(root, doc, marks),
         NEW p \in DOMAIN root, root[p].class = "ghost"
  PROVE  GoodRoot(RemoveAt(root, p), doc, marks)
<1> DEFINE after == RemoveAt(root, p)
<1>1. root \in Seq(ChildTypes) /\ Numbered(root, doc) /\ p \in 1 .. Len(root)
  BY DEF GoodRoot
<1>2. /\ after \in Seq(ChildTypes) /\ Numbered(after, doc)
      /\ \A i \in 1 .. Len(after) : \E j \in 1 .. Len(root) : after[i] = root[j]
  BY <1>1, GhostIsTakenOut
<1> HIDE DEF after
<1>3. GoodRoot(after, doc, marks)
  BY <1>2 DEF GoodRoot
<1> QED BY <1>3 DEF after

(* Marks that are known are cleared.                                       *)
LEMMA ClearedRoot ==
  ASSUME NEW doc, NEW root, GoodRoot(root, doc, find.marks)
  PROVE  GoodRoot(ClearedMarks(root), doc, <<>>)
<1> DEFINE after == ClearedMarks(root)
<1>1. root \in Seq(ChildTypes) /\ DOMAIN root = 1 .. Len(root) /\ Len(root) \in Nat
  BY DEF GoodRoot
<1>2. ASSUME NEW i \in 1 .. Len(root)
      PROVE  /\ after[i] \in ChildTypes
             /\ after[i].id = root[i].id /\ after[i].block = root[i].block /\ after[i].class = root[i].class
             /\ GoodChild(after[i], <<>>)
  <2> DEFINE c == root[i]
             d == [c EXCEPT !.marks = {k \in @ : <<c.id, c.shows, k>> \notin ToSet(find.marks)}]
  <2>1. c \in ChildTypes /\ GoodChild(c, find.marks)
    BY <1>1 DEF GoodRoot
  <2>2. after[i] = d
    BY <1>1 DEF ClearedMarks
  <2>3. /\ d \in ChildTypes /\ d.id = c.id /\ d.block = c.block /\ d.class = c.class /\ d.shows = c.shows
        /\ d.marks = {k \in c.marks : <<c.id, c.shows, k>> \notin ToSet(find.marks)}
    BY <2>1 DEF ChildTypes
  <2> HIDE DEF d, c
  <2>4. d.marks = {}
    BY <2>1, <2>3 DEF GoodChild
  <2>5. d.shows # "html" => IsDiagram(d)
    BY <2>1, <2>3 DEF GoodChild, IsDiagram
  <2>6. GoodChild(d, <<>>)
    BY <2>4, <2>5 DEF GoodChild
  <2> QED BY <2>2, <2>3, <2>6 DEF c
<1>3. after \in Seq(ChildTypes) /\ Len(after) = Len(root)
  <2>1. after \in [1 .. Len(root) -> ChildTypes]
    <3>1. after = [i \in 1 .. Len(root) |-> after[i]]
      BY <1>1 DEF ClearedMarks
    <3> HIDE DEF after
    <3> QED BY <1>2, <3>1
  <2> HIDE DEF after
  <2> QED BY <1>1, <2>1
<1> HIDE DEF after
<1>4. Numbered(after, doc)
  <2>1. Numbered(root, doc)
    BY DEF GoodRoot
  <2> QED BY <1>1, <1>2, <1>3, <2>1, SameChildren
<1>5. GoodRoot(after, doc, <<>>)
  BY <1>2, <1>3, <1>4 DEF GoodRoot
<1> QED BY <1>5 DEF after

LEMMA MarkedRoot ==
  ASSUME NEW doc, NEW root, GoodRoot(root, doc, <<>>), NEW marks
  PROVE  GoodRoot(Marked(root, marks), doc, marks)
<1> DEFINE after == Marked(root, marks)
<1>1. root \in Seq(ChildTypes) /\ DOMAIN root = 1 .. Len(root) /\ Len(root) \in Nat
  BY DEF GoodRoot
<1>2. ASSUME NEW i \in 1 .. Len(root)
      PROVE  /\ after[i] \in ChildTypes
             /\ after[i].id = root[i].id /\ after[i].block = root[i].block /\ after[i].class = root[i].class
             /\ GoodChild(after[i], marks)
  <2> DEFINE c == root[i]
             new == {k \in DOMAIN c.block.text : <<c.id, c.shows, k>> \in ToSet(marks)}
             d == [c EXCEPT !.marks = @ \cup new]
  <2>1. c \in ChildTypes /\ GoodChild(c, <<>>)
    BY <1>1 DEF GoodRoot
  <2>2. after[i] = d
    BY <1>1 DEF Marked
  <2>3. DOMAIN c.block.text \subseteq Nat
    <3>1. c.block.text \in Seq(ToSet(c.block.text))
      BY <2>1, DocsAreSequences DEF ChildTypes
    <3> HIDE DEF c
    <3> QED BY <3>1
  <2>4. c.marks = {}
    BY <2>1 DEF GoodChild, ToSet
  <2>5. new \in SUBSET Nat
    BY <2>3
  <2> HIDE DEF new
  <2>6. /\ d \in ChildTypes /\ d.id = c.id /\ d.block = c.block /\ d.class = c.class /\ d.shows = c.shows
        /\ d.marks = new
    BY <2>1, <2>4, <2>5 DEF ChildTypes
  <2> HIDE DEF d, c
  <2>7. d.shows # "html" => IsDiagram(d)
    BY <2>1, <2>6 DEF GoodChild, IsDiagram
  <2>8. new \subseteq DOMAIN d.block.text /\ \A k \in new : <<d.id, d.shows, k>> \in ToSet(marks)
    BY <2>6 DEF new
  <2>9. GoodChild(d, marks)
    BY <2>6, <2>7, <2>8 DEF GoodChild
  <2> QED BY <2>2, <2>6, <2>9 DEF c
<1>3. after \in Seq(ChildTypes) /\ Len(after) = Len(root)
  <2>1. after \in [1 .. Len(root) -> ChildTypes]
    <3>1. after = [i \in 1 .. Len(root) |-> after[i]]
      BY <1>1 DEF Marked
    <3> HIDE DEF after
    <3> QED BY <1>2, <3>1
  <2> HIDE DEF after
  <2> QED BY <1>1, <2>1
<1> HIDE DEF after
<1>4. Numbered(after, doc)
  <2>1. Numbered(root, doc)
    BY DEF GoodRoot
  <2> QED BY <1>1, <1>2, <1>3, <2>1, SameChildren
<1>5. GoodRoot(after, doc, marks)
  BY <1>2, <1>3, <1>4 DEF GoodRoot
<1> QED BY <1>5 DEF after

-----------------------------------------------------------------------------
(* The invariant.                                                          *)

Contents == [doc: Docs, due: BOOLEAN]
Views == [ready: BOOLEAN, pending: Docs \cup {NoDoc}, last: Docs \cup {NoDoc}, scrollBack: 0 .. 2]
Runs == [token: Nat, left: SUBSET ChildTypes]
Pages == [root: Seq(ChildTypes), prev: Docs \cup {NoDoc}, token: Nat, runs: SUBSET Runs]
Finds == [visible: BOOLEAN, focused: BOOLEAN, marks: Seq(Marks), current: Nat]
Scrolls == [pos: 0 .. 1, scheduled: BOOLEAN, store: 0 .. 1]
AllCounts == [changes: 0 .. MaxChanges, events: 0 .. MaxEvents, group: Groups]
Scripts ==
  [kind: {"render"}, doc: Docs] \cup [kind: {"setScrollPercent"}, pos: {1}]
    \cup [kind: {"showFindBar", "hideFindBar"}]

Types ==
  /\ content \in Contents /\ view \in Views /\ page \in Pages /\ find \in Finds /\ scroll \in Scrolls
  /\ toApp \in Seq(Messages) /\ toPage \in Seq(Scripts)
  /\ counts \in AllCounts

GoodRun(r, p) ==
  /\ r.left # {} /\ r.token \in 1 .. p.token
  /\ r.token = p.token => \A c \in r.left : OfDoc(c, p.prev)

GoodRuns(p) == \A r \in p.runs : GoodRun(r, p)

CurrentIsAMark == find.current =< Len(find.marks) /\ (find.marks # <<>> => find.current > 0)

PageIsGood == GoodRoot(page.root, page.prev, find.marks) /\ GoodRuns(page) /\ CurrentIsAMark

(* The page says once that it is ready, before anything else it says.      *)
Handshake ==
  /\ \A i \in 1 .. Len(toApp) : toApp[i].kind = "ready" => i = 1 /\ ~view.ready
  /\ ~view.ready => /\ toApp # <<>> /\ toApp[1].kind = "ready"
                    /\ view.pending \in Docs /\ view.last \in {NoDoc, view.pending}
  /\ view.ready => view.pending = NoDoc

(* A rendering is due when the page is ready, and when the view was given  *)
(* a content that is not the last one it passed on.                        *)
Passed == IF view.ready THEN view.last ELSE view.pending
Owed == (IF view.ready THEN 0 ELSE 1) + (IF content.due /\ content.doc # Passed THEN 1 ELSE 0)
Renders == {s \in Scripts : s.kind = "render"}

(* Every rendering is for a change of the file, but for the first.         *)
RenderingsAreCounted == page.token + Count(toPage, Renders) + Owed =< counts.changes + 1

IInv == Types /\ PageIsGood /\ Handshake /\ RenderingsAreCounted

-----------------------------------------------------------------------------
LEMMA InitPage == Init => PageIsGood
<1> SUFFICES ASSUME Init PROVE PageIsGood
  OBVIOUS
<1>1. page.root = <<>> /\ page.prev = <<>> /\ page.runs = {} /\ find.marks = <<>> /\ find.current = 0
  BY DEF Init, Hidden, NoDoc
<1>2. <<>> \in Seq(ChildTypes) /\ Len(<<>>) = 0
  OBVIOUS
<1>3. Numbered(<<>>, <<>>)
  BY <1>2 DEF Numbered, InOrder, IdNumbers
<1>4. GoodRoot(<<>>, <<>>, <<>>)
  BY <1>2, <1>3 DEF GoodRoot
<1>5. GoodRuns(page)
  BY <1>1 DEF GoodRuns
<1> QED BY <1>1, <1>2, <1>4, <1>5 DEF PageIsGood, CurrentIsAMark

LEMMA InitInv == Init => IInv
<1> SUFFICES ASSUME Init PROVE IInv
  OBVIOUS
<1>1. Types
  <2>1. content \in Contents /\ content.doc \in Docs
    BY DEF Init, Contents
  <2>2. view \in Views
    BY <2>1 DEF Init, Views
  <2>3. page \in Pages
    BY DEF Init, Pages
  <2>4. find \in Finds
    BY DEF Init, Finds, Hidden
  <2>5. counts \in AllCounts
    BY BoundsAreNumbers DEF Init, AllCounts
  <2>6. scroll \in Scrolls
    <3> DEFINE stored == IF counts.group = "reading" THEN 0 .. 1 ELSE {0}
    <3>1. stored \subseteq 0 .. 1
      OBVIOUS
    <3>2. scroll \in [pos: {0}, scheduled: {FALSE}, store: stored]
      BY Zenon DEF Init
    <3> HIDE DEF stored
    <3>3. {0} \subseteq 0 .. 1 /\ {FALSE} \subseteq BOOLEAN
      OBVIOUS
    <3> QED BY Zenon, <3>1, <3>2, <3>3 DEF Scrolls
  <2>7. toApp \in Seq(Messages) /\ toPage \in Seq(Scripts)
    BY DEF Init, Messages
  <2> QED BY <2>1, <2>2, <2>3, <2>4, <2>5, <2>6, <2>7 DEF Types
<1>2. Handshake
  BY <1>1 DEF Init, Handshake, Types, Contents
<1>3. RenderingsAreCounted
  <2>1. Count(toPage, Renders) = 0
    BY CountOfEmpty DEF Init
  <2>2. page.token = 0 /\ Owed = 1 /\ counts.changes = 0
    BY DEF Init, Owed, Passed
  <2> QED BY <2>1, <2>2 DEF RenderingsAreCounted
<1> QED BY <1>1, <1>2, <1>3, InitPage DEF IInv

(* The scroll position.                                                    *)
LEMMA ScrolledType ==
  ASSUME scroll \in Scrolls, NEW pos \in 0 .. 1, NEW root
  PROVE  ScrolledTo(pos, root) \in Scrolls
<1> DEFINE at == IF Tall(root) THEN pos ELSE 0
<1>1. at \in 0 .. 1
  OBVIOUS
<1> HIDE DEF at
<1>2. ScrolledTo(pos, root) = [scroll EXCEPT !.pos = at, !.scheduled = @ \/ at # scroll.pos]
  BY DEF ScrolledTo, at
<1> QED BY <1>1, <1>2 DEF Scrolls

(* What a script or a key does with the find bar.                          *)
LEMMA BarHides ==
  ASSUME Types, PageIsGood, HideFindBar
  PROVE  /\ page' \in Pages /\ find' \in Finds
         /\ page'.prev = page.prev /\ page'.token = page.token /\ page'.runs = page.runs
         /\ GoodRoot(page'.root, page'.prev, find'.marks) /\ CurrentIsAMark'
<1> DEFINE root == ClearedMarks(page.root)
<1>1. page \in Pages /\ find \in Finds
  BY DEF Types
<1>2. GoodRoot(root, page.prev, <<>>)
  BY ClearedRoot DEF PageIsGood
<1>3. root \in Seq(ChildTypes)
  BY <1>2 DEF GoodRoot
<1>4. page' = [page EXCEPT !.root = root]
  BY DEF HideFindBar
<1> HIDE DEF root
<1>5. /\ page' \in Pages /\ page'.root = root
      /\ page'.prev = page.prev /\ page'.token = page.token /\ page'.runs = page.runs
  BY <1>1, <1>3, <1>4 DEF Pages
<1>6. find' \in Finds /\ find'.marks = <<>> /\ find'.current = 0
  <2>1. <<>> \in Seq(Marks)
    OBVIOUS
  <2>2. find' = [find EXCEPT !.visible = FALSE, !.marks = <<>>, !.current = 0]
    BY DEF HideFindBar
  <2> QED BY <1>1, <2>1, <2>2 DEF Finds
<1>7. CurrentIsAMark'
  BY <1>6 DEF CurrentIsAMark
<1> QED BY <1>2, <1>5, <1>6, <1>7

LEMMA BarShows ==
  ASSUME Types, PageIsGood, ShowFindBar
  PROVE  /\ page' \in Pages /\ find' \in Finds
         /\ page'.prev = page.prev /\ page'.token = page.token /\ page'.runs = page.runs
         /\ GoodRoot(page'.root, page'.prev, find'.marks) /\ CurrentIsAMark'
<1>1. CASE find.visible
  BY <1>1, BarHides DEF ShowFindBar
<1>2. CASE ~find.visible
  <2> DEFINE root == ClearedMarks(page.root)
  <2>1. page \in Pages
    BY DEF Types
  <2>2. GoodRoot(root, page.prev, <<>>)
    BY ClearedRoot DEF PageIsGood
  <2>3. root \in Seq(ChildTypes)
    BY <2>2 DEF GoodRoot
  <2>4. page' = [page EXCEPT !.root = root]
    BY <1>2 DEF ShowFindBar
  <2> HIDE DEF root
  <2>5. /\ page' \in Pages /\ page'.root = root
        /\ page'.prev = page.prev /\ page'.token = page.token /\ page'.runs = page.runs
    BY <2>1, <2>3, <2>4 DEF Pages
  <2>6. find' \in Finds /\ find'.marks = <<>> /\ find'.current = 0
    <3>1. <<>> \in Seq(Marks)
      OBVIOUS
    <3>2. find' = [visible |-> TRUE, focused |-> TRUE, marks |-> <<>>, current |-> 0]
      BY <1>2 DEF ShowFindBar
    <3> QED BY <3>1, <3>2 DEF Finds
  <2>7. CurrentIsAMark'
    BY <2>6 DEF CurrentIsAMark
  <2> QED BY <2>2, <2>5, <2>6, <2>7
<1> QED BY <1>1, <1>2

LEMMA SearchMarks ==
  ASSUME Types, PageIsGood, NEW query, DoSearch(query)
  PROVE  /\ page' \in Pages /\ find' \in Finds /\ scroll' \in Scrolls
         /\ page'.prev = page.prev /\ page'.token = page.token /\ page'.runs = page.runs
         /\ GoodRoot(page'.root, page'.prev, find'.marks) /\ CurrentIsAMark'
<1> DEFINE cleared == ClearedMarks(page.root)
           marks == IF query = "" THEN <<>> ELSE MarksIn(cleared, query)
           root == Marked(cleared, marks)
<1>1. page \in Pages /\ find \in Finds /\ scroll \in Scrolls
  BY DEF Types
<1>2. GoodRoot(cleared, page.prev, <<>>)
  BY ClearedRoot DEF PageIsGood
<1>3. GoodRoot(root, page.prev, marks)
  BY <1>2, MarkedRoot
<1>4. marks \in Seq(Marks)
  <2>1. cleared \in Seq(ChildTypes)
    BY <1>2 DEF GoodRoot
  <2>2. MarksIn(cleared, query) \in Seq(Marks)
    BY <2>1, MarksInType
  <2>3. <<>> \in Seq(Marks)
    OBVIOUS
  <2> QED BY <2>2, <2>3
<1>5. root \in Seq(ChildTypes)
  BY <1>3 DEF GoodRoot
<1>6. /\ page' = [page EXCEPT !.root = root]
      /\ find' = [find EXCEPT !.marks = marks, !.current = IF marks = <<>> THEN 0 ELSE 1]
      /\ scroll' = IF marks = <<>> THEN scroll ELSE ScrolledIntoView(Head(marks), page.root)
  BY DEF DoSearch
<1> HIDE DEF root, marks
<1>7. /\ page' \in Pages /\ page'.root = root
      /\ page'.prev = page.prev /\ page'.token = page.token /\ page'.runs = page.runs
  BY <1>1, <1>5, <1>6 DEF Pages
<1>8. find' \in Finds /\ find'.marks = marks /\ find'.current = IF marks = <<>> THEN 0 ELSE 1
  BY <1>1, <1>4, <1>6 DEF Finds
<1>9. Len(marks) \in Nat /\ (marks # <<>> => Len(marks) > 0)
  BY <1>4
<1>10. CurrentIsAMark'
  BY <1>8, <1>9 DEF CurrentIsAMark
<1>11. scroll' \in Scrolls
  BY <1>1, <1>6, ScrolledType DEF ScrolledIntoView
<1> QED BY <1>3, <1>7, <1>8, <1>10, <1>11

(* A rendering replaces the children, and starts a run for its diagrams.   *)
LEMMA RenderKeeps ==
  ASSUME Types, PageIsGood, NEW doc \in Docs, MarkdownRender(doc), UNCHANGED find
  PROVE  page' \in Pages /\ scroll' \in Scrolls /\ PageIsGood' /\ page'.token = page.token + 1
<1> DEFINE token == page.token + 1
           root == Rendered(token, page.prev, doc)
           codes == Diagrams(root)
           run == [token |-> token, left |-> codes]
           runs == IF codes = {} THEN page.runs ELSE page.runs \cup {run}
<1>1. page \in Pages /\ page.token \in Nat /\ page.prev \in Docs \cup {NoDoc} /\ page.runs \subseteq Runs
      /\ scroll \in Scrolls /\ token \in Nat
  BY DEF Types, Pages
<1>2. GoodRoot(root, doc, find.marks) /\ root \in Seq(ChildTypes)
  <2> HIDE DEF token
  <2> QED BY <1>1, RenderedRoot DEF GoodRoot
<1>3. \A c \in codes : c \in ChildTypes /\ OfDoc(c, doc)
  <2> HIDE DEF root
  <2> QED BY <1>2, DiagramsAreOfDoc
<1>4. /\ page' = [root |-> root, prev |-> doc, token |-> token, runs |-> runs]
      /\ scroll' = ScrolledTo(scroll.pos, root)
  BY DEF MarkdownRender
<1> HIDE DEF root, codes, token
<1>5. run \in Runs /\ run.left = codes /\ run.token = token
  BY <1>1, <1>3 DEF Runs
<1>6. runs \subseteq Runs
  BY <1>1, <1>5
<1>7. GoodRoot(page'.root, page'.prev, find'.marks)
  BY <1>2, <1>4
<1>8. page' \in Pages /\ page'.token = token /\ page'.prev = doc /\ page'.runs = runs
  <2> HIDE DEF runs
  <2> QED BY <1>1, <1>2, <1>4, <1>6 DEF Pages
<1>9. ASSUME NEW r \in page'.runs PROVE GoodRun(r, page')
  <2>1. CASE r = run
    <3>1. codes # {}
      BY <1>8, <1>9, <2>1 DEF PageIsGood, GoodRuns, GoodRun, token
    <3> QED BY <1>1, <1>3, <1>5, <1>8, <2>1, <3>1 DEF GoodRun, token
  <2>2. CASE r # run
    <3>1. r \in page.runs
      BY <1>8, <1>9, <2>2
    <3>2. r.left # {} /\ r.token \in 1 .. page.token
      BY <3>1 DEF PageIsGood, GoodRuns, GoodRun
    <3>3. r.token \in 1 .. token /\ r.token # token
      BY <1>1, <3>2 DEF token
    <3> QED BY <1>8, <3>2, <3>3 DEF GoodRun
  <2> QED BY <2>1, <2>2
<1>10. PageIsGood'
  BY <1>7, <1>9 DEF PageIsGood, GoodRuns, CurrentIsAMark
<1>11. scroll' \in Scrolls
  <2>1. scroll.pos \in 0 .. 1
    BY <1>1 DEF Scrolls
  <2> QED BY <1>1, <1>4, <2>1, ScrolledType
<1> QED BY <1>8, <1>10, <1>11 DEF token

(* A drawing replaces its own diagram, or nothing if it is late.           *)
LEMMA DrawingKeeps ==
  ASSUME Types, PageIsGood, NEW r, NEW as \in {"svg", "error"}, MermaidRendered(r, as)
  PROVE  page' \in Pages /\ PageIsGood' /\ page'.token = page.token
<1>1. page \in Pages /\ page.prev \in Docs \cup {NoDoc} /\ r \in page.runs /\ r \in Runs /\ find' = find
      /\ page.runs \subseteq Runs
  BY DEF Types, Pages, MermaidRendered
<1>2. GoodRun(r, page) /\ GoodRoot(page.root, page.prev, find.marks)
  BY <1>1 DEF PageIsGood, GoodRuns
<1>3. CASE r.token # page.token
  <2>1. page' = [page EXCEPT !.runs = @ \ {r}]
    BY <1>3 DEF MermaidRendered
  <2>2. /\ page' \in Pages /\ page'.root = page.root /\ page'.prev = page.prev /\ page'.token = page.token
        /\ page'.runs = page.runs \ {r}
    BY <1>1, <2>1 DEF Pages
  <2>3. \A q \in page'.runs : GoodRun(q, page')
    BY <2>2 DEF PageIsGood, GoodRuns, GoodRun
  <2> QED BY <1>1, <1>2, <2>2, <2>3 DEF PageIsGood, GoodRuns, CurrentIsAMark
<1>4. CASE r.token = page.token
  <2> DEFINE code == FirstOf(r.left)
             left == r.left \ {code}
             rest == [r EXCEPT !.left = left]
             root == Replaced(page.root, code, as)
             runs == (page.runs \ {r}) \cup Rest(r)
  <2>1. r.left # {} /\ \A c \in r.left : OfDoc(c, page.prev)
    BY <1>2, <1>4 DEF GoodRun
  <2>2. code \in r.left
    BY <1>1, <2>1, FirstIsLeft
  <2>3. page' = [page EXCEPT !.root = root, !.runs = runs]
    BY <1>4 DEF MermaidRendered
  <2> HIDE DEF code
  <2>4. GoodRoot(root, page.prev, find.marks) /\ root \in Seq(ChildTypes)
    <3>1. OfDoc(code, page.prev)
      BY <2>1, <2>2
    <3> QED BY <1>1, <1>2, <3>1, ReplacedRoot DEF GoodRoot
  <2>5. rest \in Runs /\ rest.token = r.token /\ rest.left = left
    BY <1>1 DEF Runs
  <2>6. Rest(r) = IF left = {} THEN {} ELSE {rest}
    BY DEF Rest, code
  <2>7. runs \subseteq Runs
    BY <1>1, <2>5, <2>6
  <2> HIDE DEF root
  <2>8. /\ page' \in Pages /\ page'.root = root /\ page'.prev = page.prev /\ page'.token = page.token
        /\ page'.runs = runs
    <3> HIDE DEF runs
    <3> QED BY <1>1, <2>3, <2>4, <2>7 DEF Pages
  <2>9. ASSUME NEW q \in page'.runs PROVE GoodRun(q, page')
    <3>1. CASE q \in page.runs
      BY <2>8, <3>1 DEF PageIsGood, GoodRuns, GoodRun
    <3>2. CASE q \notin page.runs
      <4>1. q = rest /\ left # {}
        <5> HIDE DEF rest, left
        <5> QED BY <2>6, <2>8, <2>9, <3>2
      <4>2. rest.left # {} /\ (\A c \in rest.left : OfDoc(c, page'.prev)) /\ rest.token \in 1 .. page'.token
        BY <1>2, <2>1, <2>5, <2>8, <4>1 DEF GoodRun
      <4> QED BY <4>1, <4>2 DEF GoodRun
    <3> QED BY <3>1, <3>2
  <2> QED BY <1>1, <2>4, <2>8, <2>9 DEF PageIsGood, GoodRuns, CurrentIsAMark
<1> QED BY <1>3, <1>4

LEMMA GhostKeeps ==
  ASSUME Types, PageIsGood, GhostEnds
  PROVE  page' \in Pages /\ scroll' \in Scrolls /\ PageIsGood' /\ page'.token = page.token
<1>1. page \in Pages /\ page.prev \in Docs \cup {NoDoc} /\ find' = find /\ scroll \in Scrolls
  BY DEF Types, Pages, GhostEnds
<1>2. PICK i \in DOMAIN page.root : /\ page.root[i].class = "ghost"
                                    /\ page' = [page EXCEPT !.root = RemoveAt(@, i)]
                                    /\ scroll' = ScrolledTo(scroll.pos, page'.root)
  BY DEF GhostEnds
<1> DEFINE root == RemoveAt(page.root, i)
<1>3. GoodRoot(root, page.prev, find.marks) /\ root \in Seq(ChildTypes)
  <2>1. GoodRoot(page.root, page.prev, find.marks)
    BY DEF PageIsGood
  <2> QED BY <1>1, <1>2, <2>1, RemovedRoot DEF GoodRoot
<1>4. page' = [page EXCEPT !.root = root]
  BY <1>2
<1> HIDE DEF root
<1>5. /\ page' \in Pages /\ page'.root = root /\ page'.prev = page.prev /\ page'.token = page.token
      /\ page'.runs = page.runs
  BY <1>1, <1>3, <1>4 DEF Pages
<1>6. PageIsGood'
  BY <1>1, <1>3, <1>5 DEF PageIsGood, GoodRuns, GoodRun, CurrentIsAMark
<1>7. scroll.pos \in 0 .. 1
  BY <1>1 DEF Scrolls
<1> QED BY <1>1, <1>2, <1>5, <1>6, <1>7, ScrolledType

(* The bar and its marks change, the page and its diagrams do not.         *)
LEMMA RunsStay ==
  ASSUME PageIsGood, page'.prev = page.prev, page'.token = page.token, page'.runs = page.runs,
         GoodRoot(page'.root, page'.prev, find'.marks), CurrentIsAMark'
  PROVE  PageIsGood'
BY DEF PageIsGood, GoodRuns, GoodRun

LEMMA ScriptTypes ==
  ASSUME Types, toPage # <<>>
  PROVE  /\ Head(toPage) \in Scripts /\ Tail(toPage) \in Seq(Scripts)
         /\ Head(toPage).kind \in {"render", "setScrollPercent", "showFindBar", "hideFindBar"}
         /\ Head(toPage).kind = "render" => Head(toPage).doc \in Docs
         /\ Head(toPage).kind = "setScrollPercent" => Head(toPage).pos = 1
<1>1. toPage \in Seq(Scripts)
  BY DEF Types
<1>2. Head(toPage) \in Scripts /\ Tail(toPage) \in Seq(Scripts)
  BY <1>1
<1> QED BY <1>2 DEF Scripts

LEMMA ScriptKeeps ==
  ASSUME IInv, PageRuns
  PROVE  /\ page' \in Pages /\ find' \in Finds /\ scroll' \in Scrolls /\ view' \in Views /\ PageIsGood'
         /\ page'.token = IF Head(toPage).kind = "render" THEN page.token + 1 ELSE page.token
         /\ view'.ready = view.ready /\ view'.pending = view.pending /\ view'.last = view.last
<1> DEFINE s == Head(toPage)
<1>1. /\ s.kind \in {"render", "setScrollPercent", "showFindBar", "hideFindBar"}
      /\ s.kind = "render" => s.doc \in Docs
      /\ s.kind = "setScrollPercent" => s.pos = 1
  BY ScriptTypes DEF IInv, PageRuns
<1>2. Types /\ PageIsGood /\ page \in Pages /\ find \in Finds /\ scroll \in Scrolls /\ view \in Views
  BY DEF IInv, Types
<1>3. CASE s.kind = "render"
  <2>1. /\ MarkdownRender(s.doc) /\ UNCHANGED find
        /\ view' = IF view.scrollBack # 1 THEN view
                   ELSE [view EXCEPT !.scrollBack = IF scroll.store > 0 THEN 2 ELSE 0]
    BY <1>3 DEF PageRuns
  <2>2. page' \in Pages /\ scroll' \in Scrolls /\ PageIsGood' /\ page'.token = page.token + 1
    BY <1>1, <1>2, <1>3, <2>1, RenderKeeps
  <2>3. view' \in Views /\ view'.ready = view.ready /\ view'.pending = view.pending /\ view'.last = view.last
    BY <1>2, <2>1 DEF Views
  <2> QED BY <1>2, <1>3, <2>1, <2>2, <2>3
<1>4. CASE s.kind = "setScrollPercent"
  <2>1. scroll' = ScrolledTo(1, page.root) /\ UNCHANGED <<view, page, find>>
    BY <1>1, <1>4 DEF PageRuns
  <2>2. scroll' \in Scrolls
    BY <1>2, <2>1, ScrolledType
  <2> QED BY <1>2, <1>4, <2>1, <2>2 DEF PageIsGood, GoodRuns, GoodRun, CurrentIsAMark
<1>5. CASE s.kind = "showFindBar"
  <2>1. ShowFindBar /\ UNCHANGED <<view, scroll>>
    BY <1>5 DEF PageRuns
  <2> QED BY <1>2, <1>5, <2>1, BarShows, RunsStay
<1>6. CASE s.kind = "hideFindBar"
  <2>1. HideFindBar /\ UNCHANGED <<view, scroll>>
    BY <1>6 DEF PageRuns
  <2> QED BY <1>2, <1>6, <2>1, BarHides, RunsStay
<1> QED BY <1>1, <1>3, <1>4, <1>5, <1>6

(* What the user does in the page.                                         *)
LEMMA UserKeeps ==
  ASSUME IInv, \/ FindInput \/ FindEnter \/ FindEscape \/ UserScrolls
               \/ \E link \in BOOLEAN : Click(link)
  PROVE  /\ page' \in Pages /\ find' \in Finds /\ scroll' \in Scrolls /\ PageIsGood'
         /\ page'.token = page.token
<1>1. Types /\ PageIsGood /\ page \in Pages /\ find \in Finds /\ scroll \in Scrolls
  BY DEF IInv, Types
<1>2. CASE FindInput
  <2>1. PICK query \in Queries \cup {""} : DoSearch(query)
    BY <1>2 DEF FindInput
  <2> QED BY <1>1, <2>1, SearchMarks, RunsStay
<1>3. CASE FindEnter
  <2> DEFINE n == Len(find.marks)
             next == (find.current % n) + 1
  <2>1. n \in Nat /\ n > 0 /\ find.current \in Nat
    BY <1>1, <1>3 DEF FindEnter, Finds
  <2>2. next \in 1 .. n
    <3> HIDE DEF n
    <3> QED BY <2>1
  <2>3. find' = [find EXCEPT !.current = next] /\ page' = page
        /\ scroll' = ScrolledIntoView(find.marks[find'.current], page.root)
    BY <1>3 DEF FindEnter
  <2> HIDE DEF next
  <2>4. find' \in Finds /\ find'.marks = find.marks /\ find'.current = next
    BY <1>1, <2>1, <2>2, <2>3 DEF Finds
  <2>5. CurrentIsAMark'
    BY <2>1, <2>2, <2>4 DEF CurrentIsAMark
  <2>6. scroll' \in Scrolls
    BY <1>1, <2>3, ScrolledType DEF ScrolledIntoView
  <2> QED BY <1>1, <2>3, <2>4, <2>5, <2>6, RunsStay DEF PageIsGood
<1>4. CASE FindEscape
  <2>1. HideFindBar /\ UNCHANGED scroll
    BY <1>4 DEF FindEscape
  <2> QED BY <1>1, <2>1, BarHides, RunsStay
<1>5. CASE UserScrolls
  <2>1. UNCHANGED <<page, find>> /\ scroll' = ScrolledTo(1 - scroll.pos, page.root)
    BY <1>5 DEF UserScrolls
  <2>2. 1 - scroll.pos \in 0 .. 1
    BY <1>1 DEF Scrolls
  <2>3. scroll' \in Scrolls
    BY <1>1, <2>1, <2>2, ScrolledType
  <2> QED BY <1>1, <2>1, <2>3 DEF PageIsGood, GoodRuns, GoodRun, CurrentIsAMark
<1>6. ASSUME NEW link \in BOOLEAN, Click(link)
      PROVE  /\ page' \in Pages /\ find' \in Finds /\ scroll' \in Scrolls /\ PageIsGood'
             /\ page'.token = page.token
  <2>1. UNCHANGED <<page, scroll>> /\ find' = [find EXCEPT !.focused = FALSE]
    BY <1>6 DEF Click
  <2>2. find' \in Finds /\ find'.marks = find.marks /\ find'.current = find.current
    BY <1>1, <2>1 DEF Finds
  <2> QED BY <1>1, <2>1, <2>2 DEF PageIsGood, GoodRuns, GoodRun, CurrentIsAMark
<1> QED BY <1>2, <1>3, <1>4, <1>5, <1>6

-----------------------------------------------------------------------------
(* The steps.                                                              *)

LEMMA EventCounts ==
  ASSUME Types, NEW groups, Event(groups)
  PROVE  counts' \in AllCounts /\ counts'.changes = counts.changes
<1>1. counts \in AllCounts /\ counts.events < MaxEvents /\ counts' = [counts EXCEPT !.events = @ + 1]
  BY DEF Types, Event
<1>2. counts.events + 1 \in 0 .. MaxEvents
  BY <1>1, BoundsAreNumbers DEF AllCounts
<1> QED BY <1>1, <1>2 DEF AllCounts

(* Steps that leave the page, or the bar's marks, alone.                   *)
LEMMA PageStays ==
  ASSUME PageIsGood, page' = page, find' = find PROVE PageIsGood'
BY DEF PageIsGood, GoodRuns, GoodRun, CurrentIsAMark

LEMMA AppSide ==
  ASSUME IInv, UpdateNSView \/ AppReceives \/ FileChanged \/ ApplyInitialScroll
  PROVE  Types' /\ PageIsGood'
<1>1. /\ Types /\ PageIsGood /\ content \in Contents /\ view \in Views /\ page \in Pages /\ find \in Finds
      /\ scroll \in Scrolls /\ toApp \in Seq(Messages) /\ toPage \in Seq(Scripts) /\ counts \in AllCounts
  BY DEF IInv, Types
<1>2. UNCHANGED <<page, find>>
  BY DEF UpdateNSView, AppReceives, FileChanged, ApplyInitialScroll
<1>3. PageIsGood'
  BY <1>1, <1>2, PageStays
<1>4. \A doc \in Docs : RenderScript(doc) \in Scripts
  BY DEF RenderScript, Scripts
<1>5. CASE UpdateNSView
  <2>1. /\ content' = [content EXCEPT !.due = FALSE] /\ UNCHANGED <<scroll, toApp, counts>>
        /\ \/ UNCHANGED <<view, toPage>>
           \/ /\ view' = [view EXCEPT !.last = content.doc]
              /\ toPage' = Append(toPage, RenderScript(content.doc))
           \/ /\ view' = [view EXCEPT !.last = content.doc, !.pending = content.doc]
              /\ UNCHANGED toPage
    BY <1>5 DEF UpdateNSView
  <2>2. content.doc \in Docs /\ content' \in Contents
    BY <1>1, <2>1 DEF Contents
  <2>3. view' \in Views
    BY <1>1, <2>1, <2>2 DEF Views
  <2>4. toPage' \in Seq(Scripts)
    <3>1. RenderScript(content.doc) \in Scripts
      BY <1>4, <2>2
    <3> DEFINE s == RenderScript(content.doc)
    <3>2. toPage' = toPage \/ toPage' = Append(toPage, s)
      BY <2>1
    <3> HIDE DEF s
    <3> QED BY <1>1, <3>1, <3>2 DEF s
  <2> QED BY <1>1, <1>2, <1>3, <2>1, <2>2, <2>3, <2>4 DEF Types
<1>6. CASE AppReceives
  <2> DEFINE m == Head(toApp)
  <2>1. m \in Messages /\ toApp' = Tail(toApp) /\ toApp' \in Seq(Messages) /\ UNCHANGED <<content, counts>>
    BY <1>1, <1>6 DEF AppReceives
  <2>2. view' \in Views /\ toPage' \in Seq(Scripts)
    <3>1. CASE m.kind = "ready"
      <4>1. /\ view' = [view EXCEPT !.ready = TRUE, !.last = view.pending, !.pending = NoDoc]
            /\ toPage' = Append(toPage, RenderScript(view.pending))
        BY <1>6, <3>1 DEF AppReceives
      <4>2. view.pending \in Docs
        <5>1. toApp # <<>> /\ m = toApp[1] /\ 1 \in 1 .. Len(toApp)
          BY <1>1, <1>6 DEF AppReceives
        <5> QED BY <3>1, <5>1 DEF IInv, Handshake
      <4>3. RenderScript(view.pending) \in Scripts
        BY <1>4, <4>2
      <4>4. view' \in Views
        BY <1>1, <4>1 DEF Views
      <4> QED BY <1>1, <4>1, <4>3, <4>4
    <3>2. CASE m.kind # "ready"
      <4>1. UNCHANGED <<view, toPage>>
        BY <1>6, <3>2 DEF AppReceives
      <4> QED BY <1>1, <4>1
    <3> QED BY <3>1, <3>2
  <2>3. scroll' \in Scrolls
    <3>1. scroll' = IF m.kind = "scroll" THEN [scroll EXCEPT !.store = m.pos] ELSE scroll
      BY <1>6 DEF AppReceives
    <3>2. m.kind = "scroll" => m.pos \in 0 .. 1
      BY <2>1 DEF Messages
    <3> HIDE DEF m
    <3> QED BY <1>1, <3>1, <3>2 DEF Scrolls
  <2> QED BY <1>1, <1>2, <1>3, <2>1, <2>2, <2>3 DEF Types
<1>7. CASE FileChanged
  <2>1. UNCHANGED <<view, scroll, toApp, toPage>>
    BY <1>7 DEF FileChanged
  <2>2. content' \in Contents
    <3>1. PICK doc \in Docs : content' = [doc |-> doc, due |-> TRUE]
      BY <1>7 DEF FileChanged
    <3> QED BY <3>1 DEF Contents
  <2>3. counts' \in AllCounts
    <3>1. /\ counts.changes < MaxChanges /\ counts.events < MaxEvents
          /\ counts' = [counts EXCEPT !.changes = @ + 1, !.events = @ + 1]
      BY <1>7 DEF FileChanged
    <3>2. counts.changes + 1 \in 0 .. MaxChanges /\ counts.events + 1 \in 0 .. MaxEvents
      BY <1>1, <3>1, BoundsAreNumbers DEF AllCounts
    <3> QED BY <1>1, <3>1, <3>2 DEF AllCounts
  <2> QED BY <1>1, <1>2, <1>3, <2>1, <2>2, <2>3 DEF Types
<1>8. CASE ApplyInitialScroll
  <2> DEFINE s == [kind |-> "setScrollPercent", pos |-> 1]
  <2>1. /\ UNCHANGED <<content, scroll, toApp, counts>>
        /\ view' = [view EXCEPT !.scrollBack = 0] /\ toPage' = Append(toPage, s)
    BY <1>8 DEF ApplyInitialScroll
  <2>2. s \in Scripts
    BY DEF Scripts
  <2> HIDE DEF s
  <2>3. toPage' \in Seq(Scripts)
    BY <1>1, <2>1, <2>2
  <2>4. view' \in Views
    BY <1>1, <2>1 DEF Views
  <2> QED BY <1>1, <1>2, <1>3, <2>1, <2>3, <2>4 DEF Types
<1> QED BY <1>5, <1>6, <1>7, <1>8

UserSteps ==
  \/ FindInput \/ FindEnter \/ FindEscape \/ UserScrolls
  \/ \E link \in BOOLEAN : Click(link)

LEMMA PageSide ==
  ASSUME IInv, \/ PageRuns \/ PostScrollPercent \/ GhostEnds \/ \E token : MermaidAnswers(token)
               \/ \E kind \in {"showFindBar", "hideFindBar"} : KeyEquivalent(kind)
               \/ UserSteps
  PROVE  Types' /\ PageIsGood'
<1>1. /\ Types /\ PageIsGood /\ content \in Contents /\ view \in Views /\ page \in Pages /\ find \in Finds
      /\ scroll \in Scrolls /\ toApp \in Seq(Messages) /\ toPage \in Seq(Scripts) /\ counts \in AllCounts
  BY DEF IInv, Types
<1>2. CASE PageRuns
  <2>1. UNCHANGED <<content, toApp, counts>> /\ toPage # <<>> /\ toPage' = Tail(toPage)
    BY <1>2 DEF PageRuns
  <2>2. toPage' \in Seq(Scripts)
    BY <1>1, <2>1, ScriptTypes
  <2>3. page' \in Pages /\ find' \in Finds /\ scroll' \in Scrolls /\ view' \in Views /\ PageIsGood'
    BY <1>2, ScriptKeeps
  <2> QED BY <1>1, <2>1, <2>2, <2>3 DEF Types
<1>3. CASE PostScrollPercent
  <2> DEFINE m == [kind |-> "scroll", pos |-> scroll.pos]
  <2>1. /\ UNCHANGED <<content, view, page, find, toPage, counts>>
        /\ scroll' = [scroll EXCEPT !.scheduled = FALSE] /\ toApp' = Append(toApp, m)
    BY <1>3 DEF PostScrollPercent
  <2>2. m \in Messages /\ scroll' \in Scrolls
    BY <1>1, <2>1 DEF Messages, Scrolls
  <2> HIDE DEF m
  <2>3. toApp' \in Seq(Messages)
    BY <1>1, <2>1, <2>2
  <2>4. PageIsGood'
    BY <1>1, <2>1, PageStays
  <2> QED BY <1>1, <2>1, <2>2, <2>3, <2>4 DEF Types
<1>4. CASE GhostEnds
  <2>1. UNCHANGED <<content, view, find, toApp, toPage, counts>>
    BY <1>4 DEF GhostEnds, Event
  <2>2. page' \in Pages /\ scroll' \in Scrolls /\ PageIsGood'
    BY <1>1, <1>4, GhostKeeps
  <2> QED BY <1>1, <2>1, <2>2 DEF Types
<1>5. ASSUME NEW token, MermaidAnswers(token) PROVE Types' /\ PageIsGood'
  <2>1. PICK r \in page.runs, as \in {"svg", "error"} : MermaidRendered(r, as)
    BY <1>5 DEF MermaidAnswers
  <2>2. UNCHANGED <<content, view, find, scroll, toApp, toPage, counts>>
    BY <2>1 DEF MermaidRendered
  <2>3. page' \in Pages /\ PageIsGood'
    BY <1>1, <2>1, DrawingKeeps
  <2> QED BY <1>1, <2>2, <2>3 DEF Types
<1>6. ASSUME NEW kind \in {"showFindBar", "hideFindBar"}, KeyEquivalent(kind) PROVE Types' /\ PageIsGood'
  <2>1. UNCHANGED <<content, view, page, find, scroll, toApp>> /\ toPage' = Append(toPage, Script(kind))
    BY <1>6 DEF KeyEquivalent
  <2>2. Script(kind) \in Scripts
    BY DEF Script, Scripts
  <2>3. toPage' \in Seq(Scripts)
    BY <1>1, <2>1, <2>2
  <2>4. PageIsGood'
    BY <1>1, <2>1, PageStays
  <2>5. counts' \in AllCounts
    BY <1>1, <1>6, EventCounts DEF KeyEquivalent
  <2> QED BY <1>1, <2>1, <2>3, <2>4, <2>5 DEF Types
<1>7. CASE UserSteps
  <2>1. page' \in Pages /\ find' \in Finds /\ scroll' \in Scrolls /\ PageIsGood'
    BY <1>7, UserKeeps DEF UserSteps
  <2>2. UNCHANGED <<content, view, toPage>> /\ \E groups : Event(groups)
    BY ZenonT(30), <1>7 DEF UserSteps, FindInput, FindEnter, FindEscape, UserScrolls, Click
  <2>3. counts' \in AllCounts
    BY <1>1, <2>2, EventCounts
  <2>4. toApp' \in Seq(Messages)
    <3>1. toApp' = toApp \/ toApp' = Append(toApp, [kind |-> "openUrl"])
      BY ZenonT(30), <1>7 DEF UserSteps, FindInput, FindEnter, FindEscape, UserScrolls, Click
    <3>2. [kind |-> "openUrl"] \in Messages
      BY DEF Messages
    <3> QED BY <1>1, <3>1, <3>2
  <2> QED BY <1>1, <2>1, <2>2, <2>3, <2>4 DEF Types
<1> QED BY <1>2, <1>3, <1>4, <1>5, <1>6, <1>7

(* Steps that say nothing of being ready.                                  *)
LEMMA HandshakeStays ==
  ASSUME Types, Handshake, view'.ready = view.ready, view'.pending = view.pending,
         view'.last = view.last,
         toApp' = toApp \/ \E m \in Messages : m.kind # "ready" /\ toApp' = Append(toApp, m)
  PROVE  Handshake'
<1>1. CASE toApp' = toApp
  BY <1>1 DEF Handshake
<1>2. ASSUME NEW m \in Messages, m.kind # "ready", toApp' = Append(toApp, m) PROVE Handshake'
  <2>1. toApp \in Seq(Messages)
    BY DEF Types
  <2>2. /\ Len(toApp') = Len(toApp) + 1 /\ Len(toApp) \in Nat /\ toApp'[Len(toApp) + 1] = m
        /\ \A i \in 1 .. Len(toApp) : toApp'[i] = toApp[i]
    BY <1>2, <2>1
  <2>3. \A i \in 1 .. Len(toApp') : toApp'[i].kind = "ready" => i \in 1 .. Len(toApp) /\ toApp[i].kind = "ready"
    BY <1>2, <2>2
  <2>4. toApp # <<>> => toApp' # <<>> /\ toApp'[1] = toApp[1]
    BY <2>1, <2>2
  <2> QED BY <2>3, <2>4 DEF Handshake
<1> QED BY <1>1, <1>2

LEMMA HandshakeStep == IInv /\ [Next]_vars => Handshake'
<1> SUFFICES ASSUME IInv, [Next]_vars PROVE Handshake'
  OBVIOUS
<1>1. Types /\ Handshake /\ content \in Contents /\ view \in Views /\ scroll \in Scrolls /\ toApp \in Seq(Messages)
  BY DEF IInv, Types
<1>2. CASE UpdateNSView
  <2>1. CASE UNCHANGED view
    <3>1. toApp' = toApp
      BY <1>2 DEF UpdateNSView
    <3> QED BY <1>1, <2>1, <3>1, HandshakeStays
  <2>2. CASE view.ready /\ ~UNCHANGED view
    <3>1. view' = [view EXCEPT !.last = content.doc] /\ toApp' = toApp
      BY <1>2, <2>2 DEF UpdateNSView
    <3>2. view'.ready /\ view'.pending = view.pending
      BY <1>1, <2>2, <3>1 DEF Views
    <3> QED BY <1>1, <2>2, <3>1, <3>2 DEF Handshake
  <2>3. CASE ~view.ready /\ ~UNCHANGED view
    <3>1. view' = [view EXCEPT !.last = content.doc, !.pending = content.doc] /\ toApp' = toApp
      BY <1>2, <2>3 DEF UpdateNSView
    <3>2. /\ ~view'.ready /\ view'.pending = content.doc /\ view'.last = content.doc
          /\ content.doc \in Docs
      BY <1>1, <2>3, <3>1 DEF Views, Contents
    <3> QED BY <1>1, <2>3, <3>1, <3>2 DEF Handshake
  <2> QED BY <2>1, <2>2, <2>3
<1>3. CASE AppReceives
  <2>1. toApp # <<>> /\ toApp' = Tail(toApp)
    BY <1>3 DEF AppReceives
  <2>2. /\ Len(toApp) \in Nat \ {0} /\ Len(toApp') = Len(toApp) - 1 /\ Head(toApp) = toApp[1]
        /\ \A i \in 1 .. Len(toApp') : toApp'[i] = toApp[i + 1]
    BY <1>1, <2>1
  <2>3. \A i \in 1 .. Len(toApp') : toApp'[i].kind # "ready"
    <3>1. \A i \in 1 .. Len(toApp') : i + 1 \in 1 .. Len(toApp) /\ i + 1 # 1
      BY <2>2
    <3> QED BY <1>1, <2>2, <3>1 DEF Handshake
  <2>4. view'.ready /\ view'.pending = NoDoc
    <3>1. CASE Head(toApp).kind = "ready"
      <4>1. view' = [view EXCEPT !.ready = TRUE, !.last = view.pending, !.pending = NoDoc]
        BY <1>3, <3>1 DEF AppReceives
      <4> QED BY <1>1, <4>1 DEF Views
    <3>2. CASE Head(toApp).kind # "ready"
      <4>1. view' = view /\ view.ready
        BY <1>1, <1>3, <2>2, <3>2 DEF AppReceives, Handshake
      <4> QED BY <1>1, <4>1 DEF Handshake
    <3> QED BY <3>1, <3>2
  <2> QED BY <2>3, <2>4 DEF Handshake
<1>4. CASE FileChanged
  <2>1. UNCHANGED <<view, toApp>>
    BY <1>4 DEF FileChanged
  <2> QED BY <1>1, <2>1, HandshakeStays
<1>5. CASE ApplyInitialScroll
  <2>1. view' = [view EXCEPT !.scrollBack = 0] /\ toApp' = toApp
    BY <1>5 DEF ApplyInitialScroll
  <2>2. view'.ready = view.ready /\ view'.pending = view.pending /\ view'.last = view.last
    BY <1>1, <2>1 DEF Views
  <2> QED BY <1>1, <2>1, <2>2, HandshakeStays
<1>6. CASE PageRuns
  <2>1. toApp' = toApp
    BY <1>6 DEF PageRuns
  <2>2. view'.ready = view.ready /\ view'.pending = view.pending /\ view'.last = view.last
    BY <1>6, ScriptKeeps
  <2> QED BY <1>1, <2>1, <2>2, HandshakeStays
<1>7. CASE PostScrollPercent
  <2> DEFINE m == [kind |-> "scroll", pos |-> scroll.pos]
  <2>1. view' = view /\ toApp' = Append(toApp, m)
    BY <1>7 DEF PostScrollPercent
  <2>2. m \in Messages /\ m.kind # "ready"
    BY <1>1 DEF Messages, Scrolls
  <2> HIDE DEF m
  <2> QED BY <1>1, <2>1, <2>2, HandshakeStays
<1>8. CASE GhostEnds
  <2>1. UNCHANGED <<view, toApp>>
    BY <1>8 DEF GhostEnds
  <2> QED BY <1>1, <2>1, HandshakeStays
<1>9. ASSUME NEW token, MermaidAnswers(token) PROVE Handshake'
  <2>1. UNCHANGED <<view, toApp>>
    BY <1>9 DEF MermaidAnswers, MermaidRendered
  <2> QED BY <1>1, <2>1, HandshakeStays
<1>10. ASSUME NEW kind, KeyEquivalent(kind) PROVE Handshake'
  <2>1. UNCHANGED <<view, toApp>>
    BY <1>10 DEF KeyEquivalent
  <2> QED BY <1>1, <2>1, HandshakeStays
<1>11. CASE UserSteps
  <2> DEFINE m == [kind |-> "openUrl"]
  <2>1. view' = view /\ (toApp' = toApp \/ toApp' = Append(toApp, m))
    BY ZenonT(30), <1>11 DEF UserSteps, FindInput, FindEnter, FindEscape, UserScrolls, Click
  <2>2. m \in Messages /\ m.kind # "ready"
    BY DEF Messages
  <2> HIDE DEF m
  <2> QED BY <1>1, <2>1, <2>2, HandshakeStays
<1>12. CASE UNCHANGED vars
  <2>1. UNCHANGED <<view, toApp>>
    BY <1>12 DEF vars
  <2> QED BY <1>1, <2>1, HandshakeStays
<1> QED BY <1>2, <1>3, <1>4, <1>5, <1>6, <1>7, <1>8, <1>9, <1>10, <1>11, <1>12 DEF Next, UserSteps

(* Steps that render nothing, and ask for no rendering.                    *)
LEMMA CountStays ==
  ASSUME RenderingsAreCounted, page'.token = page.token, content' = content,
         view'.ready = view.ready, view'.pending = view.pending, view'.last = view.last,
         Count(toPage', Renders) = Count(toPage, Renders), counts'.changes = counts.changes
  PROVE  RenderingsAreCounted'
<1>1. Owed' = Owed
  BY DEF Owed, Passed
<1> QED BY <1>1 DEF RenderingsAreCounted

LEMMA CountsAreNumbers ==
  ASSUME Types
  PROVE  /\ page.token \in Nat /\ Count(toPage, Renders) \in Nat /\ counts.changes \in 0 .. MaxChanges
         /\ Owed \in Nat /\ Owed =< (IF view.ready THEN 0 ELSE 1) + 1
<1>1. page.token \in Nat /\ counts.changes \in 0 .. MaxChanges /\ toPage \in Seq(Scripts)
  BY DEF Types, Pages, AllCounts
<1>2. Count(toPage, Renders) \in Nat
  BY <1>1, CountType
<1> QED BY <1>1, <1>2 DEF Owed

LEMMA CountedStep == IInv /\ [Next]_vars => RenderingsAreCounted'
<1> SUFFICES ASSUME IInv, [Next]_vars PROVE RenderingsAreCounted'
  OBVIOUS
<1>1. /\ Types /\ Handshake /\ RenderingsAreCounted /\ content \in Contents /\ view \in Views
      /\ toApp \in Seq(Messages) /\ toPage \in Seq(Scripts)
  BY DEF IInv, Types
<1>2. /\ page.token \in Nat /\ Count(toPage, Renders) \in Nat /\ counts.changes \in Nat /\ Owed \in Nat
      /\ page.token + Count(toPage, Renders) + Owed =< counts.changes + 1
  <2>1. counts.changes \in 0 .. MaxChanges
    BY <1>1, CountsAreNumbers
  <2> QED BY <1>1, <2>1, BoundsAreNumbers, CountsAreNumbers DEF RenderingsAreCounted
<1>3. ASSUME NEW s \in Scripts PROVE s \in Renders <=> s.kind = "render"
  BY DEF Renders
<1>4. ASSUME NEW s \in Scripts, toPage' = Append(toPage, s)
      PROVE  Count(toPage', Renders) = Count(toPage, Renders) + IF s.kind = "render" THEN 1 ELSE 0
  BY <1>1, <1>2, <1>3, <1>4, CountAppend
<1>5. \A doc \in Docs : RenderScript(doc) \in Scripts /\ RenderScript(doc).kind = "render"
  BY DEF RenderScript, Scripts
<1>6. CASE UpdateNSView
  <2>1. /\ content.due /\ content' = [content EXCEPT !.due = FALSE] /\ page' = page /\ counts' = counts
        /\ content.doc \in Docs
    BY <1>1, <1>6 DEF UpdateNSView, Contents
  <2>2. content'.due = FALSE
    BY <1>1, <2>1 DEF Contents
  <2>3. CASE view.last = content.doc
    <3>1. UNCHANGED <<view, toPage>>
      BY <1>6, <2>3 DEF UpdateNSView
    <3>2. Owed' \in Nat /\ Owed' =< Owed
      BY <2>1, <2>2, <3>1 DEF Owed
    <3> QED BY <1>2, <2>1, <3>1, <3>2 DEF RenderingsAreCounted
  <2>4. CASE view.last # content.doc /\ view.ready
    <3> DEFINE s == RenderScript(content.doc)
    <3>1. view' = [view EXCEPT !.last = content.doc] /\ toPage' = Append(toPage, s)
      BY <1>6, <2>4 DEF UpdateNSView
    <3>2. s \in Scripts /\ s.kind = "render"
      BY <1>5, <2>1
    <3> HIDE DEF s
    <3>3. Count(toPage', Renders) = Count(toPage, Renders) + 1
      BY <1>4, <3>1, <3>2
    <3>4. view'.ready
      BY <1>1, <2>4, <3>1 DEF Views
    <3>5. Owed = 1 /\ Owed' = 0
      BY <2>1, <2>2, <2>4, <3>4 DEF Owed, Passed
    <3> QED BY <1>2, <2>1, <3>3, <3>5 DEF RenderingsAreCounted
  <2>5. CASE view.last # content.doc /\ ~view.ready
    <3>1. view' = [view EXCEPT !.last = content.doc, !.pending = content.doc] /\ toPage' = toPage
      BY <1>6, <2>5 DEF UpdateNSView
    <3>2. ~view'.ready
      BY <1>1, <2>5, <3>1 DEF Views
    <3>3. Owed' = 1 /\ Owed >= 1
      BY <2>2, <2>5, <3>2 DEF Owed
    <3> QED BY <1>2, <2>1, <3>1, <3>3 DEF RenderingsAreCounted
  <2> QED BY <2>3, <2>4, <2>5
<1>7. CASE AppReceives
  <2>1. UNCHANGED <<content, page, counts>>
    BY <1>7 DEF AppReceives
  <2>2. CASE Head(toApp).kind = "ready"
    <3> DEFINE s == RenderScript(view.pending)
    <3>1. /\ view' = [view EXCEPT !.ready = TRUE, !.last = view.pending, !.pending = NoDoc]
          /\ toPage' = Append(toPage, s)
      BY <1>7, <2>2 DEF AppReceives
    <3>2. ~view.ready /\ view.pending \in Docs
      <4>1. toApp # <<>> /\ Head(toApp) = toApp[1] /\ 1 \in 1 .. Len(toApp)
        BY <1>1, <1>7 DEF AppReceives
      <4> QED BY <1>1, <2>2, <4>1 DEF Handshake
    <3>3. s \in Scripts /\ s.kind = "render"
      BY <1>5, <3>2
    <3> HIDE DEF s
    <3>4. Count(toPage', Renders) = Count(toPage, Renders) + 1
      BY <1>4, <3>1, <3>3
    <3>5. view'.ready /\ view'.last = view.pending
      BY <1>1, <3>1 DEF Views
    <3>6. Owed = Owed' + 1 /\ Owed' \in Nat
      BY <2>1, <3>2, <3>5 DEF Owed, Passed
    <3> QED BY <1>2, <2>1, <3>4, <3>6 DEF RenderingsAreCounted
  <2>3. CASE Head(toApp).kind # "ready"
    <3>1. UNCHANGED <<view, toPage>>
      BY <1>7, <2>3 DEF AppReceives
    <3> QED BY <1>1, <2>1, <3>1, CountStays
  <2> QED BY <2>2, <2>3
<1>8. CASE FileChanged
  <2>1. UNCHANGED <<view, page, toPage>> /\ counts' = [counts EXCEPT !.changes = @ + 1, !.events = @ + 1]
    BY <1>8 DEF FileChanged
  <2>2. counts'.changes = counts.changes + 1
    BY <1>1, <2>1 DEF Types, AllCounts
  <2>3. Owed' \in Nat /\ Owed' =< Owed + 1
    BY <2>1 DEF Owed
  <2> QED BY <1>2, <2>1, <2>2, <2>3 DEF RenderingsAreCounted
<1>9. CASE ApplyInitialScroll
  <2> DEFINE s == [kind |-> "setScrollPercent", pos |-> 1]
  <2>1. view' = [view EXCEPT !.scrollBack = 0] /\ UNCHANGED <<content, page, counts>> /\ toPage' = Append(toPage, s)
    BY <1>9 DEF ApplyInitialScroll
  <2>2. s \in Scripts /\ s.kind # "render"
    BY DEF Scripts
  <2> HIDE DEF s
  <2>3. Count(toPage', Renders) = Count(toPage, Renders)
    BY <1>2, <1>4, <2>1, <2>2
  <2>4. view'.ready = view.ready /\ view'.pending = view.pending /\ view'.last = view.last
    BY <1>1, <2>1 DEF Views
  <2> QED BY <1>1, <2>1, <2>3, <2>4, CountStays
<1>10. CASE PageRuns
  <2> DEFINE s == Head(toPage)
  <2>1. toPage # <<>> /\ toPage' = Tail(toPage) /\ UNCHANGED <<content, counts>> /\ s \in Scripts
    BY <1>1, <1>10, ScriptTypes DEF PageRuns
  <2>2. Count(toPage', Renders) = IF s.kind = "render" THEN Count(toPage, Renders) - 1 ELSE Count(toPage, Renders)
    <3>1. s \in Renders <=> s.kind = "render"
      BY <1>3, <2>1
    <3> QED BY <1>1, <2>1, <3>1, CountTail
  <2>3. /\ page'.token = IF s.kind = "render" THEN page.token + 1 ELSE page.token
        /\ view'.ready = view.ready /\ view'.pending = view.pending /\ view'.last = view.last
    BY <1>10, ScriptKeeps
  <2> HIDE DEF s
  <2>4. Owed' = Owed
    BY <2>1, <2>3 DEF Owed, Passed
  <2> QED BY <1>2, <2>1, <2>2, <2>3, <2>4 DEF RenderingsAreCounted
<1>11. CASE PostScrollPercent
  <2>1. UNCHANGED <<content, view, page, toPage, counts>>
    BY <1>11 DEF PostScrollPercent
  <2> QED BY <1>1, <2>1, CountStays
<1>12. CASE GhostEnds
  <2>1. UNCHANGED <<content, view, toPage, counts>>
    BY <1>12 DEF GhostEnds
  <2>2. page'.token = page.token
    BY <1>12, GhostKeeps DEF IInv
  <2> QED BY <1>1, <2>1, <2>2, CountStays
<1>13. ASSUME NEW token, MermaidAnswers(token) PROVE RenderingsAreCounted'
  <2>1. PICK r \in page.runs, as \in {"svg", "error"} : MermaidRendered(r, as)
    BY <1>13 DEF MermaidAnswers
  <2>2. UNCHANGED <<content, view, toPage, counts>>
    BY <2>1 DEF MermaidRendered
  <2>3. page'.token = page.token
    BY <2>1, DrawingKeeps DEF IInv
  <2> QED BY <1>1, <2>2, <2>3, CountStays
<1>14. ASSUME NEW kind \in {"showFindBar", "hideFindBar"}, KeyEquivalent(kind) PROVE RenderingsAreCounted'
  <2>1. UNCHANGED <<content, view, page>> /\ toPage' = Append(toPage, Script(kind))
    BY <1>14 DEF KeyEquivalent
  <2>2. Script(kind) \in Scripts /\ Script(kind).kind # "render"
    BY DEF Script, Scripts
  <2>3. Count(toPage', Renders) = Count(toPage, Renders)
    BY <1>2, <1>4, <2>1, <2>2
  <2>4. counts'.changes = counts.changes
    BY <1>1, <1>14, EventCounts DEF KeyEquivalent
  <2> QED BY <1>1, <2>1, <2>3, <2>4, CountStays
<1>15. CASE UserSteps
  <2>1. UNCHANGED <<content, view, toPage>> /\ \E groups : Event(groups)
    BY ZenonT(30), <1>15 DEF UserSteps, FindInput, FindEnter, FindEscape, UserScrolls, Click
  <2>2. counts'.changes = counts.changes
    BY <1>1, <2>1, EventCounts
  <2>3. page'.token = page.token
    BY <1>15, UserKeeps DEF UserSteps
  <2> QED BY <1>1, <2>1, <2>2, <2>3, CountStays
<1>16. CASE UNCHANGED vars
  <2>1. UNCHANGED <<content, view, page, toPage, counts>>
    BY <1>16 DEF vars
  <2> QED BY <1>1, <2>1, CountStays
<1> QED BY <1>6, <1>7, <1>8, <1>9, <1>10, <1>11, <1>12, <1>13, <1>14, <1>15, <1>16 DEF Next, UserSteps

LEMMA TypesStep == IInv /\ [Next]_vars => Types' /\ PageIsGood'
<1> SUFFICES ASSUME IInv, [Next]_vars PROVE Types' /\ PageIsGood'
  OBVIOUS
<1>1. CASE UNCHANGED vars
  <2>1. Types /\ PageIsGood
    BY DEF IInv
  <2>2. PageIsGood'
    BY <1>1, <2>1, PageStays DEF vars
  <2> QED BY <1>1, <2>1, <2>2 DEF Types, vars
<1>2. CASE Next
  <2>1. CASE UpdateNSView \/ AppReceives \/ FileChanged \/ ApplyInitialScroll
    BY <2>1, AppSide
  <2>2. CASE ~(UpdateNSView \/ AppReceives \/ FileChanged \/ ApplyInitialScroll)
    <3>1. \/ PageRuns \/ PostScrollPercent \/ GhostEnds \/ \E token : MermaidAnswers(token)
          \/ \E kind \in {"showFindBar", "hideFindBar"} : KeyEquivalent(kind)
          \/ UserSteps
      BY <1>2, <2>2 DEF Next, UserSteps
    <3> QED BY <3>1, PageSide
  <2> QED BY <2>1, <2>2
<1> QED BY <1>1, <1>2

(* What the runs check follows.                                            *)
LEMMA RootIsPlain ==
  ASSUME IInv
  PROVE  /\ \A c \in ToSet(page.root) : c \in ChildTypes /\ GoodChild(c, find.marks)
         /\ ShowsAll(page.root, page.prev)
<1>1. GoodRoot(page.root, page.prev, find.marks) /\ page.prev \in Docs \cup {NoDoc}
  BY DEF IInv, PageIsGood, Types, Pages
<1>2. ShowsAll(page.root, page.prev)
  BY <1>1, NumberedShowsAll DEF GoodRoot
<1>3. ASSUME NEW c \in ToSet(page.root) PROVE c \in ChildTypes /\ GoodChild(c, find.marks)
  <2>1. page.root \in Seq(ChildTypes)
    BY <1>1 DEF GoodRoot
  <2>2. PICK i \in DOMAIN page.root : c = page.root[i]
    BY <1>3 DEF ToSet
  <2> QED BY <1>1, <2>1, <2>2 DEF GoodRoot
<1> QED BY <1>2, <1>3

LEMMA IInvIsInv == IInv => Inv
<1> SUFFICES ASSUME IInv PROVE Inv
  OBVIOUS
<1>1. /\ content \in Contents /\ view \in Views /\ page \in Pages /\ find \in Finds /\ scroll \in Scrolls
      /\ toApp \in Seq(Messages) /\ counts \in AllCounts /\ Types
  BY DEF IInv, Types
<1>2. /\ view.ready \in BOOLEAN /\ view.scrollBack \in 0 .. 2
      /\ view.pending \in Docs \cup {NoDoc} /\ view.last \in Docs \cup {NoDoc}
      /\ view.ready => view.pending = NoDoc
  BY <1>1 DEF Views, IInv, Handshake
<1>3. page.prev \in Docs \cup {NoDoc} /\ page.token \in 0 .. MaxChanges + 1
  <2>1. /\ page.token \in Nat /\ Count(toPage, Renders) \in Nat /\ counts.changes \in 0 .. MaxChanges
        /\ Owed \in Nat /\ page.token + Count(toPage, Renders) + Owed =< counts.changes + 1
    BY <1>1, CountsAreNumbers DEF IInv, RenderingsAreCounted
  <2>2. page.token \in 0 .. MaxChanges + 1
    BY <2>1, BoundsAreNumbers
  <2> QED BY <1>1, <2>2 DEF Pages
<1>4. ASSUME NEW c \in ToSet(page.root)
      PROVE  /\ c.shows \in {"html", "svg", "error"}
             /\ c.class \in {"none", "same", "added", "modified", "ghost"}
             /\ c.marks \subseteq DOMAIN c.block.text
             /\ c.shows # "html" => IsDiagram(c)
  <2>1. c \in ChildTypes /\ GoodChild(c, find.marks)
    BY <1>4, RootIsPlain
  <2> QED BY <2>1 DEF ChildTypes, GoodChild, Looks, Classes
<1>5. \A r \in page.runs : r.left # {} /\ r.token \in 1 .. page.token
  BY DEF IInv, PageIsGood, GoodRuns, GoodRun
<1>6. find.current \in 0 .. Len(find.marks) /\ (find.marks # <<>> => find.current > 0)
  <2>1. find.current \in Nat /\ find.marks \in Seq(Marks) /\ Len(find.marks) \in Nat
    BY <1>1 DEF Finds
  <2> QED BY <2>1 DEF IInv, PageIsGood, CurrentIsAMark
<1>7. \A i \in DOMAIN toApp : toApp[i] \in Messages
  BY <1>1
<1>8. TypeOK
  BY <1>1, <1>2, <1>3, <1>4, <1>5, <1>6, <1>7 DEF TypeOK, Contents, Scrolls, AllCounts
<1>9. NoOldDrawing
  BY <1>4, RootIsPlain DEF NoOldDrawing
<1> QED BY <1>8, <1>9 DEF Inv

LEMMA IInvKnowsMarks == IInv => MarksAreKnown
<1> SUFFICES ASSUME IInv, NEW c \in ToSet(page.root), NEW k \in c.marks
             PROVE  <<c.id, c.shows, k>> \in ToSet(find.marks)
  BY Zenon DEF MarksAreKnown
<1>1. GoodChild(c, find.marks)
  BY RootIsPlain
<1> QED BY <1>1 DEF GoodChild

LEMMA InvStep == IInv /\ [Next]_vars => IInv'
BY TypesStep, HandshakeStep, CountedStep DEF IInv

LEMMA Invariance == Spec => []IInv
BY InitInv, InvStep, PTL DEF Spec

(***************************************************************************)
(* The preview shows the last rendering in every state: its live children  *)
(* are the blocks of that document in their order, whatever drawings of    *)
(* earlier renderings are still under way and however many ghosts fade     *)
(* between them, and nothing but diagrams is ever drawn; no rendering is   *)
(* made without a change of the file, but for the first.                   *)
(***************************************************************************)
THEOREM PreviewIsTrue == Spec => []Inv
BY Invariance, IInvIsInv, PTL

(***************************************************************************)
(* Whatever the user searches for, and whichever diagrams are drawn and    *)
(* documents rendered between two searches, clearMarks() finds every mark  *)
(* that is in the page: hiding the bar always leaves the text unmarked.    *)
(***************************************************************************)
THEOREM MarksStayKnown == Spec => []MarksAreKnown
BY Invariance, IInvKnowsMarks, PTL
=============================================================================
