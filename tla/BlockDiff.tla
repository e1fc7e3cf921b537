------------------------------ MODULE BlockDiff ------------------------------
(***************************************************************************)
(* What has changed since the last rendering of a Markdown file            *)
(* (scripts/markdown-preview-entry.js): the blocks of the two renderings   *)
(* are matched by a longest common subsequence, changed blocks are marked, *)
(* and deleted ones are put in as ghosts until their animation ends.       *)
(*                                                                         *)
(* A block is [tag, text, html], its text a sequence of words.             *)
(***************************************************************************)
EXTENDS Integers, Sequences, FiniteSets, SequencesExt

Same(a, b) == a.tag = b.tag /\ a.text = b.text

\* Broken variant: only the column to the left is looked at.
LcsTableLeft(old, new) ==
  LET dp[p \in (0 .. Len(old)) \X (0 .. Len(new))] ==
        LET i == p[1]
            j == p[2]
        IN  IF i = 0 \/ j = 0 THEN 0
            ELSE IF Same(old[i], new[j]) THEN dp[<<i - 1, j - 1>>] + 1
            ELSE dp[<<i, j - 1>>]
  IN  dp

(* dp[i][j]: the length for the first i old and the first j new blocks. *)
LcsTable(old, new) ==
  LET dp[p \in (0 .. Len(old)) \X (0 .. Len(new))] ==
        LET i == p[1]
            j == p[2]
            up == dp[<<i - 1, j>>]
            left == dp[<<i, j - 1>>]
        IN  IF i = 0 \/ j = 0 THEN 0
            ELSE IF Same(old[i], new[j]) THEN dp[<<i - 1, j - 1>>] + 1
            ELSE IF up > left THEN up ELSE left
  IN  dp

(* The pairs <<old, new>> the way back through the table meets. *)
Matches(old, new) ==
  LET dp == LcsTable(old, new)
      back[p \in DOMAIN dp] ==
        LET i == p[1]  j == p[2]
        IN  IF i = 0 \/ j = 0 THEN {}
            ELSE IF Same(old[i], new[j]) THEN {p} \cup back[<<i - 1, j - 1>>]
            ELSE IF dp[<<i - 1, j>>] > dp[<<i, j - 1>>] THEN back[<<i - 1, j>>]
            ELSE back[<<i, j - 1>>]
  IN  back[<<Len(old), Len(new)>>]

(* More than 30% of the words of the shorter text occur in the longer one. *)
Similar(a, b) ==
  LET shorter == IF Len(a) < Len(b) THEN a ELSE b
      longer == IF Len(a) < Len(b) THEN b ELSE a
      found == {k \in DOMAIN shorter : shorter[k] \in ToSet(longer)}
  IN  shorter # <<>> /\ 10 * Cardinality(found) > 3 * Len(shorter)

(* The class of the k-th new block. *)
DiffClass(old, new, k) ==
  LET matched == {p \in Matches(old, new) : p[2] = k}
      Modified(o) == o.tag = new[k].tag /\ o.text # new[k].text /\ Similar(o.text, new[k].text)
  IN  IF matched # {} THEN IF \A p \in matched : old[p[1]].html = new[k].html THEN "same" ELSE "modified"
      ELSE IF \E i \in DOMAIN old : Modified(old[i]) THEN "modified" ELSE "added"

Deleted(old, new) == DOMAIN old \ {p[1] : p \in Matches(old, new)}

(* The children of the container, [ghost, index], after the ghosts of the  *)
(* deleted blocks up to k have been put in: before the child with the      *)
(* number of the next matched block, or at the end.                        *)
Children(old, new) ==
  LET matches == Matches(old, new)
      after(k) == {p \in matches : p[1] > k}
      first(k) == CHOOSE p \in after(k) : \A q \in after(k) : p[1] <= q[1]
      children[k \in 0 .. Len(old)] ==
        IF k = 0 THEN [i \in DOMAIN new |-> [ghost |-> FALSE, index |-> i]]
        ELSE IF k \notin Deleted(old, new) THEN children[k - 1]
        ELSE InsertAt(children[k - 1],
                      IF after(k) = {} THEN Len(children[k - 1]) + 1 ELSE first(k)[2],
                      [ghost |-> TRUE, index |-> k])
  IN  children[Len(old)]
=============================================================================
