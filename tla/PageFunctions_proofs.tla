------------------------ MODULE PageFunctions_proofs ------------------------
(***************************************************************************)
(* Proofs about the functions of the pages, for any screens, rows of       *)
(* cells, documents, texts, paths and diffs: the links of the terminal,    *)
(* the diff of the blocks of a Markdown file, the ways of a text to its    *)
(* page and back, and the table of a diff.                                 *)
(*                                                                         *)
(* Some of them are recursive: they are functions on 0 .. n, or on a table *)
(* of cells, whose values are found from earlier ones, and what is true of *)
(* them is shown by induction over the numbers that satisfy it.            *)
(***************************************************************************)
EXTENDS PageFunctions, FiniteSetTheorems, FunctionTheorems, SequenceTheorems, WellFoundedInduction, TLAPS

-----------------------------------------------------------------------------
(* Numbers, functions by recursion, and sequences.                         *)

Below == {ss \in Nat \X Nat : ss[1] < ss[2]}

LEMMA BelowIsWellFounded == IsWellFoundedOn(Below, Nat)
<1>1. Below = OpToRel(<, Nat)
  BY DEF Below, OpToRel
<1> QED BY <1>1, NatLessThanWellFounded

(* A set of numbers has a least one.                                       *)
LEMMA LeastNumber ==
  ASSUME NEW S, S \subseteq Nat, S # {}
  PROVE  \E x \in S : \A y \in S : x =< y
<1>1. PICK x \in S : \A y \in S : <<y, x>> \notin Below
  BY BelowIsWellFounded, WFMin
<1>2. ASSUME NEW y \in S PROVE x =< y
  <2>1. x \in Nat /\ y \in Nat
    OBVIOUS
  <2>2. ~(y < x)
    BY <1>1, <2>1 DEF Below
  <2> QED BY <2>1, <2>2
<1> QED BY <1>2

(* Induction, for a set of numbers.                                        *)
LEMMA NumbersFrom ==
  ASSUME NEW a \in Nat, NEW S, a \in S, \A k \in Nat : a =< k /\ k \in S => k + 1 \in S
  PROVE  \A k \in Nat : a =< k => k \in S
<1> DEFINE Missing == {k \in Nat : a =< k /\ k \notin S}
<1> SUFFICES ASSUME Missing # {} PROVE FALSE
  OBVIOUS
<1>1. PICK k \in Missing : \A y \in Missing : k =< y
  <2> HIDE DEF Missing
  <2>1. Missing \subseteq Nat
    BY DEF Missing
  <2> QED BY <2>1, LeastNumber
<1>2. k \in Nat /\ a =< k /\ k \notin S /\ k # a
  BY <1>1
<1>3. k - 1 \in Nat /\ a =< k - 1 /\ k - 1 + 1 = k /\ k - 1 < k
  BY <1>2
<1>4. k - 1 \notin Missing
  <2>1. ~(k =< k - 1)
    BY <1>2
  <2> QED BY <1>1, <2>1
<1>5. k - 1 \in S
  BY <1>3, <1>4
<1> QED BY <1>2, <1>3, <1>5

(* A function on a .. n by recursion: it exists, ...                       *)
Line(f, a, n, V, e, F) ==
  /\ f \in [a .. n -> V]
  /\ \A k \in a .. n : f[k] = IF k = a THEN e ELSE F[k][f[k - 1]]

LEMMA LineExists ==
  ASSUME NEW a \in Nat, NEW n \in Nat, a =< n, NEW V, NEW e \in V,
         NEW F \in [(a + 1) .. n -> [V -> V]]
  PROVE  \E f : Line(f, a, n, V, e, F)
<1> DEFINE Good(f, m) ==
             /\ f \in [a .. n -> V] /\ f[a] = e
             /\ \A k \in (a + 1) .. n : k =< m => f[k] = F[k][f[k - 1]]
           S == {m \in Nat : \E f : Good(f, m)}
<1>1. a \in S
  <2>1. Good([k \in a .. n |-> e], a)
    OBVIOUS
  <2> QED BY <2>1
<1>2. ASSUME NEW m \in Nat, a =< m, m \in S PROVE m + 1 \in S
  <2>1. PICK f : Good(f, m)
    BY <1>2
  <2>2. CASE m + 1 \in (a + 1) .. n
    <3> DEFINE g == [f EXCEPT ![m + 1] = F[m + 1][f[m]]]
    <3>1. f[m] \in V
      BY <1>2, <2>1, <2>2
    <3>2. F[m + 1] \in [V -> V]
      BY <2>2
    <3>3. g \in [a .. n -> V] /\ g[m + 1] = F[m + 1][f[m]] /\ \A k \in a .. n : k # m + 1 => g[k] = f[k]
      BY <1>2, <2>1, <2>2, <3>1, <3>2
    <3> HIDE DEF g
    <3>4. ASSUME NEW k \in (a + 1) .. n, k =< m + 1 PROVE g[k] = F[k][g[k - 1]]
      <4>1. k - 1 \in a .. n /\ k - 1 # m + 1 /\ k \in a .. n
        BY <1>2, <3>4
      <4>2. CASE k = m + 1
        <5>1. k - 1 = m
          BY <4>2
        <5> QED BY <3>3, <4>1, <4>2, <5>1
      <4>3. CASE k # m + 1
        <5>1. k =< m
          BY <3>4, <4>3
        <5> QED BY <2>1, <3>3, <4>1, <4>3, <5>1
      <4> QED BY <4>2, <4>3
    <3>5. g[a] = e
      BY <1>2, <2>1, <3>3
    <3>6. Good(g, m + 1)
      BY <3>3, <3>4, <3>5
    <3> QED BY <3>6
  <2>3. CASE m + 1 \notin (a + 1) .. n
    <3>1. Good(f, m + 1)
      BY <1>2, <2>1, <2>3
    <3> QED BY <3>1
  <2> QED BY <2>2, <2>3
<1>3. n \in S
  <2> HIDE DEF S
  <2> QED BY <1>1, <1>2, NumbersFrom
<1>4. PICK f : Good(f, n)
  BY <1>3
<1>5. Line(f, a, n, V, e, F)
  BY <1>4 DEF Line
<1> QED BY <1>5

(* ... and keeps what each step keeps.                                     *)
LEMMA LineKeeps ==
  ASSUME NEW a \in Nat, NEW n \in Nat, NEW V, NEW f, a =< n, f[a] \in V,
         \A k \in (a + 1) .. n : f[k - 1] \in V => f[k] \in V
  PROVE  \A k \in a .. n : f[k] \in V
<1> DEFINE S == {m \in Nat : a =< m /\ m =< n => f[m] \in V}
<1>1. a \in S
  OBVIOUS
<1>2. ASSUME NEW m \in Nat, a =< m, m \in S PROVE m + 1 \in S
  <2> SUFFICES ASSUME m + 1 =< n PROVE f[m + 1] \in V
    OBVIOUS
  <2>1. m + 1 \in (a + 1) .. n /\ m + 1 - 1 = m /\ m =< n
    BY <1>2
  <2>2. f[m] \in V
    BY <1>2, <2>1
  <2> QED BY <2>1, <2>2
<1>3. \A m \in Nat : a =< m => m \in S
  <2> HIDE DEF S
  <2> QED BY <1>1, <1>2, NumbersFrom
<1> QED BY <1>3

(* FlattenSeq makes one sequence of many: f[k] is that of the first k.     *)
Flattening(f, ss) == f[0] = <<>> /\ \A k \in 1 .. Len(ss) : f[k] = f[k - 1] \o ss[k]

LEMMA FlattenRuns ==
  ASSUME NEW T, NEW ss \in Seq(Seq(T))
  PROVE  \E f \in [0 .. Len(ss) -> Seq(T)] : Flattening(f, ss) /\ FlattenSeq(ss) = f[Len(ss)]
<1> DEFINE n == Len(ss)
           V == Seq(T)
           G(f, i) == IF i = 1 THEN ss[i] ELSE f[i - 1] \o ss[i]
           Flat(f) == f = [i \in 1 .. n |-> G(f, i)]
<1>0. n \in Nat /\ \A i \in 1 .. n : ss[i] \in V
  OBVIOUS
<1>1. CASE n = 0
  <2>1. ss = <<>> /\ FlattenSeq(ss) = <<>>
    BY <1>1 DEF FlattenSeq
  <2> DEFINE f == [k \in 0 .. n |-> <<>>]
  <2>2. f \in [0 .. n -> V] /\ f[0] = <<>> /\ f[n] = <<>> /\ 1 .. n = {}
    BY <1>1
  <2> HIDE DEF f, n, V
  <2>3. Flattening(f, ss)
    BY <2>2 DEF Flattening, n
  <2> QED BY <2>1, <2>2, <2>3 DEF n, V
<1>2. CASE n # 0
  <2> DEFINE F == [i \in 2 .. n |-> [s \in V |-> s \o ss[i]]]
             e == ss[1]
  <2>1. F \in [2 .. n -> [V -> V]] /\ e \in V /\ 1 =< n
    <3>1. \A i \in 2 .. n : \A s \in V : s \o ss[i] \in V
      BY <1>0
    <3> HIDE DEF V, n
    <3> QED BY <1>0, <1>2, <3>1
  <2>2. PICK f : Line(f, 1, n, V, e, F)
    <3> HIDE DEF F, V, n, e
    <3>1. 1 + 1 = 2 /\ 1 \in Nat
      OBVIOUS
    <3>2. F \in [(1 + 1) .. n -> [V -> V]]
      BY <2>1, <3>1
    <3>3. n \in Nat /\ 1 =< n /\ e \in V
      BY <1>0, <2>1
    <3> QED BY <3>1, <3>2, <3>3, LineExists
  <2>3. Flat(f)
    <3>1. ASSUME NEW k \in 1 .. n PROVE f[k] = G(f, k)
      <4>0. f \in [1 .. n -> V] /\ \A i \in 1 .. n : f[i] = IF i = 1 THEN e ELSE F[i][f[i - 1]]
        BY <2>2 DEF Line
      <4>1. CASE k = 1
        BY <4>0, <4>1
      <4>2. CASE k # 1
        <5>1. k \in 2 .. n /\ k - 1 \in 1 .. n
          BY <1>0, <4>2
        <5>2. f[k - 1] \in V
          BY <4>0, <5>1
        <5>3. F[k][f[k - 1]] = f[k - 1] \o ss[k]
          <6> HIDE DEF V, n
          <6> QED BY <5>1, <5>2
        <5> QED BY <4>0, <4>2, <5>3
      <4> QED BY <4>1, <4>2
    <3> HIDE DEF V, n, G
    <3> QED BY <2>2, <3>1 DEF Line
  <2> DEFINE h == CHOOSE f_ : Flat(f_)
  <2>4. Flat(h)
    <3> HIDE DEF Flat
    <3> QED BY <2>3
  <2>5. FlattenSeq(ss) = h[n]
    BY <1>2 DEF FlattenSeq
  <2>6. \A k \in 1 .. n : h[k] = G(h, k)
    <3> HIDE DEF h, n, G
    <3> QED BY <2>4
  <2> HIDE DEF h
  <2>7. h[1] \in V
    BY <1>0, <2>1, <2>6
  <2>8. ASSUME NEW k \in (1 + 1) .. n, h[k - 1] \in V PROVE h[k] \in V
    <3>1. k \in 1 .. n /\ k # 1
      <4> HIDE DEF n, V
      <4> QED BY <1>0, <2>8
    <3>2. h[k] = h[k - 1] \o ss[k] /\ ss[k] \in V
      <4> HIDE DEF n, V
      <4> QED BY <1>0, <2>6, <3>1
    <3> QED BY <2>8, <3>2
  <2>9. \A k \in 1 .. n : h[k] \in V
    <3> HIDE DEF V, n
    <3> QED BY <1>0, <2>1, <2>7, <2>8, LineKeeps
  <2> DEFINE w == [k \in 0 .. n |-> IF k = 0 THEN <<>> ELSE h[k]]
  <2>10. w[0] = <<>> /\ \A k \in 1 .. n : w[k] = h[k] /\ w \in [0 .. n -> V]
    <3>1. \A k \in 0 .. n : k # 0 => k \in 1 .. n
      BY <1>0
    <3>2. <<>> \in V
      OBVIOUS
    <3> HIDE DEF V, n
    <3> QED BY <1>0, <2>1, <2>9, <3>1, <3>2
  <2>11. ASSUME NEW k \in 1 .. n PROVE w[k] = w[k - 1] \o ss[k]
    <3>1. CASE k = 1
      <4>1. ss[1] \in Seq(T) /\ h[1] = ss[1] /\ w[1] = h[1] /\ k - 1 = 0
        <5> HIDE DEF w
        <5> QED BY <1>0, <2>1, <2>6, <2>10, <3>1
      <4>2. <<>> \o ss[1] = ss[1]
        BY <4>1
      <4> HIDE DEF w
      <4> QED BY <2>10, <3>1, <4>1, <4>2
    <3>2. CASE k # 1
      <4>1. k - 1 \in 1 .. n
        BY <1>0, <3>2
      <4> HIDE DEF w, n, V
      <4> QED BY <2>6, <2>10, <3>2, <4>1
    <3> QED BY <3>1, <3>2
  <2> HIDE DEF w
  <2>12. Flattening(w, ss)
    BY <2>10, <2>11 DEF Flattening
  <2>13. w \in [0 .. n -> V] /\ w[n] = h[n]
    <3> HIDE DEF n, V
    <3> QED BY <1>0, <2>1, <2>10
  <2> QED BY <2>5, <2>12, <2>13
<1> QED BY <1>1, <1>2

LEMMA FlattenIs ==
  ASSUME NEW T, NEW ss \in Seq(Seq(T)), NEW f, Flattening(f, ss)
  PROVE  FlattenSeq(ss) = f[Len(ss)]
<1> DEFINE n == Len(ss)
<1>1. PICK g \in [0 .. n -> Seq(T)] : Flattening(g, ss) /\ FlattenSeq(ss) = g[n]
  BY FlattenRuns
<1> DEFINE S == {k \in Nat : k =< n => f[k] = g[k]}
<1>2. n \in Nat
  OBVIOUS
<1>3. 0 \in S
  BY <1>1, <1>2 DEF Flattening
<1>4. ASSUME NEW k \in Nat, 0 =< k, k \in S PROVE k + 1 \in S
  <2> SUFFICES ASSUME k + 1 =< n PROVE f[k + 1] = g[k + 1]
    OBVIOUS
  <2>1. k + 1 \in 1 .. n /\ (k + 1) - 1 = k
    BY <1>2
  <2>2. f[k] = g[k]
    BY <1>2, <1>4
  <2>3. f[k + 1] = f[k] \o ss[k + 1] /\ g[k + 1] = g[k] \o ss[k + 1]
    <3> HIDE DEF S
    <3>1. \A j \in 1 .. n : f[j] = f[j - 1] \o ss[j] /\ g[j] = g[j - 1] \o ss[j]
      BY <1>1 DEF Flattening
    <3> HIDE DEF n
    <3> QED BY <2>1, <3>1
  <2> QED BY <2>2, <2>3
<1>5. n \in S
  <2> HIDE DEF S, n
  <2>1. \A k \in Nat : 0 =< k => k \in S
    BY <1>3, <1>4, NumbersFrom
  <2> QED BY <1>2, <2>1
<1> QED BY <1>1, <1>2, <1>5

LEMMA FlattenType ==
  ASSUME NEW T, NEW ss \in Seq(Seq(T))
  PROVE  FlattenSeq(ss) \in Seq(T)
<1>1. PICK f \in [0 .. Len(ss) -> Seq(T)] : FlattenSeq(ss) = f[Len(ss)]
  BY FlattenRuns
<1> QED BY <1>1

LEMMA FlattenConcat ==
  ASSUME NEW T, NEW r \in Seq(Seq(T)), NEW s \in Seq(Seq(T))
  PROVE  FlattenSeq(r \o s) = FlattenSeq(r) \o FlattenSeq(s)
<1> DEFINE m == Len(r)
           n == Len(s)
<1>1. m \in Nat /\ n \in Nat
  OBVIOUS
<1>2. PICK f \in [0 .. m -> Seq(T)] : Flattening(f, r) /\ FlattenSeq(r) = f[m]
  BY FlattenRuns
<1>3. PICK g \in [0 .. n -> Seq(T)] : Flattening(g, s) /\ FlattenSeq(s) = g[n]
  BY FlattenRuns
<1>4. /\ r \o s \in Seq(Seq(T)) /\ Len(r \o s) = m + n
      /\ \A i \in 1 .. m + n : (r \o s)[i] = IF i <= m THEN r[i] ELSE s[i - m]
  BY ConcatProperties
<1>5. /\ f[0] = <<>> /\ \A k \in 1 .. m : f[k] = f[k - 1] \o r[k]
      /\ g[0] = <<>> /\ \A k \in 1 .. n : g[k] = g[k - 1] \o s[k]
  BY <1>2, <1>3 DEF Flattening
<1>6. /\ \A k \in 1 .. n : s[k] \in Seq(T)
      /\ \A k \in 0 .. n : g[k] \in Seq(T)
      /\ f[m] \in Seq(T)
  <2>1. \A k \in 1 .. n : s[k] \in Seq(T)
    OBVIOUS
  <2> HIDE DEF m, n
  <2> QED BY <1>1, <2>1
<1> DEFINE h == [k \in 0 .. m + n |-> IF k =< m THEN f[k] ELSE f[m] \o g[k - m]]
<1>7. \A k \in 0 .. m + n : h[k] = IF k =< m THEN f[k] ELSE f[m] \o g[k - m]
  OBVIOUS
<1> HIDE DEF h, m, n
<1>8. h[0] = <<>>
  BY <1>1, <1>5, <1>7
<1>9. ASSUME NEW k \in 1 .. m + n PROVE h[k] = h[k - 1] \o (r \o s)[k]
  <2>1. k \in 0 .. m + n /\ k - 1 \in 0 .. m + n
    BY <1>1
  <2>2. CASE k =< m
    <3>1. k \in 1 .. m /\ k - 1 =< m
      BY <1>1, <2>2
    <3> QED BY <1>4, <1>5, <1>7, <2>1, <2>2, <3>1
  <2>3. CASE k = m + 1
    <3>1. 1 \in 1 .. n /\ ~(k =< m) /\ k - m = 1 /\ k - 1 = m /\ m =< m /\ 1 - 1 = 0
      BY <1>1, <2>3
    <3>2. g[1] = <<>> \o s[1]
      BY <1>5, <3>1
    <3>3. g[1] = s[1]
      BY <1>6, <3>1, <3>2
    <3>4. (r \o s)[k] = s[1]
      <4>1. (r \o s)[k] = s[k - m]
        BY <1>4, <3>1
      <4> QED BY <3>1, <4>1
    <3>5. h[k] = f[m] \o g[1] /\ h[k - 1] = f[m]
      BY <1>7, <2>1, <3>1
    <3> QED BY <3>3, <3>4, <3>5
  <2>4. CASE ~(k =< m + 1)
    <3>1. /\ k - m \in 1 .. n /\ k - m \in 0 .. n /\ (k - m) - 1 \in 0 .. n
          /\ ~(k =< m) /\ ~(k - 1 =< m) /\ (k - 1) - m = (k - m) - 1
      BY <1>1, <2>4
    <3>2. h[k] = f[m] \o g[k - m] /\ h[k - 1] = f[m] \o g[(k - m) - 1]
      BY <1>7, <2>1, <3>1
    <3>3. g[k - m] = g[(k - m) - 1] \o s[k - m] /\ (r \o s)[k] = s[k - m]
      BY <1>4, <1>5, <3>1
    <3>4. f[m] \in Seq(T) /\ g[(k - m) - 1] \in Seq(T) /\ s[k - m] \in Seq(T)
      BY <1>6, <3>1
    <3>5. f[m] \o (g[(k - m) - 1] \o s[k - m]) = (f[m] \o g[(k - m) - 1]) \o s[k - m]
      <4> DEFINE a == f[m]
                 b == g[(k - m) - 1]
                 c == s[k - m]
      <4>1. a \in Seq(T) /\ b \in Seq(T) /\ c \in Seq(T)
        BY <3>4
      <4> HIDE DEF a, b, c
      <4>2. (a \o b) \o c = a \o (b \o c)
        BY <4>1, ConcatAssociative
      <4> QED BY <4>2 DEF a, b, c
    <3>6. h[k] = (f[m] \o g[(k - m) - 1]) \o s[k - m]
      BY <3>2, <3>3, <3>5
    <3> QED BY <3>2, <3>3, <3>6
  <2>5. k =< m \/ k = m + 1 \/ ~(k =< m + 1)
    BY <1>1
  <2> QED BY <2>2, <2>3, <2>4, <2>5
<1>10. Flattening(h, r \o s)
  BY <1>4, <1>8, <1>9 DEF Flattening
<1>11. FlattenSeq(r \o s) = h[m + n]
  BY <1>4, <1>10, FlattenIs
<1>12. h[m + n] = f[m] \o g[n]
  <2>1. CASE n = 0
    <3>1. f[m] \o <<>> = f[m]
      BY <1>6
    <3> QED BY <1>1, <1>5, <1>7, <2>1, <3>1
  <2>2. CASE n # 0
    <3>1. ~(m + n =< m) /\ (m + n) - m = n /\ m + n \in 0 .. m + n
      BY <1>1, <2>2
    <3> QED BY <1>7, <3>1
  <2> QED BY <2>1, <2>2
<1> QED BY <1>2, <1>3, <1>11, <1>12

LEMMA FlattenOne ==
  ASSUME NEW T, NEW s \in Seq(T)
  PROVE  FlattenSeq(<<s>>) = s
<1> DEFINE f == [k \in 0 .. 1 |-> IF k = 0 THEN <<>> ELSE s]
           r == <<s>>
<1>1. r \in Seq(Seq(T)) /\ Len(r) = 1 /\ r[1] = s
  OBVIOUS
<1>2. f[0] = <<>> /\ f[1] = s /\ <<>> \o s = s
  OBVIOUS
<1> HIDE DEF f, r
<1>3. Flattening(f, r)
  <2>1. \A k \in 1 .. 1 : k = 1 /\ k - 1 = 0
    OBVIOUS
  <2> QED BY <1>1, <1>2, <2>1 DEF Flattening
<1>4. FlattenSeq(r) = f[1]
  BY <1>1, <1>3, FlattenIs
<1> QED BY <1>2, <1>4 DEF r

LEMMA FlattenNone == FlattenSeq(<<>>) = <<>>
BY DEF FlattenSeq

(* Induction on sequences, from their ends to their beginnings.            *)
LEMMA FromTheEnd ==
  ASSUME NEW T, NEW S, <<>> \in S,
         \A x \in T : \A t \in Seq(T) : t \in S => Cons(x, t) \in S
  PROVE  \A s \in Seq(T) : s \in S
<1> DEFINE N == {n \in Nat : \A s \in Seq(T) : Len(s) = n => s \in S}
<1>1. 0 \in N
  <2> SUFFICES ASSUME NEW s \in Seq(T), Len(s) = 0 PROVE s \in S
    OBVIOUS
  <2>1. s = <<>>
    OBVIOUS
  <2> QED BY <2>1
<1>2. ASSUME NEW n \in Nat, 0 =< n, n \in N PROVE n + 1 \in N
  <2> SUFFICES ASSUME NEW s \in Seq(T), Len(s) = n + 1 PROVE s \in S
    OBVIOUS
  <2>1. s # <<>> /\ Head(s) = s[1] /\ s[1] \in T
    OBVIOUS
  <2>2. Tail(s) \in Seq(T) /\ Len(Tail(s)) = n /\ \A i \in 1 .. n : Tail(s)[i] = s[i + 1]
    BY <2>1, HeadTailProperties
  <2>3. Tail(s) \in S
    BY <1>2, <2>2
  <2>4. s = Cons(s[1], Tail(s))
    <3> DEFINE t == Tail(s)
               a == <<s[1]>>
               c == a \o t
    <3>1. a \in Seq(T) /\ Len(a) = 1 /\ a[1] = s[1]
      BY <2>1
    <3> HIDE DEF a, t
    <3>2. /\ c \in Seq(T) /\ Len(c) = n + 1
          /\ \A i \in 1 .. n + 1 : c[i] = IF i <= 1 THEN a[i] ELSE t[i - 1]
      <4>1. t \in Seq(T) /\ Len(t) = n /\ 1 + n = n + 1
        BY <2>2 DEF t
      <4>2. /\ a \o t \in Seq(T) /\ Len(a \o t) = Len(a) + Len(t)
            /\ \A i \in 1 .. Len(a) + Len(t) : (a \o t)[i] = IF i <= Len(a) THEN a[i] ELSE t[i - Len(a)]
        BY <3>1, <4>1, ConcatProperties
      <4> QED BY <3>1, <4>1, <4>2
    <3> HIDE DEF c
    <3>3. \A i \in 1 .. n + 1 : c[i] = s[i]
      <4> SUFFICES ASSUME NEW i \in 1 .. n + 1 PROVE c[i] = s[i]
        OBVIOUS
      <4>1. CASE i = 1
        BY <3>1, <3>2, <4>1
      <4>2. CASE i # 1
        <5>1. i - 1 \in 1 .. n /\ (i - 1) + 1 = i /\ ~(i <= 1)
          BY <4>2
        <5> QED BY <2>2, <3>2, <5>1 DEF t
      <4> QED BY <4>1, <4>2
    <3>4. c = s
      BY <3>2, <3>3, SeqEqual
    <3> QED BY <3>4 DEF c, a, t, Cons
  <2> QED BY <2>1, <2>2, <2>3, <2>4
<1> HIDE DEF N
<1>3. \A n \in Nat : 0 =< n => n \in N
  BY <1>1, <1>2, NumbersFrom
<1> QED BY <1>3 DEF N

(* Some sequences, character by character.                                 *)
LEMMA OneBefore ==
  ASSUME NEW T, NEW x \in T, NEW t \in Seq(T)
  PROVE  /\ Cons(x, t) \in Seq(T) /\ Len(Cons(x, t)) = Len(t) + 1
         /\ Cons(x, t)[1] = x
         /\ \A i \in 1 .. Len(t) : Cons(x, t)[i + 1] = t[i]
<1> DEFINE a == <<x>>
<1>1. a \in Seq(T) /\ Len(a) = 1 /\ a[1] = x
  OBVIOUS
<1> HIDE DEF a
<1>2. /\ a \o t \in Seq(T) /\ Len(a \o t) = 1 + Len(t)
      /\ \A i \in 1 .. 1 + Len(t) : (a \o t)[i] = IF i <= 1 THEN a[i] ELSE t[i - 1]
  <2>1. /\ a \o t \in Seq(T) /\ Len(a \o t) = Len(a) + Len(t)
        /\ \A i \in 1 .. Len(a) + Len(t) : (a \o t)[i] = IF i <= Len(a) THEN a[i] ELSE t[i - Len(a)]
    BY <1>1, ConcatProperties
  <2> QED BY <1>1, <2>1
<1>3. Len(t) \in Nat
  OBVIOUS
<1>4. (a \o t)[1] = x /\ \A i \in 1 .. Len(t) : (a \o t)[i + 1] = t[i]
  <2>1. 1 \in 1 .. 1 + Len(t)
    BY <1>3
  <2>2. ASSUME NEW i \in 1 .. Len(t) PROVE (a \o t)[i + 1] = t[i]
    <3>1. i + 1 \in 1 .. 1 + Len(t) /\ ~(i + 1 <= 1) /\ (i + 1) - 1 = i
      BY <1>3
    <3> QED BY <1>2, <3>1
  <2> QED BY <1>1, <1>2, <2>1, <2>2
<1> QED BY <1>1, <1>2, <1>3, <1>4 DEF a, Cons

LEMMA OneIsCons ==
  ASSUME NEW T, NEW x \in T
  PROVE  <<x>> \in Seq(T) /\ <<x>> = Cons(x, <<>>)
BY DEF Cons

LEMMA TwoIsCons ==
  ASSUME NEW T, NEW x \in T, NEW y \in T
  PROVE  <<x, y>> \in Seq(T) /\ <<x, y>> = Cons(x, <<y>>)
<1> DEFINE b == <<y>>
           c == Cons(x, b)
           d == <<x, y>>
<1>1. b \in Seq(T) /\ Len(b) = 1 /\ b[1] = y /\ d \in Seq(T) /\ Len(d) = 2 /\ d[1] = x /\ d[2] = y
  OBVIOUS
<1> HIDE DEF b, d
<1>2. c \in Seq(T) /\ Len(c) = Len(b) + 1 /\ c[1] = x
  <2>1. x \in T /\ b \in Seq(T)
    BY <1>1
  <2> QED BY <2>1, OneBefore
<1>3. c[1 + 1] = b[1] /\ Len(c) = 2
  <2>1. x \in T /\ b \in Seq(T)
    BY <1>1
  <2>2. \A i \in 1 .. Len(b) : c[i + 1] = b[i]
    BY <2>1, OneBefore
  <2> HIDE DEF c
  <2> QED BY <1>1, <1>2, <2>2
<1> HIDE DEF c
<1>4. \A i \in 1 .. 2 : c[i] = d[i]
  BY <1>1, <1>2, <1>3
<1>5. c = d
  BY <1>1, <1>2, <1>3, <1>4, SeqEqual
<1> QED BY <1>1, <1>5 DEF b, c, d

LEMMA ConsIsConcat ==
  ASSUME NEW T, NEW a \in T, NEW b \in T, NEW t \in Seq(T)
  PROVE  <<a, b>> \o t = Cons(a, Cons(b, t))
<1> DEFINE q == <<b>>
<1>1. q \in Seq(T) /\ q \o t = Cons(b, t)
  BY DEF Cons
<1>2. <<a>> \in Seq(T) /\ <<a, b>> = <<a>> \o q
  <2>1. <<a, b>> = Cons(a, <<b>>)
    BY TwoIsCons
  <2> QED BY <2>1 DEF Cons
<1> DEFINE p == <<a>>
<1>3. p \in Seq(T) /\ <<a, b>> = p \o q
  BY <1>2
<1> HIDE DEF p, q
<1>4. (p \o q) \o t = p \o (q \o t)
  <2>1. p \in Seq(T) /\ q \in Seq(T)
    BY <1>1, <1>3
  <2> QED BY <2>1, ConcatAssociative
<1>5. <<a, b>> \o t = p \o Cons(b, t)
  BY <1>1, <1>3, <1>4
<1> QED BY <1>5 DEF p, Cons

(* Concatenation by another name, so that a prover takes it as it is.      *)
Join(s, t) == s \o t

LEMMA JoinType ==
  ASSUME NEW T, NEW s \in Seq(T), NEW t \in Seq(T)
  PROVE  Join(s, t) \in Seq(T)
BY DEF Join

LEMMA JoinNone ==
  ASSUME NEW T, NEW s \in Seq(T)
  PROVE  Join(s, <<>>) = s /\ Join(<<>>, s) = s
BY ConcatEmptySeq DEF Join

LEMMA JoinJoin ==
  ASSUME NEW T, NEW p \in Seq(T), NEW q \in Seq(T), NEW r \in Seq(T)
  PROVE  Join(Join(p, q), r) = Join(p, Join(q, r))
BY ConcatAssociative DEF Join

LEMMA ConsJoin ==
  ASSUME NEW T, NEW a \in T, NEW s \in Seq(T), NEW t \in Seq(T)
  PROVE  Join(Cons(a, s), t) = Cons(a, Join(s, t))
<1> DEFINE p == <<a>>
<1>1. p \in Seq(T)
  OBVIOUS
<1> HIDE DEF p
<1>2. (p \o s) \o t = p \o (s \o t)
  BY <1>1, ConcatAssociative
<1> QED BY <1>2 DEF p, Cons, Join

-----------------------------------------------------------------------------
(* Texts.                                                                  *)

(* A character that is replaced by two.                                    *)
Two(by, a, b) == by = <<a, b>>

LEMMA SubstitutedCons ==
  ASSUME NEW T, NEW a \in T, NEW b \in T, NEW c, NEW by, Two(by, a, b), NEW x \in T, NEW t \in Seq(T)
  PROVE  /\ Substituted(t, c, by) \in Seq(T)
         /\ Substituted(Cons(x, t), c, by)
              = IF x = c THEN Cons(a, Cons(b, Substituted(t, c, by))) ELSE Cons(x, Substituted(t, c, by))
<1> DEFINE Part(y) == IF y = c THEN by ELSE <<y>>
           r == [i \in DOMAIN t |-> Part(t[i])]
           u == Cons(x, t)
           q == [i \in DOMAIN u |-> Part(u[i])]
<1>1. \A y \in T : Part(y) \in Seq(T)
  BY DEF Two
<1>2. u \in Seq(T) /\ Len(u) = Len(t) + 1 /\ u[1] = x /\ \A i \in 1 .. Len(t) : u[i + 1] = t[i]
  BY OneBefore
<1>3. Substituted(t, c, by) = FlattenSeq(r) /\ Substituted(u, c, by) = FlattenSeq(q)
  BY DEF Substituted
<1>4. \A i \in 1 .. Len(t) : t[i] \in T
  OBVIOUS
<1>5. DOMAIN t = 1 .. Len(t) /\ Len(t) \in Nat /\ DOMAIN u = 1 .. Len(t) + 1
  BY <1>2
<1>6. x \in T
  OBVIOUS
<1> HIDE DEF u, Part
<1>7. r \in Seq(Seq(T)) /\ Len(r) = Len(t) /\ \A i \in 1 .. Len(t) : r[i] = Part(t[i])
  BY <1>1, <1>4, <1>5
<1>8. q \in Seq(Seq(T)) /\ Len(q) = Len(t) + 1 /\ \A i \in 1 .. Len(t) + 1 : q[i] = Part(u[i])
  <2>1. \A i \in 1 .. Len(t) + 1 : u[i] \in T
    BY <1>2, <1>5
  <2> QED BY <1>1, <1>5, <2>1
<1> HIDE DEF q, r
<1>9. FlattenSeq(r) \in Seq(T)
  BY <1>7, FlattenType
<1>10. q = Cons(Part(x), r)
  <2> DEFINE d == Cons(Part(x), r)
  <2>1. Part(x) \in Seq(T) /\ r \in Seq(Seq(T))
    BY <1>1, <1>6, <1>7
  <2>2. d \in Seq(Seq(T)) /\ Len(d) = Len(r) + 1 /\ d[1] = Part(x)
    BY <2>1, OneBefore
  <2>3. \A i \in 1 .. Len(r) : d[i + 1] = r[i]
    BY <2>1, OneBefore
  <2> HIDE DEF d
  <2>4. ASSUME NEW i \in 1 .. Len(q) PROVE q[i] = d[i]
    <3>1. CASE i = 1
      <4>1. q[1] = Part(u[1])
        BY <1>5, <1>8
      <4> QED BY <1>2, <2>2, <3>1, <4>1
    <3>2. CASE i # 1
      <4>1. i - 1 \in 1 .. Len(t) /\ (i - 1) + 1 = i
        BY <1>5, <1>8, <3>2
      <4>2. q[i] = Part(u[(i - 1) + 1]) /\ d[(i - 1) + 1] = r[i - 1]
        BY <1>7, <1>8, <2>3, <4>1
      <4>3. u[(i - 1) + 1] = t[i - 1] /\ r[i - 1] = Part(t[i - 1])
        BY <1>2, <1>7, <4>1
      <4> QED BY <4>1, <4>2, <4>3
    <3> QED BY <3>1, <3>2
  <2>5. Len(q) = Len(d)
    BY <1>7, <1>8, <2>2
  <2>6. q = d
    BY <1>8, <2>2, <2>4, <2>5, SeqEqual
  <2> QED BY <2>6 DEF d
<1>11. FlattenSeq(q) = Part(x) \o FlattenSeq(r)
  <2> DEFINE p == Part(x)
             s == <<p>>
  <2>1. p \in Seq(T)
    BY <1>1, <1>6
  <2>2. s \in Seq(Seq(T)) /\ FlattenSeq(s) = p
    <3> HIDE DEF p
    <3> QED BY <2>1, FlattenOne
  <2>3. q = s \o r
    BY <1>10 DEF Cons
  <2> HIDE DEF s, p
  <2>4. FlattenSeq(s \o r) = FlattenSeq(s) \o FlattenSeq(r)
    BY <1>7, <2>2, FlattenConcat
  <2> QED BY <2>2, <2>3, <2>4 DEF p
<1> DEFINE v == Substituted(t, c, by)
<1>12. v \in Seq(T) /\ Substituted(u, c, by) = Part(x) \o v
  BY <1>3, <1>9, <1>11
<1> HIDE DEF v
<1>13. CASE x = c
  <2>1. Part(x) = <<a, b>>
    BY <1>13 DEF Part, Two
  <2>2. <<a, b>> \o v = Cons(a, Cons(b, v))
    BY <1>12, ConsIsConcat
  <2> QED BY <1>12, <1>13, <2>1, <2>2 DEF v, u
<1>14. CASE x # c
  <2>1. Part(x) \o v = Cons(x, v)
    BY <1>14 DEF Part, Cons
  <2> QED BY <1>12, <1>14, <2>1 DEF v, u
<1> QED BY <1>13, <1>14

LEMMA SubstitutedNone == ASSUME NEW c, NEW by PROVE Substituted(<<>>, c, by) = <<>>
<1>1. DOMAIN <<>> = {}
  OBVIOUS
<1>2. [i \in DOMAIN <<>> |-> IF <<>>[i] = c THEN by ELSE <<(<<>>)[i]>>] = <<>>
  BY <1>1
<1> QED BY <1>2, FlattenNone DEF Substituted

(* A function on 1 .. n + 3 by recursion from its end, where a value is    *)
(* found from the next three.                                              *)
ReadBack(f, n, e, F) ==
  \A i \in 1 .. n + 3 : f[i] = IF i > n THEN e ELSE F[i][f[i + 1]][f[i + 2]][f[i + 3]]

LEMMA ReadBackExists ==
  ASSUME NEW n \in Nat, NEW V, NEW e \in V, NEW F \in [1 .. n -> [V -> [V -> [V -> V]]]]
  PROVE  \E f \in [1 .. n + 3 -> V] : ReadBack(f, n, e, F)
<1> DEFINE D == 1 .. n + 3
           G(f, i) == IF i > n THEN e ELSE F[i][f[i + 1]][f[i + 2]][f[i + 3]]
           Good(f, j) == f \in [D -> V] /\ \A i \in D : i > n - j => f[i] = G(f, i)
           S == {j \in Nat : \E f : Good(f, j)}
<1>1. 0 \in S
  <2> DEFINE f == [i \in D |-> e]
  <2>1. f \in [D -> V]
    OBVIOUS
  <2>2. ASSUME NEW i \in D, i > n - 0 PROVE f[i] = G(f, i)
    BY <2>2
  <2> HIDE DEF f
  <2>3. Good(f, 0)
    BY <2>1, <2>2
  <2> QED BY <2>3
<1>2. ASSUME NEW j \in Nat, 0 =< j, j \in S PROVE j + 1 \in S
  <2>1. PICK f : Good(f, j)
    BY <1>2
  <2>2. CASE j < n
    <3> DEFINE k == n - j
               g == [f EXCEPT ![k] = G(f, k)]
    <3>1. /\ k \in 1 .. n /\ k \in D /\ ~(k > n) /\ k + 1 \in D /\ k + 2 \in D /\ k + 3 \in D
          /\ k - 1 = n - (j + 1)
      BY <2>2
    <3>2. G(f, k) \in V
      <4>1. f[k + 1] \in V /\ f[k + 2] \in V /\ f[k + 3] \in V /\ F[k] \in [V -> [V -> [V -> V]]]
        BY <2>1, <3>1
      <4> QED BY <3>1, <4>1
    <3> HIDE DEF G, k
    <3>3. g \in [D -> V] /\ g[k] = G(f, k) /\ \A i \in D : i # k => g[i] = f[i]
      <4> HIDE DEF D
      <4> QED BY <2>1, <3>1, <3>2
    <3> HIDE DEF g
    <3>4. ASSUME NEW i \in D, i > k - 1 PROVE g[i] = G(g, i)
      <4>1. i > n \/ (i + 1 \in D /\ i + 2 \in D /\ i + 3 \in D /\ i + 1 # k /\ i + 2 # k /\ i + 3 # k)
        BY <3>1, <3>4
      <4>2. G(g, i) = G(f, i)
        BY <3>3, <4>1 DEF G
      <4>3. CASE i = k
        BY <3>3, <4>2, <4>3
      <4>4. CASE i # k
        <5>1. i > n - j
          BY <3>1, <3>4, <4>4 DEF k
        <5>2. f[i] = G(f, i)
          BY <2>1, <5>1
        <5> QED BY <3>3, <4>2, <4>4, <5>2
      <4> QED BY <4>3, <4>4
    <3>5. Good(g, j + 1)
      BY <3>1, <3>3, <3>4
    <3> QED BY <3>5
  <2>3. CASE ~(j < n)
    <3>1. \A i \in D : i > n - j
      BY <2>3
    <3> HIDE DEF G
    <3>2. Good(f, j + 1)
      BY <2>1, <3>1
    <3> QED BY <3>2
  <2> QED BY <2>2, <2>3
<1>3. n \in S
  <2> HIDE DEF S
  <2>1. \A j \in Nat : 0 =< j => j \in S
    BY <1>1, <1>2, NumbersFrom
  <2> QED BY <2>1
<1>4. PICK f : Good(f, n)
  BY <1>3
<1>5. \A i \in D : i > n - n
  OBVIOUS
<1>6. f \in [D -> V] /\ \A i \in D : f[i] = G(f, i)
  <2> HIDE DEF D, G
  <2> QED BY <1>4, <1>5
<1> QED BY <1>6 DEF ReadBack

(* Reading HTML: text[i] is what is read from character i on.              *)
TextAt(html, text, i) ==
  IF i > Len(html) THEN <<>>
  ELSE LET next == IF i < Len(html) THEN html[i + 1] ELSE "end"
       IN  CASE html[i] = "&" /\ next = Entities.amp -> <<"&">> \o text[i + 2]
             [] html[i] = "&" /\ next = Entities.lt -> <<"<">> \o text[i + 2]
             [] html[i] = "&" /\ next = Entities.gt -> <<">">> \o text[i + 2]
             [] html[i] = "<" /\ next \in Names -> text[i + 3]
             [] OTHER -> <<html[i]>> \o text[i + 1]
Reading(html, text) == \A i \in 1 .. Len(html) + 3 : text[i] = TextAt(html, text, i)
Markup == {"&", "<", ">", "amp;", "lt;", "gt;", "span", "/span"}

LEMMA TextContentReads ==
  ASSUME NEW T, Markup \subseteq T, NEW html \in Seq(T)
  PROVE  /\ \E text \in [1 .. Len(html) + 3 -> Seq(T)] :
              Reading(html, text) /\ TextContent(html) = text[1]
         /\ \A text : Reading(html, text) => TextContent(html) = text[1]
<1> DEFINE n == Len(html)
           V == Seq(T)
           Next(i) == IF i < n THEN html[i + 1] ELSE "end"
           Step(i, a, b, c) == CASE html[i] = "&" /\ Next(i) = Entities.amp -> <<"&">> \o b
                                 [] html[i] = "&" /\ Next(i) = Entities.lt -> <<"<">> \o b
                                 [] html[i] = "&" /\ Next(i) = Entities.gt -> <<">">> \o b
                                 [] html[i] = "<" /\ Next(i) \in Names -> c
                                 [] OTHER -> <<html[i]>> \o a
           F == [i \in 1 .. n |-> [a \in V |-> [b \in V |-> [c \in V |-> Step(i, a, b, c)]]]]
           Whole(f) == f = [i \in 1 .. (n + 3) |-> TextAt(html, f, i)]
<1>0. n \in Nat /\ <<>> \in V
  OBVIOUS
<1>1. ASSUME NEW i \in 1 .. n, NEW a \in V, NEW b \in V, NEW c \in V PROVE Step(i, a, b, c) \in V
  <2>1. html[i] \in T /\ "&" \in T /\ "<" \in T /\ ">" \in T
    <3>1. html[i] \in T
      OBVIOUS
    <3>2. "&" \in T /\ "<" \in T /\ ">" \in T
      BY DEF Markup
    <3> QED BY <3>1, <3>2
  <2>2. /\ <<"&">> \o b \in V /\ <<"<">> \o b \in V /\ <<">">> \o b \in V /\ <<html[i]>> \o a \in V
    BY <2>1
  <2> HIDE DEF V, Next
  <2> QED BY <2>2
<1>2. F \in [1 .. n -> [V -> [V -> [V -> V]]]]
  <2> HIDE DEF V, n, Step
  <2> QED BY <1>1
<1>3. PICK f \in [1 .. n + 3 -> V] : ReadBack(f, n, <<>>, F)
  <2> HIDE DEF F, V, n
  <2> QED BY <1>0, <1>2, ReadBackExists
<1>4. ASSUME NEW g, \A i \in 1 .. n + 3 : g[i] \in V
      PROVE  Reading(html, g) <=> ReadBack(g, n, <<>>, F)
  <2>1. ASSUME NEW i \in 1 .. n + 3
        PROVE  TextAt(html, g, i) = IF i > n THEN <<>> ELSE F[i][g[i + 1]][g[i + 2]][g[i + 3]]
    <3>1. CASE i > n
      BY <3>1 DEF TextAt
    <3>2. CASE ~(i > n)
      <4>1. i \in 1 .. n /\ g[i + 1] \in V /\ g[i + 2] \in V /\ g[i + 3] \in V
        <5>1. i + 1 \in 1 .. n + 3 /\ i + 2 \in 1 .. n + 3 /\ i + 3 \in 1 .. n + 3 /\ i \in 1 .. n
          BY <1>0, <3>2
        <5> HIDE DEF V, n
        <5> QED BY <1>4, <5>1
      <4>2. F[i][g[i + 1]][g[i + 2]][g[i + 3]] = Step(i, g[i + 1], g[i + 2], g[i + 3])
        <5> HIDE DEF V, n, Step
        <5> QED BY <4>1
      <4>3. TextAt(html, g, i) = Step(i, g[i + 1], g[i + 2], g[i + 3])
        <5> HIDE DEF V
        <5> QED BY <3>2 DEF TextAt
      <4> HIDE DEF F, Step
      <4> QED BY <3>2, <4>2, <4>3
    <3> QED BY <3>1, <3>2
  <2> HIDE DEF F, V
  <2> QED BY <2>1 DEF Reading, ReadBack
<1>5. \A i \in 1 .. n + 3 : f[i] \in V
  <2> HIDE DEF V, n
  <2> QED BY <1>3
<1>6. Reading(html, f)
  <2> HIDE DEF F, V
  <2> QED BY <1>3, <1>4, <1>5
<1>7. Whole(f)
  <2>1. \A i \in 1 .. n + 3 : f[i] = TextAt(html, f, i)
    BY <1>6 DEF Reading
  <2> HIDE DEF V, n
  <2> QED BY <1>3, <2>1
<1> DEFINE h == CHOOSE f_ : Whole(f_)
<1>8. Whole(h)
  <2> HIDE DEF Whole
  <2> QED BY <1>7
<1>9. TextContent(html) = h[1]
  BY DEF TextContent, TextAt
<1> HIDE DEF h
<1>10. Reading(html, h)
  <2> HIDE DEF n
  <2>1. \A i \in 1 .. n + 3 : h[i] = TextAt(html, h, i)
    BY <1>8
  <2> QED BY <2>1 DEF Reading, n
<1>11. ASSUME NEW g, Reading(html, g) PROVE \A i \in 1 .. n + 3 : g[i] = f[i]
  <2> DEFINE S == {j \in Nat : \A i \in 1 .. n + 3 : i > n - j => g[i] = f[i]}
  <2>0. /\ \A i \in 1 .. n + 3 : g[i] = TextAt(html, g, i)
        /\ \A i \in 1 .. n + 3 : f[i] = TextAt(html, f, i)
    BY <1>6, <1>11 DEF Reading
  <2>1. 0 \in S
    <3> HIDE DEF n
    <3>1. ASSUME NEW i \in 1 .. n + 3, i > n - 0 PROVE g[i] = f[i]
      <4>1. i > n
        BY <1>0, <3>1
      <4>2. TextAt(html, f, i) = <<>> /\ TextAt(html, g, i) = <<>>
        BY <4>1 DEF TextAt, n
      <4> QED BY <2>0, <4>2
    <3> QED BY <3>1
  <2>2. ASSUME NEW j \in Nat, 0 =< j, j \in S PROVE j + 1 \in S
    <3> SUFFICES ASSUME NEW i \in 1 .. n + 3, i > n - (j + 1) PROVE g[i] = f[i]
      OBVIOUS
    <3> HIDE DEF n
    <3>1. CASE i > n
      BY <2>0, <3>1 DEF TextAt, n
    <3>2. CASE ~(i > n)
      <4>1. /\ i + 1 \in 1 .. n + 3 /\ i + 2 \in 1 .. n + 3 /\ i + 3 \in 1 .. n + 3
            /\ i + 1 > n - j /\ i + 2 > n - j /\ i + 3 > n - j
        BY <1>0, <3>2
      <4>2. f[i + 1] = g[i + 1] /\ f[i + 2] = g[i + 2] /\ f[i + 3] = g[i + 3]
        BY <2>2, <4>1
      <4>3. TextAt(html, f, i) = TextAt(html, g, i)
        BY <4>2 DEF TextAt
      <4> QED BY <2>0, <4>3
    <3> QED BY <3>1, <3>2
  <2>3. \A j \in Nat : 0 =< j => j \in S
    <3> HIDE DEF S
    <3> QED BY <2>1, <2>2, NumbersFrom
  <2>4. n \in S
    <3> HIDE DEF S
    <3> QED BY <1>0, <2>3
  <2>5. \A i \in 1 .. n + 3 : i > n - n
    BY <1>0
  <2> QED BY <2>4, <2>5
<1>12. 1 \in 1 .. n + 3
  BY <1>0
<1>13. ASSUME NEW g, Reading(html, g) PROVE TextContent(html) = g[1]
  <2> HIDE DEF n
  <2> QED BY <1>9, <1>10, <1>11, <1>12, <1>13
<1> QED BY <1>3, <1>6, <1>13

(* What g has from 1 to n, f has k later.                                  *)
Later(f, g, k, n) == \A i \in 1 .. n : f[i + k] = g[i]

(* What is read from a character on does not depend on what is before it.  *)
LEMMA ReadingLater ==
  ASSUME NEW T, NEW t \in Seq(T), NEW u \in Seq(T), NEW k \in Nat, Len(u) = Len(t) + k,
         Later(u, t, k, Len(t)), NEW f, NEW g, Reading(t, g), Later(f, g, k, Len(t) + 3)
  PROVE  \A j \in k + 1 .. Len(u) + 3 : f[j] = TextAt(u, f, j)
<1> SUFFICES ASSUME NEW j \in k + 1 .. Len(u) + 3 PROVE f[j] = TextAt(u, f, j)
  OBVIOUS
<1> DEFINE i == j - k
           n == Len(t)
<1>1. n \in Nat /\ i \in 1 .. n + 3 /\ j = i + k
  OBVIOUS
<1>2. f[j] = g[i] /\ g[i] = TextAt(t, g, i)
  <2> HIDE DEF i
  <2> QED BY <1>1 DEF Reading, Later
<1>3. TextAt(u, f, j) = TextAt(t, g, i)
  <2> HIDE DEF i
  <2>1. CASE i > n
    BY <1>1, <2>1 DEF TextAt
  <2>2. CASE ~(i > n)
    <3>1. u[j] = t[i] /\ ~(j > Len(u)) /\ ~(i > Len(t)) /\ (j < Len(u) <=> i < Len(t))
      <4>1. i \in 1 .. Len(t)
        BY <1>1, <2>2
      <4> QED BY <1>1, <2>2, <4>1 DEF Later
    <3>2. i < Len(t) => u[j + 1] = t[i + 1]
      <4> SUFFICES ASSUME i < n PROVE u[j + 1] = t[i + 1]
        OBVIOUS
      <4>1. i + 1 \in 1 .. n /\ (i + 1) + k = j + 1
        BY <1>1, <2>2
      <4> QED BY <4>1 DEF Later
    <3>3. /\ i + 1 \in 1 .. n + 3 /\ (i + 1) + k = j + 1
          /\ i + 2 \in 1 .. n + 3 /\ (i + 2) + k = j + 2
          /\ i + 3 \in 1 .. n + 3 /\ (i + 3) + k = j + 3
      BY <1>1, <2>2
    <3>4. f[j + 1] = g[i + 1] /\ f[j + 2] = g[i + 2] /\ f[j + 3] = g[i + 3]
      <4>1. \A m \in 1 .. n + 3 : f[m + k] = g[m]
        BY DEF Later
      <4> HIDE DEF n
      <4> QED BY <3>3, <4>1
    <3>5. CASE i < Len(t)
      <4>1. j < Len(u) /\ u[j + 1] = t[i + 1]
        BY <3>1, <3>2, <3>5
      <4> HIDE DEF n
      <4> QED BY <3>1, <3>4, <3>5, <4>1 DEF TextAt
    <3>6. CASE ~(i < Len(t))
      <4>1. ~(j < Len(u))
        BY <3>1, <3>6
      <4> HIDE DEF n
      <4> QED BY <3>1, <3>4, <3>6, <4>1 DEF TextAt
    <3> QED BY <3>5, <3>6
  <2> QED BY <2>1, <2>2
<1> QED BY <1>2, <1>3

LEMMA TextOfNothing == TextContent(<<>>) = <<>>
<1> DEFINE f == [i \in 1 .. 3 |-> <<>>]
<1>1. Len(<<>>) = 0 /\ <<>> \in Seq(Markup) /\ f[1] = <<>>
  OBVIOUS
<1>2. Reading(<<>>, f)
  BY DEF Reading, TextAt
<1> HIDE DEF f
<1>3. TextContent(<<>>) = f[1]
  BY <1>1, <1>2, TextContentReads
<1> QED BY <1>1, <1>3

LEMMA TextOfChar ==
  ASSUME NEW T, Markup \subseteq T, NEW x \in T, x # "&", x # "<", NEW t \in Seq(T)
  PROVE  TextContent(Cons(x, t)) = Cons(x, TextContent(t))
<1> DEFINE n == Len(t)
           u == Cons(x, t)
<1>1. u \in Seq(T) /\ Len(u) = n + 1 /\ u[1] = x /\ \A i \in 1 .. n : u[i + 1] = t[i]
  BY OneBefore
<1>2. PICK g \in [1 .. n + 3 -> Seq(T)] : Reading(t, g) /\ TextContent(t) = g[1]
  BY TextContentReads
<1> DEFINE f == [i \in 1 .. n + 4 |-> IF i = 1 THEN Cons(x, g[1]) ELSE g[i - 1]]
<1>3. n \in Nat
  OBVIOUS
<1> HIDE DEF n, u
<1>4. f[1] = Cons(x, g[1]) /\ \A i \in 1 .. n + 3 : f[i + 1] = g[i]
  <2>1. 1 \in 1 .. n + 4
    BY <1>3
  <2>2. \A i \in 1 .. n + 3 : i + 1 \in 1 .. n + 4 /\ i + 1 # 1 /\ (i + 1) - 1 = i
    BY <1>3
  <2> QED BY <2>1, <2>2
<1> HIDE DEF f
<1>5. \A j \in 1 + 1 .. Len(u) + 3 : f[j] = TextAt(u, f, j)
  <2>1. u \in Seq(T) /\ Len(u) = Len(t) + 1 /\ Reading(t, g) /\ 1 \in Nat
    BY <1>1, <1>2, <1>4 DEF n
  <2>2. Later(u, t, 1, Len(t))
    BY <1>1, <1>2, <1>4 DEF n, Later
  <2>3. Later(f, g, 1, Len(t) + 3)
    BY <1>1, <1>2, <1>4 DEF n, Later
  <2> HIDE DEF n, u
  <2> QED BY <2>1, <2>2, <2>3, ReadingLater
<1>6. f[1] = TextAt(u, f, 1)
  <2>1. f[1 + 1] = g[1]
    BY <1>3, <1>4
  <2> QED BY <1>1, <1>3, <1>4, <2>1 DEF TextAt, Cons
<1>7. Reading(u, f)
  <2>1. \A j \in 1 .. Len(u) + 3 : j = 1 \/ j \in 1 + 1 .. Len(u) + 3
    BY <1>1, <1>3
  <2> QED BY <1>5, <1>6, <2>1 DEF Reading
<1>8. TextContent(u) = f[1]
  BY <1>1, <1>7, TextContentReads
<1> QED BY <1>2, <1>4, <1>8 DEF u

Stands(y, c) == (y = "amp;" /\ c = "&") \/ (y = "lt;" /\ c = "<") \/ (y = "gt;" /\ c = ">")

LEMMA TextOfEntity ==
  ASSUME NEW T, Markup \subseteq T, NEW t \in Seq(T), NEW y \in T, NEW c \in T, Stands(y, c)
  PROVE  TextContent(Cons("&", Cons(y, t))) = Cons(c, TextContent(t))
<1> DEFINE n == Len(t)
           v == Cons(y, t)
           u == Cons("&", v)
<1>0. "&" \in T /\ y \in T
  BY DEF Markup
<1>1. v \in Seq(T) /\ Len(v) = n + 1 /\ v[1] = y /\ \A i \in 1 .. n : v[i + 1] = t[i]
  BY <1>0, OneBefore
<1>2. n \in Nat
  OBVIOUS
<1> HIDE DEF v
<1>3. u \in Seq(T) /\ Len(u) = Len(v) + 1 /\ u[1] = "&" /\ \A i \in 1 .. Len(v) : u[i + 1] = v[i]
  <2>1. "&" \in T /\ v \in Seq(T)
    BY <1>0, <1>1
  <2> QED BY <2>1, OneBefore
<1> HIDE DEF u, n
<1>4. Len(u) = n + 2 /\ u[1] = "&" /\ u[1 + 1] = y /\ \A i \in 1 .. n : u[i + 2] = t[i]
  <2>1. \A i \in 1 .. n : i + 1 \in 1 .. Len(v) /\ (i + 1) + 1 = i + 2
    BY <1>1, <1>2
  <2>2. 1 \in 1 .. Len(v) /\ Len(u) = n + 2
    BY <1>1, <1>2, <1>3
  <2>3. \A i \in 1 .. n : u[(i + 1) + 1] = v[i + 1] /\ v[i + 1] = t[i]
    BY <1>1, <1>3, <2>1
  <2> QED BY <1>1, <1>3, <2>1, <2>2, <2>3
<1>5. PICK g \in [1 .. n + 3 -> Seq(T)] : Reading(t, g) /\ TextContent(t) = g[1]
  BY TextContentReads DEF n
<1> DEFINE f == [i \in 1 .. n + 5 |-> IF i = 1 THEN Cons(c, g[1])
                                       ELSE IF i = 2 THEN Cons(y, g[1]) ELSE g[i - 2]]
<1>6. f[1] = Cons(c, g[1]) /\ f[2] = Cons(y, g[1]) /\ \A i \in 1 .. n + 3 : f[i + 2] = g[i]
  <2>1. 1 \in 1 .. n + 5 /\ 2 \in 1 .. n + 5
    BY <1>2
  <2>2. \A i \in 1 .. n + 3 : i + 2 \in 1 .. n + 5 /\ i + 2 # 1 /\ i + 2 # 2 /\ (i + 2) - 2 = i
    BY <1>2
  <2> QED BY <2>1, <2>2
<1> HIDE DEF f
<1>7. \A j \in 2 + 1 .. Len(u) + 3 : f[j] = TextAt(u, f, j)
  <2>1. u \in Seq(T) /\ Len(u) = Len(t) + 2 /\ Reading(t, g) /\ 2 \in Nat
    BY <1>3, <1>4, <1>5, <1>6 DEF n
  <2>2. Later(u, t, 2, Len(t))
    BY <1>3, <1>4, <1>5, <1>6 DEF n, Later
  <2>3. Later(f, g, 2, Len(t) + 3)
    BY <1>3, <1>4, <1>5, <1>6 DEF n, Later
  <2> HIDE DEF n, u
  <2> QED BY <2>1, <2>2, <2>3, ReadingLater
<1>8. f[1 + 2] = g[1]
  BY <1>2, <1>6
<1>9. f[1] = TextAt(u, f, 1)
  <2>1. ~(1 > Len(u)) /\ 1 < Len(u) /\ f[1] = <<c>> \o f[1 + 2]
    BY <1>2, <1>4, <1>6, <1>8 DEF Cons
  <2>2. CASE y = "amp;" /\ c = "&"
    BY <1>4, <2>1, <2>2 DEF TextAt, Entities
  <2>3. CASE y = "lt;" /\ c = "<"
    BY <1>4, <2>1, <2>3 DEF TextAt, Entities
  <2>4. CASE y = "gt;" /\ c = ">"
    BY <1>4, <2>1, <2>4 DEF TextAt, Entities
  <2> QED BY <2>2, <2>3, <2>4 DEF Stands
<1>10. f[2] = TextAt(u, f, 2)
  <2>0. 1 + 1 = 2 /\ 2 + 1 = 1 + 2
    OBVIOUS
  <2>1. u[2] = y
    BY <1>4, <2>0
  <2>2. f[2] = Cons(u[2], f[2 + 1])
    BY <1>6, <1>8, <2>0, <2>1
  <2>3. ~(2 > Len(u)) /\ f[2] = <<u[2]>> \o f[2 + 1]
    BY <1>2, <1>4, <2>2 DEF Cons
  <2>4. u[2] # "&" /\ u[2] # "<"
    BY <2>1 DEF Stands
  <2> QED BY <2>3, <2>4 DEF TextAt
<1>11. Reading(u, f)
  <2>1. \A j \in 1 .. Len(u) + 3 : j = 1 \/ j = 2 \/ j \in 2 + 1 .. Len(u) + 3
    BY <1>2, <1>4
  <2> QED BY <1>7, <1>9, <1>10, <2>1 DEF Reading
<1>12. TextContent(u) = f[1]
  BY <1>3, <1>11, TextContentReads
<1> QED BY <1>5, <1>6, <1>12 DEF u, v

LEMMA TextOfTag ==
  ASSUME NEW T, Markup \subseteq T, NEW t \in Seq(T), NEW y \in {"span", "/span"}
  PROVE  TextContent(Join(<<"<", y, ">">>, t)) = TextContent(t)
<1> DEFINE n == Len(t)
           v == <<"<", y, ">">>
           u == Join(v, t)
<1>0. v \in Seq(T) /\ Len(v) = 3 /\ v[1] = "<" /\ v[2] = y /\ v[3] = ">"
  <2>1. "<" \in T /\ y \in T /\ ">" \in T
    BY DEF Markup
  <2> QED BY <2>1
<1>1. n \in Nat
  OBVIOUS
<1> HIDE DEF v
<1>2. u \in Seq(T) /\ Len(u) = Len(v) + Len(t)
      /\ \A i \in 1 .. Len(v) + Len(t) : u[i] = IF i <= Len(v) THEN v[i] ELSE t[i - Len(v)]
  <2>1. v \in Seq(T)
    BY <1>0
  <2> QED BY <2>1, ConcatProperties DEF Join
<1> HIDE DEF u, n
<1>3. Len(u) = n + 3 /\ u[1] = "<" /\ u[2] = y /\ u[3] = ">" /\ \A i \in 1 .. n : u[i + 3] = t[i]
  <2>1. \A i \in 1 .. n : i + 3 \in 1 .. Len(v) + n /\ ~(i + 3 <= Len(v)) /\ (i + 3) - Len(v) = i
    BY <1>0, <1>1
  <2>2. \A i \in 1 .. 3 : i \in 1 .. Len(v) + n /\ i <= Len(v)
    BY <1>0, <1>1
  <2>3. \A i \in 1 .. 3 : u[i] = v[i]
    BY <1>2, <2>2 DEF n
  <2>4. \A i \in 1 .. n : u[i + 3] = t[i]
    BY <1>2, <2>1 DEF n
  <2>5. Len(u) = n + 3
    BY <1>0, <1>1, <1>2 DEF n
  <2> QED BY <1>0, <2>3, <2>4, <2>5
<1>5. PICK g \in [1 .. n + 3 -> Seq(T)] : Reading(t, g) /\ TextContent(t) = g[1]
  BY TextContentReads DEF n
<1> DEFINE f == [i \in 1 .. n + 6 |-> IF i = 1 THEN g[1]
                                       ELSE IF i = 2 THEN <<y>> \o (<<">">> \o g[1])
                                       ELSE IF i = 3 THEN <<">">> \o g[1] ELSE g[i - 3]]
<1>6. /\ f[1] = g[1] /\ f[3] = <<">">> \o g[1] /\ f[2] = <<y>> \o f[3]
      /\ \A i \in 1 .. n + 3 : f[i + 3] = g[i]
  <2>1. 1 \in 1 .. n + 6 /\ 2 \in 1 .. n + 6 /\ 3 \in 1 .. n + 6
    BY <1>1
  <2>2. \A i \in 1 .. n + 3 : i + 3 \in 1 .. n + 6 /\ i + 3 # 1 /\ i + 3 # 2 /\ i + 3 # 3 /\ (i + 3) - 3 = i
    BY <1>1
  <2> QED BY <2>1, <2>2
<1> HIDE DEF f
<1>7. \A j \in 3 + 1 .. Len(u) + 3 : f[j] = TextAt(u, f, j)
  <2>1. u \in Seq(T) /\ Len(u) = Len(t) + 3 /\ Reading(t, g) /\ 3 \in Nat
    BY <1>2, <1>3, <1>5, <1>6 DEF n
  <2>2. Later(u, t, 3, Len(t))
    BY <1>2, <1>3, <1>5, <1>6 DEF n, Later
  <2>3. Later(f, g, 3, Len(t) + 3)
    BY <1>2, <1>3, <1>5, <1>6 DEF n, Later
  <2> HIDE DEF n, u
  <2> QED BY <2>1, <2>2, <2>3, ReadingLater
<1>8. f[1 + 3] = g[1]
  BY <1>1, <1>6
<1>9. f[1] = TextAt(u, f, 1)
  BY <1>1, <1>3, <1>6, <1>8 DEF TextAt, Names, Entities
<1>10. f[2] = TextAt(u, f, 2)
  BY <1>1, <1>3, <1>6 DEF TextAt
<1>11. f[3] = TextAt(u, f, 3)
  BY <1>1, <1>3, <1>6, <1>8 DEF TextAt
<1>12. Reading(u, f)
  <2>1. \A j \in 1 .. Len(u) + 3 : j = 1 \/ j = 2 \/ j = 3 \/ j \in 3 + 1 .. Len(u) + 3
    BY <1>1, <1>3
  <2> QED BY <1>7, <1>9, <1>10, <1>11, <2>1 DEF Reading
<1>13. TextContent(u) = f[1]
  BY <1>2, <1>12, TextContentReads
<1> QED BY <1>5, <1>6, <1>13 DEF u, v

LEMMA TextType ==
  ASSUME NEW T, Markup \subseteq T, NEW html \in Seq(T)
  PROVE  TextContent(html) \in Seq(T)
<1>1. PICK text \in [1 .. Len(html) + 3 -> Seq(T)] : TextContent(html) = text[1]
  BY TextContentReads
<1>2. 1 \in 1 .. Len(html) + 3
  OBVIOUS
<1> QED BY <1>1, <1>2

LEMMA EscapeHtmlCons ==
  ASSUME NEW T, Markup \subseteq T, NEW x \in T, NEW t \in Seq(T)
  PROVE  /\ EscapeHtml(t) \in Seq(T)
         /\ EscapeHtml(Cons(x, t))
              = IF x = "&" THEN Cons("&", Cons("amp;", EscapeHtml(t)))
                ELSE IF x = "<" THEN Cons("&", Cons("lt;", EscapeHtml(t)))
                ELSE IF x = ">" THEN Cons("&", Cons("gt;", EscapeHtml(t)))
                ELSE Cons(x, EscapeHtml(t))
<1> DEFINE A(s) == Substituted(s, "&", <<"&", "amp;">>)
           B(s) == Substituted(s, "<", <<"&", "lt;">>)
           C(s) == Substituted(s, ">", <<"&", "gt;">>)
<1>0. "&" \in T /\ "<" \in T /\ ">" \in T /\ "amp;" \in T /\ "lt;" \in T /\ "gt;" \in T
  BY DEF Markup
<1>1. ASSUME NEW y \in T, NEW s \in Seq(T)
      PROVE  /\ A(s) \in Seq(T)
             /\ A(Cons(y, s)) = IF y = "&" THEN Cons("&", Cons("amp;", A(s))) ELSE Cons(y, A(s))
  <2> DEFINE by == <<"&", "amp;">>
             a_ == "&"
             b_ == "amp;"
             c_ == "&"
  <2>1. Two(by, a_, b_) /\ a_ \in T /\ b_ \in T
    BY <1>0 DEF Two
  <2> HIDE DEF by, a_, b_, c_
  <2>2. /\ Substituted(s, c_, by) \in Seq(T)
        /\ Substituted(Cons(y, s), c_, by)
             = IF y = c_ THEN Cons(a_, Cons(b_, Substituted(s, c_, by))) ELSE Cons(y, Substituted(s, c_, by))
    BY <2>1, SubstitutedCons
  <2> QED BY <2>2 DEF by, a_, b_, c_
<1>2. ASSUME NEW y \in T, NEW s \in Seq(T)
      PROVE  /\ B(s) \in Seq(T)
             /\ B(Cons(y, s)) = IF y = "<" THEN Cons("&", Cons("lt;", B(s))) ELSE Cons(y, B(s))
  <2> DEFINE by == <<"&", "lt;">>
             a_ == "&"
             b_ == "lt;"
             c_ == "<"
  <2>1. Two(by, a_, b_) /\ a_ \in T /\ b_ \in T
    BY <1>0 DEF Two
  <2> HIDE DEF by, a_, b_, c_
  <2>2. /\ Substituted(s, c_, by) \in Seq(T)
        /\ Substituted(Cons(y, s), c_, by)
             = IF y = c_ THEN Cons(a_, Cons(b_, Substituted(s, c_, by))) ELSE Cons(y, Substituted(s, c_, by))
    BY <2>1, SubstitutedCons
  <2> QED BY <2>2 DEF by, a_, b_, c_
<1>3. ASSUME NEW y \in T, NEW s \in Seq(T)
      PROVE  /\ C(s) \in Seq(T)
             /\ C(Cons(y, s)) = IF y = ">" THEN Cons("&", Cons("gt;", C(s))) ELSE Cons(y, C(s))
  <2> DEFINE by == <<"&", "gt;">>
             a_ == "&"
             b_ == "gt;"
             c_ == ">"
  <2>1. Two(by, a_, b_) /\ a_ \in T /\ b_ \in T
    BY <1>0 DEF Two
  <2> HIDE DEF by, a_, b_, c_
  <2>2. /\ Substituted(s, c_, by) \in Seq(T)
        /\ Substituted(Cons(y, s), c_, by)
             = IF y = c_ THEN Cons(a_, Cons(b_, Substituted(s, c_, by))) ELSE Cons(y, Substituted(s, c_, by))
    BY <2>1, SubstitutedCons
  <2> QED BY <2>2 DEF by, a_, b_, c_
<1>4. \A s : EscapeHtml(s) = C(B(A(s)))
  BY DEF EscapeHtml
<1>5. \A y \in T, s \in Seq(T) : Cons(y, s) \in Seq(T)
  BY OneBefore
<1> HIDE DEF A, B, C
<1>6. A(t) \in Seq(T) /\ B(A(t)) \in Seq(T) /\ C(B(A(t))) \in Seq(T)
  BY <1>1, <1>2, <1>3
<1> DEFINE a == A(t)
           b == B(a)
           c == C(b)
<1>7. a \in Seq(T) /\ b \in Seq(T) /\ c \in Seq(T) /\ EscapeHtml(t) = c
  BY <1>4, <1>6
<1>8. CASE x = "&"
  <2>1. A(Cons(x, t)) = Cons("&", Cons("amp;", a))
    BY <1>1, <1>8
  <2>2. B(Cons("&", Cons("amp;", a))) = Cons("&", Cons("amp;", b))
    <3> DEFINE d == Cons("amp;", a)
    <3> HIDE DEF a
    <3>1. d \in Seq(T) /\ B(d) = Cons("amp;", b)
      BY <1>0, <1>2, <1>5, <1>7
    <3> HIDE DEF d
    <3>2. B(Cons("&", d)) = Cons("&", B(d))
      BY <1>0, <1>2, <3>1
    <3> QED BY <3>1, <3>2 DEF d
  <2>3. C(Cons("&", Cons("amp;", b))) = Cons("&", Cons("amp;", c))
    <3> DEFINE d == Cons("amp;", b)
    <3> HIDE DEF b
    <3>1. d \in Seq(T) /\ C(d) = Cons("amp;", c)
      BY <1>0, <1>3, <1>5, <1>7
    <3> HIDE DEF d
    <3>2. C(Cons("&", d)) = Cons("&", C(d))
      BY <1>0, <1>3, <3>1
    <3> QED BY <3>1, <3>2 DEF d
  <2> HIDE DEF a, b, c
  <2> QED BY <1>4, <1>7, <1>8, <2>1, <2>2, <2>3
<1>9. CASE x = "<"
  <2>1. A(Cons(x, t)) = Cons("<", a)
    BY <1>1, <1>9
  <2>2. B(Cons("<", a)) = Cons("&", Cons("lt;", b))
    <3> HIDE DEF a
    <3> QED BY <1>0, <1>2, <1>7
  <2>3. C(Cons("&", Cons("lt;", b))) = Cons("&", Cons("lt;", c))
    <3> DEFINE d == Cons("lt;", b)
    <3> HIDE DEF b
    <3>1. d \in Seq(T) /\ C(d) = Cons("lt;", c)
      BY <1>0, <1>3, <1>5, <1>7
    <3> HIDE DEF d
    <3>2. C(Cons("&", d)) = Cons("&", C(d))
      BY <1>0, <1>3, <3>1
    <3> QED BY <3>1, <3>2 DEF d
  <2> HIDE DEF a, b, c
  <2> QED BY <1>4, <1>7, <1>9, <2>1, <2>2, <2>3
<1>10. CASE x = ">"
  <2>1. A(Cons(x, t)) = Cons(">", a)
    BY <1>1, <1>10
  <2>2. B(Cons(">", a)) = Cons(">", b)
    <3> HIDE DEF a
    <3> QED BY <1>0, <1>2, <1>7
  <2>3. C(Cons(">", b)) = Cons("&", Cons("gt;", c))
    <3> HIDE DEF b
    <3> QED BY <1>0, <1>3, <1>7
  <2> HIDE DEF a, b, c
  <2> QED BY <1>4, <1>7, <1>10, <2>1, <2>2, <2>3
<1>11. CASE x \notin {"&", "<", ">"}
  <2>1. A(Cons(x, t)) = Cons(x, a)
    BY <1>1, <1>11
  <2>2. B(Cons(x, a)) = Cons(x, b)
    <3> HIDE DEF a
    <3> QED BY <1>2, <1>7, <1>11
  <2>3. C(Cons(x, b)) = Cons(x, c)
    <3> HIDE DEF b
    <3> QED BY <1>3, <1>7, <1>11
  <2> HIDE DEF a, b, c
  <2> QED BY <1>4, <1>7, <1>11, <2>1, <2>2, <2>3
<1> QED BY <1>8, <1>9, <1>10, <1>11

LEMMA EscapeHtmlNone == EscapeHtml(<<>>) = <<>>
BY SubstitutedNone DEF EscapeHtml

(* Escaped text is read as it was, whatever follows it.                    *)
LEMMA EscapedIsRead ==
  ASSUME NEW T, Markup \subseteq T, NEW s \in Seq(T), NEW t \in Seq(T)
  PROVE  EscapeHtml(s) \in Seq(T) /\ TextContent(Join(EscapeHtml(s), t)) = Join(s, TextContent(t))
<1> DEFINE S == {r \in Seq(T) : /\ EscapeHtml(r) \in Seq(T)
                                /\ TextContent(Join(EscapeHtml(r), t)) = Join(r, TextContent(t))}
<1>0. TextContent(t) \in Seq(T) /\ <<>> \in Seq(T)
  BY TextType
<1>1. <<>> \in S
  BY <1>0, JoinNone, EscapeHtmlNone
<1>2. ASSUME NEW x \in T, NEW r \in Seq(T), r \in S PROVE Cons(x, r) \in S
  <2> DEFINE e == EscapeHtml(r)
             f == Join(e, t)
             u == EscapeHtml(Cons(x, r))
  <2>1. e \in Seq(T) /\ f \in Seq(T) /\ TextContent(f) = Join(r, TextContent(t))
    BY <1>2, JoinType
  <2> HIDE DEF S
  <2>2. u = IF x = "&" THEN Cons("&", Cons("amp;", e)) ELSE IF x = "<" THEN Cons("&", Cons("lt;", e))
            ELSE IF x = ">" THEN Cons("&", Cons("gt;", e)) ELSE Cons(x, e)
    BY EscapeHtmlCons
  <2>3. "&" \in T /\ "<" \in T /\ ">" \in T /\ "amp;" \in T /\ "lt;" \in T /\ "gt;" \in T
    BY DEF Markup
  <2>4. Cons(x, r) \in Seq(T) /\ Join(Cons(x, r), TextContent(t)) = Cons(x, TextContent(f))
    BY <1>0, <2>1, OneBefore, ConsJoin
  <2> HIDE DEF e, f, u
  <2>5. \A y \in T : Cons(y, e) \in Seq(T) /\ Join(Cons(y, e), t) = Cons(y, f)
    BY <2>1, OneBefore, ConsJoin DEF f
  <2>6. ASSUME NEW y \in T
        PROVE  Cons("&", Cons(y, e)) \in Seq(T) /\ Join(Cons("&", Cons(y, e)), t) = Cons("&", Cons(y, f))
    <3> DEFINE d == Cons(y, e)
    <3>1. d \in Seq(T) /\ Join(d, t) = Cons(y, f) /\ "&" \in T
      BY <2>3, <2>5
    <3> HIDE DEF d
    <3>2. Cons("&", d) \in Seq(T) /\ Join(Cons("&", d), t) = Cons("&", Join(d, t))
      BY <3>1, OneBefore, ConsJoin
    <3> QED BY <3>1, <3>2 DEF d
  <2>7. u \in Seq(T) /\ TextContent(Join(u, t)) = Cons(x, TextContent(f))
    <3>1. CASE x = "&"
      <4>1. Stands("amp;", "&")
        BY DEF Stands
      <4>2. TextContent(Cons("&", Cons("amp;", f))) = Cons("&", TextContent(f))
        BY <2>1, <2>3, <4>1, TextOfEntity
      <4> QED BY <2>2, <2>3, <2>6, <3>1, <4>2
    <3>2. CASE x = "<"
      <4>1. Stands("lt;", "<")
        BY DEF Stands
      <4>2. TextContent(Cons("&", Cons("lt;", f))) = Cons("<", TextContent(f))
        BY <2>1, <2>3, <4>1, TextOfEntity
      <4> QED BY <2>2, <2>3, <2>6, <3>2, <4>2
    <3>3. CASE x = ">"
      <4>1. Stands("gt;", ">")
        BY DEF Stands
      <4>2. TextContent(Cons("&", Cons("gt;", f))) = Cons(">", TextContent(f))
        BY <2>1, <2>3, <4>1, TextOfEntity
      <4> QED BY <2>2, <2>3, <2>6, <3>3, <4>2
    <3>4. CASE x # "&" /\ x # "<" /\ x # ">"
      <4>1. TextContent(Cons(x, f)) = Cons(x, TextContent(f))
        BY <2>1, <3>4, TextOfChar
      <4>2. u = Cons(x, e)
        BY <2>2, <3>4
      <4> QED BY <2>5, <4>1, <4>2
    <3> QED BY <3>1, <3>2, <3>3, <3>4
  <2> QED BY <2>4, <2>7 DEF u, S
<1>3. s \in S
  <2> HIDE DEF S
  <2> QED BY <1>1, <1>2, FromTheEnd
<1> QED BY <1>3

LEMMA EscapedTextArrives ==
  ASSUME NEW T, Markup \subseteq T, NEW s \in Seq(T)
  PROVE  EscapeHtml(s) \in Seq(T) /\ TextContent(EscapeHtml(s)) = s
<1> DEFINE e == EscapeHtml(s)
<1>1. <<>> \in Seq(T)
  OBVIOUS
<1>2. e \in Seq(T) /\ TextContent(Join(e, <<>>)) = Join(s, TextContent(<<>>))
  BY <1>1, EscapedIsRead
<1> HIDE DEF e
<1>3. Join(e, <<>>) = e /\ Join(s, <<>>) = s
  BY <1>2, JoinNone
<1> QED BY <1>2, <1>3, TextOfNothing DEF e

(* Text in a span is read as it was, too.                                  *)
LEMMA SpanIsRead ==
  ASSUME NEW T, Markup \subseteq T, NEW s \in Seq(T), NEW t \in Seq(T)
  PROVE  /\ Span(s) \in Seq(T)
         /\ TextContent(Join(Span(s), t)) = Join(s, TextContent(t))
<1> DEFINE a == <<"<", "span", ">">>
           b == <<"<", "/span", ">">>
           e == EscapeHtml(s)
<1>1. a \in Seq(T) /\ b \in Seq(T)
  <2>1. "<" \in T /\ ">" \in T /\ "span" \in T /\ "/span" \in T
    BY DEF Markup
  <2> QED BY <2>1
<1>2. ASSUME NEW q \in Seq(T) PROVE TextContent(Join(a, q)) = TextContent(q) /\ TextContent(Join(b, q)) = TextContent(q)
  BY TextOfTag
<1>3. Span(s) = Join(Join(a, e), b)
  BY DEF Span, EscapeHTML, Join
<1> HIDE DEF a, b
<1>4. Join(b, t) \in Seq(T) /\ e \in Seq(T)
  BY <1>1, JoinType, EscapedIsRead
<1>5. TextContent(Join(e, Join(b, t))) = Join(s, TextContent(Join(b, t)))
  BY <1>4, EscapedIsRead
<1> HIDE DEF e
<1>6. Join(a, e) \in Seq(T) /\ Join(e, Join(b, t)) \in Seq(T) /\ Join(Join(a, e), b) \in Seq(T)
  BY <1>1, <1>4, JoinType
<1>7. Join(Join(Join(a, e), b), t) = Join(a, Join(e, Join(b, t)))
  BY <1>1, <1>4, <1>6, JoinJoin
<1>8. TextContent(Join(a, Join(e, Join(b, t)))) = Join(s, TextContent(t))
  BY <1>2, <1>5, <1>6
<1> QED BY <1>3, <1>6, <1>7, <1>8

LEMMA PartsOf ==
  ASSUME NEW T, NEW s \in Seq(T), NEW cut \in 0 .. Len(s)
  PROVE  SubSeq(s, 1, cut) \in Seq(T) /\ SubSeq(s, cut + 1, Len(s)) \in Seq(T)
<1>1. \A i \in 1 .. cut : s[i] \in T
  OBVIOUS
<1>2. \A i \in cut + 1 .. Len(s) : s[i] \in T
  OBVIOUS
<1>3. cut \in Int /\ Len(s) \in Int /\ cut + 1 \in Int /\ 1 \in Int
  OBVIOUS
<1> QED BY <1>1, <1>2, <1>3, SubSeqProperties

Halves(s, cut, p, t) == p = SubSeq(s, 1, cut) /\ t = SubSeq(s, cut + 1, Len(s))

LEMMA SpansAreRead ==
  ASSUME NEW T, Markup \subseteq T, NEW s \in Seq(T), NEW cut \in 0 .. Len(s),
         NEW p, NEW t, Halves(s, cut, p, t)
  PROVE  Join(Span(p), Span(t)) \in Seq(T) /\ TextContent(Join(Span(p), Span(t))) = s
<1>0. p = SubSeq(s, 1, cut) /\ t = SubSeq(s, cut + 1, Len(s))
  BY DEF Halves
<1>1. p \in Seq(T) /\ t \in Seq(T) /\ <<>> \in Seq(T)
  BY <1>0, PartsOf
<1>2. Join(p, t) = s
  <2>1. SubSeq(s, 1, cut) \o SubSeq(s, cut + 1, Len(s)) = SubSeq(s, 1, Len(s))
    <3>1. 1 \in 1 .. Len(s) + 1 /\ cut \in 1 - 1 .. Len(s) /\ Len(s) \in cut .. Len(s)
      OBVIOUS
    <3> QED BY <3>1, ConcatAdjacentSubSeq
  <2>2. SubSeq(s, 1, Len(s)) = s
    BY SubSeqFull
  <2> QED BY <1>0, <2>1, <2>2 DEF Join
<1>3. Span(p) \in Seq(T) /\ Span(t) \in Seq(T)
  BY <1>1, SpanIsRead
<1>4. TextContent(Span(t)) = t
  <2>1. Join(Span(t), <<>>) = Span(t) /\ Join(t, <<>>) = t
    BY <1>1, <1>3, JoinNone
  <2>2. TextContent(Join(Span(t), <<>>)) = Join(t, TextContent(<<>>))
    BY <1>1, SpanIsRead
  <2> QED BY <2>1, <2>2, TextOfNothing
<1>5. TextContent(Join(Span(p), Span(t))) = Join(p, TextContent(Span(t)))
  BY <1>1, <1>3, SpanIsRead
<1>6. Join(Span(p), Span(t)) \in Seq(T)
  BY <1>3, JoinType
<1> QED BY <1>2, <1>4, <1>5, <1>6

LEMMA CodeArrives ==
  ASSUME NEW T, Markup \subseteq T, NEW lang, NEW text \in Seq(T), NEW cut \in 0 .. Len(text)
  PROVE  TextContent(RendererCode(lang, text, cut)) = text
<1>1. CASE lang = "mermaid"
  BY <1>1, EscapedTextArrives DEF RendererCode
<1>2. CASE lang # "mermaid"
  <2> DEFINE p == SubSeq(text, 1, cut)
             q == SubSeq(text, cut + 1, Len(text))
             l == IF lang \in HljsLanguages THEN lang ELSE "auto"
             a == <<"<", "span", ">">>
             b == <<"<", "/span", ">">>
             d == EscapeHtml(p)
             e == EscapeHtml(q)
  <2>1. RendererCode(lang, text, cut) = HljsHighlight(l, text, cut)
    BY <1>2 DEF RendererCode
  <2>2. l \in HljsLanguages \cup {"auto"}
    OBVIOUS
  <2> HIDE DEF l
  <2>3. HljsHighlight(l, text, cut) = a \o d \o b \o a \o e \o b
    BY <2>2 DEF HljsHighlight
  <2>4. Span(p) = a \o d \o b /\ Span(q) = a \o e \o b
    BY DEF Span, EscapeHTML
  <2>5. a \in Seq(T) /\ b \in Seq(T)
    <3>1. "<" \in T /\ ">" \in T /\ "span" \in T /\ "/span" \in T
      BY DEF Markup
    <3> QED BY <3>1
  <2>6. p \in Seq(T) /\ q \in Seq(T) /\ p = SubSeq(text, 1, cut) /\ q = SubSeq(text, cut + 1, Len(text))
    BY PartsOf
  <2> HIDE DEF p, q
  <2>7. d \in Seq(T) /\ e \in Seq(T) /\ Span(p) \in Seq(T)
    BY <2>6, EscapedTextArrives, SpanIsRead
  <2>8. TextContent(Join(Span(p), Span(q))) = text
    <3>1. Halves(text, cut, p, q)
      BY <2>6 DEF Halves
    <3> HIDE DEF a, b, d, e
    <3> QED BY <3>1, SpansAreRead
  <2> DEFINE v == Span(p)
  <2>9. HljsHighlight(l, text, cut) = Join(Join(Join(v, a), e), b) /\ Span(q) = Join(Join(a, e), b) /\ v \in Seq(T)
    <3> HIDE DEF a, b, d, e
    <3> QED BY <2>3, <2>4, <2>7 DEF Join
  <2> HIDE DEF a, b, d, e, v
  <2>10. Join(Join(Join(v, a), e), b) = Join(v, Join(Join(a, e), b))
    <3>1. Join(v, a) \in Seq(T) /\ Join(a, e) \in Seq(T)
      BY <2>5, <2>7, <2>9, JoinType
    <3> QED BY <2>5, <2>7, <2>9, <3>1, JoinJoin
  <2> QED BY <2>1, <2>8, <2>9, <2>10 DEF v
<1> QED BY <1>1, <1>2

(* Nothing in escaped text ends an attribute but a double quote.           *)
LEMMA AttributeArrives ==
  ASSUME NEW T, Markup \subseteq T, "dquote" \notin T, NEW text \in Seq(T)
  PROVE  /\ AttributeValue(RendererImage(text, text).alt) = text
         /\ AttributeValue(RendererImage(text, text).title) = text
<1> DEFINE e == EscapeHtml(text)
<1>1. e \in Seq(T) /\ TextContent(e) = text
  BY EscapedTextArrives
<1>2. RendererImage(text, text).alt = e /\ RendererImage(text, text).title = IF text = <<>> THEN <<>> ELSE e
  BY DEF RendererImage
<1>3. e = <<>> \/ text # <<>>
  BY EscapeHtmlNone
<1> HIDE DEF e
<1>4. Range(e) \subseteq T
  BY <1>1, RangeOfSeq
<1>5. AttributeValue(e) = text
  BY <1>1, <1>4 DEF AttributeValue
<1>6. RendererImage(text, text).title = e
  BY <1>2, <1>3
<1> QED BY <1>2, <1>5, <1>6

LEMMA FlattenCons ==
  ASSUME NEW T, NEW p \in Seq(T), NEW r \in Seq(Seq(T))
  PROVE  FlattenSeq(Cons(p, r)) = Join(p, FlattenSeq(r))
<1> DEFINE s == <<p>>
<1>1. s \in Seq(Seq(T)) /\ FlattenSeq(s) = p
  BY FlattenOne
<1> HIDE DEF s
<1>2. FlattenSeq(s \o r) = FlattenSeq(s) \o FlattenSeq(r)
  BY <1>1, FlattenConcat
<1> QED BY <1>1, <1>2 DEF s, Cons, Join

(* Reading the text of a template: value[i] is its value from character i  *)
(* on.                                                                     *)
ValueAt(s, value, i) ==
  IF i > Len(s) THEN <<>>
  ELSE LET next == IF i < Len(s) THEN s[i + 1] ELSE "end"
       IN  CASE s[i] = "\\" -> <<IF next = "n" THEN "LF" ELSE next>> \o value[i + 2]
             [] s[i] = "quote" \/ (s[i] = "$" /\ next = "{") -> <<"end">>
             [] s[i] = "CR" -> <<"LF">> \o value[IF next = "LF" THEN i + 2 ELSE i + 1]
             [] OTHER -> <<s[i]>> \o value[i + 1]
Evaluating(s, value) == \A i \in 1 .. Len(s) + 2 : value[i] = ValueAt(s, value, i)
Special == {"\\", "quote", "$", "CR", "LF", "end"}

LEMMA TemplateEvaluates ==
  ASSUME NEW T, Special \subseteq T, NEW s \in Seq(T)
  PROVE  /\ \E value \in [1 .. Len(s) + 2 -> Seq(T)] :
              Evaluating(s, value) /\ TemplateValue(s) = value[1]
         /\ \A value : Evaluating(s, value) => TemplateValue(s) = value[1]
<1> DEFINE n == Len(s)
           V == Seq(T)
           Next(i) == IF i < n THEN s[i + 1] ELSE "end"
           Step(i, a, b) == CASE s[i] = "\\" -> <<IF Next(i) = "n" THEN "LF" ELSE Next(i)>> \o b
                              [] s[i] = "quote" \/ (s[i] = "$" /\ Next(i) = "{") -> <<"end">>
                              [] s[i] = "CR" -> <<"LF">> \o (IF Next(i) = "LF" THEN b ELSE a)
                              [] OTHER -> <<s[i]>> \o a
           F == [i \in 1 .. n |-> [a \in V |-> [b \in V |-> [c \in V |-> Step(i, a, b)]]]]
           Whole(f) == f = [i \in 1 .. (n + 2) |-> ValueAt(s, f, i)]
<1>0. n \in Nat /\ <<>> \in V
  OBVIOUS
<1>1. ASSUME NEW i \in 1 .. n, NEW a \in V, NEW b \in V PROVE Step(i, a, b) \in V
  <2> DEFINE m == IF Next(i) = "n" THEN "LF" ELSE Next(i)
  <2>1. s[i] \in T /\ "LF" \in T /\ "end" \in T /\ m \in T
    <3>1. s[i] \in T
      OBVIOUS
    <3>2. "LF" \in T /\ "end" \in T
      BY DEF Special
    <3>3. i < n => s[i + 1] \in T
      <4> SUFFICES ASSUME i < n PROVE s[i + 1] \in T
        OBVIOUS
      <4>1. i + 1 \in 1 .. n
        BY <1>0
      <4> QED BY <4>1
    <3> QED BY <3>1, <3>2, <3>3
  <2> HIDE DEF m
  <2>2. /\ <<m>> \o b \in V /\ <<"LF">> \o b \in V /\ <<"LF">> \o a \in V /\ <<s[i]>> \o a \in V /\ <<"end">> \in V
    BY <2>1
  <2>3. Step(i, a, b) = CASE s[i] = "\\" -> <<m>> \o b
                              [] s[i] = "quote" \/ (s[i] = "$" /\ Next(i) = "{") -> <<"end">>
                              [] s[i] = "CR" -> <<"LF">> \o (IF Next(i) = "LF" THEN b ELSE a)
                              [] OTHER -> <<s[i]>> \o a
    BY DEF m
  <2> HIDE DEF V, Next, Step
  <2> QED BY <2>2, <2>3
<1>2. F \in [1 .. n -> [V -> [V -> [V -> V]]]]
  <2> HIDE DEF V, n, Step
  <2> QED BY <1>1
<1>3. PICK e \in [1 .. n + 3 -> V] : ReadBack(e, n, <<>>, F)
  <2> HIDE DEF F, V, n
  <2> QED BY <1>0, <1>2, ReadBackExists
<1> DEFINE f == [i \in 1 .. n + 2 |-> e[i]]
<1>4. f \in [1 .. n + 2 -> V] /\ \A i \in 1 .. n + 2 : f[i] = e[i]
  <2>1. \A i \in 1 .. n + 2 : i \in 1 .. n + 3
    BY <1>0
  <2> HIDE DEF V, n
  <2> QED BY <1>3, <2>1
<1> HIDE DEF f
<1>5. ASSUME NEW i \in 1 .. n + 2 PROVE f[i] = ValueAt(s, f, i)
  <2>1. i \in 1 .. n + 3 /\ f[i] = e[i]
    BY <1>0, <1>4
  <2>2. e[i] = IF i > n THEN <<>> ELSE F[i][e[i + 1]][e[i + 2]][e[i + 3]]
    <3> HIDE DEF F, V, n
    <3> QED BY <1>3, <2>1 DEF ReadBack
  <2>3. CASE i > n
    BY <2>1, <2>2, <2>3 DEF ValueAt
  <2>4. CASE ~(i > n)
    <3>1. i \in 1 .. n /\ e[i + 1] \in V /\ e[i + 2] \in V /\ e[i + 3] \in V /\ f[i + 1] = e[i + 1] /\ f[i + 2] = e[i + 2]
      <4>1. i + 1 \in 1 .. n + 3 /\ i + 2 \in 1 .. n + 3 /\ i + 3 \in 1 .. n + 3 /\ i \in 1 .. n
            /\ i + 1 \in 1 .. n + 2 /\ i + 2 \in 1 .. n + 2
        BY <1>0, <2>4
      <4> HIDE DEF V, n
      <4> QED BY <1>3, <1>4, <4>1
    <3>2. F[i][e[i + 1]][e[i + 2]][e[i + 3]] = Step(i, f[i + 1], f[i + 2])
      <4> HIDE DEF V, n, Step
      <4> QED BY <3>1
    <3>3. ValueAt(s, f, i) = Step(i, f[i + 1], f[i + 2])
      <4> HIDE DEF V
      <4> QED BY <2>4 DEF ValueAt
    <3> HIDE DEF F, Step
    <3> QED BY <2>1, <2>2, <2>4, <3>2, <3>3
  <2> QED BY <2>3, <2>4
<1>6. Evaluating(s, f)
  BY <1>5 DEF Evaluating
<1>7. Whole(f)
  <2> HIDE DEF V, n
  <2> QED BY <1>4, <1>5
<1> DEFINE h == CHOOSE f_ : Whole(f_)
<1>8. Whole(h)
  <2> HIDE DEF Whole
  <2> QED BY <1>7
<1>9. TemplateValue(s) = h[1]
  BY DEF TemplateValue, ValueAt
<1> HIDE DEF h
<1>10. Evaluating(s, h)
  <2> HIDE DEF n
  <2>1. \A i \in 1 .. n + 2 : h[i] = ValueAt(s, h, i)
    BY <1>8
  <2> QED BY <2>1 DEF Evaluating, n
<1>11. ASSUME NEW g, Evaluating(s, g) PROVE \A i \in 1 .. n + 2 : g[i] = f[i]
  <2> DEFINE S == {j \in Nat : \A i \in 1 .. n + 2 : i > n - j => g[i] = f[i]}
  <2>0. /\ \A i \in 1 .. n + 2 : g[i] = ValueAt(s, g, i)
        /\ \A i \in 1 .. n + 2 : f[i] = ValueAt(s, f, i)
    BY <1>6, <1>11 DEF Evaluating
  <2>1. 0 \in S
    <3> HIDE DEF n
    <3>1. ASSUME NEW i \in 1 .. n + 2, i > n - 0 PROVE g[i] = f[i]
      <4>1. i > n
        BY <1>0, <3>1
      <4>2. ValueAt(s, f, i) = <<>> /\ ValueAt(s, g, i) = <<>>
        BY <4>1 DEF ValueAt, n
      <4> QED BY <2>0, <4>2
    <3> QED BY <3>1
  <2>2. ASSUME NEW j \in Nat, 0 =< j, j \in S PROVE j + 1 \in S
    <3> SUFFICES ASSUME NEW i \in 1 .. n + 2, i > n - (j + 1) PROVE g[i] = f[i]
      OBVIOUS
    <3> HIDE DEF n
    <3>1. CASE i > n
      BY <2>0, <3>1 DEF ValueAt, n
    <3>2. CASE ~(i > n)
      <4>1. /\ i + 1 \in 1 .. n + 2 /\ i + 2 \in 1 .. n + 2
            /\ i + 1 > n - j /\ i + 2 > n - j
        BY <1>0, <3>2
      <4>2. f[i + 1] = g[i + 1] /\ f[i + 2] = g[i + 2]
        BY <2>2, <4>1
      <4>3. ValueAt(s, f, i) = ValueAt(s, g, i)
        BY <4>2 DEF ValueAt
      <4> QED BY <2>0, <4>3
    <3> QED BY <3>1, <3>2
  <2>3. \A j \in Nat : 0 =< j => j \in S
    <3> HIDE DEF S
    <3> QED BY <2>1, <2>2, NumbersFrom
  <2>4. n \in S
    <3> HIDE DEF S
    <3> QED BY <1>0, <2>3
  <2>5. \A i \in 1 .. n + 2 : i > n - n
    BY <1>0
  <2> QED BY <2>4, <2>5
<1>12. 1 \in 1 .. n + 2
  BY <1>0
<1>13. ASSUME NEW g, Evaluating(s, g) PROVE TemplateValue(s) = g[1]
  <2> HIDE DEF n
  <2> QED BY <1>9, <1>10, <1>11, <1>12, <1>13
<1> QED BY <1>4, <1>6, <1>13

LEMMA ValueLater ==
  ASSUME NEW T, NEW t \in Seq(T), NEW u \in Seq(T), NEW k \in Nat, Len(u) = Len(t) + k,
         Later(u, t, k, Len(t)), NEW f, NEW g, Evaluating(t, g), Later(f, g, k, Len(t) + 2)
  PROVE  \A j \in k + 1 .. Len(u) + 2 : f[j] = ValueAt(u, f, j)
<1> SUFFICES ASSUME NEW j \in k + 1 .. Len(u) + 2 PROVE f[j] = ValueAt(u, f, j)
  OBVIOUS
<1> DEFINE i == j - k
           n == Len(t)
<1>1. n \in Nat /\ i \in 1 .. n + 2 /\ j = i + k
  OBVIOUS
<1>2. f[j] = g[i] /\ g[i] = ValueAt(t, g, i)
  <2> HIDE DEF i
  <2> QED BY <1>1 DEF Evaluating, Later
<1>3. ValueAt(u, f, j) = ValueAt(t, g, i)
  <2> HIDE DEF i
  <2>1. CASE i > n
    BY <1>1, <2>1 DEF ValueAt
  <2>2. CASE ~(i > n)
    <3>1. u[j] = t[i] /\ ~(j > Len(u)) /\ ~(i > Len(t)) /\ (j < Len(u) <=> i < Len(t))
      <4>1. i \in 1 .. Len(t)
        BY <1>1, <2>2
      <4> QED BY <1>1, <2>2, <4>1 DEF Later
    <3>2. i < Len(t) => u[j + 1] = t[i + 1]
      <4> SUFFICES ASSUME i < n PROVE u[j + 1] = t[i + 1]
        OBVIOUS
      <4>1. i + 1 \in 1 .. n /\ (i + 1) + k = j + 1
        BY <1>1, <2>2
      <4> QED BY <4>1 DEF Later
    <3>3. /\ i + 1 \in 1 .. n + 2 /\ (i + 1) + k = j + 1
          /\ i + 2 \in 1 .. n + 2 /\ (i + 2) + k = j + 2
      BY <1>1, <2>2
    <3>4. f[j + 1] = g[i + 1] /\ f[j + 2] = g[i + 2]
      <4>1. \A m \in 1 .. n + 2 : f[m + k] = g[m]
        BY DEF Later
      <4> HIDE DEF n
      <4> QED BY <3>3, <4>1
    <3>5. CASE i < Len(t)
      <4>1. j < Len(u) /\ u[j + 1] = t[i + 1]
        BY <3>1, <3>2, <3>5
      <4> HIDE DEF n
      <4> QED BY <3>1, <3>4, <3>5, <4>1 DEF ValueAt
    <3>6. CASE ~(i < Len(t))
      <4>1. ~(j < Len(u))
        BY <3>1, <3>6
      <4> HIDE DEF n
      <4> QED BY <3>1, <3>4, <3>6, <4>1 DEF ValueAt
    <3> QED BY <3>5, <3>6
  <2> QED BY <2>1, <2>2
<1> QED BY <1>2, <1>3

LEMMA ValueOfNothing == TemplateValue(<<>>) = <<>>
<1> DEFINE f == [i \in 1 .. 2 |-> <<>>]
<1>1. Len(<<>>) = 0 /\ <<>> \in Seq(Special) /\ f[1] = <<>>
  OBVIOUS
<1>2. Evaluating(<<>>, f)
  <2> SUFFICES ASSUME NEW i \in 1 .. Len(<<>>) + 2 PROVE f[i] = ValueAt(<<>>, f, i)
    BY DEF Evaluating
  <2>1. i \in 1 .. 2 /\ f[i] = <<>> /\ i > Len(<<>>)
    BY <1>1
  <2> HIDE DEF f
  <2> QED BY <2>1 DEF ValueAt
<1> HIDE DEF f
<1>3. TemplateValue(<<>>) = f[1]
  BY <1>1, <1>2, TemplateEvaluates
<1> QED BY <1>1, <1>3

(* A character before t that is one character of the value.                *)
Alone(x, t, c) ==
  \/ x \notin {"\\", "quote", "$", "CR"} /\ c = x
  \/ x = "CR" /\ c = "LF" /\ (t = <<>> \/ t[1] # "LF")

LEMMA ValueOfChar ==
  ASSUME NEW T, Special \subseteq T, NEW x \in T, NEW c \in T, NEW t \in Seq(T), Alone(x, t, c)
  PROVE  TemplateValue(Cons(x, t)) = Cons(c, TemplateValue(t))
<1> DEFINE n == Len(t)
           u == Cons(x, t)
<1>1. u \in Seq(T) /\ Len(u) = n + 1 /\ u[1] = x /\ \A i \in 1 .. n : u[i + 1] = t[i]
  <2>1. x \in T /\ t \in Seq(T)
    OBVIOUS
  <2>2. u \in Seq(T) /\ Len(u) = Len(t) + 1 /\ u[1] = x
    BY <2>1, OneBefore
  <2>3. \A i \in 1 .. Len(t) : u[i + 1] = t[i]
    BY <2>1, OneBefore
  <2> QED BY <2>2, <2>3
<1>2. PICK g \in [1 .. n + 2 -> Seq(T)] : Evaluating(t, g) /\ TemplateValue(t) = g[1]
  BY TemplateEvaluates
<1> DEFINE f == [i \in 1 .. n + 3 |-> IF i = 1 THEN Cons(c, g[1]) ELSE g[i - 1]]
<1>3. n \in Nat /\ (t = <<>> \/ t[1] # "LF" <=> (1 < n + 1 => t[1] # "LF"))
  OBVIOUS
<1> HIDE DEF n, u
<1>4. f[1] = Cons(c, g[1]) /\ \A i \in 1 .. n + 2 : f[i + 1] = g[i]
  <2>1. 1 \in 1 .. n + 3
    BY <1>3
  <2>2. \A i \in 1 .. n + 2 : i + 1 \in 1 .. n + 3 /\ i + 1 # 1 /\ (i + 1) - 1 = i
    BY <1>3
  <2> QED BY <2>1, <2>2
<1> HIDE DEF f
<1>5. \A j \in 1 + 1 .. Len(u) + 2 : f[j] = ValueAt(u, f, j)
  <2>1. u \in Seq(T) /\ Len(u) = Len(t) + 1 /\ Evaluating(t, g) /\ 1 \in Nat
    BY <1>1, <1>2, <1>4 DEF n
  <2>2. Later(u, t, 1, Len(t))
    BY <1>1, <1>2, <1>4 DEF n, Later
  <2>3. Later(f, g, 1, Len(t) + 2)
    BY <1>1, <1>2, <1>4 DEF n, Later
  <2> HIDE DEF n, u
  <2> QED BY <2>1, <2>2, <2>3, ValueLater
<1>6. f[1] = ValueAt(u, f, 1)
  <2>1. f[1 + 1] = g[1]
    BY <1>3, <1>4
  <2>2. 1 < n + 1 => u[1 + 1] = t[1]
    BY <1>1, <1>3
  <2>3. f[1] = <<c>> \o f[1 + 1] /\ ~(1 > Len(u))
    BY <1>1, <1>3, <1>4, <2>1 DEF Cons
  <2>4. CASE x \notin {"\\", "quote", "$", "CR"} /\ c = x
    BY <1>1, <2>3, <2>4 DEF ValueAt
  <2>5. CASE x = "CR" /\ c = "LF" /\ (t = <<>> \/ t[1] # "LF")
    <3>1. 1 < Len(u) => u[1 + 1] # "LF"
      BY <1>1, <1>3, <2>2, <2>5
    <3> DEFINE next == IF 1 < Len(u) THEN u[1 + 1] ELSE "end"
    <3>2. ValueAt(u, f, 1) = <<"LF">> \o f[IF next = "LF" THEN 1 + 2 ELSE 1 + 1]
      BY <1>1, <2>3, <2>5 DEF ValueAt
    <3>3. next # "LF"
      BY <3>1
    <3> HIDE DEF next
    <3> QED BY <2>3, <2>5, <3>2, <3>3
  <2> QED BY <2>4, <2>5 DEF Alone
<1>7. Evaluating(u, f)
  <2>1. \A j \in 1 .. Len(u) + 2 : j = 1 \/ j \in 1 + 1 .. Len(u) + 2
    BY <1>1, <1>3
  <2> QED BY <1>5, <1>6, <2>1 DEF Evaluating
<1>8. TemplateValue(u) = f[1]
  BY <1>1, <1>7, TemplateEvaluates
<1> QED BY <1>2, <1>4, <1>8 DEF u

(* Two characters that are one of the value.                               *)
Paired(x, y, c) ==
  \/ x = "\\" /\ y # "n" /\ c = y
  \/ x = "CR" /\ y = "LF" /\ c = "LF"

LEMMA ValueOfTwo ==
  ASSUME NEW T, Special \subseteq T, NEW x \in T, NEW y \in T, NEW c \in T, NEW t \in Seq(T), Paired(x, y, c)
  PROVE  TemplateValue(Cons(x, Cons(y, t))) = Cons(c, TemplateValue(t))
<1> DEFINE n == Len(t)
           v == Cons(y, t)
           u == Cons(x, v)
<1>1. v \in Seq(T) /\ Len(v) = n + 1 /\ v[1] = y /\ \A i \in 1 .. n : v[i + 1] = t[i]
  BY OneBefore
<1>2. n \in Nat
  OBVIOUS
<1> HIDE DEF v
<1>3. u \in Seq(T) /\ Len(u) = Len(v) + 1 /\ u[1] = x /\ \A i \in 1 .. Len(v) : u[i + 1] = v[i]
  <2>1. x \in T /\ v \in Seq(T)
    BY <1>1
  <2>2. u \in Seq(T) /\ Len(u) = Len(v) + 1 /\ u[1] = x
    BY <2>1, OneBefore
  <2>3. \A i \in 1 .. Len(v) : u[i + 1] = v[i]
    BY <2>1, OneBefore
  <2> QED BY <2>2, <2>3
<1> HIDE DEF u, n
<1>4. Len(u) = n + 2 /\ u[1] = x /\ u[1 + 1] = y /\ \A i \in 1 .. n : u[i + 2] = t[i]
  <2>1. \A i \in 1 .. n : i + 1 \in 1 .. Len(v) /\ (i + 1) + 1 = i + 2
    BY <1>1, <1>2
  <2>2. 1 \in 1 .. Len(v) /\ Len(u) = n + 2
    BY <1>1, <1>2, <1>3
  <2>3. \A i \in 1 .. n : u[(i + 1) + 1] = v[i + 1] /\ v[i + 1] = t[i]
    BY <1>1, <1>3, <2>1
  <2> QED BY <1>1, <1>3, <2>1, <2>2, <2>3
<1>5. PICK g \in [1 .. n + 2 -> Seq(T)] : Evaluating(t, g) /\ TemplateValue(t) = g[1]
  BY TemplateEvaluates DEF n
<1> DEFINE b == [i \in 1 .. n + 4 |-> IF i < 3 THEN <<>> ELSE g[i - 2]]
           f == [i \in 1 .. n + 4 |-> IF i = 1 THEN Cons(c, g[1])
                                       ELSE IF i = 2 THEN ValueAt(u, b, 2) ELSE g[i - 2]]
<1>6. f[1] = Cons(c, g[1]) /\ f[2] = ValueAt(u, b, 2) /\ \A i \in 1 .. n + 2 : f[i + 2] = g[i] /\ b[i + 2] = g[i]
  <2>1. 1 \in 1 .. n + 4 /\ 2 \in 1 .. n + 4
    BY <1>2
  <2>2. \A i \in 1 .. n + 2 : i + 2 \in 1 .. n + 4 /\ i + 2 # 1 /\ i + 2 # 2 /\ (i + 2) - 2 = i /\ ~(i + 2 < 3)
    BY <1>2
  <2> QED BY <2>1, <2>2
<1> HIDE DEF f, b
<1>7. \A j \in 2 + 1 .. Len(u) + 2 : f[j] = ValueAt(u, f, j)
  <2>1. u \in Seq(T) /\ Len(u) = Len(t) + 2 /\ Evaluating(t, g) /\ 2 \in Nat
    BY <1>3, <1>4, <1>5, <1>6 DEF n
  <2>2. Later(u, t, 2, Len(t))
    BY <1>3, <1>4, <1>5, <1>6 DEF n, Later
  <2>3. Later(f, g, 2, Len(t) + 2)
    BY <1>3, <1>4, <1>5, <1>6 DEF n, Later
  <2> HIDE DEF n, u
  <2> QED BY <2>1, <2>2, <2>3, ValueLater
<1>8. f[1 + 2] = g[1] /\ b[1 + 2] = g[1] /\ f[2 + 2] = g[2] /\ b[2 + 2] = g[2]
  BY <1>2, <1>6
<1>9. f[1] = ValueAt(u, f, 1)
  <2>1. ~(1 > Len(u)) /\ 1 < Len(u) /\ f[1] = <<c>> \o f[1 + 2]
    BY <1>2, <1>4, <1>6, <1>8 DEF Cons
  <2>2. CASE x = "\\" /\ y # "n" /\ c = y
    BY <1>4, <2>1, <2>2 DEF ValueAt
  <2>3. CASE x = "CR" /\ y = "LF" /\ c = "LF"
    BY <1>4, <2>1, <2>3 DEF ValueAt
  <2> QED BY <2>2, <2>3 DEF Paired
<1>10. f[2] = ValueAt(u, f, 2)
  <2>0. 2 + 1 = 1 + 2
    OBVIOUS
  <2>1. f[2 + 1] = b[2 + 1] /\ f[2 + 2] = b[2 + 2]
    BY <1>8, <2>0
  <2>2. ValueAt(u, f, 2) = ValueAt(u, b, 2)
    BY <2>1 DEF ValueAt
  <2> QED BY <1>6, <2>2
<1>11. Evaluating(u, f)
  <2>1. \A j \in 1 .. Len(u) + 2 : j = 1 \/ j = 2 \/ j \in 2 + 1 .. Len(u) + 2
    BY <1>2, <1>4
  <2> QED BY <1>7, <1>9, <1>10, <2>1 DEF Evaluating
<1>12. TemplateValue(u) = f[1]
  BY <1>3, <1>11, TemplateEvaluates
<1> QED BY <1>5, <1>6, <1>12 DEF u, v

(* What is escaped for a template, and what of it begins with a line feed. *)
LEMMA EscapeForTemplateCons ==
  ASSUME NEW T, Special \subseteq T, NEW x \in T, NEW t \in Seq(T)
  PROVE  /\ EscapeForTemplate(t) \in Seq(T)
         /\ EscapeForTemplate(Cons(x, t))
              = IF x \in {"\\", "quote", "$"} THEN Cons("\\", Cons(x, EscapeForTemplate(t)))
                ELSE Cons(x, EscapeForTemplate(t))
<1> DEFINE A(s) == Substituted(s, "\\", <<"\\", "\\">>)
           B(s) == Substituted(s, "quote", <<"\\", "quote">>)
           C(s) == Substituted(s, "$", <<"\\", "$">>)
<1>0. "\\" \in T /\ "quote" \in T /\ "$" \in T
  BY DEF Special
<1>1. ASSUME NEW y \in T, NEW s \in Seq(T)
      PROVE  /\ A(s) \in Seq(T)
             /\ A(Cons(y, s)) = IF y = "\\" THEN Cons("\\", Cons("\\", A(s))) ELSE Cons(y, A(s))
  <2> DEFINE by == <<"\\", "\\">>
             a_ == "\\"
             b_ == "\\"
             c_ == "\\"
  <2>1. Two(by, a_, b_) /\ a_ \in T /\ b_ \in T
    BY <1>0 DEF Two
  <2> HIDE DEF by, a_, b_, c_
  <2>2. /\ Substituted(s, c_, by) \in Seq(T)
        /\ Substituted(Cons(y, s), c_, by)
             = IF y = c_ THEN Cons(a_, Cons(b_, Substituted(s, c_, by))) ELSE Cons(y, Substituted(s, c_, by))
    BY <2>1, SubstitutedCons
  <2> QED BY <2>2 DEF by, a_, b_, c_
<1>2. ASSUME NEW y \in T, NEW s \in Seq(T)
      PROVE  /\ B(s) \in Seq(T)
             /\ B(Cons(y, s)) = IF y = "quote" THEN Cons("\\", Cons("quote", B(s))) ELSE Cons(y, B(s))
  <2> DEFINE by == <<"\\", "quote">>
             a_ == "\\"
             b_ == "quote"
             c_ == "quote"
  <2>1. Two(by, a_, b_) /\ a_ \in T /\ b_ \in T
    BY <1>0 DEF Two
  <2> HIDE DEF by, a_, b_, c_
  <2>2. /\ Substituted(s, c_, by) \in Seq(T)
        /\ Substituted(Cons(y, s), c_, by)
             = IF y = c_ THEN Cons(a_, Cons(b_, Substituted(s, c_, by))) ELSE Cons(y, Substituted(s, c_, by))
    BY <2>1, SubstitutedCons
  <2> QED BY <2>2 DEF by, a_, b_, c_
<1>3. ASSUME NEW y \in T, NEW s \in Seq(T)
      PROVE  /\ C(s) \in Seq(T)
             /\ C(Cons(y, s)) = IF y = "$" THEN Cons("\\", Cons("$", C(s))) ELSE Cons(y, C(s))
  <2> DEFINE by == <<"\\", "$">>
             a_ == "\\"
             b_ == "$"
             c_ == "$"
  <2>1. Two(by, a_, b_) /\ a_ \in T /\ b_ \in T
    BY <1>0 DEF Two
  <2> HIDE DEF by, a_, b_, c_
  <2>2. /\ Substituted(s, c_, by) \in Seq(T)
        /\ Substituted(Cons(y, s), c_, by)
             = IF y = c_ THEN Cons(a_, Cons(b_, Substituted(s, c_, by))) ELSE Cons(y, Substituted(s, c_, by))
    BY <2>1, SubstitutedCons
  <2> QED BY <2>2 DEF by, a_, b_, c_
<1>4. \A s : EscapeForTemplate(s) = C(B(A(s)))
  BY DEF EscapeForTemplate
<1>5. \A y \in T, s \in Seq(T) : Cons(y, s) \in Seq(T)
  BY OneBefore
<1> HIDE DEF A, B, C
<1>6. A(t) \in Seq(T) /\ B(A(t)) \in Seq(T) /\ C(B(A(t))) \in Seq(T)
  BY <1>1, <1>2, <1>3
<1> DEFINE a == A(t)
           b == B(a)
           c == C(b)
<1>7. a \in Seq(T) /\ b \in Seq(T) /\ c \in Seq(T) /\ EscapeForTemplate(t) = c
  BY <1>4, <1>6
<1>8. CASE x = "\\"
  <2>1. A(Cons(x, t)) = Cons("\\", Cons("\\", a))
    BY <1>1, <1>8
  <2>2. B(Cons("\\", Cons("\\", a))) = Cons("\\", Cons("\\", b))
    <3> DEFINE d == Cons("\\", a)
    <3> HIDE DEF a
    <3>1. d \in Seq(T) /\ B(d) = Cons("\\", b)
      BY <1>0, <1>2, <1>5, <1>7
    <3> HIDE DEF d
    <3>2. B(Cons("\\", d)) = Cons("\\", B(d))
      BY <1>0, <1>2, <3>1
    <3> QED BY <3>1, <3>2 DEF d
  <2>3. C(Cons("\\", Cons("\\", b))) = Cons("\\", Cons("\\", c))
    <3> DEFINE d == Cons("\\", b)
    <3> HIDE DEF b
    <3>1. d \in Seq(T) /\ C(d) = Cons("\\", c)
      BY <1>0, <1>3, <1>5, <1>7
    <3> HIDE DEF d
    <3>2. C(Cons("\\", d)) = Cons("\\", C(d))
      BY <1>0, <1>3, <3>1
    <3> QED BY <3>1, <3>2 DEF d
  <2> HIDE DEF a, b, c
  <2> QED BY <1>4, <1>7, <1>8, <2>1, <2>2, <2>3
<1>9. CASE x = "quote"
  <2>1. A(Cons(x, t)) = Cons("quote", a)
    BY <1>1, <1>9
  <2>2. B(Cons("quote", a)) = Cons("\\", Cons("quote", b))
    <3> HIDE DEF a
    <3> QED BY <1>0, <1>2, <1>7
  <2>3. C(Cons("\\", Cons("quote", b))) = Cons("\\", Cons("quote", c))
    <3> DEFINE d == Cons("quote", b)
    <3> HIDE DEF b
    <3>1. d \in Seq(T) /\ C(d) = Cons("quote", c)
      BY <1>0, <1>3, <1>5, <1>7
    <3> HIDE DEF d
    <3>2. C(Cons("\\", d)) = Cons("\\", C(d))
      BY <1>0, <1>3, <3>1
    <3> QED BY <3>1, <3>2 DEF d
  <2> HIDE DEF a, b, c
  <2> QED BY <1>4, <1>7, <1>9, <2>1, <2>2, <2>3
<1>10. CASE x = "$"
  <2>1. A(Cons(x, t)) = Cons("$", a)
    BY <1>1, <1>10
  <2>2. B(Cons("$", a)) = Cons("$", b)
    <3> HIDE DEF a
    <3> QED BY <1>0, <1>2, <1>7
  <2>3. C(Cons("$", b)) = Cons("\\", Cons("$", c))
    <3> HIDE DEF b
    <3> QED BY <1>0, <1>3, <1>7
  <2> HIDE DEF a, b, c
  <2> QED BY <1>4, <1>7, <1>10, <2>1, <2>2, <2>3
<1>11. CASE x \notin {"\\", "quote", "$"}
  <2>1. A(Cons(x, t)) = Cons(x, a)
    BY <1>1, <1>11
  <2>2. B(Cons(x, a)) = Cons(x, b)
    <3> HIDE DEF a
    <3> QED BY <1>2, <1>7, <1>11
  <2>3. C(Cons(x, b)) = Cons(x, c)
    <3> HIDE DEF b
    <3> QED BY <1>3, <1>7, <1>11
  <2> HIDE DEF a, b, c
  <2> QED BY <1>4, <1>7, <1>11, <2>1, <2>2, <2>3
<1> QED BY <1>8, <1>9, <1>10, <1>11

LEMMA EscapeForTemplateNone == EscapeForTemplate(<<>>) = <<>>
BY SubstitutedNone DEF EscapeForTemplate

(* A line feed: alone, or behind a carriage return.                        *)
NoLineFeed(t) == t = <<>> \/ t[1] # "LF"
LineFeed(s, i) ==
  IF s[i] = "LF" /\ i > 1 /\ s[i - 1] = "CR" THEN <<>>
  ELSE IF s[i] = "CR" THEN <<"LF">> ELSE <<s[i]>>
LineFeedParts(s) == [i \in DOMAIN s |-> LineFeed(s, i)]

LEMMA PartsOfLines ==
  ASSUME NEW T, "LF" \in T, NEW s \in Seq(T)
  PROVE  /\ LineFeedParts(s) \in Seq(Seq(T)) /\ Len(LineFeedParts(s)) = Len(s)
         /\ \A i \in 1 .. Len(s) : LineFeedParts(s)[i] = LineFeed(s, i)
         /\ LineFeeds(s) = FlattenSeq(LineFeedParts(s))
         /\ LineFeeds(s) \in Seq(T)
<1> DEFINE r == LineFeedParts(s)
<1>1. \A i \in 1 .. Len(s) : LineFeed(s, i) \in Seq(T)
  <2> SUFFICES ASSUME NEW i \in 1 .. Len(s) PROVE LineFeed(s, i) \in Seq(T)
    OBVIOUS
  <2>1. s[i] \in T
    OBVIOUS
  <2>2. <<"LF">> \in Seq(T) /\ <<>> \in Seq(T) /\ <<s[i]>> \in Seq(T)
    BY <2>1
  <2> QED BY <2>2 DEF LineFeed
<1>2. DOMAIN s = 1 .. Len(s) /\ Len(s) \in Nat
  OBVIOUS
<1>3. r \in Seq(Seq(T)) /\ Len(r) = Len(s) /\ \A i \in 1 .. Len(s) : r[i] = LineFeed(s, i)
  BY <1>1, <1>2 DEF LineFeedParts
<1>4. LineFeeds(s) = FlattenSeq(r)
  BY DEF LineFeeds, LineFeedParts, LineFeed
<1> HIDE DEF r
<1>5. FlattenSeq(r) \in Seq(T)
  BY <1>3, FlattenType
<1> QED BY <1>3, <1>4, <1>5 DEF r

(* A character whose line end does not reach into t.                       *)
LEMMA LineFeedsOfChar ==
  ASSUME NEW T, "LF" \in T, NEW x \in T, NEW c \in T, NEW t \in Seq(T),
         c = (IF x = "CR" THEN "LF" ELSE x), x = "CR" => NoLineFeed(t)
  PROVE  LineFeeds(Cons(x, t)) = Cons(c, LineFeeds(t))
<1> DEFINE u == Cons(x, t)
           q == LineFeedParts(u)
           r == LineFeedParts(t)
           p == <<c>>
           d == Cons(p, r)
<1>1. u \in Seq(T) /\ Len(u) = Len(t) + 1 /\ u[1] = x /\ \A i \in 1 .. Len(t) : u[i + 1] = t[i]
  <2>1. u \in Seq(T) /\ Len(u) = Len(t) + 1 /\ u[1] = x
    BY OneBefore
  <2>2. \A i \in 1 .. Len(t) : u[i + 1] = t[i]
    BY OneBefore
  <2> QED BY <2>1, <2>2
<1>2. p \in Seq(T) /\ Len(t) \in Nat /\ (x = "CR" /\ Len(t) # 0 => t[1] # "LF")
  BY DEF NoLineFeed
<1> HIDE DEF u
<1>3. /\ q \in Seq(Seq(T)) /\ Len(q) = Len(t) + 1 /\ LineFeeds(u) = FlattenSeq(q)
      /\ \A i \in 1 .. Len(t) + 1 : q[i] = LineFeed(u, i)
  <2>1. u \in Seq(T)
    BY <1>1
  <2>2. q \in Seq(Seq(T)) /\ Len(q) = Len(u) /\ LineFeeds(u) = FlattenSeq(q)
    BY <2>1, PartsOfLines
  <2>3. \A i \in 1 .. Len(u) : q[i] = LineFeed(u, i)
    BY <2>1, PartsOfLines
  <2> HIDE DEF q
  <2> QED BY <1>1, <2>2, <2>3
<1>4. r \in Seq(Seq(T)) /\ Len(r) = Len(t) /\ LineFeeds(t) = FlattenSeq(r) /\ LineFeeds(t) \in Seq(T)
  BY PartsOfLines
<1>5. \A i \in 1 .. Len(t) : r[i] = LineFeed(t, i)
  BY PartsOfLines
<1> HIDE DEF q, r
<1>6. d \in Seq(Seq(T)) /\ Len(d) = Len(t) + 1 /\ d[1] = p /\ \A i \in 1 .. Len(t) : d[i + 1] = r[i]
  <2> HIDE DEF p
  <2>1. p \in Seq(T) /\ r \in Seq(Seq(T))
    BY <1>2, <1>4
  <2>2. d \in Seq(Seq(T)) /\ Len(d) = Len(r) + 1 /\ d[1] = p
    BY <2>1, OneBefore
  <2>3. \A i \in 1 .. Len(r) : d[i + 1] = r[i]
    BY <2>1, OneBefore
  <2> HIDE DEF d
  <2> QED BY <1>4, <2>2, <2>3
<1> HIDE DEF d
<1>7. ASSUME NEW i \in 1 .. Len(q) PROVE q[i] = d[i]
  <2>1. CASE i = 1
    <3>1. q[1] = LineFeed(u, 1)
      BY <1>2, <1>3
    <3>2. LineFeed(u, 1) = p
      BY <1>1 DEF LineFeed
    <3> HIDE DEF p
    <3> QED BY <1>6, <2>1, <3>1, <3>2
  <2>2. CASE i # 1
    <3> DEFINE j == i - 1
    <3>1. j \in 1 .. Len(t) /\ i = j + 1 /\ (j + 1) - 1 = j /\ j + 1 > 1
      BY <1>2, <1>3, <2>2
    <3> HIDE DEF j
    <3>2. q[i] = LineFeed(u, j + 1) /\ d[i] = LineFeed(t, j)
      BY <1>3, <1>5, <1>6, <3>1
    <3>3. u[j + 1] = t[j]
      BY <1>1, <3>1
    <3>4. LineFeed(u, j + 1) = LineFeed(t, j)
      <4>1. CASE j = 1
        <5>1. u[(j + 1) - 1] = x /\ ~(j > 1) /\ Len(t) # 0
          BY <1>1, <3>1, <4>1
        <5>2. x # "CR" \/ t[j] # "LF"
          BY <1>2, <4>1, <5>1
        <5> QED BY <3>1, <3>3, <5>1, <5>2 DEF LineFeed
      <4>2. CASE j # 1
        <5>1. j - 1 \in 1 .. Len(t) /\ (j - 1) + 1 = j /\ j > 1
          BY <3>1, <4>2
        <5>2. u[j] = t[j - 1]
          BY <1>1, <5>1
        <5>3. u[(j + 1) - 1] = t[j - 1]
          BY <3>1, <5>2
        <5> QED BY <3>1, <3>3, <5>1, <5>3 DEF LineFeed
      <4> QED BY <4>1, <4>2
    <3> QED BY <3>2, <3>4
  <2> QED BY <2>1, <2>2
<1>8. q = d
  <2>1. Len(q) = Len(d)
    BY <1>3, <1>6
  <2> QED BY <1>3, <1>6, <1>7, <2>1, SeqEqual
<1>9. FlattenSeq(d) = Join(p, FlattenSeq(r))
  <2> HIDE DEF p
  <2> QED BY <1>2, <1>4, FlattenCons DEF d
<1> QED BY <1>3, <1>4, <1>8, <1>9 DEF u, Join, Cons, p

(* A carriage return and a line feed are one line end.                     *)
LEMMA LineFeedsOfTwo ==
  ASSUME NEW T, "LF" \in T, "CR" \in T, NEW t \in Seq(T)
  PROVE  LineFeeds(Cons("CR", Cons("LF", t))) = Cons("LF", LineFeeds(t))
<1> DEFINE a == "CR"
           b == "LF"
           v == Cons(b, t)
           u == Cons(a, v)
           q == LineFeedParts(u)
           r == LineFeedParts(t)
           p == <<"LF">>
           e == Cons(<<>>, r)
           d == Cons(p, e)
<1>0. a \in T /\ b \in T /\ p \in Seq(T) /\ <<>> \in Seq(T) /\ Len(t) \in Nat
  OBVIOUS
<1> HIDE DEF a, b, p
<1>1. v \in Seq(T) /\ Len(v) = Len(t) + 1 /\ v[1] = b /\ \A i \in 1 .. Len(t) : v[i + 1] = t[i]
  <2>1. v \in Seq(T) /\ Len(v) = Len(t) + 1 /\ v[1] = b
    BY <1>0, OneBefore
  <2>2. \A i \in 1 .. Len(t) : v[i + 1] = t[i]
    BY <1>0, OneBefore
  <2> QED BY <2>1, <2>2
<1> HIDE DEF v
<1>2. u \in Seq(T) /\ Len(u) = Len(v) + 1 /\ u[1] = a /\ \A i \in 1 .. Len(v) : u[i + 1] = v[i]
  <2>1. u \in Seq(T) /\ Len(u) = Len(v) + 1 /\ u[1] = a
    BY <1>0, <1>1, OneBefore
  <2>2. \A i \in 1 .. Len(v) : u[i + 1] = v[i]
    <3>1. a \in T /\ v \in Seq(T)
      BY <1>0, <1>1
    <3> QED BY <3>1, OneBefore DEF u
  <2> QED BY <2>1, <2>2
<1> HIDE DEF u
<1>3. Len(u) = Len(t) + 2 /\ u[1] = a /\ u[2] = b /\ \A i \in 1 .. Len(t) : u[i + 2] = t[i]
  <2>1. \A i \in 1 .. Len(t) : i + 1 \in 1 .. Len(v) /\ (i + 1) + 1 = i + 2
    BY <1>0, <1>1
  <2>2. 1 \in 1 .. Len(v) /\ 1 + 1 = 2 /\ Len(u) = Len(t) + 2
    BY <1>0, <1>1, <1>2
  <2>3. \A i \in 1 .. Len(t) : u[(i + 1) + 1] = v[i + 1] /\ v[i + 1] = t[i]
    BY <1>1, <1>2, <2>1
  <2>4. u[2] = b
    BY <1>1, <1>2, <2>2
  <2> QED BY <1>2, <2>1, <2>2, <2>3, <2>4
<1>4. /\ q \in Seq(Seq(T)) /\ Len(q) = Len(t) + 2 /\ LineFeeds(u) = FlattenSeq(q)
      /\ \A i \in 1 .. Len(t) + 2 : q[i] = LineFeed(u, i)
  <2>1. u \in Seq(T) /\ b \in T
    BY <1>0, <1>2
  <2>2. q \in Seq(Seq(T)) /\ Len(q) = Len(u) /\ LineFeeds(u) = FlattenSeq(q)
    BY <2>1, PartsOfLines DEF b
  <2>3. \A i \in 1 .. Len(u) : q[i] = LineFeed(u, i)
    BY <2>1, PartsOfLines DEF b
  <2> HIDE DEF q
  <2> QED BY <1>3, <2>2, <2>3
<1>5. r \in Seq(Seq(T)) /\ Len(r) = Len(t) /\ LineFeeds(t) = FlattenSeq(r) /\ LineFeeds(t) \in Seq(T)
  BY PartsOfLines
<1>6. \A i \in 1 .. Len(t) : r[i] = LineFeed(t, i)
  BY PartsOfLines
<1> HIDE DEF q, r
<1>7. e \in Seq(Seq(T)) /\ Len(e) = Len(t) + 1 /\ e[1] = <<>> /\ \A i \in 1 .. Len(t) : e[i + 1] = r[i]
  <2> DEFINE z == <<>>
  <2>1. z \in Seq(T) /\ r \in Seq(Seq(T)) /\ e = Cons(z, r)
    BY <1>0, <1>5
  <2> HIDE DEF z, e
  <2>2. e \in Seq(Seq(T)) /\ Len(e) = Len(r) + 1 /\ e[1] = z
    BY <2>1, OneBefore
  <2>3. \A i \in 1 .. Len(r) : Cons(z, r)[i + 1] = r[i]
    <3>1. z \in Seq(T) /\ r \in Seq(Seq(T))
      BY <2>1
    <3> QED BY <3>1, OneBefore
  <2> QED BY <1>5, <2>1, <2>2, <2>3 DEF z
<1> HIDE DEF e
<1>8. d \in Seq(Seq(T)) /\ Len(d) = Len(e) + 1 /\ d[1] = p /\ \A i \in 1 .. Len(e) : d[i + 1] = e[i]
  <2>1. d \in Seq(Seq(T)) /\ Len(d) = Len(e) + 1 /\ d[1] = p
    BY <1>0, <1>7, OneBefore
  <2>2. \A i \in 1 .. Len(e) : d[i + 1] = e[i]
    <3>1. p \in Seq(T) /\ e \in Seq(Seq(T))
      BY <1>0, <1>7
    <3> QED BY <3>1, OneBefore DEF d
  <2> QED BY <2>1, <2>2
<1> HIDE DEF d
<1>9. ASSUME NEW i \in 1 .. Len(q) PROVE q[i] = d[i]
  <2>0. i \in 1 .. Len(t) + 2
    BY <1>4
  <2>1. CASE i = 1
    <3>1. q[1] = LineFeed(u, 1)
      BY <1>0, <1>4
    <3>2. LineFeed(u, 1) = p
      BY <1>3 DEF LineFeed, a, p
    <3> QED BY <1>8, <2>1, <3>1, <3>2
  <2>2. CASE i = 2
    <3>1. q[2] = LineFeed(u, 2) /\ 2 - 1 = 1 /\ 2 > 1 /\ 1 + 1 = 2 /\ 1 \in 1 .. Len(e)
      BY <1>0, <1>4, <1>7
    <3>2. LineFeed(u, 2) = <<>>
      BY <1>3, <3>1 DEF LineFeed, a, b
    <3>3. d[2] = <<>>
      BY <1>7, <1>8, <3>1
    <3> QED BY <2>2, <3>1, <3>2, <3>3
  <2>3. CASE i # 1 /\ i # 2
    <3> DEFINE j == i - 2
    <3>1. j \in 1 .. Len(t) /\ i = j + 2 /\ (j + 2) - 1 = j + 1 /\ j + 2 > 1
          /\ j + 1 \in 1 .. Len(e) /\ (j + 1) + 1 = j + 2
      BY <1>0, <1>7, <2>0, <2>3
    <3> HIDE DEF j
    <3>2. q[i] = LineFeed(u, j + 2)
      BY <1>4, <2>0, <3>1
    <3>3. d[i] = LineFeed(t, j)
      <4>1. d[(j + 1) + 1] = e[j + 1] /\ e[j + 1] = r[j] /\ r[j] = LineFeed(t, j)
        BY <1>6, <1>7, <1>8, <3>1
      <4> QED BY <3>1, <4>1
    <3>4. u[j + 2] = t[j]
      BY <1>3, <3>1
    <3>5. LineFeed(u, j + 2) = LineFeed(t, j)
      <4>1. CASE j = 1
        <5>1. u[(j + 2) - 1] = b /\ ~(j > 1)
          BY <1>3, <3>1, <4>1
        <5>2. b # "CR"
          BY DEF b
        <5> QED BY <3>1, <3>4, <5>1, <5>2 DEF LineFeed
      <4>2. CASE j # 1
        <5>1. j - 1 \in 1 .. Len(t) /\ (j - 1) + 2 = j + 1 /\ j > 1
          BY <3>1, <4>2
        <5>2. u[j + 1] = t[j - 1]
          BY <1>3, <5>1
        <5>3. u[(j + 2) - 1] = t[j - 1]
          BY <3>1, <5>2
        <5> QED BY <3>1, <3>4, <5>1, <5>3 DEF LineFeed
      <4> QED BY <4>1, <4>2
    <3> QED BY <3>2, <3>3, <3>5
  <2> QED BY <2>1, <2>2, <2>3
<1>10. q = d
  <2>1. Len(q) = Len(d)
    BY <1>0, <1>4, <1>7, <1>8
  <2> QED BY <1>4, <1>8, <1>9, <2>1, SeqEqual
<1>11. FlattenSeq(d) = Join(p, FlattenSeq(e))
  BY <1>0, <1>7, FlattenCons DEF d
<1>12. FlattenSeq(e) = FlattenSeq(r)
  <2> DEFINE z == <<>>
  <2>1. z \in Seq(T) /\ e = Cons(z, r)
    BY <1>0 DEF e
  <2> HIDE DEF z
  <2>2. FlattenSeq(Cons(z, r)) = Join(z, FlattenSeq(r))
    BY <1>5, <2>1, FlattenCons
  <2>3. Join(<<>>, FlattenSeq(r)) = FlattenSeq(r)
    BY <1>5, JoinNone
  <2> QED BY <2>1, <2>2, <2>3 DEF z
<1> QED BY <1>4, <1>5, <1>10, <1>11, <1>12 DEF u, v, Join, Cons, p, a, b

LEMMA HeadIsCons ==
  ASSUME NEW T, NEW s \in Seq(T), s # <<>>
  PROVE  Head(s) \in T /\ Tail(s) \in Seq(T) /\ s = Cons(Head(s), Tail(s))
<1> DEFINE x == Head(s)
           t == Tail(s)
           c == Cons(x, t)
<1>1. x \in T /\ x = s[1] /\ t \in Seq(T) /\ Len(s) \in Nat
  OBVIOUS
<1>2. Len(t) + 1 = Len(s) /\ \A i \in 1 .. Len(t) : t[i] = s[i + 1]
  <2>1. Len(Tail(s)) = Len(s) - 1 /\ \A i \in 1 .. Len(Tail(s)) : Tail(s)[i] = s[i + 1]
    BY HeadTailProperties
  <2> QED BY <1>1, <2>1
<1> HIDE DEF x, t
<1>3. c \in Seq(T) /\ Len(c) = Len(t) + 1 /\ c[1] = x /\ \A i \in 1 .. Len(t) : c[i + 1] = t[i]
  <2>0. x \in T /\ t \in Seq(T)
    BY <1>1
  <2>1. c \in Seq(T) /\ Len(c) = Len(t) + 1 /\ c[1] = x
    BY <2>0, OneBefore
  <2>2. \A i \in 1 .. Len(t) : c[i + 1] = t[i]
    BY <2>0, OneBefore
  <2> QED BY <2>1, <2>2
<1> HIDE DEF c
<1>4. ASSUME NEW i \in 1 .. Len(s) PROVE s[i] = c[i]
  <2>1. CASE i = 1
    BY <1>1, <1>3, <2>1
  <2>2. CASE i # 1
    <3>1. i - 1 \in 1 .. Len(t) /\ (i - 1) + 1 = i
      BY <1>1, <1>2, <2>2
    <3> QED BY <1>2, <1>3, <3>1
  <2> QED BY <2>1, <2>2
<1>5. s = c
  <2>1. Len(s) = Len(c)
    BY <1>2, <1>3
  <2> QED BY <1>3, <1>4, <2>1, SeqEqual
<1> QED BY <1>1, <1>5 DEF c, x, t

LEMMA TailOfCons ==
  ASSUME NEW T, NEW x \in T, NEW t \in Seq(T)
  PROVE  Tail(Cons(x, t)) = t
<1> DEFINE u == Cons(x, t)
           r == Tail(u)
<1>1. u \in Seq(T) /\ Len(u) = Len(t) + 1
  BY OneBefore
<1>2. \A i \in 1 .. Len(t) : u[i + 1] = t[i]
  BY OneBefore
<1> HIDE DEF u
<1>3. Len(t) \in Nat /\ u # <<>>
  BY <1>1
<1>4. r \in Seq(T) /\ Len(r) = Len(t) /\ \A i \in 1 .. Len(r) : r[i] = u[i + 1]
  <2>1. r \in Seq(T) /\ Len(r) = Len(u) - 1 /\ \A i \in 1 .. Len(r) : r[i] = u[i + 1]
    BY <1>1, <1>3, HeadTailProperties
  <2> QED BY <1>1, <1>3, <2>1
<1> HIDE DEF r
<1>5. r = t
  <2>1. \A i \in 1 .. Len(r) : r[i] = t[i]
    BY <1>2, <1>4
  <2> QED BY <1>4, <2>1, SeqEqual
<1> QED BY <1>5 DEF r, u

LEMMA NoLineFeedEscaped ==
  ASSUME NEW T, Special \subseteq T, NEW t \in Seq(T), NoLineFeed(t)
  PROVE  NoLineFeed(EscapeForTemplate(t))
<1> DEFINE x == Head(t)
           r == Tail(t)
           e == EscapeForTemplate(r)
<1>1. CASE t = <<>>
  BY <1>1, EscapeForTemplateNone DEF NoLineFeed
<1>2. CASE t # <<>>
  <2>1. x \in T /\ r \in Seq(T) /\ t = Cons(x, r) /\ x # "LF"
    <3>1. x \in T /\ r \in Seq(T) /\ x = t[1]
      BY <1>2
    <3>2. Cons(x, r) = t
      BY <1>2, HeadIsCons
    <3> QED BY <1>2, <3>1, <3>2 DEF NoLineFeed
  <2> HIDE DEF x, r
  <2>2. /\ e \in Seq(T)
        /\ EscapeForTemplate(Cons(x, r)) = IF x \in {"\\", "quote", "$"} THEN Cons("\\", Cons(x, e)) ELSE Cons(x, e)
    BY <2>1, EscapeForTemplateCons
  <2> HIDE DEF e
  <2>3. Cons(x, e) \in Seq(T) /\ Cons(x, e)[1] = x
    BY <2>1, <2>2, OneBefore
  <2>4. Cons("\\", Cons(x, e))[1] = "\\"
    <3> DEFINE b_ == "\\"
               d == Cons(x, e)
    <3>1. b_ \in T /\ d \in Seq(T)
      BY <2>3 DEF Special
    <3> HIDE DEF b_, d
    <3>2. Cons(b_, d)[1] = b_
      BY <3>1, OneBefore
    <3> QED BY <3>2 DEF b_, d
  <2> QED BY <2>1, <2>2, <2>3, <2>4 DEF NoLineFeed
<1> QED BY <1>1, <1>2

(* A file arrives through the template of a script.                        *)
LEMMA ScriptArrives ==
  ASSUME NEW T, Special \subseteq T, NEW s \in Seq(T)
  PROVE  TemplateValue(EscapeForTemplate(s)) = LineFeeds(s)
<1> DEFINE P(r) == TemplateValue(EscapeForTemplate(r)) = LineFeeds(r)
           S == {r \in Seq(T) : P(r) /\ (r # <<>> => P(Tail(r)))}
<1>1. <<>> \in S
  <2>1. <<>> \in Seq(T)
    OBVIOUS
  <2>2. LineFeeds(<<>>) = <<>>
    <3>1. [i \in DOMAIN <<>> |-> LineFeed(<<>>, i)] = <<>>
      OBVIOUS
    <3> QED BY <3>1, FlattenNone DEF LineFeeds, LineFeed
  <2>3. P(<<>>)
    BY <2>2, EscapeForTemplateNone, ValueOfNothing
  <2> HIDE DEF P
  <2> QED BY <2>1, <2>3
<1>2. ASSUME NEW x \in T, NEW t \in Seq(T), t \in S PROVE Cons(x, t) \in S
  <2> DEFINE e == EscapeForTemplate(t)
             u == Cons(x, t)
  <2>1. "\\" \in T /\ "CR" \in T /\ "LF" \in T /\ Special \subseteq T
    BY DEF Special
  <2>2. /\ e \in Seq(T)
        /\ EscapeForTemplate(u) = IF x \in {"\\", "quote", "$"} THEN Cons("\\", Cons(x, e)) ELSE Cons(x, e)
    BY EscapeForTemplateCons
  <2>3. TemplateValue(e) = LineFeeds(t) /\ (t # <<>> => P(Tail(t)))
    BY <1>2
  <2>4. NoLineFeed(t) => NoLineFeed(e)
    BY NoLineFeedEscaped
  <2> HIDE DEF S, P, e
  <2>5. x # "CR" => LineFeeds(u) = Cons(x, LineFeeds(t))
    <3> SUFFICES ASSUME x # "CR" PROVE LineFeeds(u) = Cons(x, LineFeeds(t))
      OBVIOUS
    <3>1. x = (IF x = "CR" THEN "LF" ELSE x) /\ (x = "CR" => NoLineFeed(t))
      OBVIOUS
    <3> QED BY <2>1, <3>1, LineFeedsOfChar
  <2>6. TemplateValue(EscapeForTemplate(u)) = LineFeeds(u)
    <3>1. CASE x \in {"\\", "quote", "$"}
      <4> DEFINE b_ == "\\"
      <4>1. b_ \in T /\ Paired(b_, x, x) /\ EscapeForTemplate(u) = Cons(b_, Cons(x, e))
        BY <2>1, <2>2, <3>1 DEF Paired
      <4> HIDE DEF b_, u
      <4>2. TemplateValue(Cons(b_, Cons(x, e))) = Cons(x, TemplateValue(e))
        BY <2>1, <2>2, <4>1, ValueOfTwo
      <4> QED BY <2>3, <2>5, <3>1, <4>1, <4>2
    <3>2. CASE x = "CR" /\ NoLineFeed(t)
      <4> DEFINE c_ == "LF"
      <4>1. c_ \in T /\ Alone(x, e, c_) /\ EscapeForTemplate(u) = Cons(x, e)
        BY <2>1, <2>2, <2>4, <3>2 DEF Alone, NoLineFeed
      <4>2. c_ = (IF x = "CR" THEN "LF" ELSE x) /\ (x = "CR" => NoLineFeed(t))
        BY <3>2
      <4> HIDE DEF c_
      <4>3. TemplateValue(Cons(x, e)) = Cons(c_, TemplateValue(e))
        BY <2>1, <2>2, <4>1, ValueOfChar
      <4>4. LineFeeds(u) = Cons(c_, LineFeeds(t))
        BY <2>1, <4>1, <4>2, LineFeedsOfChar
      <4> QED BY <2>3, <4>1, <4>3, <4>4
    <3>3. CASE x = "CR" /\ ~NoLineFeed(t)
      <4> DEFINE r == Tail(t)
                 f == EscapeForTemplate(r)
                 a_ == "CR"
                 b_ == "LF"
      <4>1. r \in Seq(T) /\ t = Cons(b_, r) /\ P(r)
        <5>1. t # <<>> /\ t[1] = "LF"
          BY <3>3 DEF NoLineFeed
        <5>2. t = Cons(Head(t), Tail(t)) /\ Head(t) = t[1] /\ Tail(t) \in Seq(T)
          BY <5>1, HeadIsCons
        <5> QED BY <2>3, <5>1, <5>2
      <4>2. a_ \in T /\ b_ \in T /\ Paired(a_, b_, b_)
        BY <2>1 DEF Paired
      <4> HIDE DEF r
      <4>3. f \in Seq(T) /\ EscapeForTemplate(Cons(b_, r)) = Cons(b_, f)
        <5>1. f \in Seq(T)
          BY <4>1, EscapeForTemplateCons
        <5>2. b_ \notin {"\\", "quote", "$"}
          OBVIOUS
        <5> HIDE DEF b_, f
        <5>3. EscapeForTemplate(Cons(b_, r))
                = IF b_ \in {"\\", "quote", "$"} THEN Cons("\\", Cons(b_, f)) ELSE Cons(b_, f)
          BY <4>1, <4>2, EscapeForTemplateCons DEF f
        <5> QED BY <5>1, <5>2, <5>3
      <4>4. EscapeForTemplate(u) = Cons(a_, Cons(b_, f))
        BY <2>2, <3>3, <4>1, <4>3 DEF e
      <4>5. TemplateValue(f) = LineFeeds(r)
        BY <4>1 DEF P
      <4>6. LineFeeds(u) = Cons(b_, LineFeeds(r))
        BY <2>1, <3>3, <4>1, LineFeedsOfTwo
      <4> HIDE DEF a_, b_, f
      <4>7. TemplateValue(Cons(a_, Cons(b_, f))) = Cons(b_, TemplateValue(f))
        BY <2>1, <4>2, <4>3, ValueOfTwo
      <4> QED BY <4>4, <4>5, <4>6, <4>7
    <3>4. CASE x \notin {"\\", "quote", "$", "CR"}
      <4>1. Alone(x, e, x) /\ EscapeForTemplate(u) = Cons(x, e)
        BY <2>2, <3>4 DEF Alone
      <4>2. TemplateValue(Cons(x, e)) = Cons(x, TemplateValue(e))
        BY <2>1, <2>2, <4>1, ValueOfChar
      <4> QED BY <2>3, <2>5, <3>4, <4>1, <4>2
    <3> QED BY <3>1, <3>2, <3>3, <3>4
  <2>7. u \in Seq(T) /\ Tail(u) = t
    BY TailOfCons, OneBefore
  <2>8. P(u) /\ P(t)
    BY <2>3, <2>6 DEF P, e
  <2> HIDE DEF u
  <2>9. u \in S
    BY <2>7, <2>8 DEF S
  <2> QED BY <2>9 DEF u
<1>3. s \in S
  <2> HIDE DEF S
  <2> QED BY <1>1, <1>2, FromTheEnd
<1> QED BY <1>3

(* A set of numbers up to n has a greatest one.                            *)
LEMMA GreatestNumber ==
  ASSUME NEW n \in Nat, NEW S, S \subseteq 0 .. n, S # {}
  PROVE  \E x \in S : \A y \in S : y =< x
<1> DEFINE R == {n - x : x \in S}
<1>1. R \subseteq Nat /\ R # {}
  <2>1. ASSUME NEW x \in S PROVE n - x \in Nat
    <3>1. x \in 0 .. n
      OBVIOUS
    <3> QED BY <3>1
  <2>2. PICK x \in S : TRUE
    OBVIOUS
  <2>3. n - x \in R
    BY <2>2
  <2> QED BY <2>1, <2>3
<1>2. PICK r \in R : \A q \in R : r =< q
  <2> HIDE DEF R
  <2> QED BY <1>1, LeastNumber
<1>3. PICK x \in S : r = n - x
  BY <1>2
<1>4. ASSUME NEW y \in S PROVE y =< x
  <2>1. n - x =< n - y
    BY <1>2, <1>3
  <2>2. x \in 0 .. n /\ y \in 0 .. n
    OBVIOUS
  <2> QED BY <2>1, <2>2
<1> QED BY <1>4

-----------------------------------------------------------------------------
(* Identifiers.                                                            *)

(* From a up to b there is a whole run of the positions in C.              *)
Run(C, a, b) == a < b /\ (\A i \in a .. (b - 1) : i \in C) /\ (a - 1) \notin C /\ b \notin C

RunStarts(C, at) == {i \in 0 .. at : \A j \in i .. at : j \in C}
RunEnds(C, at, n) == {i \in at + 1 .. n : \A j \in at .. (i - 1) : j \in C}
Least(S) == CHOOSE i \in S : \A j \in S : i <= j
Greatest(S) == CHOOSE i \in S : \A j \in S : j <= i

(* It is the only one that at is in.                                       *)
Within(C, n) == C \subseteq 0 .. (n - 1)
OnlyRun(C, n, at, start, end) ==
  /\ start \in 0 .. at /\ end \in at + 1 .. n /\ Run(C, start, end)
  /\ \A a \in 0 .. n, b \in 0 .. n : Run(C, a, b) /\ a =< at /\ at < b => a = start /\ b = end

LEMMA RunIsFound ==
  ASSUME NEW n \in Nat, NEW C, Within(C, n), NEW at \in C
  PROVE  OnlyRun(C, n, at, Least(RunStarts(C, at)), Greatest(RunEnds(C, at, n)))
<1> DEFINE start == Least(RunStarts(C, at))
           end == Greatest(RunEnds(C, at, n))
<1> DEFINE starts == RunStarts(C, at)
           ends == RunEnds(C, at, n)
<1>0. /\ \A i : i \in starts <=> i \in 0 .. at /\ \A j \in i .. at : j \in C
      /\ \A i : i \in ends <=> i \in at + 1 .. n /\ \A j \in at .. (i - 1) : j \in C
  BY DEF RunStarts, RunEnds
<1> HIDE DEF starts, ends
<1>1. at \in 0 .. (n - 1) /\ C \subseteq 0 .. (n - 1)
  BY DEF Within
<1>2. at \in starts /\ starts \subseteq Nat
  BY <1>0, <1>1
<1>3. start \in starts /\ \A j \in starts : start =< j
  <2>1. \E i \in starts : \A j \in starts : i <= j
    BY ONLY <1>2, LeastNumber
  <2> QED BY <2>1 DEF Least, starts
<1>4. at + 1 \in ends /\ ends \subseteq 0 .. n
  BY <1>0, <1>1
<1>5. end \in ends /\ \A j \in ends : j <= end
  <2>1. \E i \in ends : \A j \in ends : j <= i
    BY ONLY n \in Nat, <1>4, GreatestNumber
  <2> QED BY <2>1 DEF Greatest, ends
<1> HIDE DEF start, end
<1>6. start \in 0 .. at /\ \A j \in start .. at : j \in C
  BY <1>0, <1>3
<1>7. end \in at + 1 .. n /\ \A j \in at .. (end - 1) : j \in C
  BY <1>0, <1>5
<1>8. start - 1 \notin C
  <2> SUFFICES ASSUME start - 1 \in C PROVE FALSE
    OBVIOUS
  <2>1. start - 1 \in 0 .. at /\ \A j \in start - 1 .. at : j = start - 1 \/ j \in start .. at
    BY <1>1, <1>6
  <2>2. start - 1 \in starts
    BY <1>0, <1>6, <2>1
  <2> QED BY <1>1, <1>3, <1>6, <2>2
<1>9. end \notin C
  <2> SUFFICES ASSUME end \in C PROVE FALSE
    OBVIOUS
  <2>1. end \in 0 .. (n - 1)
    BY <1>1
  <2>2. end + 1 \in at + 1 .. n /\ \A j \in at .. ((end + 1) - 1) : j = end \/ j \in at .. (end - 1)
    BY <1>1, <1>7, <2>1
  <2>3. end + 1 \in ends
    <3>1. \A j \in at .. ((end + 1) - 1) : j \in C
      BY <1>7, <2>2
    <3> QED BY <1>0, <2>2, <3>1
  <2>4. end + 1 <= end
    BY <1>5, <2>3
  <2> QED BY <2>1, <2>4
<1>10. Run(C, start, end)
  <2>1. start < end
    BY <1>1, <1>6, <1>7
  <2>2. ASSUME NEW i \in start .. (end - 1) PROVE i \in C
    <3>1. i \in start .. at \/ i \in at .. (end - 1)
      BY <1>1, <1>6, <1>7
    <3> QED BY <1>6, <1>7, <3>1
  <2> QED BY <1>8, <1>9, <2>1, <2>2 DEF Run
<1>11. ASSUME NEW a \in 0 .. n, NEW b \in 0 .. n, Run(C, a, b), a =< at, at < b
       PROVE  a = start /\ b = end
  <2>1. (\A i \in a .. (b - 1) : i \in C) /\ (a - 1) \notin C /\ b \notin C
    BY <1>11 DEF Run
  <2>2. a = start
    <3>1. a \in 0 .. at /\ \A j \in a .. at : j \in a .. (b - 1)
      BY <1>1, <1>11
    <3>2. a \in starts
      BY <1>0, <2>1, <3>1
    <3>3. start =< a
      BY <1>3, <3>2
    <3>4. ~(start < a)
      <4> SUFFICES ASSUME start < a PROVE FALSE
        OBVIOUS
      <4>1. a - 1 \in start .. at
        BY <1>1, <1>6, <1>11
      <4> QED BY <1>6, <2>1, <4>1
    <3> QED BY <1>1, <1>6, <3>3, <3>4
  <2>3. b = end
    <3>1. b \in at + 1 .. n /\ \A j \in at .. (b - 1) : j \in a .. (b - 1)
      BY <1>1, <1>11
    <3>2. b \in ends
      BY <1>0, <2>1, <3>1
    <3>3. b =< end
      BY <1>5, <3>2
    <3>4. ~(b < end)
      <4> SUFFICES ASSUME b < end PROVE FALSE
        OBVIOUS
      <4>1. b \in at .. (end - 1)
        BY <1>1, <1>7, <1>11
      <4> QED BY <1>7, <2>1, <4>1
    <3> QED BY <1>1, <1>7, <3>3, <3>4
  <2> QED BY <2>2, <2>3
<1> QED BY <1>6, <1>7, <1>10, <1>11 DEF OnlyRun, start, end

(* The positions of the characters of identifiers.                         *)
CharsIn(text) == {i \in 0 .. (Len(text) - 1) : IsIdentifierChar(text[i + 1])}

LEMMA IdentifierIsFound ==
  ASSUME NEW T, NEW text \in Seq(T), NEW pos \in 0 .. Len(text)
  PROVE  LET found == IdentifierRangeAtPos(text, pos)
             At(r) == r[1] <= pos /\ pos <= r[2]
         IN  /\ \A r \in Identifiers(text) : At(r) => found = r
             /\ found # NoRange =>
                  /\ found \in Identifiers(text)
                  /\ At(found) \/ (pos = Len(text) /\ pos = found[2] + 1)
<1> DEFINE n == Len(text)
           C == CharsIn(text)
           index == IF pos = n /\ pos > 0 THEN pos - 1 ELSE pos
           at == IF index \in C THEN index ELSE index - 1
           start == Least(RunStarts(C, at))
           end == Greatest(RunEnds(C, at, n))
           found == IdentifierRangeAtPos(text, pos)
<1>1. n \in Nat /\ C \subseteq 0 .. (n - 1) /\ pos \in 0 .. n
  BY DEF CharsIn
<1>2. \A i : i \in C <=> i \in 0 .. (Len(text) - 1) /\ IsIdentifierChar(text[i + 1])
  BY DEF CharsIn
<1>3. found = IF at \notin C \/ text[start + 1] # "a" THEN NoRange ELSE <<start, end>>
  <2> DEFINE char(i) == i \in 0 .. (Len(text) - 1) /\ IsIdentifierChar(text[i + 1])
             at_ == IF char(index) THEN index ELSE index - 1
             starts == {i \in 0 .. at_ : \A j \in i .. at_ : char(j)}
             ends == {i \in at_ + 1 .. n : \A j \in at_ .. (i - 1) : char(j)}
  <2>1. found = IF ~char(at_) \/ text[Least(starts) + 1] # "a" THEN NoRange ELSE <<Least(starts), Greatest(ends)>>
    BY DEF IdentifierRangeAtPos, Least, Greatest
  <2>2. \A i : char(i) <=> i \in C
    BY <1>2
  <2> HIDE DEF found, C, char, n, index
  <2>3. at = at_
    BY <2>2
  <2> HIDE DEF at, at_
  <2>4. RunStarts(C, at) = starts /\ RunEnds(C, at, n) = ends
    BY <2>2, <2>3 DEF RunStarts, RunEnds
  <2> HIDE DEF starts, ends
  <2> QED BY <2>1, <2>2, <2>3, <2>4
<1>4. \A r : r \in Identifiers(text) <=>
        r \in (0 .. n) \X (0 .. n) /\ Run(C, r[1], r[2]) /\ text[r[1] + 1] = "a"
  BY <1>2 DEF Identifiers, Run
<1>5. at \in C => /\ start \in 0 .. at /\ end \in at + 1 .. n /\ Run(C, start, end)
                  /\ \A a \in 0 .. n, b \in 0 .. n : Run(C, a, b) /\ a =< at /\ at < b => a = start /\ b = end
  <2> SUFFICES ASSUME at \in C
               PROVE  /\ start \in 0 .. at /\ end \in at + 1 .. n /\ Run(C, start, end)
                      /\ \A a \in 0 .. n, b \in 0 .. n : Run(C, a, b) /\ a =< at /\ at < b => a = start /\ b = end
    OBVIOUS
  <2>1. n \in Nat /\ Within(C, n)
    BY <1>1 DEF Within
  <2> HIDE DEF C, n, at
  <2>2. OnlyRun(C, n, at, start, end)
    BY <2>1, RunIsFound
  <2> HIDE DEF start, end
  <2> QED BY <2>2 DEF OnlyRun
<1>6. at \in C => at \in 0 .. (n - 1)
  BY <1>1
<1>7. at \in C => at = pos \/ (at = pos - 1) \/ (at = pos - 2 /\ pos = n /\ pos > 0 /\ pos - 1 \notin C)
  BY <1>1
<1>8. index \in C => at = index
  OBVIOUS
<1>9. index \notin C => at = index - 1
  OBVIOUS
<1>10. n \notin C /\ (index = pos \/ (index = pos - 1 /\ pos = n /\ pos > 0)) /\ (pos = n => pos = 0 \/ index = pos - 1)
  BY <1>1
<1> HIDE DEF C, n, index, at, start, end, found
<1>11. ASSUME NEW r \in Identifiers(text), r[1] <= pos, pos <= r[2] PROVE found = r
  <2>1. r[1] \in 0 .. n /\ r[2] \in 0 .. n /\ r = <<r[1], r[2]>> /\ Run(C, r[1], r[2]) /\ text[r[1] + 1] = "a"
    BY <1>4
  <2>2. r[1] < r[2] /\ (\A i \in r[1] .. (r[2] - 1) : i \in C) /\ r[2] \notin C
    BY <2>1 DEF Run
  <2>3. at \in r[1] .. (r[2] - 1)
    <3>1. CASE pos = n
      <4>1. index = pos - 1 /\ index \in r[1] .. (r[2] - 1)
        BY <1>1, <1>10, <1>11, <2>1, <2>2, <3>1
      <4> QED BY <1>8, <2>2, <4>1
    <3>2. CASE pos # n
      <4>1. index = pos
        BY <1>10, <3>2
      <4>2. CASE pos = r[2]
        BY <1>1, <1>9, <2>1, <2>2, <4>1, <4>2
      <4>3. CASE pos # r[2]
        <5>1. pos \in r[1] .. (r[2] - 1)
          BY <1>1, <1>11, <2>1, <4>3
        <5> QED BY <1>8, <2>2, <4>1, <5>1
      <4> QED BY <4>2, <4>3
    <3> QED BY <3>1, <3>2
  <2>4. at \in C /\ r[1] =< at /\ at < r[2]
    BY <2>1, <2>2, <2>3
  <2>5. r[1] = start /\ r[2] = end
    BY <1>5, <2>1, <2>4
  <2>6. found = <<start, end>>
    BY <1>3, <2>1, <2>4, <2>5
  <2> QED BY <2>1, <2>5, <2>6
<1>12. ASSUME found # NoRange
       PROVE  /\ found \in Identifiers(text)
              /\ (found[1] <= pos /\ pos <= found[2]) \/ (pos = n /\ pos = found[2] + 1)
  <2>1. at \in C /\ text[start + 1] = "a" /\ found = <<start, end>>
    BY <1>3, <1>12
  <2>2. start \in 0 .. at /\ end \in at + 1 .. n /\ Run(C, start, end) /\ at \in 0 .. (n - 1)
    BY <1>5, <1>6, <2>1
  <2>3. start \in 0 .. n /\ end \in 0 .. n /\ found[1] = start /\ found[2] = end
    BY <1>1, <2>1, <2>2
  <2>4. found \in Identifiers(text)
    BY <1>4, <2>1, <2>2, <2>3
  <2>5. (start <= pos /\ pos <= end) \/ (pos = n /\ pos = end + 1)
    <3>1. CASE at = pos
      BY <1>1, <2>2, <3>1
    <3>2. CASE at = pos - 1
      BY <1>1, <2>2, <3>2
    <3>3. CASE at = pos - 2 /\ pos = n /\ pos > 0 /\ pos - 1 \notin C
      <4>1. ~(pos - 1 \in start .. (end - 1))
        BY <2>2, <3>3 DEF Run
      <4> QED BY <1>1, <2>2, <3>3, <4>1
    <3> QED BY <1>7, <2>1, <3>1, <3>2, <3>3
  <2> QED BY <2>3, <2>4, <2>5
<1> QED BY <1>11, <1>12 DEF found, n

-----------------------------------------------------------------------------
(* Places.                                                                 *)

LEMMA LeastIs ==
  ASSUME NEW S, NEW m \in S, S \subseteq Int, \A y \in S : m <= y
  PROVE  Min(S) = m
<1>1. \E x \in S : \A y \in S : x <= y
  OBVIOUS
<1>2. Min(S) \in S /\ \A y \in S : Min(S) <= y
  BY <1>1 DEF Min
<1>3. Min(S) <= m /\ m <= Min(S)
  BY <1>2
<1>4. Min(S) \in Int /\ m \in Int
  BY <1>2
<1> QED BY <1>3, <1>4

LEMMA GreatestIs ==
  ASSUME NEW S, NEW m \in S, S \subseteq Int, \A y \in S : y <= m
  PROVE  Max(S) = m
<1>0. S \subseteq Int /\ m \in Int
  OBVIOUS
<1>1. \E x \in S : \A y \in S : x >= y
  BY <1>0
<1>2. Max(S) \in S /\ \A y \in S : Max(S) >= y
  BY <1>1 DEF Max
<1> DEFINE max == Max(S)
<1> HIDE DEF max
<1>3. max \in S /\ max >= m
  BY <1>2 DEF max
<1>4. max <= m /\ max \in Int
  BY <1>0, <1>3
<1>5. max = m
  BY <1>0, <1>3, <1>4
<1> QED BY <1>5 DEF max

LEMMA OfTwoNumbers ==
  ASSUME NEW a \in Int, NEW b \in Int
  PROVE  Min({a, b}) = (IF a <= b THEN a ELSE b) /\ Max({a, b}) = (IF a <= b THEN b ELSE a)
<1> DEFINE S == {a, b}
           least == IF a <= b THEN a ELSE b
           greatest == IF a <= b THEN b ELSE a
<1>1. S \subseteq Int /\ least \in S /\ greatest \in S
  OBVIOUS
<1>2. \A y \in S : least <= y /\ y <= greatest
  OBVIOUS
<1> HIDE DEF S, least, greatest
<1>3. Min(S) = least
  BY <1>1, <1>2, LeastIs
<1>4. Max(S) = greatest
  BY <1>1, <1>2, GreatestIs
<1> QED BY <1>3, <1>4 DEF S, least, greatest

(* The starts of lines up to m, and how many there are.                    *)
UpTo(L, m) == {j \in L : j <= m}
Starts(L, n) == n \in Nat /\ L \subseteq 0 .. n /\ 0 \in L
Rank(L, m) == Cardinality(UpTo(L, m))

LEMMA RankType ==
  ASSUME NEW L, NEW n, Starts(L, n), NEW m
  PROVE  IsFiniteSet(UpTo(L, m)) /\ Rank(L, m) \in Nat
<1>1. IsFiniteSet(0 .. n)
  BY FS_Interval DEF Starts
<1>2. UpTo(L, m) \subseteq 0 .. n
  BY DEF UpTo, Starts
<1>3. IsFiniteSet(UpTo(L, m))
  BY <1>1, <1>2, FS_Subset
<1> QED BY <1>3, FS_CardinalityType DEF Rank

LEMMA RankRises ==
  ASSUME NEW L, NEW n, Starts(L, n), NEW i \in 0 .. n, NEW j \in 0 .. n, i < j
  PROVE  Rank(L, i) <= Rank(L, j) /\ (j \in L => Rank(L, i) < Rank(L, j))
<1>1. L \subseteq Nat /\ i \in Nat /\ j \in Nat
  BY DEF Starts
<1>2. UpTo(L, i) \subseteq UpTo(L, j)
  <2> SUFFICES ASSUME NEW k \in L, k <= i PROVE k <= j
    BY DEF UpTo
  <2>1. k \in Nat
    BY <1>1
  <2> QED BY <1>1, <2>1
<1>3. IsFiniteSet(UpTo(L, i)) /\ IsFiniteSet(UpTo(L, j)) /\ Rank(L, i) \in Nat /\ Rank(L, j) \in Nat
  BY RankType
<1>4. Rank(L, i) <= Rank(L, j)
  BY <1>2, <1>3, FS_Subset DEF Rank
<1>5. ASSUME j \in L PROVE Rank(L, i) # Rank(L, j)
  <2>1. j \in UpTo(L, j) /\ j \notin UpTo(L, i)
    BY <1>1, <1>5 DEF UpTo
  <2> SUFFICES ASSUME Cardinality(UpTo(L, i)) = Cardinality(UpTo(L, j)) PROVE FALSE
    BY DEF Rank
  <2>2. UpTo(L, i) = UpTo(L, j)
    BY <1>2, <1>3, FS_Subset
  <2> QED BY <2>1, <2>2
<1> QED BY <1>3, <1>4, <1>5

LEMMA RankSame ==
  ASSUME NEW L, NEW n, Starts(L, n), NEW i \in 0 .. n, NEW j \in 0 .. n, i <= j,
         \A k \in (i + 1) .. j : k \notin L
  PROVE  UpTo(L, i) = UpTo(L, j) /\ Rank(L, i) = Rank(L, j)
<1>1. L \subseteq Nat /\ i \in Nat /\ j \in Nat
  BY DEF Starts
<1>2. ASSUME NEW k \in L PROVE k <= i <=> k <= j
  <2>1. k \in Nat /\ k \notin (i + 1) .. j
    BY <1>1, <1>2
  <2> QED BY <1>1, <2>1
<1>3. UpTo(L, i) = UpTo(L, j)
  BY <1>2 DEF UpTo
<1> QED BY <1>3 DEF Rank

(* Every line up to the last has one start.                                *)
LEMMA RankIsReached ==
  ASSUME NEW L, NEW n, Starts(L, n), NEW k \in 1 .. Rank(L, n)
  PROVE  \E i \in L : Rank(L, i) = k
<1> DEFINE S == {m \in 0 .. n : k <= Rank(L, m)}
<1>0. n \in Nat /\ k \in Nat \ {0} /\ \A m : Rank(L, m) \in Nat
  <2>1. \A m : Rank(L, m) \in Nat
    BY RankType
  <2> QED BY <2>1 DEF Starts
<1>1. S \subseteq Nat /\ n \in S
  BY <1>0
<1>2. PICK m \in S : \A y \in S : m =< y
  <2> HIDE DEF S
  <2>1. S # {}
    BY <1>1
  <2> QED BY <1>1, <2>1, LeastNumber
<1>3. m \in 0 .. n /\ k <= Rank(L, m)
  BY <1>2
<1>4. CASE m = 0
  <2>1. UpTo(L, 0) = {0}
    <3>1. \A j \in L : j \in Nat
      BY DEF Starts
    <3>2. \A j \in L : j <= 0 <=> j = 0
      BY <3>1
    <3>3. 0 \in L
      BY DEF Starts
    <3> QED BY <3>2, <3>3 DEF UpTo
  <2>2. Rank(L, 0) = 1 /\ 0 \in L
    BY <2>1, FS_Singleton DEF Rank, Starts
  <2> QED BY <1>0, <1>3, <1>4, <2>2
<1>5. CASE m # 0
  <2> DEFINE l == m - 1
  <2>1. l \in 0 .. n /\ l < m /\ m = l + 1
    BY <1>0, <1>3, <1>5
  <2>2. l \notin S
    BY <1>2, <2>1
  <2>3. Rank(L, l) < k
    BY <1>0, <2>1, <2>2
  <2>4. m \in L
    <3> SUFFICES ASSUME m \notin L PROVE FALSE
      OBVIOUS
    <3>1. \A i \in (l + 1) .. m : i = m
      BY <2>1
    <3>2. \A i \in (l + 1) .. m : i \notin L
      BY <3>1
    <3>3. l <= m
      BY <2>1
    <3> HIDE DEF l, S
    <3>4. Rank(L, l) = Rank(L, m)
      BY <1>3, <2>1, <3>2, <3>3, RankSame
    <3> QED BY <1>0, <1>3, <2>3, <3>4
  <2>5. UpTo(L, m) = UpTo(L, l) \cup {m} /\ m \notin UpTo(L, l)
    <3>1. L \subseteq Nat
      BY DEF Starts
    <3>2. ASSUME NEW j \in L PROVE j <= m <=> (j <= l \/ j = m)
      BY <2>1, <3>1
    <3>3. ~(m <= l)
      BY <2>1
    <3> HIDE DEF l
    <3> QED BY <2>4, <3>2, <3>3 DEF UpTo
  <2>6. Rank(L, m) = Rank(L, l) + 1
    <3> HIDE DEF l, S
    <3>1. IsFiniteSet(UpTo(L, l))
      BY RankType
    <3> QED BY <2>5, <3>1, FS_AddElement DEF Rank
  <2>7. Rank(L, m) = k
    BY <1>0, <1>3, <2>3, <2>6
  <2> QED BY <2>4, <2>7
<1> QED BY <1>4, <1>5

LEMMA RankIsOne ==
  ASSUME NEW L, NEW n, Starts(L, n), NEW i \in L, NEW j \in L, Rank(L, i) = Rank(L, j)
  PROVE  i = j
<1>1. i \in 0 .. n /\ j \in 0 .. n
  BY DEF Starts
<1>2. ~(i < j)
  <2> SUFFICES ASSUME i < j PROVE FALSE
    OBVIOUS
  <2>1. Rank(L, i) < Rank(L, j) /\ Rank(L, i) \in Nat
    BY <1>1, RankRises, RankType
  <2> QED BY <2>1
<1>3. ~(j < i)
  <2> SUFFICES ASSUME j < i PROVE FALSE
    OBVIOUS
  <2>1. Rank(L, j) < Rank(L, i) /\ Rank(L, i) \in Nat
    BY <1>1, RankRises, RankType
  <2> QED BY <2>1
<1> QED BY <1>1, <1>2, <1>3

(* Where the line that begins at from ends.                                *)
EndOfLine(text, from) == Min({i \in from .. Len(text) : i = Len(text) \/ text[i + 1] = "LF"})

LEMMA LineEnds ==
  ASSUME NEW T, NEW text \in Seq(T), NEW from \in 0 .. Len(text)
  PROVE  LET to == EndOfLine(text, from)
         IN  /\ to \in from .. Len(text) /\ (to = Len(text) \/ text[to + 1] = "LF")
             /\ \A i \in (from + 1) .. to : i \notin LineStarts(text)
<1> DEFINE n == Len(text)
           S == {i \in from .. n : i = n \/ text[i + 1] = "LF"}
           to == EndOfLine(text, from)
<1>1. n \in Nat /\ n \in S /\ S \subseteq Nat
  OBVIOUS
<1>2. PICK m \in S : \A y \in S : m =< y
  <2> HIDE DEF S
  <2>1. S # {}
    BY <1>1
  <2> QED BY <1>1, <2>1, LeastNumber
<1>3. to = m
  <2>1. to = Min(S)
    BY DEF EndOfLine
  <2> HIDE DEF S
  <2>2. S \subseteq Int
    BY <1>1
  <2> QED BY <1>2, <2>1, <2>2, LeastIs
<1>4. m \in from .. n /\ (m = n \/ text[m + 1] = "LF")
  BY <1>2
<1>5. ASSUME NEW i \in (from + 1) .. m PROVE i \notin LineStarts(text)
  <2>1. i # 0 /\ i - 1 \in from .. n /\ (i - 1) + 1 = i /\ ~(m =< i - 1)
    BY <1>1, <1>4
  <2>2. i - 1 \notin S
    BY <1>2, <2>1
  <2>3. text[i] # "LF"
    BY <2>1, <2>2
  <2> QED BY <2>1, <2>3 DEF LineStarts
<1> QED BY <1>3, <1>4, <1>5

LEMMA StartsOfLines ==
  ASSUME NEW T, NEW text \in Seq(T)
  PROVE  Starts(LineStarts(text), Len(text)) /\ UpTo(LineStarts(text), Len(text)) = LineStarts(text)
<1>1. Len(text) \in Nat
  OBVIOUS
<1>2. LineStarts(text) \subseteq 0 .. Len(text) /\ 0 \in LineStarts(text)
  BY <1>1 DEF LineStarts
<1> QED BY <1>1, <1>2 DEF Starts, UpTo

(* Everything up to the next start is on the line that begins at from.     *)
LEMMA LocationIsOfLine ==
  ASSUME NEW T, NEW text \in Seq(T), NEW from \in LineStarts(text), NEW pos \in from .. Len(text),
         \A i \in (from + 1) .. pos : i \notin LineStarts(text)
  PROVE  /\ LocationForPos(text, pos).line = Rank(LineStarts(text), from)
         /\ LocationForPos(text, pos).column = (pos - from) + 1
<1> DEFINE L == LineStarts(text)
           n == Len(text)
<1>1. Starts(L, n) /\ L \subseteq 0 .. n /\ n \in Nat /\ from \in 0 .. n /\ pos \in 0 .. n /\ from <= pos
  <2>1. Starts(L, n)
    BY StartsOfLines
  <2>2. L \subseteq 0 .. n /\ n \in Nat
    BY <2>1 DEF Starts
  <2> QED BY <2>1, <2>2
<1>2. LocationForPos(text, pos) = [line |-> Rank(L, pos), column |-> pos - Max(UpTo(L, pos)) + 1]
  BY DEF LocationForPos, Rank, UpTo
<1> HIDE DEF L, n
<1>3. UpTo(L, from) = UpTo(L, pos) /\ Rank(L, from) = Rank(L, pos)
  BY <1>1, RankSame DEF L
<1>4. Max(UpTo(L, pos)) = from
  <2> DEFINE S == UpTo(L, from)
  <2>1. from \in S /\ S \subseteq Int /\ \A y \in S : y <= from
    BY <1>1 DEF UpTo, L
  <2> HIDE DEF S
  <2>2. Max(S) = from
    BY <2>1, GreatestIs
  <2> QED BY <1>3, <2>2 DEF S
<1> QED BY <1>1, <1>2, <1>3, <1>4 DEF L

(* A position is on one line.                                              *)
LEMMA LineOfPos ==
  ASSUME NEW T, NEW text \in Seq(T), NEW pos \in 0 .. Len(text)
  PROVE  \E from \in LineStarts(text) : /\ pos \in from .. Len(text)
                                         /\ \A i \in (from + 1) .. pos : i \notin LineStarts(text)
<1> DEFINE L == LineStarts(text)
           n == Len(text)
           S == UpTo(L, pos)
<1>1. L \subseteq 0 .. n /\ n \in Nat /\ 0 \in L
  BY StartsOfLines DEF Starts
<1>2. S \subseteq 0 .. n /\ 0 \in S
  BY <1>1 DEF UpTo
<1>3. PICK from \in S : \A y \in S : y =< from
  <2> HIDE DEF S, n
  <2>1. S # {}
    BY <1>2
  <2> QED BY <1>1, <1>2, <2>1, GreatestNumber
<1>4. from \in L /\ from <= pos /\ from \in 0 .. n
  BY <1>1, <1>3 DEF UpTo
<1>5. ASSUME NEW i \in (from + 1) .. pos PROVE i \notin L
  <2>1. ~(i =< from) /\ i <= pos
    BY <1>4
  <2>2. i \notin S
    BY <1>3, <2>1
  <2> QED BY <2>1, <2>2 DEF UpTo
<1> QED BY <1>4, <1>5

LEMMA RevealIsIn ==
  ASSUME NEW T, NEW text \in Seq(T), NEW from \in LineStarts(text), NEW line \in Nat \ {0}, NEW column \in Nat,
         Rank(LineStarts(text), from) = Min({line, Cardinality(LineStarts(text))})
  PROVE  RevealLocation(text, line, column)
           = Min({from + Max({1, column}) - 1, EndOfLine(text, from)})
<1> DEFINE L == LineStarts(text)
           n == Len(text)
           f == CHOOSE i \in L : Cardinality({j \in L : j <= i}) = Min({line, Cardinality(L)})
<1>1. Starts(L, n)
  BY StartsOfLines
<1>2. \A i : Cardinality({j \in L : j <= i}) = Rank(L, i)
  BY DEF Rank, UpTo
<1>3. f \in L /\ Rank(L, f) = Rank(L, from)
  <2> HIDE DEF L
  <2>1. \E i \in L : Cardinality({j \in L : j <= i}) = Min({line, Cardinality(L)})
    BY <1>2 DEF L
  <2>2. f \in L /\ Cardinality({j \in L : j <= f}) = Min({line, Cardinality(L)})
    BY <2>1
  <2> QED BY <1>2, <2>2 DEF L
<1>4. f = from
  <2> HIDE DEF L, n, f
  <2>1. from \in L
    BY DEF L
  <2> QED BY <1>1, <1>3, <2>1, RankIsOne
<1>5. ~(line < 1)
  OBVIOUS
<1>6. RevealLocation(text, line, column) = Min({f + Max({1, column}) - 1, EndOfLine(text, f)})
  BY <1>5 DEF RevealLocation, EndOfLine
<1> QED BY <1>4, <1>6

(* A place is found again, and a place that is none is taken to the end of *)
(* its line.                                                               *)
LEMMA PositionIsFound ==
  ASSUME NEW T, NEW text \in Seq(T), NEW pos \in 0 .. Len(text)
  PROVE  RevealLocation(text, LocationForPos(text, pos).line, LocationForPos(text, pos).column) = pos
<1> DEFINE L == LineStarts(text)
           n == Len(text)
<1>1. PICK from \in L : pos \in from .. n /\ \A i \in (from + 1) .. pos : i \notin L
  BY LineOfPos
<1>2. Starts(L, n) /\ UpTo(L, n) = L
  BY StartsOfLines
<1>3. n \in Nat /\ from \in 0 .. n
  BY <1>1, <1>2 DEF Starts
<1> DEFINE line == Rank(L, from)
           column == (pos - from) + 1
           to == EndOfLine(text, from)
<1>4. LocationForPos(text, pos).line = line /\ LocationForPos(text, pos).column = column
  BY <1>1, LocationIsOfLine
<1>5. column \in Nat /\ Max({1, column}) = column /\ 1 <= column
  <2>1. column \in Nat /\ 1 <= column
    BY <1>1, <1>3
  <2> HIDE DEF column
  <2>2. column \in Int /\ 1 \in Int
    BY <2>1
  <2>3. Max({1, column}) = IF 1 <= column THEN column ELSE 1
    BY <2>2, OfTwoNumbers
  <2> QED BY <2>1, <2>3
<1>6. line \in Nat \ {0} /\ line = Min({line, Cardinality(L)})
  <2>1. line \in Nat /\ Rank(L, n) = Cardinality(L) /\ Rank(L, n) \in Nat
    BY <1>2, RankType DEF Rank
  <2>2. line <= Rank(L, n)
    <3>1. CASE from = n
      BY <2>1, <3>1
    <3>2. CASE from # n
      <4>1. from < n /\ n \in 0 .. n
        BY <1>3, <3>2
      <4> HIDE DEF L, n
      <4> QED BY <1>2, <1>3, <4>1, RankRises
    <3> QED BY <3>1, <3>2
  <2>3. line # 0
    <3>1. from \in UpTo(L, from)
      BY <1>1, <1>3 DEF UpTo
    <3>2. IsFiniteSet(UpTo(L, from))
      <4> HIDE DEF L, n
      <4> QED BY <1>2, RankType
    <3>3. UpTo(L, from) # {}
      BY <3>1
    <3> QED BY <3>2, <3>3, FS_EmptySet DEF Rank
  <2> HIDE DEF line, L
  <2>4. Min({line, Cardinality(L)}) = line
    BY <2>1, <2>2, OfTwoNumbers
  <2> QED BY <2>1, <2>3, <2>4
<1>7. RevealLocation(text, line, column) = Min({from + Max({1, column}) - 1, to})
  <2>1. Rank(LineStarts(text), from) = Min({line, Cardinality(LineStarts(text))})
    BY <1>6
  <2> HIDE DEF line, column
  <2> QED BY <1>1, <1>5, <1>6, <2>1, RevealIsIn
<1>8. to \in from .. n /\ (to = n \/ text[to + 1] = "LF")
  BY <1>3, LineEnds
<1>9. pos <= to
  <2> SUFFICES ASSUME to < pos PROVE FALSE
    BY <1>1, <1>3, <1>8
  <2>1. to + 1 \in (from + 1) .. pos /\ to # n /\ to + 1 \in 0 .. n
    BY <1>1, <1>3, <1>8
  <2>2. text[to + 1] = "LF"
    BY <1>8, <2>1
  <2>3. to + 1 \in L
    BY <2>1, <2>2 DEF LineStarts
  <2> QED BY <1>1, <2>1, <2>3
<1>10. from + Max({1, column}) - 1 = pos
  <2>1. from + column - 1 = pos
    BY <1>1, <1>3
  <2> HIDE DEF column
  <2> QED BY <1>5, <2>1
<1>11. Min({pos, to}) = pos
  <2>1. pos \in Int /\ to \in Int
    BY <1>1, <1>3, <1>8
  <2> HIDE DEF to
  <2> QED BY <1>9, <2>1, OfTwoNumbers
<1> QED BY <1>4, <1>7, <1>10, <1>11

LEMMA PlaceIsFound ==
  ASSUME NEW T, NEW text \in Seq(T), NEW line \in Nat \ {0}, NEW column \in Nat
  PROVE  LET found == RevealLocation(text, line, column)
             there == LocationForPos(text, found)
         IN  /\ there.line = Min({line, Cardinality(LineStarts(text))})
             /\ there.column = Max({1, column})
                  \/ (there.column < column /\ (found = Len(text) \/ text[found + 1] = "LF"))
<1> DEFINE L == LineStarts(text)
           n == Len(text)
           safe == Min({line, Cardinality(L)})
           wide == Max({1, column})
           found == RevealLocation(text, line, column)
           there == LocationForPos(text, found)
<1>1. Starts(L, n) /\ UpTo(L, n) = L
  BY StartsOfLines
<1>2. Cardinality(L) = Rank(L, n) /\ Rank(L, n) \in Nat /\ 1 <= Rank(L, n)
  <2>1. IsFiniteSet(L) /\ Rank(L, n) \in Nat /\ Rank(L, n) = Cardinality(L)
    BY <1>1, RankType DEF Rank
  <2>2. L # {}
    BY <1>1 DEF Starts
  <2>3. Rank(L, n) # 0
    BY <2>1, <2>2, FS_EmptySet
  <2> QED BY <2>1, <2>3
<1>3. safe \in 1 .. Rank(L, n)
  <2> HIDE DEF L, n
  <2>1. safe = IF line <= Cardinality(L) THEN line ELSE Cardinality(L)
    BY <1>2, OfTwoNumbers
  <2> HIDE DEF safe
  <2> QED BY <1>2, <2>1
<1>4. PICK from \in L : Rank(L, from) = safe
  <2> HIDE DEF L, n, safe
  <2> QED BY <1>1, <1>3, RankIsReached
<1>5. n \in Nat /\ from \in 0 .. n
  BY <1>1, <1>4 DEF Starts
<1> DEFINE to == EndOfLine(text, from)
<1>6. found = Min({from + wide - 1, to})
  BY <1>4, RevealIsIn
<1>7. to \in from .. n /\ (to = n \/ text[to + 1] = "LF") /\ \A i \in (from + 1) .. to : i \notin L
  BY <1>5, LineEnds
<1>8. wide = (IF 1 <= column THEN column ELSE 1) /\ wide \in Nat /\ 1 <= wide
  <2>0. column \in Int /\ 1 \in Int
    OBVIOUS
  <2>1. wide = (IF 1 <= column THEN column ELSE 1)
    BY <2>0, OfTwoNumbers
  <2> HIDE DEF wide
  <2> QED BY <2>1
<1> HIDE DEF to, wide, safe, found
<1>9. found = IF from + wide - 1 <= to THEN from + wide - 1 ELSE to
  <2>1. from + wide - 1 \in Int /\ to \in Int
    BY <1>5, <1>7, <1>8
  <2> QED BY <1>6, <2>1, OfTwoNumbers
<1>10. found \in from .. n /\ found <= to
  BY <1>5, <1>7, <1>8, <1>9
<1>11. \A i \in (from + 1) .. found : i \notin L
  <2>1. \A i \in (from + 1) .. found : i \in (from + 1) .. to
    BY <1>5, <1>7, <1>10
  <2> QED BY <1>7, <2>1
<1>12. there.line = safe /\ there.column = (found - from) + 1
  BY <1>4, <1>10, <1>11, LocationIsOfLine
<1>13. CASE from + wide - 1 <= to
  <2>1. (found - from) + 1 = wide
    BY <1>5, <1>8, <1>9, <1>13
  <2> QED BY <1>12, <2>1 DEF found, wide, safe
<1>14. CASE ~(from + wide - 1 <= to)
  <2>1. found = to /\ (found - from) + 1 < wide /\ 1 <= (found - from) + 1
    BY <1>5, <1>7, <1>8, <1>9, <1>14
  <2>2. wide = column
    BY <1>5, <1>7, <1>8, <2>1
  <2> QED BY <1>7, <1>12, <2>1, <2>2 DEF found, wide, safe
<1> QED BY <1>13, <1>14

-----------------------------------------------------------------------------
(* Paths.                                                                  *)

LEMMA NotHere == ~IsHere("..")
BY Zenon DEF IsHere

LEMMA FrontOf ==
  ASSUME NEW T, NEW s \in Seq(T), s # <<>>
  PROVE  /\ Front(s) \in Seq(T) /\ Len(Front(s)) = Len(s) - 1
         /\ \A i \in 1 .. Len(s) - 1 : Front(s)[i] = s[i]
<1> DEFINE n == Len(s) - 1
<1>1. n \in Nat /\ n \in Int /\ 1 \in Int
  OBVIOUS
<1>2. \A i \in 1 .. n : s[i] \in T
  OBVIOUS
<1>3. Front(s) = SubSeq(s, 1, n)
  BY DEF Front
<1> HIDE DEF n
<1>4. /\ SubSeq(s, 1, n) \in Seq(T)
      /\ Len(SubSeq(s, 1, n)) = IF 1 <= n THEN n - 1 + 1 ELSE 0
      /\ \A i \in 1 .. n - 1 + 1 : SubSeq(s, 1, n)[i] = s[1 + i - 1]
  BY <1>1, <1>2, SubSeqProperties
<1>5. (IF 1 <= n THEN n - 1 + 1 ELSE 0) = n /\ n - 1 + 1 = n
  BY <1>1
<1>6. \A i \in 1 .. n : 1 + i - 1 = i
  BY <1>1
<1> QED BY <1>3, <1>4, <1>5, <1>6 DEF n

(* One segment further: dirs[k] is where k segments lead.                  *)
StepInto(dir, seg) ==
  IF IsHere(seg) THEN dir ELSE IF seg # ".." THEN Append(dir, seg) ELSE IF dir = <<>> THEN <<>> ELSE Front(dir)
Walking(dirs, at, segs) == dirs[0] = at /\ \A k \in 1 .. Len(segs) : dirs[k] = StepInto(dirs[k - 1], segs[k])

LEMMA StepIntoType ==
  ASSUME NEW T, NEW dir \in Seq(T), NEW seg \in T
  PROVE  StepInto(dir, seg) \in Seq(T)
<1>1. dir # <<>> => Front(dir) \in Seq(T)
  BY FrontOf
<1>2. Append(dir, seg) \in Seq(T) /\ <<>> \in Seq(T)
  OBVIOUS
<1> QED BY <1>1, <1>2 DEF StepInto

LEMMA WalkExists ==
  ASSUME NEW T, NEW at \in Seq(T), NEW segs \in Seq(T)
  PROVE  \E f \in [0 .. Len(segs) -> Seq(T)] : Walking(f, at, segs)
<1> DEFINE n == Len(segs)
           V == Seq(T)
           F == [k \in (0 + 1) .. n |-> [d \in V |-> StepInto(d, segs[k])]]
<1>1. n \in Nat /\ \A k \in (0 + 1) .. n : segs[k] \in T
  OBVIOUS
<1>2. F \in [(0 + 1) .. n -> [V -> V]]
  <2>1. \A k \in (0 + 1) .. n : \A d \in V : StepInto(d, segs[k]) \in V
    BY <1>1, StepIntoType
  <2> HIDE DEF V, n
  <2> QED BY <2>1
<1> HIDE DEF F
<1>3. PICK f : Line(f, 0, n, V, at, F)
  <2>1. 0 =< n /\ 0 \in Nat /\ at \in V
    BY <1>1
  <2> HIDE DEF V, n
  <2> QED BY <1>1, <1>2, <2>1, LineExists
<1>4. f \in [0 .. n -> V] /\ f[0] = at /\ \A k \in 0 .. n : k # 0 => f[k] = F[k][f[k - 1]]
  <2>1. 0 \in 0 .. n
    BY <1>1
  <2> HIDE DEF V, n
  <2> QED BY <1>3, <2>1 DEF Line
<1>5. ASSUME NEW k \in 1 .. n PROVE f[k] = StepInto(f[k - 1], segs[k])
  <2>1. k \in 0 .. n /\ k # 0 /\ k - 1 \in 0 .. n /\ k \in (0 + 1) .. n
    BY <1>1
  <2>2. f[k - 1] \in V
    <3> HIDE DEF V, n
    <3> QED BY <1>4, <2>1
  <2>3. F[k][f[k - 1]] = StepInto(f[k - 1], segs[k])
    <3> HIDE DEF V, n
    <3> QED BY <2>1, <2>2 DEF F
  <2> QED BY <1>4, <2>1, <2>3
<1>6. Walking(f, at, segs)
  BY <1>4, <1>5 DEF Walking
<1> QED BY <1>4, <1>6

(* Two walks along the same segments, up to m.                             *)
SameUpTo(p, q, m) == \A k \in 1 .. m : k \in 1 .. Len(p) /\ k \in 1 .. Len(q) /\ p[k] = q[k]

TwoWalks(f, g, at, p, q, m) == Walking(f, at, p) /\ Walking(g, at, q) /\ SameUpTo(p, q, m)

LEMMA WalksAgree ==
  ASSUME NEW f, NEW g, NEW at, NEW p, NEW q, NEW m \in Nat, TwoWalks(f, g, at, p, q, m)
  PROVE  \A k \in 0 .. m : f[k] = g[k]
<1> DEFINE S == {k \in Nat : k =< m => f[k] = g[k]}
<1>0. Walking(f, at, p) /\ Walking(g, at, q) /\ SameUpTo(p, q, m)
  BY DEF TwoWalks
<1>1. 0 \in S
  BY <1>0 DEF Walking
<1>2. ASSUME NEW k \in Nat, 0 =< k, k \in S PROVE k + 1 \in S
  <2> SUFFICES ASSUME k + 1 =< m PROVE f[k + 1] = g[k + 1]
    OBVIOUS
  <2>1. k + 1 \in 1 .. m /\ (k + 1) - 1 = k /\ k =< m
    OBVIOUS
  <2>2. f[k] = g[k]
    BY <1>2, <2>1
  <2>3. k + 1 \in 1 .. Len(p) /\ k + 1 \in 1 .. Len(q) /\ p[k + 1] = q[k + 1]
    BY <1>0, <2>1 DEF SameUpTo
  <2>4. f[k + 1] = StepInto(f[(k + 1) - 1], p[k + 1]) /\ g[k + 1] = StepInto(g[(k + 1) - 1], q[k + 1])
    <3> HIDE DEF S
    <3> QED BY <1>0, <2>3 DEF Walking
  <2> QED BY <2>1, <2>2, <2>3, <2>4
<1>3. \A k \in Nat : 0 =< k => k \in S
  <2> HIDE DEF S
  <2> QED BY <1>1, <1>2, NumbersFrom
<1>4. \A k \in 0 .. m : k \in Nat /\ 0 =< k /\ k =< m
  OBVIOUS
<1> QED BY <1>3, <1>4

LEMMA WalkIs ==
  ASSUME NEW T, NEW at \in Seq(T), NEW segs \in Seq(T), NEW f, Walking(f, at, segs)
  PROVE  Walk(at, segs) = f[Len(segs)]
<1> DEFINE n == Len(segs)
           G(d, k) == IF k = 0 THEN at
                      ELSE CASE IsHere(segs[k]) -> d[k - 1]
                             [] segs[k] = ".." /\ d[k - 1] = <<>> -> <<>>
                             [] segs[k] = ".." /\ d[k - 1] # <<>> -> Front(d[k - 1])
                             [] OTHER -> Append(d[k - 1], segs[k])
           Whole(d) == d = [k \in 0 .. n |-> G(d, k)]
           h == CHOOSE d_ : Whole(d_)
<1>1. n \in Nat
  OBVIOUS
<1>2. ASSUME NEW d, NEW k \in 1 .. n PROVE G(d, k) = StepInto(d[k - 1], segs[k])
  <2>1. k # 0
    BY <1>1
  <2>2. CASE IsHere(segs[k])
    <3>1. segs[k] # ".."
      BY <2>2, NotHere
    <3> QED BY <2>1, <2>2, <3>1 DEF StepInto
  <2>3. CASE ~IsHere(segs[k]) /\ segs[k] = ".."
    BY <2>1, <2>3 DEF StepInto
  <2>4. CASE ~IsHere(segs[k]) /\ segs[k] # ".."
    BY <2>1, <2>4 DEF StepInto
  <2> QED BY <2>2, <2>3, <2>4
<1>3. PICK g \in [0 .. n -> Seq(T)] : Walking(g, at, segs)
  BY WalkExists
<1>4. \A k \in 0 .. n : k = 0 \/ k \in 1 .. n
  BY <1>1
<1>5. Whole(g)
  <2>1. ASSUME NEW k \in 0 .. n PROVE g[k] = G(g, k)
    <3>1. CASE k = 0
      BY <1>3, <3>1 DEF Walking
    <3>2. CASE k \in 1 .. n
      <4>1. g[k] = StepInto(g[k - 1], segs[k])
        BY <1>3, <3>2 DEF Walking
      <4>2. G(g, k) = StepInto(g[k - 1], segs[k])
        BY <1>2, <3>2
      <4> HIDE DEF G
      <4> QED BY <4>1, <4>2
    <3> QED BY <1>4, <3>1, <3>2
  <2> HIDE DEF n, G
  <2> QED BY <1>3, <2>1
<1>6. Whole(h)
  <2> HIDE DEF Whole
  <2> QED BY <1>5
<1>7. Walk(at, segs) = h[n]
  BY DEF Walk
<1> HIDE DEF h
<1>8. Walking(h, at, segs)
  <2>1. \A k \in 0 .. n : h[k] = G(h, k)
    <3> HIDE DEF n, G
    <3> QED BY <1>6
  <2>2. h[0] = at
    <3>1. 0 \in 0 .. n
      BY <1>1
    <3> QED BY <2>1, <3>1
  <2>3. \A k \in 1 .. n : h[k] = StepInto(h[k - 1], segs[k])
    <3> SUFFICES ASSUME NEW k \in 1 .. n PROVE h[k] = StepInto(h[k - 1], segs[k])
      OBVIOUS
    <3>1. k \in 0 .. n
      BY <1>1
    <3> HIDE DEF G, n
    <3> QED BY <1>2, <2>1, <3>1
  <2> QED BY <2>2, <2>3 DEF Walking
<1>9. h[n] = f[n]
  <2>1. n \in 0 .. n
    BY <1>1
  <2>2. TwoWalks(h, f, at, segs, segs, n)
    BY <1>8 DEF SameUpTo, TwoWalks
  <2> QED BY <1>1, <2>1, <2>2, WalksAgree
<1> QED BY <1>7, <1>9

LEMMA NormalizeIs ==
  ASSUME NEW T, NEW p, p.segs \in Seq(T), NEW f, Walking(f, <<>>, p.segs)
  PROVE  NormalizePath(p) = [p EXCEPT !.segs = f[Len(p.segs)]]
<1> DEFINE segs == p.segs
           n == Len(segs)
           G(d, k) == IF k = 0 THEN <<>>
                      ELSE IF IsHere(segs[k]) THEN d[k - 1]
                      ELSE IF segs[k] # ".." THEN Append(d[k - 1], segs[k])
                      ELSE IF d[k - 1] = <<>> THEN <<>> ELSE Front(d[k - 1])
           Whole(d) == d = [k \in 0 .. n |-> G(d, k)]
           h == CHOOSE d_ : Whole(d_)
<1>1. n \in Nat /\ <<>> \in Seq(T) /\ segs \in Seq(T)
  OBVIOUS
<1>2. ASSUME NEW d, NEW k \in 1 .. n PROVE G(d, k) = StepInto(d[k - 1], segs[k])
  <2>1. k # 0
    BY <1>1
  <2> HIDE DEF segs
  <2> QED BY <2>1 DEF StepInto
<1>4. \A k \in 0 .. n : k = 0 \/ k \in 1 .. n
  BY <1>1
<1>3. PICK g \in [0 .. n -> Seq(T)] : Walking(g, <<>>, segs)
  <2> HIDE DEF segs
  <2> QED BY <1>1, WalkExists
<1>5. Whole(g)
  <2>1. ASSUME NEW k \in 0 .. n PROVE g[k] = G(g, k)
    <3>1. CASE k = 0
      BY <1>3, <3>1 DEF Walking
    <3>2. CASE k \in 1 .. n
      <4>1. g[k] = StepInto(g[k - 1], segs[k])
        BY <1>3, <3>2 DEF Walking
      <4>2. G(g, k) = StepInto(g[k - 1], segs[k])
        BY <1>2, <3>2
      <4> HIDE DEF G
      <4> QED BY <4>1, <4>2
    <3> QED BY <1>4, <3>1, <3>2
  <2> HIDE DEF n, G
  <2> QED BY <1>3, <2>1
<1>6. Whole(h)
  <2> HIDE DEF Whole
  <2> QED BY <1>5
<1>7. NormalizePath(p) = [p EXCEPT !.segs = h[n]]
  BY DEF NormalizePath
<1> HIDE DEF h
<1>8. Walking(h, <<>>, segs)
  <2>1. \A k \in 0 .. n : h[k] = G(h, k)
    <3> HIDE DEF n, G
    <3> QED BY <1>6
  <2>2. h[0] = <<>>
    <3>1. 0 \in 0 .. n
      BY <1>1
    <3> QED BY <2>1, <3>1
  <2>3. \A k \in 1 .. n : h[k] = StepInto(h[k - 1], segs[k])
    <3> SUFFICES ASSUME NEW k \in 1 .. n PROVE h[k] = StepInto(h[k - 1], segs[k])
      OBVIOUS
    <3>1. k \in 0 .. n
      BY <1>1
    <3> HIDE DEF G, n
    <3> QED BY <1>2, <2>1, <3>1
  <2> QED BY <2>2, <2>3 DEF Walking
<1>9. h[n] = f[n]
  <2>1. n \in 0 .. n
    BY <1>1
  <2>2. TwoWalks(h, f, <<>>, segs, segs, n)
    BY <1>8 DEF SameUpTo, TwoWalks
  <2> HIDE DEF segs
  <2> QED BY <1>1, <2>1, <2>2, WalksAgree
<1> QED BY <1>7, <1>9

LEMMA AppendJoin ==
  ASSUME NEW T, NEW s \in Seq(T), NEW t \in Seq(T), NEW x \in T
  PROVE  Append(Join(s, t), x) = Join(s, Append(t, x))
<1> DEFINE a == Append(Join(s, t), x)
           u == Append(t, x)
           b == s \o u
           m == Len(s)
           n == Len(t)
<1>1. m \in Nat /\ n \in Nat
  OBVIOUS
<1>2. /\ s \o t \in Seq(T) /\ Len(s \o t) = m + n
      /\ \A i \in 1 .. m + n : (s \o t)[i] = IF i <= m THEN s[i] ELSE t[i - m]
  BY ConcatProperties
<1>3. a \in Seq(T) /\ Len(a) = m + n + 1 /\ a[m + n + 1] = x /\ \A i \in 1 .. m + n : a[i] = (s \o t)[i]
  <2> DEFINE c == s \o t
  <2>1. c \in Seq(T) /\ Len(c) = m + n /\ a = Append(c, x)
    BY <1>2 DEF Join
  <2> DEFINE e == Append(c, x)
  <2> HIDE DEF c, a
  <2>2. c \in Seq(T) /\ x \in T
    BY <2>1
  <2>3. e \in Seq(T) /\ Len(e) = Len(c) + 1 /\ e[Len(c) + 1] = x /\ \A i \in 1 .. Len(c) : e[i] = c[i]
    BY <2>2, AppendProperties
  <2>4. a = e
    BY <2>1
  <2> HIDE DEF e
  <2> QED BY <1>1, <2>1, <2>3, <2>4 DEF c
<1>4. u \in Seq(T) /\ Len(u) = n + 1 /\ u[n + 1] = x /\ \A i \in 1 .. n : u[i] = t[i]
  BY AppendProperties
<1> HIDE DEF a, u
<1>5. /\ b \in Seq(T) /\ Len(b) = m + (n + 1)
      /\ \A i \in 1 .. m + (n + 1) : b[i] = IF i <= m THEN s[i] ELSE u[i - m]
  <2>1. /\ s \o u \in Seq(T) /\ Len(s \o u) = m + Len(u)
        /\ \A i \in 1 .. m + Len(u) : (s \o u)[i] = IF i <= m THEN s[i] ELSE u[i - m]
    BY <1>4, ConcatProperties
  <2> QED BY <1>4, <2>1
<1> HIDE DEF b, m, n
<1>6. ASSUME NEW i \in 1 .. m + (n + 1) PROVE a[i] = b[i]
  <2>1. CASE i = m + n + 1
    <3>1. ~(i <= m) /\ i - m = n + 1
      BY <1>1, <2>1
    <3>2. b[i] = u[i - m]
      BY <1>5, <3>1
    <3> QED BY <1>3, <1>4, <2>1, <3>1, <3>2
  <2>2. CASE i # m + n + 1
    <3>1. i \in 1 .. m + n /\ (~(i <= m) => i - m \in 1 .. n)
      BY <1>1, <2>2
    <3>2. a[i] = IF i <= m THEN s[i] ELSE t[i - m]
      BY <1>2, <1>3, <3>1
    <3>3. b[i] = IF i <= m THEN s[i] ELSE u[i - m]
      BY <1>5
    <3>4. CASE i <= m
      BY <3>2, <3>3, <3>4
    <3>5. CASE ~(i <= m)
      <4>1. u[i - m] = t[i - m]
        BY <1>4, <3>1, <3>5
      <4> QED BY <3>2, <3>3, <3>5, <4>1
    <3> QED BY <3>4, <3>5
  <2> QED BY <2>1, <2>2
<1>7. a = b
  <2>1. Len(a) = Len(b) /\ Len(b) = m + (n + 1)
    BY <1>1, <1>3, <1>5
  <2> QED BY <1>3, <1>5, <1>6, <2>1, SeqEqual
<1> QED BY <1>7 DEF a, b, u, Join

LEMMA FrontJoin ==
  ASSUME NEW T, NEW s \in Seq(T), NEW t \in Seq(T), t # <<>>
  PROVE  Join(s, t) # <<>> /\ Front(Join(s, t)) = Join(s, Front(t))
<1> DEFINE m == Len(s)
           n == Len(t) - 1
           c == s \o t
           a == Front(c)
           u == Front(t)
           b == s \o u
<1>1. m \in Nat /\ n \in Nat /\ Len(t) = n + 1
  OBVIOUS
<1>2. c \in Seq(T) /\ Len(c) = m + (n + 1) /\ \A i \in 1 .. m + (n + 1) : c[i] = IF i <= m THEN s[i] ELSE t[i - m]
  <2>1. /\ s \o t \in Seq(T) /\ Len(s \o t) = m + Len(t)
        /\ \A i \in 1 .. m + Len(t) : (s \o t)[i] = IF i <= m THEN s[i] ELSE t[i - m]
    BY ConcatProperties
  <2> QED BY <1>1, <2>1
<1> HIDE DEF c
<1>3. c # <<>> /\ Len(c) - 1 = m + n
  BY <1>1, <1>2
<1>4. a \in Seq(T) /\ Len(a) = m + n /\ \A i \in 1 .. m + n : a[i] = c[i]
  BY <1>2, <1>3, FrontOf
<1>5. u \in Seq(T) /\ Len(u) = n /\ \A i \in 1 .. n : u[i] = t[i]
  BY FrontOf
<1> HIDE DEF a, u
<1>6. b \in Seq(T) /\ Len(b) = m + n /\ \A i \in 1 .. m + n : b[i] = IF i <= m THEN s[i] ELSE u[i - m]
  <2>1. /\ s \o u \in Seq(T) /\ Len(s \o u) = m + Len(u)
        /\ \A i \in 1 .. m + Len(u) : (s \o u)[i] = IF i <= m THEN s[i] ELSE u[i - m]
    BY <1>5, ConcatProperties
  <2> QED BY <1>5, <2>1
<1> HIDE DEF b, m, n
<1>7. ASSUME NEW i \in 1 .. m + n PROVE a[i] = b[i]
  <2>1. i \in 1 .. m + (n + 1) /\ (~(i <= m) => i - m \in 1 .. n)
    BY <1>1
  <2>2. a[i] = IF i <= m THEN s[i] ELSE t[i - m]
    BY <1>2, <1>4, <2>1
  <2>3. b[i] = IF i <= m THEN s[i] ELSE u[i - m]
    BY <1>6
  <2>4. CASE i <= m
    BY <2>2, <2>3, <2>4
  <2>5. CASE ~(i <= m)
    <3>1. u[i - m] = t[i - m]
      BY <1>5, <2>1, <2>5
    <3> QED BY <2>2, <2>3, <2>5, <3>1
  <2> QED BY <2>4, <2>5
<1>8. a = b
  BY <1>4, <1>6, <1>7, SeqEqual
<1> QED BY <1>3, <1>8 DEF a, b, c, u, Join

LEMMA JoinLength ==
  ASSUME NEW T, NEW s \in Seq(T), NEW t \in Seq(T)
  PROVE  Len(Join(s, t)) = Len(s) + Len(t)
BY ConcatProperties DEF Join

(* A step below the start is the same step from nowhere.                   *)
LEMMA StepFromStart ==
  ASSUME NEW T, NEW at \in Seq(T), NEW d \in Seq(T), NEW seg \in T,
         Len(at) <= Len(StepInto(Join(at, d), seg))
  PROVE  StepInto(Join(at, d), seg) = Join(at, StepInto(d, seg))
<1>1. Join(at, d) \in Seq(T) /\ Len(at) \in Nat /\ Len(d) \in Nat
  BY JoinType
<1>2. CASE IsHere(seg)
  BY <1>2 DEF StepInto
<1>3. CASE ~IsHere(seg) /\ seg # ".."
  BY <1>3, AppendJoin DEF StepInto
<1>4. CASE ~IsHere(seg) /\ seg = ".." /\ d = <<>>
  <2>1. Join(at, d) = at /\ StepInto(d, seg) = <<>> /\ Join(at, <<>>) = at
    BY <1>4, JoinNone DEF StepInto
  <2>2. at = <<>>
    <3> SUFFICES ASSUME at # <<>> PROVE FALSE
      OBVIOUS
    <3>1. StepInto(at, seg) = Front(at)
      BY <1>4 DEF StepInto
    <3>2. Len(Front(at)) = Len(at) - 1
      BY FrontOf
    <3>3. Len(at) <= Len(StepInto(at, seg))
      BY <2>1
    <3> QED BY <1>1, <3>1, <3>2, <3>3
  <2> QED BY <1>4, <2>1, <2>2 DEF StepInto
<1>5. CASE ~IsHere(seg) /\ seg = ".." /\ d # <<>>
  <2>1. Join(at, d) # <<>> /\ Front(Join(at, d)) = Join(at, Front(d))
    BY <1>5, FrontJoin
  <2> QED BY <1>5, <2>1 DEF StepInto
<1> QED BY <1>2, <1>3, <1>4, <1>5

NoShorter(f, at, m) == \A k \in 0 .. m : Len(at) <= Len(f[k])

LEMMA WalkFromStart ==
  ASSUME NEW T, NEW at \in Seq(T), NEW segs \in Seq(T),
         NEW f, Walking(f, at, segs), NEW g \in [0 .. Len(segs) -> Seq(T)], Walking(g, <<>>, segs),
         NoShorter(f, at, Len(segs))
  PROVE  f[Len(segs)] = Join(at, g[Len(segs)])
<1> DEFINE n == Len(segs)
           S == {k \in Nat : k =< n => f[k] = Join(at, g[k])}
<1>1. n \in Nat /\ \A k \in 1 .. n : segs[k] \in T
  OBVIOUS
<1>2. 0 \in S
  <2>1. f[0] = at /\ g[0] = <<>>
    BY DEF Walking
  <2> QED BY <2>1, JoinNone
<1>3. ASSUME NEW k \in Nat, 0 =< k, k \in S PROVE k + 1 \in S
  <2> SUFFICES ASSUME k + 1 =< n PROVE f[k + 1] = Join(at, g[k + 1])
    OBVIOUS
  <2>1. k + 1 \in 1 .. n /\ (k + 1) - 1 = k /\ k =< n /\ k \in 0 .. n /\ k + 1 \in 0 .. n
    BY <1>1
  <2>2. f[k] = Join(at, g[k])
    BY <1>3, <2>1
  <2> HIDE DEF S
  <2>3. f[k + 1] = StepInto(f[(k + 1) - 1], segs[k + 1]) /\ g[k + 1] = StepInto(g[(k + 1) - 1], segs[k + 1])
    BY <2>1 DEF Walking
  <2>4. f[k + 1] = StepInto(Join(at, g[k]), segs[k + 1]) /\ g[k + 1] = StepInto(g[k], segs[k + 1])
    BY <2>1, <2>2, <2>3
  <2>5. g[k] \in Seq(T) /\ segs[k + 1] \in T /\ Len(at) <= Len(f[k + 1])
    BY <1>1, <2>1 DEF NoShorter
  <2> DEFINE d == g[k]
             seg == segs[k + 1]
  <2>6. d \in Seq(T) /\ seg \in T /\ Len(at) <= Len(StepInto(Join(at, d), seg))
    BY <2>4, <2>5
  <2> HIDE DEF d, seg
  <2>7. StepInto(Join(at, d), seg) = Join(at, StepInto(d, seg))
    BY <2>6, StepFromStart
  <2> QED BY <2>4, <2>7 DEF d, seg
<1>4. n \in S
  <2> HIDE DEF S, n
  <2>1. \A k \in Nat : 0 =< k => k \in S
    BY <1>2, <1>3, NumbersFrom
  <2> QED BY <1>1, <2>1
<1> QED BY <1>1, <1>4

(* A normalized path has names only, and a walk along names goes down.     *)
PlainNames(T) == {x \in T : ~IsHere(x) /\ x # ".."}

LEMMA WalkIsPlain ==
  ASSUME NEW T, NEW segs \in Seq(T), NEW g, Walking(g, <<>>, segs)
  PROVE  g[Len(segs)] \in Seq(PlainNames(T))
<1> DEFINE n == Len(segs)
           P == PlainNames(T)
           V == Seq(P)
<1>1. n \in Nat /\ 0 \in Nat /\ 0 =< n /\ \A k \in 1 .. n : segs[k] \in T
  OBVIOUS
<1>2. g[0] \in V
  <2>1. g[0] = <<>>
    BY DEF Walking
  <2> QED BY <2>1
<1>3. ASSUME NEW k \in (0 + 1) .. n, g[k - 1] \in V PROVE g[k] \in V
  <2>1. k \in 1 .. n
    OBVIOUS
  <2>2. g[k] = StepInto(g[k - 1], segs[k]) /\ segs[k] \in T
    BY <1>1, <2>1 DEF Walking
  <2> DEFINE d == g[k - 1]
             x == segs[k]
  <2>3. d \in V /\ g[k] = StepInto(d, x) /\ x \in T
    BY <1>3, <2>2
  <2> HIDE DEF d, x
  <2>4. d # <<>> => Front(d) \in V
    <3> HIDE DEF P
    <3> QED BY <2>3, FrontOf
  <2>5. ~IsHere(x) /\ x # ".." => Append(d, x) \in V
    <3> SUFFICES ASSUME ~IsHere(x), x # ".." PROVE Append(d, x) \in V
      OBVIOUS
    <3>1. x \in P
      BY <2>3 DEF PlainNames
    <3> HIDE DEF P
    <3> QED BY <2>3, <3>1
  <2>6. <<>> \in V
    OBVIOUS
  <2> HIDE DEF V
  <2> QED BY <2>3, <2>4, <2>5, <2>6 DEF StepInto
<1>4. \A k \in 0 .. n : g[k] \in V
  <2> HIDE DEF V, n
  <2> QED BY <1>1, <1>2, <1>3, LineKeeps
<1>5. n \in 0 .. n
  BY <1>1
<1> QED BY <1>4, <1>5

LEMMA WalkGoesDown ==
  ASSUME NEW T, NEW at \in Seq(T), NEW names \in Seq(PlainNames(T))
  PROVE  Walk(at, names) = Join(at, names)
<1> DEFINE n == Len(names)
           f == [k \in 0 .. n |-> Join(at, SubSeq(names, 1, k))]
<1>1. n \in Nat /\ names \in Seq(T) /\ \A k \in 1 .. n : names[k] \in T /\ ~IsHere(names[k]) /\ names[k] # ".."
  <2>1. PlainNames(T) \subseteq T
    BY DEF PlainNames
  <2>2. \A k \in 1 .. n : names[k] \in PlainNames(T)
    OBVIOUS
  <2>3. names \in Seq(T)
    BY <2>1
  <2> QED BY <2>2, <2>3 DEF PlainNames
<1>2. ASSUME NEW k \in 0 .. n
      PROVE  SubSeq(names, 1, k) \in Seq(T) /\ Len(SubSeq(names, 1, k)) = k
             /\ \A i \in 1 .. k : SubSeq(names, 1, k)[i] = names[i]
  <2>1. k \in Int /\ 1 \in Int /\ \A i \in 1 .. k : names[i] \in T
    BY <1>1
  <2>2. /\ SubSeq(names, 1, k) \in Seq(T)
        /\ Len(SubSeq(names, 1, k)) = IF 1 <= k THEN k - 1 + 1 ELSE 0
        /\ \A i \in 1 .. k - 1 + 1 : SubSeq(names, 1, k)[i] = names[1 + i - 1]
    BY <2>1, SubSeqProperties
  <2>3. (IF 1 <= k THEN k - 1 + 1 ELSE 0) = k /\ k - 1 + 1 = k
    BY <1>1
  <2>4. \A i \in 1 .. k : 1 + i - 1 = i
    BY <1>1
  <2> QED BY <2>2, <2>3, <2>4
<1>3. f[0] = at
  <2>1. SubSeq(names, 1, 0) = <<>>
    <3>1. 0 \in 0 .. n
      BY <1>1
    <3> QED BY <1>2, <3>1, EmptySeq
  <2>2. 0 \in 0 .. n
    BY <1>1
  <2> QED BY <2>1, <2>2, JoinNone
<1>4. ASSUME NEW k \in 1 .. n PROVE f[k] = StepInto(f[k - 1], names[k])
  <2>1. k \in 0 .. n /\ k - 1 \in 0 .. n /\ (k - 1) + 1 = k
    BY <1>1
  <2> DEFINE p == SubSeq(names, 1, k - 1)
             q == SubSeq(names, 1, k)
             x == names[k]
             r == Append(p, x)
  <2>2. p \in Seq(T) /\ Len(p) = k - 1 /\ \A i \in 1 .. k - 1 : p[i] = names[i]
    BY <1>2, <2>1
  <2>3. q \in Seq(T) /\ Len(q) = k /\ \A i \in 1 .. k : q[i] = names[i]
    BY <1>2, <2>1
  <2>4. x \in T /\ ~IsHere(x) /\ x # ".."
    BY <1>1
  <2>5. f[k - 1] = Join(at, p) /\ f[k] = Join(at, q)
    BY <2>1
  <2> HIDE DEF p, q, f
  <2>6. r \in Seq(T) /\ Len(r) = Len(p) + 1 /\ r[Len(p) + 1] = x /\ \A i \in 1 .. Len(p) : r[i] = p[i]
    BY <2>2, <2>4, AppendProperties
  <2> HIDE DEF r
  <2>7. r = q
    <3>1. ASSUME NEW i \in 1 .. k PROVE r[i] = q[i]
      <4>1. CASE i = k
        BY <2>1, <2>2, <2>3, <2>6, <4>1
      <4>2. CASE i # k
        <5>1. i \in 1 .. k - 1
          BY <1>1, <4>2
        <5> QED BY <2>2, <2>3, <2>6, <5>1
      <4> QED BY <4>1, <4>2
    <3>2. Len(r) = Len(q) /\ Len(r) = k
      BY <2>1, <2>2, <2>3, <2>6
    <3> QED BY <2>3, <2>6, <3>1, <3>2, SeqEqual
  <2> HIDE DEF x
  <2>8. Append(Join(at, p), x) = Join(at, r)
    BY <2>2, <2>4, AppendJoin DEF r
  <2>9. StepInto(f[k - 1], x) = Append(f[k - 1], x)
    BY <2>4 DEF StepInto
  <2> QED BY <2>5, <2>7, <2>8, <2>9 DEF x
<1>5. Walking(f, at, names)
  BY <1>3, <1>4 DEF Walking
<1>6. Walk(at, names) = f[n]
  <2> HIDE DEF f
  <2> QED BY <1>1, <1>5, WalkIs
<1>7. f[n] = Join(at, names)
  <2>1. n \in 0 .. n
    BY <1>1
  <2>2. SubSeq(names, 1, n) = names
    BY SubSeqFull
  <2> QED BY <2>1, <2>2
<1> QED BY <1>6, <1>7

(* A path that stays below the start of a walk, all the way along.         *)
Stays(start, segs) == \A k \in 0 .. Len(segs) : IsPrefix(start, Walk(start, SubSeq(segs, 1, k)))

LEMMA NormalizedIsFound ==
  ASSUME NEW T, NEW start \in Seq(T), NEW p \in [abs : BOOLEAN, segs : Seq(T)], Stays(start, p.segs)
  PROVE  NormalizePath(p).abs = p.abs /\ Walk(start, NormalizePath(p).segs) = Walk(start, p.segs)
<1> DEFINE w == p.segs
           n == Len(w)
<1>1. w \in Seq(T) /\ n \in Nat /\ <<>> \in Seq(T)
  OBVIOUS
<1> HIDE DEF w
<1>2. PICK f \in [0 .. Len(w) -> Seq(T)] : Walking(f, start, w)
  BY <1>1, WalkExists
<1>3. PICK g \in [0 .. Len(w) -> Seq(T)] : Walking(g, <<>>, w)
  BY <1>1, WalkExists
<1>4. NormalizePath(p) = [p EXCEPT !.segs = g[n]]
  BY <1>1, <1>3, NormalizeIs DEF w
<1>5. NormalizePath(p).abs = p.abs /\ NormalizePath(p).segs = g[n]
  BY <1>4
<1>6. Walk(start, w) = f[n]
  BY <1>1, <1>2, WalkIs
<1>7. ASSUME NEW k \in 0 .. Len(w) PROVE Len(start) <= Len(f[k])
  <2> DEFINE q == SubSeq(w, 1, k)
  <2>1. k \in Nat /\ q \in Seq(T) /\ Len(q) = k /\ SameUpTo(q, w, k)
    <3>1. k \in Int /\ 1 \in Int /\ \A i \in 1 .. k : w[i] \in T
      BY <1>1
    <3>2. /\ SubSeq(w, 1, k) \in Seq(T)
          /\ Len(SubSeq(w, 1, k)) = IF 1 <= k THEN k - 1 + 1 ELSE 0
          /\ \A i \in 1 .. k - 1 + 1 : SubSeq(w, 1, k)[i] = w[1 + i - 1]
      BY <3>1, SubSeqProperties
    <3>3. (IF 1 <= k THEN k - 1 + 1 ELSE 0) = k /\ k - 1 + 1 = k
      BY <1>1
    <3>4. \A i \in 1 .. k : 1 + i - 1 = i /\ i \in 1 .. Len(w)
      BY <1>1
    <3> QED BY <1>1, <3>2, <3>3, <3>4 DEF SameUpTo
  <2> HIDE DEF q
  <2>2. PICK h \in [0 .. Len(q) -> Seq(T)] : Walking(h, start, q)
    BY <2>1, WalkExists
  <2>3. Walk(start, q) = h[k]
    BY <2>1, <2>2, WalkIs
  <2>4. k \in Nat /\ k \in 0 .. k /\ TwoWalks(h, f, start, q, w, k)
    BY <1>2, <2>1, <2>2 DEF TwoWalks
  <2>5. \A j \in 0 .. k : h[j] = f[j]
    BY <2>4, WalksAgree
  <2>6. h[k] = f[k]
    BY <2>4, <2>5
  <2>7. IsPrefix(start, Walk(start, q))
    BY DEF Stays, q, w
  <2> QED BY <2>3, <2>6, <2>7 DEF IsPrefix
<1>8. f[n] = Join(start, g[n])
  <2>1. NoShorter(f, start, Len(w))
    BY <1>7 DEF NoShorter
  <2> QED BY <1>1, <1>2, <1>3, <2>1, WalkFromStart
<1>9. g[n] \in Seq(PlainNames(T))
  BY <1>1, <1>3, WalkIsPlain
<1> DEFINE names == g[n]
<1>10. names \in Seq(PlainNames(T))
  BY <1>9
<1> HIDE DEF names
<1>11. Walk(start, names) = Join(start, names)
  BY <1>10, WalkGoesDown
<1> QED BY <1>5, <1>6, <1>8, <1>11 DEF w, names

LEMMA ImagePathIsFound ==
  ASSUME NEW T, "up" \in T, "cwd" \in T,
         NEW src \in [abs : BOOLEAN, segs : Seq(T)], NEW dir \in [abs : BOOLEAN, segs : Seq(T)]
  PROVE  LET start == IF src.abs \/ dir.abs THEN <<>> ELSE <<"up", "cwd">>
             written == (IF src.abs THEN <<>> ELSE dir.segs) \o src.segs
             path == ResolveImagePath(src, dir)
             leaves == \E n \in 0 .. Len(written) : ~IsPrefix(start, Walk(start, SubSeq(written, 1, n)))
         IN  leaves \/ (path.abs = (start = <<>>) /\ Walk(start, path.segs) = Walk(start, written))
<1> DEFINE start == IF src.abs \/ dir.abs THEN <<>> ELSE <<"up", "cwd">>
           written == (IF src.abs THEN <<>> ELSE dir.segs) \o src.segs
           path == ResolveImagePath(src, dir)
           Written(p) == p \in [abs : BOOLEAN, segs : Seq(T)] /\ p.segs = written
                         /\ p.abs = (src.abs \/ dir.abs) /\ path = NormalizePath(p)
<1>1. start \in Seq(T) /\ ((src.abs \/ dir.abs) = (start = <<>>))
  OBVIOUS
<1>2. src.segs \in Seq(T) /\ dir.segs \in Seq(T) /\ <<>> \o src.segs = src.segs
  BY ConcatEmptySeq
<1>3. \E p : Written(p)
  <2>1. CASE src.abs
    <3>1. Written(src)
      BY <1>2, <2>1 DEF ResolveImagePath
    <3> QED BY <3>1
  <2>2. CASE ~src.abs /\ dir = [abs |-> FALSE, segs |-> <<>>]
    <3>1. Written(src)
      BY <1>2, <2>2 DEF ResolveImagePath
    <3> QED BY <3>1
  <2>3. CASE ~src.abs /\ dir # [abs |-> FALSE, segs |-> <<>>]
    <3> DEFINE p == [dir EXCEPT !.segs = @ \o src.segs]
    <3>1. p \in [abs : BOOLEAN, segs : Seq(T)] /\ p.segs = dir.segs \o src.segs /\ p.abs = dir.abs
      <4> DEFINE u == dir.segs \o src.segs
      <4>1. u \in Seq(T)
        BY <1>2
      <4> HIDE DEF u
      <4>2. p = [dir EXCEPT !.segs = u]
        BY DEF u
      <4> HIDE DEF p
      <4> QED BY <4>1, <4>2 DEF u
    <3>2. path = NormalizePath(p)
      BY <2>3 DEF ResolveImagePath
    <3> HIDE DEF p, path
    <3>3. Written(p)
      BY <2>3, <3>1, <3>2
    <3> QED BY <3>3
  <2> QED BY <2>1, <2>2, <2>3
<1>4. PICK p : Written(p)
  BY <1>3
<1>5. p \in [abs : BOOLEAN, segs : Seq(T)] /\ p.segs = written /\ p.abs = (src.abs \/ dir.abs) /\ path = NormalizePath(p)
  BY <1>4
<1> HIDE DEF path, start, written
<1> SUFFICES ASSUME \A n \in 0 .. Len(written) : IsPrefix(start, Walk(start, SubSeq(written, 1, n)))
             PROVE  path.abs = (start = <<>>) /\ Walk(start, path.segs) = Walk(start, written)
  BY DEF path, start, written
<1>6. Stays(start, p.segs)
  BY <1>5 DEF Stays
<1>7. NormalizePath(p).abs = p.abs /\ Walk(start, NormalizePath(p).segs) = Walk(start, p.segs)
  BY <1>1, <1>5, <1>6, NormalizedIsFound
<1> QED BY <1>1, <1>5, <1>7

(* How many elements of a sequence are in a set.                           *)
Count(s, M) == Cardinality({i \in 1 .. Len(s) : s[i] \in M})

LEMMA CountType ==
  ASSUME NEW S, NEW s \in Seq(S), NEW M
  PROVE  IsFiniteSet({i \in 1 .. Len(s) : s[i] \in M}) /\ Count(s, M) \in Nat
<1>1. IsFiniteSet(1 .. Len(s))
  BY FS_Interval
<1>2. IsFiniteSet({i \in 1 .. Len(s) : s[i] \in M})
  BY <1>1, FS_Subset
<1> QED BY <1>2, FS_CardinalityType DEF Count

LEMMA CountOfEmpty == ASSUME NEW M PROVE Count(<<>>, M) = 0
<1>1. {i \in 1 .. Len(<<>>) : <<>>[i] \in M} = {}
  OBVIOUS
<1> QED BY <1>1, FS_EmptySet DEF Count

LEMMA CountAppend ==
  ASSUME NEW S, NEW s \in Seq(S), NEW m \in S, NEW M
  PROVE  Count(Append(s, m), M) = IF m \in M THEN Count(s, M) + 1 ELSE Count(s, M)
<1> DEFINE before == {i \in 1 .. Len(s) : s[i] \in M}
           after == {i \in 1 .. Len(Append(s, m)) : Append(s, m)[i] \in M}
           n == Len(s) + 1
<1>1. n \notin before /\ n \in Nat
  OBVIOUS
<1>2. after = IF m \in M THEN before \cup {n} ELSE before
  <2>1. Len(Append(s, m)) = n /\ Append(s, m)[n] = m /\ \A i \in 1 .. Len(s) : Append(s, m)[i] = s[i]
    OBVIOUS
  <2>2. 1 .. n = (1 .. Len(s)) \cup {n}
    OBVIOUS
  <2> QED BY <2>1, <2>2
<1>3. IsFiniteSet(before)
  BY CountType
<1>4. Cardinality(before \cup {n}) = Cardinality(before) + 1
  BY <1>1, <1>3, FS_AddElement
<1> QED BY <1>2, <1>4 DEF Count

LEMMA CountTail ==
  ASSUME NEW S, NEW s \in Seq(S), s # <<>>, NEW M
  PROVE  Count(Tail(s), M) = IF Head(s) \in M THEN Count(s, M) - 1 ELSE Count(s, M)
<1> DEFINE hits == {i \in 1 .. Len(s) : s[i] \in M}
           rest == {i \in 1 .. Len(Tail(s)) : Tail(s)[i] \in M}
           f == [i \in rest |-> i + 1]
<1>1. /\ Tail(s) \in Seq(S) /\ Len(Tail(s)) = Len(s) - 1 /\ Head(s) = s[1] /\ Len(s) \in Nat \ {0}
      /\ \A i \in 1 .. Len(Tail(s)) : Tail(s)[i] = s[i + 1]
  OBVIOUS
<1>2. IsFiniteSet(rest) /\ IsFiniteSet(hits)
  BY <1>1, CountType
<1>3. f \in [rest -> hits \ {1}]
  BY <1>1
<1>4. \A i, j \in rest : f[i] = f[j] => i = j
  OBVIOUS
<1>5. \A h \in hits \ {1} : \E i \in rest : f[i] = h
  <2> TAKE h \in hits \ {1}
  <2>1. h - 1 \in rest /\ f[h - 1] = h
    BY <1>1
  <2> QED BY <2>1
<1>6. ExistsBijection(rest, hits \ {1})
  <2> HIDE DEF f
  <2> QED BY <1>3, <1>4, <1>5, Fun_IsBij DEF ExistsBijection
<1>7. Cardinality(rest) = Cardinality(hits \ {1})
  BY <1>2, <1>6, FS_Bijection
<1>8. Cardinality(hits \ {1}) = IF 1 \in hits THEN Cardinality(hits) - 1 ELSE Cardinality(hits)
  BY <1>2, FS_RemoveElement
<1>9. 1 \in hits <=> Head(s) \in M
  BY <1>1
<1> QED BY <1>7, <1>8, <1>9 DEF Count

(* InsertAt and RemoveAt, place by place.                                  *)
LEMMA InsertedAt ==
  ASSUME NEW T, NEW s \in Seq(T), NEW e \in T, NEW p \in 1 .. Len(s) + 1
  PROVE  /\ InsertAt(s, p, e) \in Seq(T)
         /\ Len(InsertAt(s, p, e)) = Len(s) + 1
         /\ \A i \in 1 .. Len(s) + 1 :
              InsertAt(s, p, e)[i] = IF i < p THEN s[i] ELSE IF i = p THEN e ELSE s[i - 1]
<1> DEFINE a == SubSeq(s, 1, p - 1)
           b == SubSeq(s, p, Len(s))
<1>1. a \in Seq(T) /\ Len(a) = p - 1 /\ \A i \in 1 .. p - 1 : a[i] = s[i]
  OBVIOUS
<1>2. b \in Seq(T) /\ Len(b) = Len(s) - p + 1 /\ \A i \in 1 .. Len(s) - p + 1 : b[i] = s[p + i - 1]
  OBVIOUS
<1>3. <<e>> \in Seq(T) /\ Len(<<e>>) = 1 /\ <<e>>[1] = e
  OBVIOUS
<1>4. InsertAt(s, p, e) = (a \o <<e>>) \o b
  BY DEF InsertAt
<1>5. Len(s) \in Nat
  OBVIOUS
<1> HIDE DEF a, b
<1> DEFINE c == a \o <<e>>
<1>6. c \in Seq(T) /\ Len(c) = p /\ c[p] = e /\ \A i \in 1 .. p - 1 : c[i] = s[i]
  <2>1. c \in Seq(T) /\ Len(c) = p
    BY <1>1, <1>3
  <2>2. c[p] = e
    BY <1>1, <1>3
  <2>3. \A i \in 1 .. p - 1 : c[i] = a[i]
    BY <1>1, <1>3
  <2> HIDE DEF c
  <2> QED BY <1>1, <2>1, <2>2, <2>3
<1> HIDE DEF c
<1>7. c \o b \in Seq(T) /\ Len(c \o b) = Len(s) + 1
  BY <1>2, <1>5, <1>6
<1>8. ASSUME NEW i \in 1 .. Len(s) + 1
      PROVE  (c \o b)[i] = IF i < p THEN s[i] ELSE IF i = p THEN e ELSE s[i - 1]
  <2>1. CASE i =< p
    BY <1>2, <1>5, <1>6, <2>1
  <2>2. CASE ~(i =< p)
    <3>1. i - p \in 1 .. Len(s) - p + 1 /\ p + (i - p) - 1 = i - 1
      BY <1>5, <2>2
    <3>2. (c \o b)[i] = b[i - p]
      BY <1>2, <1>5, <1>6, <2>2
    <3>3. b[i - p] = s[p + (i - p) - 1]
      BY <1>2, <3>1
    <3>4. ~(i < p) /\ i # p
      BY <1>5, <2>2
    <3> QED BY <1>5, <3>1, <3>2, <3>3, <3>4
  <2> QED BY <2>1, <2>2
<1> QED BY <1>4, <1>7, <1>8 DEF c

LEMMA RemovedAt ==
  ASSUME NEW T, NEW s \in Seq(T), NEW p \in 1 .. Len(s)
  PROVE  /\ RemoveAt(s, p) \in Seq(T)
         /\ Len(RemoveAt(s, p)) = Len(s) - 1
         /\ \A i \in 1 .. Len(s) - 1 : RemoveAt(s, p)[i] = IF i < p THEN s[i] ELSE s[i + 1]
<1> DEFINE a == SubSeq(s, 1, p - 1)
           b == SubSeq(s, p + 1, Len(s))
<1>1. a \in Seq(T) /\ Len(a) = p - 1 /\ \A i \in 1 .. p - 1 : a[i] = s[i]
  OBVIOUS
<1>2. b \in Seq(T) /\ Len(b) = Len(s) - p /\ \A i \in 1 .. Len(s) - p : b[i] = s[p + i]
  OBVIOUS
<1>3. RemoveAt(s, p) = a \o b /\ Len(s) \in Nat
  BY DEF RemoveAt
<1> HIDE DEF a, b
<1>4. a \o b \in Seq(T) /\ Len(a \o b) = Len(s) - 1
  BY <1>1, <1>2, <1>3
<1>5. ASSUME NEW i \in 1 .. Len(s) - 1 PROVE (a \o b)[i] = IF i < p THEN s[i] ELSE s[i + 1]
  <2>1. CASE i < p
    BY <1>1, <1>2, <1>3, <2>1
  <2>2. CASE ~(i < p)
    <3>1. i - (p - 1) \in 1 .. Len(s) - p /\ p + (i - (p - 1)) = i + 1
      BY <1>3, <2>2
    <3>2. (a \o b)[i] = b[i - (p - 1)]
      BY <1>1, <1>2, <1>3, <2>2
    <3>3. b[i - (p - 1)] = s[p + (i - (p - 1))]
      BY <1>2, <3>1
    <3>4. ~(i < p)
      BY <1>3, <2>2
    <3> QED BY <1>3, <3>1, <3>2, <3>3, <3>4
  <2> QED BY <2>1, <2>2
<1> QED BY <1>3, <1>4, <1>5

(* The same for a table, a cell of which depends on the three above and to *)
(* the left of it.                                                         *)
Cells(m, n) == (0 .. m) \X (0 .. n)
InnerCells(m, n) == (1 .. m) \X (1 .. n)
Diagonal(p) == <<p[1] - 1, p[2] - 1>>
Up(p) == <<p[1] - 1, p[2]>>
Left(p) == <<p[1], p[2] - 1>>

Table(g, m, n, V, e, F) ==
  /\ g \in [Cells(m, n) -> V]
  /\ \A p \in Cells(m, n) :
       g[p] = IF p[1] = 0 \/ p[2] = 0 THEN e ELSE F[p][g[Diagonal(p)]][g[Up(p)]][g[Left(p)]]

LEMMA CellsBefore ==
  ASSUME NEW m \in Nat, NEW n \in Nat, NEW p \in Cells(m, n), ~(p[1] = 0 \/ p[2] = 0)
  PROVE  /\ p \in InnerCells(m, n) /\ p[1] + p[2] \in Nat
         /\ \A q \in {Diagonal(p), Up(p), Left(p)} :
              q \in Cells(m, n) /\ q[1] + q[2] \in Nat /\ q[1] + q[2] < p[1] + p[2]
<1>1. p[1] \in 1 .. m /\ p[2] \in 1 .. n /\ p = <<p[1], p[2]>>
  BY DEF Cells
<1>2. p \in InnerCells(m, n)
  BY <1>1 DEF InnerCells
<1>3. ASSUME NEW i \in 0 .. m, NEW j \in 0 .. n PROVE <<i, j>> \in Cells(m, n) /\ <<i, j>>[1] = i /\ <<i, j>>[2] = j
  BY DEF Cells
<1>4. p[1] - 1 \in 0 .. m /\ p[1] \in 0 .. m /\ p[2] - 1 \in 0 .. n /\ p[2] \in 0 .. n
  BY <1>1
<1>5. /\ Diagonal(p) \in Cells(m, n) /\ Diagonal(p)[1] = p[1] - 1 /\ Diagonal(p)[2] = p[2] - 1
      /\ Up(p) \in Cells(m, n) /\ Up(p)[1] = p[1] - 1 /\ Up(p)[2] = p[2]
      /\ Left(p) \in Cells(m, n) /\ Left(p)[1] = p[1] /\ Left(p)[2] = p[2] - 1
  BY <1>3, <1>4 DEF Diagonal, Up, Left
<1>6. /\ p[1] - 1 + (p[2] - 1) \in Nat /\ p[1] - 1 + p[2] \in Nat /\ p[1] + (p[2] - 1) \in Nat
      /\ p[1] - 1 + (p[2] - 1) < p[1] + p[2] /\ p[1] - 1 + p[2] < p[1] + p[2] /\ p[1] + (p[2] - 1) < p[1] + p[2]
      /\ p[1] + p[2] \in Nat
  BY <1>1
<1> QED BY <1>2, <1>5, <1>6

LEMMA TableExists ==
  ASSUME NEW m \in Nat, NEW n \in Nat, NEW V, NEW e \in V,
         NEW F \in [InnerCells(m, n) -> [V -> [V -> [V -> V]]]]
  PROVE  \E g : Table(g, m, n, V, e, F)
<1> DEFINE D == Cells(m, n)
           Edge(p) == p[1] = 0 \/ p[2] = 0
           Level(p) == p[1] + p[2]
           Cell(g, p) == IF Edge(p) THEN e ELSE F[p][g[Diagonal(p)]][g[Up(p)]][g[Left(p)]]
           Good(g, s) == g \in [D -> V] /\ \A p \in D : Level(p) =< s => g[p] = Cell(g, p)
           S == {s \in Nat : \E g : Good(g, s)}
<1>1. \A p \in D : Level(p) \in Nat /\ Level(p) =< m + n
  BY DEF Cells
<1>2. ASSUME NEW g \in [D -> V], NEW p \in D PROVE Cell(g, p) \in V
  <2>1. CASE ~Edge(p)
    <3>1. p \in InnerCells(m, n) /\ Diagonal(p) \in D /\ Up(p) \in D /\ Left(p) \in D
      BY <2>1, CellsBefore
    <3>2. g[Diagonal(p)] \in V /\ g[Up(p)] \in V /\ g[Left(p)] \in V
      BY <3>1
    <3>3. F[p] \in [V -> [V -> [V -> V]]]
      BY <3>1
    <3>4. F[p][g[Diagonal(p)]] \in [V -> [V -> V]]
      BY <3>2, <3>3
    <3>5. F[p][g[Diagonal(p)]][g[Up(p)]] \in [V -> V]
      BY <3>2, <3>4
    <3> QED BY <2>1, <3>2, <3>5
  <2> QED BY <2>1
<1>3. ASSUME NEW g \in [D -> V], NEW h \in [D -> V], NEW p \in D,
             \A q \in D : Level(q) < Level(p) => h[q] = g[q]
      PROVE  Cell(h, p) = Cell(g, p)
  <2>1. CASE ~Edge(p)
    <3>1. \A q \in {Diagonal(p), Up(p), Left(p)} : q \in D /\ Level(q) < Level(p)
      BY <2>1, CellsBefore
    <3>2. \A q \in {Diagonal(p), Up(p), Left(p)} : h[q] = g[q]
      <4> HIDE DEF D, Level
      <4> QED BY <1>3, <3>1
    <3> QED BY <3>2
  <2> QED BY <2>1
<1> HIDE DEF Level, Cell, D
<1>4. 0 \in S
  <2> DEFINE g0 == [p \in D |-> e]
             g == [p \in D |-> Cell(g0, p)]
  <2>1. g0 \in [D -> V]
    OBVIOUS
  <2>2. g \in [D -> V] /\ \A p \in D : g[p] = Cell(g0, p)
    <3> HIDE DEF g0
    <3> QED BY <1>2, <2>1
  <2> HIDE DEF g, g0
  <2>3. ASSUME NEW p \in D, Level(p) =< 0 PROVE g[p] = Cell(g, p)
    <3>1. \A q \in D : ~(Level(q) < Level(p))
      BY <1>1, <2>3
    <3>2. Cell(g, p) = Cell(g0, p)
      BY <1>3, <2>1, <2>2, <3>1
    <3> QED BY <2>2, <3>2
  <2>4. Good(g, 0)
    BY <2>2, <2>3
  <2> QED BY <2>4
<1>5. ASSUME NEW s \in Nat, 0 =< s, s \in S PROVE s + 1 \in S
  <2>1. PICK g : Good(g, s)
    BY <1>5
  <2> DEFINE h == [p \in D |-> IF Level(p) =< s THEN g[p] ELSE Cell(g, p)]
  <2>2. h \in [D -> V] /\ \A p \in D : h[p] = IF Level(p) =< s THEN g[p] ELSE Cell(g, p)
    BY <1>2, <2>1
  <2> HIDE DEF h
  <2>3. ASSUME NEW p \in D, Level(p) =< s + 1 PROVE h[p] = Cell(h, p)
    <3>1. ASSUME NEW q \in D, Level(q) < Level(p) PROVE h[q] = g[q]
      <4>1. Level(q) =< s
        BY <1>1, <1>5, <2>3, <3>1
      <4> QED BY <2>2, <4>1
    <3>2. Cell(h, p) = Cell(g, p)
      BY <1>3, <2>1, <2>2, <3>1
    <3>3. h[p] = Cell(g, p)
      BY <2>1, <2>2
    <3> QED BY <3>2, <3>3
  <2>4. Good(h, s + 1)
    BY <2>2, <2>3
  <2> QED BY <2>4
<1>6. m + n \in S
  <2> HIDE DEF S
  <2>1. m + n \in Nat /\ 0 =< m + n
    OBVIOUS
  <2> QED BY <1>4, <1>5, <2>1, NumbersFrom
<1>7. PICK g : Good(g, m + n)
  BY <1>6
<1>8. Table(g, m, n, V, e, F)
  BY <1>1, <1>7 DEF Table, Cell, D
<1> QED BY <1>8

LEMMA TableKeeps ==
  ASSUME NEW m \in Nat, NEW n \in Nat, NEW V, NEW g,
         \A p \in Cells(m, n) : p[1] = 0 \/ p[2] = 0 => g[p] \in V,
         \A p \in InnerCells(m, n) :
           g[Diagonal(p)] \in V /\ g[Up(p)] \in V /\ g[Left(p)] \in V => g[p] \in V
  PROVE  \A p \in Cells(m, n) : g[p] \in V
<1> DEFINE D == Cells(m, n)
           Level(p) == p[1] + p[2]
           S == {s \in Nat : \A p \in D : Level(p) =< s => g[p] \in V}
<1>1. \A p \in D : Level(p) \in Nat /\ Level(p) =< m + n
  BY DEF Cells
<1>2. ASSUME NEW s \in Nat, NEW p \in D, \A q \in D : Level(q) < Level(p) => g[q] \in V
      PROVE  g[p] \in V
  <2>1. CASE ~(p[1] = 0 \/ p[2] = 0)
    <3>1. p \in InnerCells(m, n) /\ \A q \in {Diagonal(p), Up(p), Left(p)} : q \in D /\ Level(q) < Level(p)
      BY <2>1, CellsBefore
    <3> HIDE DEF D, Level
    <3> QED BY <1>2, <3>1
  <2> QED BY <2>1
<1> HIDE DEF D, Level
<1>3. 0 \in S
  <2>1. ASSUME NEW p \in D, Level(p) =< 0 PROVE g[p] \in V
    <3>1. \A q \in D : ~(Level(q) < Level(p))
      BY <1>1, <2>1
    <3> QED BY <1>2, <3>1
  <2> QED BY <2>1
<1>4. ASSUME NEW s \in Nat, 0 =< s, s \in S PROVE s + 1 \in S
  <2>1. ASSUME NEW p \in D, Level(p) =< s + 1 PROVE g[p] \in V
    <3>1. \A q \in D : Level(q) < Level(p) => Level(q) =< s
      BY <1>1, <2>1
    <3> QED BY <1>2, <1>4, <3>1
  <2> QED BY <2>1
<1>5. m + n \in S
  <2> HIDE DEF S
  <2>1. m + n \in Nat /\ 0 =< m + n
    OBVIOUS
  <2> QED BY <1>3, <1>4, <2>1, NumbersFrom
<1> QED BY <1>1, <1>5 DEF D

-----------------------------------------------------------------------------
(* The diff of two documents.                                              *)

LEMMA LcsTableValues ==
  ASSUME NEW T, NEW old \in Seq(T), NEW new \in Seq(T)
  PROVE  LET dp == LcsTable(old, new)
         IN  /\ dp \in [Cells(Len(old), Len(new)) -> Nat]
             /\ \A p \in Cells(Len(old), Len(new)) :
                  dp[p] = IF p[1] = 0 \/ p[2] = 0 THEN 0
                          ELSE IF Same(old[p[1]], new[p[2]]) THEN dp[Diagonal(p)] + 1
                          ELSE IF dp[Up(p)] > dp[Left(p)] THEN dp[Up(p)] ELSE dp[Left(p)]
<1> DEFINE m == Len(old)
           n == Len(new)
           D == (0 .. m) \X (0 .. n)
           Cell(f, p) == IF p[1] = 0 \/ p[2] = 0 THEN 0
                         ELSE IF Same(old[p[1]], new[p[2]]) THEN f[<<p[1] - 1, p[2] - 1>>] + 1
                         ELSE IF f[<<p[1] - 1, p[2]>>] > f[<<p[1], p[2] - 1>>]
                              THEN f[<<p[1] - 1, p[2]>>] ELSE f[<<p[1], p[2] - 1>>]
           Dp(f) == f = [p \in D |-> Cell(f, p)]
           F == [p \in InnerCells(m, n) |-> [a \in Nat |-> [b \in Nat |-> [c \in Nat |->
                   IF Same(old[p[1]], new[p[2]]) THEN a + 1 ELSE IF b > c THEN b ELSE c]]]]
<1>1. m \in Nat /\ n \in Nat
  OBVIOUS
<1>2. F \in [InnerCells(m, n) -> [Nat -> [Nat -> [Nat -> Nat]]]]
  OBVIOUS
<1>3. PICK g : Table(g, m, n, Nat, 0, F)
  <2> HIDE DEF F, m, n
  <2> QED BY <1>1, <1>2, TableExists
<1>4. ASSUME NEW p \in D PROVE g[p] = Cell(g, p)
  <2> HIDE DEF m, n
  <2>1. g \in [Cells(m, n) -> Nat] /\ p \in Cells(m, n)
    BY <1>3 DEF Table, Cells
  <2>2. CASE ~(p[1] = 0 \/ p[2] = 0)
    <3>1. p \in InnerCells(m, n) /\ \A q \in {Diagonal(p), Up(p), Left(p)} : q \in Cells(m, n)
      BY <1>1, <2>1, <2>2, CellsBefore
    <3>2. g[Diagonal(p)] \in Nat /\ g[Up(p)] \in Nat /\ g[Left(p)] \in Nat
      BY <2>1, <3>1
    <3>3. g[p] = F[p][g[Diagonal(p)]][g[Up(p)]][g[Left(p)]]
      BY <1>3, <2>1, <2>2 DEF Table
    <3>4. g[p] = IF Same(old[p[1]], new[p[2]]) THEN g[Diagonal(p)] + 1
                 ELSE IF g[Up(p)] > g[Left(p)] THEN g[Up(p)] ELSE g[Left(p)]
      BY <3>1, <3>2, <3>3
    <3> QED BY <2>2, <3>4 DEF Diagonal, Up, Left
  <2>3. CASE p[1] = 0 \/ p[2] = 0
    BY <1>3, <2>1, <2>3 DEF Table
  <2> QED BY <2>2, <2>3
<1>5. Dp(g)
  <2> HIDE DEF Cell, m, n
  <2> QED BY <1>3, <1>4 DEF Table, Cells
<1>6. LcsTable(old, new) = CHOOSE f : Dp(f)
  BY DEF LcsTable
<1> DEFINE h == CHOOSE f : Dp(f)
<1>7. Dp(h)
  <2> HIDE DEF Dp
  <2> QED BY <1>5
<1> HIDE DEF h, m, n
<1>8. \A p \in Cells(m, n) : h[p] = Cell(h, p)
  <2> HIDE DEF Cell
  <2> QED BY <1>7 DEF Cells
<1>9. ASSUME NEW p \in Cells(m, n), p[1] = 0 \/ p[2] = 0 PROVE h[p] \in Nat
  <2>1. h[p] = Cell(h, p)
    <3> HIDE DEF Cell
    <3> QED BY <1>8
  <2> QED BY <1>9, <2>1
<1>10. ASSUME NEW p \in InnerCells(m, n), h[Diagonal(p)] \in Nat, h[Up(p)] \in Nat, h[Left(p)] \in Nat
       PROVE  h[p] \in Nat
  <2>1. p \in Cells(m, n) /\ ~(p[1] = 0 \/ p[2] = 0)
    BY <1>1 DEF Cells, InnerCells
  <2>2. h[p] = Cell(h, p)
    <3> HIDE DEF Cell
    <3> QED BY <1>8, <2>1
  <2>3. h[p] \in {h[Diagonal(p)] + 1, h[Up(p)], h[Left(p)]}
    BY <2>1, <2>2 DEF Diagonal, Up, Left
  <2> QED BY <1>10, <2>3
<1>11. \A p \in Cells(m, n) : h[p] \in Nat
  BY <1>1, <1>9, <1>10, TableKeeps
<1>12. h \in [Cells(m, n) -> Nat]
  <2> HIDE DEF Cell
  <2> QED BY <1>7, <1>11 DEF Cells
<1>13. LcsTable(old, new) = h
  BY <1>6 DEF h
<1>14. \A p : Cell(h, p) = IF p[1] = 0 \/ p[2] = 0 THEN 0
                            ELSE IF Same(old[p[1]], new[p[2]]) THEN h[Diagonal(p)] + 1
                            ELSE IF h[Up(p)] > h[Left(p)] THEN h[Up(p)] ELSE h[Left(p)]
  BY DEF Diagonal, Up, Left
<1> HIDE DEF Cell
<1>15. \A p \in Cells(m, n) :
         h[p] = IF p[1] = 0 \/ p[2] = 0 THEN 0
                ELSE IF Same(old[p[1]], new[p[2]]) THEN h[Diagonal(p)] + 1
                ELSE IF h[Up(p)] > h[Left(p)] THEN h[Up(p)] ELSE h[Left(p)]
  BY <1>8, <1>14
<1> QED BY <1>12, <1>13, <1>15, Zenon DEF m, n

(* The way back through the table, from every cell.                        *)
WayBack(old, new, back) ==
  LET dp == LcsTable(old, new)
  IN  \A p \in Cells(Len(old), Len(new)) :
        back[p] = IF p[1] = 0 \/ p[2] = 0 THEN {}
                  ELSE IF Same(old[p[1]], new[p[2]]) THEN {p} \cup back[Diagonal(p)]
                  ELSE IF dp[Up(p)] > dp[Left(p)] THEN back[Up(p)] ELSE back[Left(p)]

LEMMA MatchesAreOnTheWay ==
  ASSUME NEW T, NEW old \in Seq(T), NEW new \in Seq(T)
  PROVE  \E back : WayBack(old, new, back) /\ Matches(old, new) = back[<<Len(old), Len(new)>>]
<1> DEFINE m == Len(old)
           n == Len(new)
           dp == LcsTable(old, new)
           D == DOMAIN dp
           V == SUBSET InnerCells(m, n)
           Cell(f, p) == IF p[1] = 0 \/ p[2] = 0 THEN {}
                         ELSE IF Same(old[p[1]], new[p[2]]) THEN {p} \cup f[<<p[1] - 1, p[2] - 1>>]
                         ELSE IF dp[<<p[1] - 1, p[2]>>] > dp[<<p[1], p[2] - 1>>]
                              THEN f[<<p[1] - 1, p[2]>>] ELSE f[<<p[1], p[2] - 1>>]
           Back(f) == f = [p \in D |-> Cell(f, p)]
           F == [p \in InnerCells(m, n) |-> [a \in V |-> [b \in V |-> [c \in V |->
                   IF Same(old[p[1]], new[p[2]]) THEN {p} \cup a
                   ELSE IF dp[<<p[1] - 1, p[2]>>] > dp[<<p[1], p[2] - 1>>] THEN b ELSE c]]]]
<1>1. m \in Nat /\ n \in Nat /\ {} \in V /\ D = Cells(m, n)
  BY LcsTableValues
<1>2. F \in [InnerCells(m, n) -> [V -> [V -> [V -> V]]]]
  <2> HIDE DEF dp
  <2> QED OBVIOUS
<1>3. PICK g : Table(g, m, n, V, {}, F)
  <2> HIDE DEF F, m, n, V
  <2> QED BY <1>1, <1>2, TableExists
<1> HIDE DEF dp, m, n, D
<1>4. ASSUME NEW p \in D PROVE g[p] = Cell(g, p)
  <2>1. g \in [Cells(m, n) -> V] /\ p \in Cells(m, n)
    BY <1>1, <1>3 DEF Table
  <2>2. CASE ~(p[1] = 0 \/ p[2] = 0)
    <3>1. p \in InnerCells(m, n) /\ \A q \in {Diagonal(p), Up(p), Left(p)} : q \in Cells(m, n)
      BY <1>1, <2>1, <2>2, CellsBefore
    <3>2. g[Diagonal(p)] \in V /\ g[Up(p)] \in V /\ g[Left(p)] \in V
      <4> HIDE DEF V
      <4> QED BY <2>1, <3>1
    <3>3. g[p] = F[p][g[Diagonal(p)]][g[Up(p)]][g[Left(p)]]
      BY <1>3, <2>1, <2>2 DEF Table
    <3>4. g[p] = IF Same(old[p[1]], new[p[2]]) THEN {p} \cup g[Diagonal(p)]
                 ELSE IF dp[Up(p)] > dp[Left(p)] THEN g[Up(p)] ELSE g[Left(p)]
      <4> HIDE DEF V
      <4> QED BY <3>1, <3>2, <3>3 DEF Up, Left
    <3> QED BY <2>2, <3>4 DEF Diagonal, Up, Left
  <2>3. CASE p[1] = 0 \/ p[2] = 0
    BY <1>3, <2>1, <2>3 DEF Table
  <2> QED BY <2>2, <2>3
<1>5. Back(g)
  <2> HIDE DEF Cell
  <2> QED BY <1>1, <1>3, <1>4 DEF Table
<1> DEFINE h == CHOOSE f : Back(f)
<1>6. Back(h)
  <2> HIDE DEF Back
  <2> QED BY <1>5
<1>7. Matches(old, new) = h[<<m, n>>]
  BY DEF Matches, dp, D, m, n
<1>8. \A p \in Cells(m, n) : h[p] = Cell(h, p)
  <2> HIDE DEF Cell, h
  <2> QED BY <1>1, <1>6
<1> HIDE DEF h
<1>9. \A p : Cell(h, p) = IF p[1] = 0 \/ p[2] = 0 THEN {}
                           ELSE IF Same(old[p[1]], new[p[2]]) THEN {p} \cup h[Diagonal(p)]
                           ELSE IF dp[Up(p)] > dp[Left(p)] THEN h[Up(p)] ELSE h[Left(p)]
  BY DEF Diagonal, Up, Left
<1> HIDE DEF Cell
<1>10. \A p \in Cells(m, n) :
         h[p] = IF p[1] = 0 \/ p[2] = 0 THEN {}
                ELSE IF Same(old[p[1]], new[p[2]]) THEN {p} \cup h[Diagonal(p)]
                ELSE IF dp[Up(p)] > dp[Left(p)] THEN h[Up(p)] ELSE h[Left(p)]
  BY <1>8, <1>9
<1>11. WayBack(old, new, h)
  BY <1>10, Zenon DEF WayBack, dp, m, n
<1> QED BY <1>7, <1>11 DEF m, n

(* Common subsequences, as sets of pairs of places.                        *)
Increasing(c) == \A p, q \in c : p[1] < q[1] <=> p[2] < q[2]
CommonIn(old, new, c, p) ==
  /\ c \subseteq InnerCells(p[1], p[2]) /\ Increasing(c)
  /\ \A q \in c : Same(old[q[1]], new[q[2]])

LEMMA CommonMeans ==
  ASSUME NEW T, NEW old \in Seq(T), NEW new \in Seq(T), NEW c
  PROVE  c \in CommonSubsequences(old, new) <=> CommonIn(old, new, c, <<Len(old), Len(new)>>)
<1>1. DOMAIN old = 1 .. Len(old) /\ DOMAIN new = 1 .. Len(new)
  OBVIOUS
<1>2. <<Len(old), Len(new)>>[1] = Len(old) /\ <<Len(old), Len(new)>>[2] = Len(new)
  OBVIOUS
<1> QED BY <1>1, <1>2 DEF CommonSubsequences, CommonIn, Increasing, InnerCells

(* A cell, and those it depends on: what they have in common.              *)
LEMMA InnerNeighbours ==
  ASSUME NEW m \in Nat, NEW n \in Nat, NEW p \in InnerCells(m, n)
  PROVE  /\ p[1] \in 1 .. m /\ p[2] \in 1 .. n /\ p = <<p[1], p[2]>>
         /\ p \in Cells(m, n) /\ ~(p[1] = 0 \/ p[2] = 0)
         /\ Diagonal(p) \in Cells(m, n) /\ Up(p) \in Cells(m, n) /\ Left(p) \in Cells(m, n)
         /\ Diagonal(p)[1] = p[1] - 1 /\ Diagonal(p)[2] = p[2] - 1
         /\ Up(p)[1] = p[1] - 1 /\ Up(p)[2] = p[2]
         /\ Left(p)[1] = p[1] /\ Left(p)[2] = p[2] - 1
<1>1. p[1] \in 1 .. m /\ p[2] \in 1 .. n /\ p = <<p[1], p[2]>>
  BY DEF InnerCells
<1>2. p \in Cells(m, n) /\ ~(p[1] = 0 \/ p[2] = 0)
  BY <1>1 DEF Cells
<1>3. Diagonal(p) \in Cells(m, n) /\ Up(p) \in Cells(m, n) /\ Left(p) \in Cells(m, n)
  BY <1>2, CellsBefore
<1> QED BY <1>1, <1>2, <1>3 DEF Diagonal, Up, Left

(* The matched pairs are a common subsequence, as long as the table says.  *)
LEMMA WayBackIsCommon ==
  ASSUME NEW T, NEW old \in Seq(T), NEW new \in Seq(T), NEW back, WayBack(old, new, back)
  PROVE  \A p \in Cells(Len(old), Len(new)) :
           /\ CommonIn(old, new, back[p], p)
           /\ IsFiniteSet(back[p]) /\ Cardinality(back[p]) = LcsTable(old, new)[p]
<1> DEFINE m == Len(old)
           n == Len(new)
           dp == LcsTable(old, new)
           Good(p) == CommonIn(old, new, back[p], p) /\ IsFiniteSet(back[p]) /\ Cardinality(back[p]) = dp[p]
           good == [p \in Cells(m, n) |-> Good(p)]
<1>1. m \in Nat /\ n \in Nat
  OBVIOUS
<1>2. /\ dp \in [Cells(m, n) -> Nat]
      /\ \A p \in Cells(m, n) :
           dp[p] = IF p[1] = 0 \/ p[2] = 0 THEN 0
                   ELSE IF Same(old[p[1]], new[p[2]]) THEN dp[Diagonal(p)] + 1
                   ELSE IF dp[Up(p)] > dp[Left(p)] THEN dp[Up(p)] ELSE dp[Left(p)]
  BY LcsTableValues
<1>3. \A p \in Cells(m, n) :
        back[p] = IF p[1] = 0 \/ p[2] = 0 THEN {}
                  ELSE IF Same(old[p[1]], new[p[2]]) THEN {p} \cup back[Diagonal(p)]
                  ELSE IF dp[Up(p)] > dp[Left(p)] THEN back[Up(p)] ELSE back[Left(p)]
  BY DEF WayBack
<1> HIDE DEF m, n, dp
<1>4. ASSUME NEW p \in Cells(m, n), p[1] = 0 \/ p[2] = 0 PROVE Good(p)
  <2>1. back[p] = {} /\ dp[p] = 0
    BY <1>2, <1>3, <1>4
  <2> QED BY <2>1, FS_EmptySet DEF CommonIn, Increasing
<1>5. ASSUME NEW p \in InnerCells(m, n), Good(Diagonal(p)), Good(Up(p)), Good(Left(p)) PROVE Good(p)
  <2> DEFINE i == p[1]
             j == p[2]
             d == Diagonal(p)
             c == back[d]
  <2>1. /\ i \in 1 .. m /\ j \in 1 .. n /\ p = <<i, j>> /\ p \in Cells(m, n) /\ ~(i = 0 \/ j = 0)
        /\ d \in Cells(m, n) /\ d[1] = i - 1 /\ d[2] = j - 1
        /\ Up(p) \in Cells(m, n) /\ Up(p)[1] = i - 1 /\ Up(p)[2] = j
        /\ Left(p) \in Cells(m, n) /\ Left(p)[1] = i /\ Left(p)[2] = j - 1
    BY <1>1, InnerNeighbours
  <2> HIDE DEF i, j, d
  <2>2. CASE Same(old[i], new[j])
    <3>1. back[p] = {p} \cup c /\ dp[p] = dp[d] + 1
      BY <1>2, <1>3, <2>1, <2>2 DEF i, j, d
    <3>2. CommonIn(old, new, c, d) /\ IsFiniteSet(c) /\ Cardinality(c) = dp[d]
      BY <1>5 DEF d
    <3>3. \A q \in c : q[1] \in 1 .. i - 1 /\ q[2] \in 1 .. j - 1 /\ q = <<q[1], q[2]>>
      BY <2>1, <3>2 DEF CommonIn, InnerCells
    <3> HIDE DEF c
    <3>4. p \notin c
      BY <2>1, <3>3 DEF i
    <3>5. back[p] \subseteq InnerCells(i, j)
      <4>1. p \in InnerCells(i, j)
        BY <2>1 DEF InnerCells
      <4>2. ASSUME NEW q \in c PROVE q \in InnerCells(i, j)
        <5>1. q[1] \in 1 .. i /\ q[2] \in 1 .. j /\ q = <<q[1], q[2]>>
          BY <2>1, <3>3
        <5> QED BY <5>1 DEF InnerCells
      <4> QED BY <3>1, <4>1, <4>2
    <3>6. Increasing({p} \cup c)
      <4>1. ASSUME NEW q \in c PROVE q[1] < p[1] /\ q[2] < p[2] /\ ~(p[1] < q[1]) /\ ~(p[2] < q[2])
        BY <2>1, <3>3 DEF i, j
      <4>2. ~(p[1] < p[1]) /\ ~(p[2] < p[2])
        BY <2>1 DEF i, j
      <4>3. \A q, r \in c : q[1] < r[1] <=> q[2] < r[2]
        BY <3>2 DEF CommonIn, Increasing
      <4> QED BY <4>1, <4>2, <4>3 DEF Increasing
    <3>7. \A q \in {p} \cup c : Same(old[q[1]], new[q[2]])
      BY <2>2, <3>2 DEF CommonIn, i, j
    <3>8. IsFiniteSet(back[p]) /\ Cardinality(back[p]) = dp[p]
      BY <3>1, <3>2, <3>4, FS_AddElement
    <3> QED BY <3>1, <3>5, <3>6, <3>7, <3>8 DEF CommonIn, i, j
  <2>3. CASE ~Same(old[i], new[j])
    <3>1. PICK q \in {Up(p), Left(p)} : back[p] = back[q] /\ dp[p] = dp[q]
      BY <1>2, <1>3, <2>1, <2>3 DEF i, j
    <3>2. Good(q) /\ q[1] \in {i - 1, i} /\ q[2] \in {j - 1, j}
      BY <1>5, <2>1, <3>1
    <3>3. InnerCells(q[1], q[2]) \subseteq InnerCells(i, j)
      BY <2>1, <3>2 DEF InnerCells
    <3> QED BY <3>1, <3>2, <3>3 DEF CommonIn, i, j
  <2> QED BY <2>2, <2>3
<1> HIDE DEF Good
<1>6. \A p \in Cells(m, n) : good[p] = Good(p)
  OBVIOUS
<1> HIDE DEF good
<1>7. \A p \in Cells(m, n) : p[1] = 0 \/ p[2] = 0 => good[p] \in {TRUE}
  BY <1>4, <1>6
<1>8. \A p \in InnerCells(m, n) :
        good[Diagonal(p)] \in {TRUE} /\ good[Up(p)] \in {TRUE} /\ good[Left(p)] \in {TRUE} => good[p] \in {TRUE}
  <2> SUFFICES ASSUME NEW p \in InnerCells(m, n),
                      good[Diagonal(p)] \in {TRUE}, good[Up(p)] \in {TRUE}, good[Left(p)] \in {TRUE}
               PROVE  good[p] \in {TRUE}
    OBVIOUS
  <2>1. p \in Cells(m, n) /\ Diagonal(p) \in Cells(m, n) /\ Up(p) \in Cells(m, n) /\ Left(p) \in Cells(m, n)
    BY <1>1, InnerNeighbours
  <2>2. Good(Diagonal(p)) /\ Good(Up(p)) /\ Good(Left(p))
    BY <1>6, <2>1
  <2> QED BY <1>5, <1>6, <2>1, <2>2
<1>9. \A p \in Cells(m, n) : good[p] \in {TRUE}
  BY <1>1, <1>7, <1>8, TableKeeps
<1>10. \A p \in Cells(m, n) : Good(p)
  BY <1>6, <1>9
<1> QED BY <1>10 DEF Good, m, n, dp

(* What is matched is a block of each document.                            *)
LEMMA MatchesArePairs ==
  ASSUME NEW T, NEW old \in Seq(T), NEW new \in Seq(T)
  PROVE  Matches(old, new) \subseteq InnerCells(Len(old), Len(new))
<1> DEFINE p == <<Len(old), Len(new)>>
<1>1. PICK back : WayBack(old, new, back) /\ Matches(old, new) = back[p]
  BY MatchesAreOnTheWay
<1>2. p \in Cells(Len(old), Len(new)) /\ p[1] = Len(old) /\ p[2] = Len(new)
  BY DEF Cells
<1> HIDE DEF p
<1>3. CommonIn(old, new, back[p], p)
  BY <1>1, <1>2, WayBackIsCommon
<1> QED BY <1>1, <1>2, <1>3 DEF CommonIn

(* No common subsequence is longer than the table says.  At most one pair  *)
(* of it is in the last row or column; without it, it is one of earlier    *)
(* blocks.                                                                 *)
LEMMA CommonIsFinite ==
  ASSUME NEW T, NEW old \in Seq(T), NEW new \in Seq(T), NEW p \in Cells(Len(old), Len(new)),
         NEW c, CommonIn(old, new, c, p)
  PROVE  IsFiniteSet(c) /\ Cardinality(c) \in Nat
<1>1. p[1] \in Nat /\ p[2] \in Nat
  BY DEF Cells
<1>2. IsFiniteSet(1 .. p[1]) /\ IsFiniteSet(1 .. p[2])
  <2>1. ASSUME NEW k \in Nat PROVE IsFiniteSet(1 .. k)
    BY FS_Interval
  <2> QED BY <1>1, <2>1
<1>3. IsFiniteSet(InnerCells(p[1], p[2]))
  BY <1>2, FS_Product DEF InnerCells
<1>4. IsFiniteSet(c)
  BY <1>3, FS_Subset DEF CommonIn
<1> QED BY <1>4, FS_CardinalityType

LEMMA CommonIsNoLonger ==
  ASSUME NEW T, NEW old \in Seq(T), NEW new \in Seq(T)
  PROVE  \A p \in Cells(Len(old), Len(new)) : \A c :
           CommonIn(old, new, c, p) => Cardinality(c) =< LcsTable(old, new)[p]
<1> DEFINE m == Len(old)
           n == Len(new)
           dp == LcsTable(old, new)
           Good(p) == \A c : CommonIn(old, new, c, p) => Cardinality(c) =< dp[p]
           good == [p \in Cells(m, n) |-> Good(p)]
<1>1. m \in Nat /\ n \in Nat
  OBVIOUS
<1>2. /\ dp \in [Cells(m, n) -> Nat]
      /\ \A p \in Cells(m, n) :
           dp[p] = IF p[1] = 0 \/ p[2] = 0 THEN 0
                   ELSE IF Same(old[p[1]], new[p[2]]) THEN dp[Diagonal(p)] + 1
                   ELSE IF dp[Up(p)] > dp[Left(p)] THEN dp[Up(p)] ELSE dp[Left(p)]
  BY LcsTableValues
<1>3. \A p \in Cells(m, n) : \A c : CommonIn(old, new, c, p) => IsFiniteSet(c) /\ Cardinality(c) \in Nat
  BY CommonIsFinite
<1> HIDE DEF m, n, dp
<1>4. ASSUME NEW p \in Cells(m, n), p[1] = 0 \/ p[2] = 0 PROVE Good(p)
  <2> SUFFICES ASSUME NEW c, CommonIn(old, new, c, p) PROVE Cardinality(c) =< dp[p]
    OBVIOUS
  <2>1. InnerCells(p[1], p[2]) = {}
    BY <1>4 DEF InnerCells
  <2>2. c = {} /\ dp[p] = 0
    BY <1>2, <1>4, <2>1 DEF CommonIn
  <2> QED BY <2>2, FS_EmptySet
<1>5. ASSUME NEW p \in InnerCells(m, n), Good(Diagonal(p)), Good(Up(p)), Good(Left(p)) PROVE Good(p)
  <2> SUFFICES ASSUME NEW c, CommonIn(old, new, c, p) PROVE Cardinality(c) =< dp[p]
    OBVIOUS
  <2> DEFINE i == p[1]
             j == p[2]
             d == Diagonal(p)
             u == Up(p)
             l == Left(p)
  <2>1. /\ i \in 1 .. m /\ j \in 1 .. n /\ p = <<i, j>> /\ p \in Cells(m, n) /\ ~(i = 0 \/ j = 0)
        /\ d \in Cells(m, n) /\ d[1] = i - 1 /\ d[2] = j - 1
        /\ u \in Cells(m, n) /\ u[1] = i - 1 /\ u[2] = j
        /\ l \in Cells(m, n) /\ l[1] = i /\ l[2] = j - 1
    BY <1>1, InnerNeighbours
  <2>2. /\ \A e : CommonIn(old, new, e, d) => Cardinality(e) =< dp[d]
        /\ \A e : CommonIn(old, new, e, u) => Cardinality(e) =< dp[u]
        /\ \A e : CommonIn(old, new, e, l) => Cardinality(e) =< dp[l]
    BY <1>5
  <2>3. dp[p] = IF Same(old[i], new[j]) THEN dp[d] + 1 ELSE IF dp[u] > dp[l] THEN dp[u] ELSE dp[l]
    BY <1>2, <2>1
  <2>4. dp[d] \in Nat /\ dp[u] \in Nat /\ dp[l] \in Nat
    BY <1>2, <2>1
  <2>5. c \subseteq InnerCells(i, j) /\ Increasing(c) /\ \A q \in c : Same(old[q[1]], new[q[2]])
    BY DEF CommonIn
  <2>6. IsFiniteSet(c) /\ Cardinality(c) \in Nat
    BY <1>3, <2>1
  <2> HIDE DEF i, j, d, u, l, Good
  <2>7. \A q \in c : q[1] \in 1 .. i /\ q[2] \in 1 .. j /\ q = <<q[1], q[2]>>
    BY <2>5 DEF InnerCells
  <2>8. ASSUME NEW e, e \subseteq c, NEW a \in Nat, NEW b \in Nat, \A q \in e : q[1] =< a /\ q[2] =< b
        PROVE  e \subseteq InnerCells(a, b) /\ Increasing(e) /\ \A q \in e : Same(old[q[1]], new[q[2]])
    <3>1. ASSUME NEW q \in e PROVE q \in InnerCells(a, b)
      <4>1. q[1] \in 1 .. a /\ q[2] \in 1 .. b /\ q = <<q[1], q[2]>>
        BY <2>1, <2>7, <2>8
      <4> QED BY <4>1 DEF InnerCells
    <3>2. Increasing(e)
      BY <2>5, <2>8 DEF Increasing
    <3> QED BY <2>5, <2>8, <3>1, <3>2
  <2>9. \A q, r \in c : q[1] < r[1] <=> q[2] < r[2]
    BY <2>5 DEF Increasing
  <2>10. CASE Same(old[i], new[j])
    <3> DEFINE Last2(q) == q[1] = i \/ q[2] = j
    <3>1. ASSUME NEW q \in c, NEW r \in c, Last2(q), Last2(r) PROVE q = r
      <4>1. /\ q[1] \in 1 .. i /\ q[2] \in 1 .. j /\ q = <<q[1], q[2]>>
            /\ r[1] \in 1 .. i /\ r[2] \in 1 .. j /\ r = <<r[1], r[2]>>
        BY <2>7
      <4>2. (q[1] < r[1] <=> q[2] < r[2]) /\ (r[1] < q[1] <=> r[2] < q[2])
        BY <2>9
      <4>3. q[1] = r[1] /\ q[2] = r[2]
        <5>1. \A a, a2 \in 1 .. i : \A b, b2 \in 1 .. j :
                /\ (a < a2 <=> b < b2) /\ (a2 < a <=> b2 < b)
                /\ a = i \/ b = j
                /\ a2 = i \/ b2 = j
                => a = a2 /\ b = b2
          BY <2>1
        <5> QED BY <3>1, <4>1, <4>2, <5>1
      <4> QED BY <4>1, <4>3
    <3> DEFINE e == {q \in c : ~Last2(q)}
    <3>2. Cardinality(e) =< dp[d]
      <4>1. \A q \in e : q[1] =< i - 1 /\ q[2] =< j - 1
        BY <2>1, <2>7
      <4>2. e \subseteq c /\ i - 1 \in Nat /\ j - 1 \in Nat
        BY <2>1
      <4> HIDE DEF e
      <4>3. CommonIn(old, new, e, d)
        BY <2>1, <2>8, <4>1, <4>2 DEF CommonIn
      <4> QED BY <2>2, <4>3
    <3>3. CASE \E q \in c : Last2(q)
      <4>1. PICK q \in c : Last2(q)
        BY <3>3
      <4>2. e = c \ {q}
        <5> HIDE DEF Last2
        <5> QED BY <3>1, <4>1
      <4>3. Cardinality(e) = Cardinality(c) - 1
        BY <2>6, <4>1, <4>2, FS_RemoveElement
      <4> HIDE DEF e
      <4> QED BY <2>3, <2>4, <2>6, <2>10, <3>2, <4>3
    <3>4. CASE ~\E q \in c : Last2(q)
      <4>1. e = c
        BY <3>4
      <4> HIDE DEF e
      <4> QED BY <2>3, <2>4, <2>6, <2>10, <3>2, <4>1
    <3> QED BY <3>3, <3>4
  <2>11. CASE ~Same(old[i], new[j])
    <3>1. CASE \A q \in c : q[1] # i
      <4>1. \A q \in c : q[1] =< i - 1 /\ q[2] =< j
        BY <2>1, <2>7, <3>1
      <4>2. i - 1 \in Nat /\ j \in Nat
        BY <2>1
      <4>3. CommonIn(old, new, c, u)
        BY <2>1, <2>8, <4>1, <4>2 DEF CommonIn
      <4>4. Cardinality(c) =< dp[u]
        BY <2>2, <4>3
      <4> QED BY <2>3, <2>4, <2>6, <2>11, <4>4
    <3>2. CASE ~\A q \in c : q[1] # i
      <4>1. PICK q \in c : q[1] = i
        BY <3>2
      <4>2. q[2] # j
        BY <2>5, <2>11, <4>1
      <4>3. ASSUME NEW r \in c PROVE r[2] # j
        <5>1. /\ q[1] \in 1 .. i /\ q[2] \in 1 .. j /\ r[1] \in 1 .. i /\ r[2] \in 1 .. j
              /\ (q[1] < r[1] <=> q[2] < r[2])
          BY <2>7, <2>9, <4>1
        <5> QED BY <2>1, <4>1, <4>2, <5>1
      <4>4. \A r \in c : r[1] =< i /\ r[2] =< j - 1
        BY <2>1, <2>7, <4>3
      <4>5. i \in Nat /\ j - 1 \in Nat
        BY <2>1
      <4>6. CommonIn(old, new, c, l)
        BY <2>1, <2>8, <4>4, <4>5 DEF CommonIn
      <4>7. Cardinality(c) =< dp[l]
        BY <2>2, <4>6
      <4> QED BY <2>3, <2>4, <2>6, <2>11, <4>7
    <3> QED BY <3>1, <3>2
  <2> QED BY <2>10, <2>11
<1> HIDE DEF Good
<1>6. \A p \in Cells(m, n) : good[p] = Good(p)
  OBVIOUS
<1> HIDE DEF good
<1>7. \A p \in Cells(m, n) : p[1] = 0 \/ p[2] = 0 => good[p] \in {TRUE}
  BY <1>4, <1>6
<1>8. \A p \in InnerCells(m, n) :
        good[Diagonal(p)] \in {TRUE} /\ good[Up(p)] \in {TRUE} /\ good[Left(p)] \in {TRUE} => good[p] \in {TRUE}
  <2> SUFFICES ASSUME NEW p \in InnerCells(m, n),
                      good[Diagonal(p)] \in {TRUE}, good[Up(p)] \in {TRUE}, good[Left(p)] \in {TRUE}
               PROVE  good[p] \in {TRUE}
    OBVIOUS
  <2>1. p \in Cells(m, n) /\ Diagonal(p) \in Cells(m, n) /\ Up(p) \in Cells(m, n) /\ Left(p) \in Cells(m, n)
    BY <1>1, InnerNeighbours
  <2>2. Good(Diagonal(p)) /\ Good(Up(p)) /\ Good(Left(p))
    BY <1>6, <2>1
  <2> QED BY <1>5, <1>6, <2>1, <2>2
<1>9. \A p \in Cells(m, n) : good[p] \in {TRUE}
  BY <1>1, <1>7, <1>8, TableKeeps
<1>10. \A p \in Cells(m, n) : Good(p)
  BY <1>6, <1>9
<1> QED BY <1>10 DEF Good, m, n, dp

(* Places with numbers: those above 0 are all of 1 .. n, in their order.   *)
InOrder(number, len, n) ==
  /\ \A i \in 1 .. len : number[i] \in Int /\ number[i] =< n
  /\ \A i, j \in 1 .. len : i < j /\ 0 < number[i] /\ 0 < number[j] => number[i] < number[j]
  /\ \A k \in 1 .. n : \E i \in 1 .. len : number[i] = k

(* It does not matter where others are put in, or taken out.               *)
LEMMA InsertKeepsOrder ==
  ASSUME NEW len \in Nat, NEW n \in Nat, NEW number, InOrder(number, len, n),
         NEW p \in 1 .. len + 1, NEW e \in Int, e < 1, NEW after,
         \A i \in 1 .. len + 1 :
           after[i] = IF i < p THEN number[i] ELSE IF i = p THEN e ELSE number[i - 1]
  PROVE  InOrder(after, len + 1, n)
<1> DEFINE Old(i) == IF i < p THEN i ELSE i - 1
<1>1. ASSUME NEW i \in 1 .. len + 1, i # p
      PROVE  Old(i) \in 1 .. len /\ after[i] = number[Old(i)]
  BY <1>1
<1>2. after[p] = e
  OBVIOUS
<1>3. \A i, j \in 1 .. len + 1 : i < j /\ i # p /\ j # p => Old(i) < Old(j)
  OBVIOUS
<1>4. ASSUME NEW i \in 1 .. len + 1 PROVE after[i] \in Int /\ after[i] =< n
  <2>1. CASE i = p
    BY <1>2, <2>1
  <2>2. CASE i # p
    <3> HIDE DEF Old
    <3> QED BY <1>1, <2>2 DEF InOrder
  <2> QED BY <2>1, <2>2
<1>5. ASSUME NEW i \in 1 .. len + 1, NEW j \in 1 .. len + 1, i < j, 0 < after[i], 0 < after[j]
      PROVE  after[i] < after[j]
  <2>1. i # p /\ j # p
    BY <1>2, <1>5
  <2> HIDE DEF Old
  <2> QED BY <1>1, <1>3, <1>5, <2>1 DEF InOrder
<1>6. ASSUME NEW k \in 1 .. n PROVE \E i \in 1 .. len + 1 : after[i] = k
  <2>1. PICK i \in 1 .. len : number[i] = k
    BY DEF InOrder
  <2>2. CASE i < p
    BY <2>1, <2>2
  <2>3. CASE ~(i < p)
    <3>1. i + 1 \in 1 .. len + 1 /\ ~(i + 1 < p) /\ i + 1 # p /\ i + 1 - 1 = i
      BY <2>3
    <3>2. after[i + 1] = number[i + 1 - 1]
      BY <3>1
    <3> QED BY <2>1, <3>1, <3>2
  <2> QED BY <2>2, <2>3
<1> QED BY <1>4, <1>5, <1>6 DEF InOrder

LEMMA RemoveKeepsOrder ==
  ASSUME NEW len \in Nat, NEW n \in Nat, NEW number, InOrder(number, len, n),
         NEW p \in 1 .. len, number[p] < 1, NEW after,
         \A i \in 1 .. len - 1 : after[i] = IF i < p THEN number[i] ELSE number[i + 1]
  PROVE  InOrder(after, len - 1, n)
<1> DEFINE Old(i) == IF i < p THEN i ELSE i + 1
<1>1. ASSUME NEW i \in 1 .. len - 1
      PROVE  Old(i) \in 1 .. len /\ after[i] = number[Old(i)]
  BY <1>1
<1>2. \A i, j \in 1 .. len - 1 : i < j => Old(i) < Old(j)
  OBVIOUS
<1>3. ASSUME NEW k \in 1 .. n PROVE \E i \in 1 .. len - 1 : after[i] = k
  <2>1. PICK i \in 1 .. len : number[i] = k
    BY DEF InOrder
  <2>2. i # p
    BY <2>1
  <2>3. CASE i < p
    BY <2>1, <2>3
  <2>4. CASE ~(i < p)
    <3>1. i - 1 \in 1 .. len - 1 /\ ~(i - 1 < p) /\ i - 1 + 1 = i
      BY <2>2, <2>4
    <3>2. after[i - 1] = number[i - 1 + 1]
      BY <3>1
    <3> QED BY <2>1, <3>1, <3>2
  <2> QED BY <2>3, <2>4
<1> HIDE DEF Old
<1> QED BY <1>1, <1>2, <1>3 DEF InOrder

Entries == [ghost: BOOLEAN, index: Nat]
NumberOf(entry) == IF entry.ghost THEN 0 - entry.index ELSE entry.index
Numbers(s) == [i \in 1 .. Len(s) |-> NumberOf(s[i])]

(* Children of which some may be ghosts of old blocks, the others are the  *)
(* new ones.                                                               *)
ChildLists(old, new) ==
  {s \in Seq(Entries) :
     /\ Len(new) =< Len(s) /\ InOrder(Numbers(s), Len(s), Len(new))
     /\ \A i \in 1 .. Len(s) :
          s[i].index \in IF s[i].ghost THEN 1 .. Len(old) ELSE 1 .. Len(new)}

LEMMA GhostIsPutIn ==
  ASSUME NEW T, NEW old \in Seq(T), NEW new \in Seq(T),
         NEW s \in ChildLists(old, new), NEW p \in 1 .. Len(s) + 1, NEW k \in 1 .. Len(old)
  PROVE  InsertAt(s, p, [ghost |-> TRUE, index |-> k]) \in ChildLists(old, new)
<1> DEFINE e == [ghost |-> TRUE, index |-> k]
           after == InsertAt(s, p, e)
<1>1. s \in Seq(Entries) /\ Len(s) \in Nat /\ Len(new) \in Nat /\ Len(old) \in Nat
  BY DEF ChildLists
<1>2. e \in Entries /\ e.ghost /\ e.index = k
  BY <1>1 DEF Entries
<1> HIDE DEF e
<1>3. /\ after \in Seq(Entries) /\ Len(after) = Len(s) + 1
      /\ \A i \in 1 .. Len(s) + 1 : after[i] = IF i < p THEN s[i] ELSE IF i = p THEN e ELSE s[i - 1]
  BY <1>1, <1>2, InsertedAt
<1> HIDE DEF after
<1>4. InOrder(Numbers(s), Len(s), Len(new)) /\ Len(new) =< Len(s)
  BY DEF ChildLists
<1>5. \A i \in 1 .. Len(s) : s[i].index \in IF s[i].ghost THEN 1 .. Len(old) ELSE 1 .. Len(new)
  BY DEF ChildLists
<1>6. InOrder(Numbers(after), Len(s) + 1, Len(new))
  <2>1. NumberOf(e) \in Int /\ NumberOf(e) < 1
    BY <1>1, <1>2 DEF NumberOf
  <2>2. ASSUME NEW i \in 1 .. Len(s) + 1
        PROVE  Numbers(after)[i] = IF i < p THEN Numbers(s)[i] ELSE IF i = p THEN NumberOf(e) ELSE Numbers(s)[i - 1]
    <3>1. Numbers(after)[i] = NumberOf(after[i])
      BY <1>3 DEF Numbers
    <3>2. i < p => i \in 1 .. Len(s)
      BY <1>1
    <3>3. ~(i < p) /\ i # p => i - 1 \in 1 .. Len(s)
      BY <1>1
    <3> QED BY <1>3, <3>1, <3>2, <3>3 DEF Numbers
  <2> QED BY <1>1, <1>4, <2>1, <2>2, InsertKeepsOrder
<1>7. ASSUME NEW i \in 1 .. Len(s) + 1
      PROVE  after[i].index \in IF after[i].ghost THEN 1 .. Len(old) ELSE 1 .. Len(new)
  <2>1. i < p => i \in 1 .. Len(s)
    BY <1>1
  <2>2. ~(i < p) /\ i # p => i - 1 \in 1 .. Len(s)
    BY <1>1
  <2> QED BY <1>2, <1>3, <1>5, <2>1, <2>2
<1>8. Len(new) =< Len(s) + 1
  BY <1>1, <1>4
<1>9. after \in ChildLists(old, new)
  BY <1>3, <1>6, <1>7, <1>8 DEF ChildLists
<1> QED BY <1>9 DEF after, e

(* How they come about: f[k] are the children after the first k blocks.    *)
PutIn(f, k, deleted) ==
  IF k \in deleted
  THEN \E p \in 1 .. Len(f[k - 1]) + 1 : f[k] = InsertAt(f[k - 1], p, [ghost |-> TRUE, index |-> k])
  ELSE f[k] = f[k - 1]

LEMMA ChildrenGrow ==
  ASSUME NEW T, NEW old \in Seq(T), NEW new \in Seq(T)
  PROVE  \E f : /\ Children(old, new) = f[Len(old)]
                /\ f[0] = [i \in DOMAIN new |-> [ghost |-> FALSE, index |-> i]]
                /\ \A k \in 0 .. Len(old) : f[k] \in ChildLists(old, new)
                /\ \A k \in 1 .. Len(old) : PutIn(f, k, Deleted(old, new))
<1> DEFINE m == Len(old)
           V == ChildLists(old, new)
           matches == Matches(old, new)
           After(k) == {p \in matches : p[1] > k}
           First(k) == CHOOSE p \in After(k) : \A q \in After(k) : p[1] =< q[1]
           e == [i \in DOMAIN new |-> [ghost |-> FALSE, index |-> i]]
           Put(k, s) == IF k \notin Deleted(old, new) THEN s
                        ELSE InsertAt(s, IF After(k) = {} THEN Len(s) + 1 ELSE First(k)[2],
                                      [ghost |-> TRUE, index |-> k])
           Listed(f) == f = [k \in 0 .. m |-> IF k = 0 THEN e ELSE Put(k, f[k - 1])]
           F == [k \in 1 .. m |-> [s \in V |-> Put(k, s)]]
<1>1. m \in Nat /\ Len(new) \in Nat /\ matches \subseteq InnerCells(m, Len(new))
  BY MatchesArePairs
<1>2. e \in V
  <2>0. DOMAIN new = 1 .. Len(new)
    OBVIOUS
  <2>1. e \in Seq(Entries) /\ Len(e) = Len(new)
    <3>1. e \in [1 .. Len(new) -> Entries]
      BY <1>1, <2>0 DEF Entries
    <3> HIDE DEF e
    <3> QED BY <1>1, <3>1
  <2>2. \A i \in 1 .. Len(new) : e[i].ghost = FALSE /\ e[i].index = i
    OBVIOUS
  <2> HIDE DEF e
  <2>3. \A i \in 1 .. Len(new) : Numbers(e)[i] = i
    BY <2>1, <2>2 DEF Numbers, NumberOf
  <2>4. InOrder(Numbers(e), Len(new), Len(new))
    BY <1>1, <2>3 DEF InOrder
  <2> QED BY <1>1, <2>1, <2>2, <2>4 DEF ChildLists
<1>3. ASSUME NEW k \in 1 .. m, NEW s \in V
      PROVE  /\ Put(k, s) \in V
             /\ k \in Deleted(old, new) => \E p \in 1 .. Len(s) + 1 :
                                              Put(k, s) = InsertAt(s, p, [ghost |-> TRUE, index |-> k])
             /\ k \notin Deleted(old, new) => Put(k, s) = s
  <2> DEFINE p == IF After(k) = {} THEN Len(s) + 1 ELSE First(k)[2]
  <2>1. Len(s) \in Nat /\ Len(new) =< Len(s)
    BY DEF ChildLists
  <2>2. p \in 1 .. Len(s) + 1
    <3>1. CASE After(k) = {}
      BY <2>1, <3>1
    <3>2. CASE After(k) # {}
      <4>1. First(k) \in After(k)
        <5> DEFINE Places == {q[1] : q \in After(k)}
        <5>1. Places \subseteq Nat /\ Places # {}
          <6>1. \A q \in After(k) : q[1] \in Nat
            <7> HIDE DEF matches
            <7> QED BY <1>1 DEF InnerCells
          <6> HIDE DEF After
          <6> QED BY <3>2, <6>1
        <5>2. PICK x \in Places : \A y \in Places : x =< y
          <6> HIDE DEF Places
          <6> QED BY <5>1, LeastNumber
        <5>3. PICK q \in After(k) : q[1] = x
          BY <5>2
        <5>4. \A r \in After(k) : q[1] =< r[1]
          BY <5>2, <5>3
        <5> HIDE DEF After, Places
        <5> QED BY <5>3, <5>4
      <4>2. First(k)[2] \in 1 .. Len(new)
        <5> HIDE DEF First, matches
        <5> QED BY <1>1, <4>1 DEF InnerCells
      <4> HIDE DEF First, After
      <4> QED BY <1>1, <2>1, <3>2, <4>2
    <3> QED BY <3>1, <3>2
  <2>3. Put(k, s) = IF k \notin Deleted(old, new) THEN s ELSE InsertAt(s, p, [ghost |-> TRUE, index |-> k])
    OBVIOUS
  <2> HIDE DEF p, Put
  <2>4. InsertAt(s, p, [ghost |-> TRUE, index |-> k]) \in V
    BY <2>2, GhostIsPutIn
  <2> HIDE DEF V
  <2> QED BY <2>2, <2>3, <2>4
<1>4. F \in [1 .. m -> [V -> V]]
  <2> HIDE DEF V, Put, m
  <2> QED BY <1>3
<1>5. PICK f : Line(f, 0, m, V, e, F)
  <2> HIDE DEF F, V, e, m
  <2>1. F \in [(0 + 1) .. m -> [V -> V]] /\ 0 =< m /\ 0 \in Nat
    BY <1>1, <1>4
  <2> QED BY <1>1, <1>2, <2>1, LineExists
<1>6. Listed(f)
  <2> HIDE DEF V, e, Put, m
  <2>1. f \in [0 .. m -> V] /\ \A i \in 0 .. m : f[i] = IF i = 0 THEN e ELSE F[i][f[i - 1]]
    BY <1>5 DEF Line
  <2>2. ASSUME NEW k \in 0 .. m, k # 0 PROVE f[k] = Put(k, f[k - 1])
    <3>1. k \in 1 .. m /\ k - 1 \in 0 .. m
      BY <1>1, <2>2
    <3>2. f[k - 1] \in V
      BY <2>1, <3>1
    <3>3. F[k][f[k - 1]] = Put(k, f[k - 1])
      BY <3>1, <3>2
    <3> QED BY <2>1, <2>2, <3>3
  <2> HIDE DEF F
  <2> QED BY <2>1, <2>2
<1> DEFINE h == CHOOSE f_ : Listed(f_)
<1>7. Listed(h)
  <2> HIDE DEF Listed
  <2> QED BY <1>6
<1>8. Children(old, new) = h[m]
  BY DEF Children
<1> HIDE DEF h, Put, V, e, m
<1>9. \A k \in 0 .. m : h[k] = IF k = 0 THEN e ELSE Put(k, h[k - 1])
  BY <1>7
<1>10. h[0] \in V
  BY <1>1, <1>2, <1>9
<1>11. \A k \in (0 + 1) .. m : h[k - 1] \in V => h[k] \in V
  <2> SUFFICES ASSUME NEW k \in (0 + 1) .. m, h[k - 1] \in V PROVE h[k] \in V
    OBVIOUS
  <2>1. k \in 1 .. m /\ k \in 0 .. m /\ k # 0
    BY <1>1
  <2> QED BY <1>3, <1>9, <2>1
<1>12. \A k \in 0 .. m : h[k] \in V
  <2>1. 0 =< m /\ 0 \in Nat
    BY <1>1
  <2> QED BY <1>1, <1>10, <1>11, <2>1, LineKeeps
<1>13. ASSUME NEW k \in 1 .. m PROVE PutIn(h, k, Deleted(old, new))
  <2>1. k \in 0 .. m /\ k - 1 \in 0 .. m /\ k # 0
    BY <1>1
  <2>2. h[k] = Put(k, h[k - 1]) /\ h[k - 1] \in V
    BY <1>9, <1>12, <2>1
  <2> QED BY <1>3, <2>2 DEF PutIn
<1>14. h[0] = e
  BY <1>1, <1>9
<1> QED BY <1>8, <1>12, <1>13, <1>14 DEF V, m, e

LEMMA ChildrenAreListed ==
  ASSUME NEW T, NEW old \in Seq(T), NEW new \in Seq(T)
  PROVE  Children(old, new) \in ChildLists(old, new)
<1>1. PICK f : Children(old, new) = f[Len(old)] /\ \A k \in 0 .. Len(old) : f[k] \in ChildLists(old, new)
  BY ChildrenGrow
<1>2. Len(old) \in 0 .. Len(old)
  OBVIOUS
<1> QED BY <1>1, <1>2

(* Of the deleted blocks up to k, each has its ghost, and no other has.    *)
Ghosts(s, deleted, k) ==
  /\ \A i \in 1 .. Len(s) : s[i].ghost => s[i].index \in deleted /\ s[i].index =< k
  /\ \A d \in deleted : d =< k =>
       \E i \in 1 .. Len(s) : \A j \in 1 .. Len(s) : s[j].ghost /\ s[j].index = d <=> j = i

LEMMA InsertKeepsGhosts ==
  ASSUME NEW s \in Seq(Entries), NEW deleted, deleted \subseteq Nat, NEW k \in deleted, k - 1 \in Nat,
         Ghosts(s, deleted, k - 1), NEW p \in 1 .. Len(s) + 1
  PROVE  Ghosts(InsertAt(s, p, [ghost |-> TRUE, index |-> k]), deleted, k)
<1> DEFINE e == [ghost |-> TRUE, index |-> k]
           after == InsertAt(s, p, e)
           New(i) == IF i < p THEN i ELSE i + 1
           Old(i) == IF i < p THEN i ELSE i - 1
<1>1. Len(s) \in Nat /\ k \in Nat
  OBVIOUS
<1>2. e \in Entries /\ e.ghost /\ e.index = k
  BY <1>1 DEF Entries
<1> HIDE DEF e
<1>3. /\ Len(after) = Len(s) + 1
      /\ \A i \in 1 .. Len(s) + 1 : after[i] = IF i < p THEN s[i] ELSE IF i = p THEN e ELSE s[i - 1]
  <2> SUFFICES /\ Len(InsertAt(s, p, e)) = Len(s) + 1
               /\ \A i \in 1 .. Len(s) + 1 :
                    InsertAt(s, p, e)[i] = IF i < p THEN s[i] ELSE IF i = p THEN e ELSE s[i - 1]
    OBVIOUS
  <2> HIDE DEF after, New, Old
  <2> QED BY <1>1, <1>2, InsertedAt, SMTT(30)
<1> HIDE DEF after
<1>4. ASSUME NEW i \in 1 .. Len(s) + 1, i # p
      PROVE  Old(i) \in 1 .. Len(s) /\ after[i] = s[Old(i)] /\ New(Old(i)) = i
  BY <1>1, <1>3, <1>4
<1>5. ASSUME NEW i \in 1 .. Len(s)
      PROVE  New(i) \in 1 .. Len(s) + 1 /\ New(i) # p /\ Old(New(i)) = i
  BY <1>1
<1>6. after[p] = e
  BY <1>3
<1> HIDE DEF New, Old
<1>7. \A i \in 1 .. Len(s) : s[i].ghost => s[i].index \in deleted /\ s[i].index =< k - 1
  BY DEF Ghosts
<1>8. ASSUME NEW i \in 1 .. Len(s) + 1, after[i].ghost
      PROVE  after[i].index \in deleted /\ after[i].index =< k
  <2>1. CASE i = p
    BY <1>1, <1>2, <1>6, <2>1
  <2>2. CASE i # p
    <3>1. Old(i) \in 1 .. Len(s) /\ after[i] = s[Old(i)]
      BY <1>4, <2>2
    <3>2. after[i].index \in deleted /\ after[i].index =< k - 1
      BY <1>7, <1>8, <3>1
    <3>3. \A d \in deleted : d =< k - 1 => d =< k
      <4>1. \A d \in Nat : d =< k - 1 => d =< k
        BY <1>1
      <4> QED BY <4>1
    <3> QED BY <3>2, <3>3
  <2> QED BY <2>1, <2>2
<1>9. ASSUME NEW d \in deleted, d =< k
      PROVE  \E i \in 1 .. Len(s) + 1 : \A j \in 1 .. Len(s) + 1 : after[j].ghost /\ after[j].index = d <=> j = i
  <2>1. CASE d = k
    <3>1. ASSUME NEW j \in 1 .. Len(s) + 1, after[j].ghost, after[j].index = k PROVE j = p
      <4> SUFFICES ASSUME j # p PROVE FALSE
        OBVIOUS
      <4>1. Old(j) \in 1 .. Len(s) /\ after[j] = s[Old(j)]
        BY <1>4
      <4>2. k =< k - 1
        BY <1>7, <3>1, <4>1
      <4> QED BY <1>1, <4>2
    <3>2. after[p].ghost /\ after[p].index = k
      BY <1>2, <1>6
    <3> QED BY <2>1, <3>1, <3>2
  <2>2. CASE d # k
    <3>1. d =< k - 1
      BY <1>1, <1>9, <2>2
    <3>2. PICK i \in 1 .. Len(s) : \A j \in 1 .. Len(s) : s[j].ghost /\ s[j].index = d <=> j = i
      BY <3>1 DEF Ghosts
    <3>3. New(i) \in 1 .. Len(s) + 1 /\ New(i) # p /\ Old(New(i)) = i
      BY <1>5
    <3>4. ASSUME NEW j \in 1 .. Len(s) + 1 PROVE after[j].ghost /\ after[j].index = d <=> j = New(i)
      <4>1. CASE j = p
        <5>1. after[j].index = k
          BY <1>2, <1>6, <4>1
        <5> QED BY <2>2, <3>3, <4>1, <5>1
      <4>2. CASE j # p
        <5>1. Old(j) \in 1 .. Len(s) /\ after[j] = s[Old(j)] /\ New(Old(j)) = j
          BY <1>4, <4>2
        <5>2. after[j].ghost /\ after[j].index = d <=> Old(j) = i
          BY <3>2, <5>1
        <5> QED BY <3>3, <5>1, <5>2
      <4> QED BY <4>1, <4>2
    <3> QED BY <3>3, <3>4
  <2> QED BY <2>1, <2>2
<1>10. Ghosts(after, deleted, k)
  BY <1>3, <1>8, <1>9 DEF Ghosts
<1> QED BY <1>10 DEF after, e

LEMMA DeletedHaveGhosts ==
  ASSUME NEW T, NEW old \in Seq(T), NEW new \in Seq(T)
  PROVE  Ghosts(Children(old, new), Deleted(old, new), Len(old))
<1> DEFINE m == Len(old)
           deleted == Deleted(old, new)
<1>1. PICK f : /\ Children(old, new) = f[m]
               /\ f[0] = [i \in DOMAIN new |-> [ghost |-> FALSE, index |-> i]]
               /\ \A k \in 0 .. m : f[k] \in ChildLists(old, new)
               /\ \A k \in 1 .. m : PutIn(f, k, deleted)
  BY ChildrenGrow
<1>2. m \in Nat /\ deleted \subseteq 1 .. m
  BY DEF Deleted
<1> HIDE DEF m, deleted
<1> DEFINE S == {k \in Nat : k =< m => Ghosts(f[k], deleted, k)}
<1>3. 0 \in S
  <2>1. Len(new) \in Nat /\ DOMAIN new = 1 .. Len(new)
    OBVIOUS
  <2>2. Len(f[0]) = Len(new) /\ \A i \in 1 .. Len(new) : f[0][i].ghost = FALSE
    <3> DEFINE e == [i \in 1 .. Len(new) |-> [ghost |-> FALSE, index |-> i]]
    <3>1. e \in Seq(Entries) /\ Len(e) = Len(new)
      <4>1. e \in [1 .. Len(new) -> Entries]
        BY <2>1 DEF Entries
      <4>2. Len(new) \in Nat
        BY <2>1
      <4> HIDE DEF e
      <4> QED BY <4>1, <4>2
    <3>2. \A i \in 1 .. Len(new) : e[i].ghost = FALSE
      OBVIOUS
    <3> HIDE DEF e
    <3>3. f[0] = e
      BY <1>1, <2>1 DEF e
    <3> QED BY <3>1, <3>2, <3>3
  <2>3. \A d \in deleted : ~(d =< 0)
    BY <1>2
  <2>4. Ghosts(f[0], deleted, 0)
    BY <2>2, <2>3 DEF Ghosts
  <2> QED BY <2>4
<1>4. ASSUME NEW k \in Nat, 0 =< k, k \in S PROVE k + 1 \in S
  <2> SUFFICES ASSUME k + 1 =< m PROVE Ghosts(f[k + 1], deleted, k + 1)
    OBVIOUS
  <2>1. k + 1 \in 1 .. m /\ (k + 1) - 1 = k /\ k \in 0 .. m /\ k =< m
    BY <1>2
  <2>2. Ghosts(f[k], deleted, k) /\ PutIn(f, k + 1, deleted) /\ f[k] \in ChildLists(old, new)
    BY <1>1, <1>4, <2>1
  <2>3. f[k] \in Seq(Entries)
    BY <2>2 DEF ChildLists
  <2>4. CASE k + 1 \in deleted
    <3> DEFINE e == [ghost |-> TRUE, index |-> k + 1]
    <3>0. \E p \in 1 .. Len(f[(k + 1) - 1]) + 1 : f[k + 1] = InsertAt(f[(k + 1) - 1], p, e)
      BY <2>2, <2>4, Zenon DEF PutIn
    <3> HIDE DEF e
    <3>1. PICK p \in 1 .. Len(f[k]) + 1 : f[k + 1] = InsertAt(f[k], p, e)
      BY <2>1, <3>0
    <3>2. deleted \subseteq Nat
      BY <1>2
    <3>3. Ghosts(f[k], deleted, (k + 1) - 1) /\ (k + 1) - 1 \in Nat
      BY <2>1, <2>2
    <3>4. Ghosts(InsertAt(f[k], p, [ghost |-> TRUE, index |-> k + 1]), deleted, k + 1)
      <4> HIDE DEF S
      <4> QED BY <2>3, <2>4, <3>1, <3>2, <3>3, InsertKeepsGhosts
    <3> QED BY <3>1, <3>4 DEF e
  <2>5. CASE k + 1 \notin deleted
    <3>1. f[k + 1] = f[k]
      BY <2>1, <2>2, <2>5 DEF PutIn
    <3>2. \A d \in deleted : d \in Nat /\ (d =< k + 1 => d =< k)
      BY <1>2, <2>5
    <3>3. \A i \in 1 .. Len(f[k]) : f[k][i].ghost => f[k][i].index \in deleted /\ f[k][i].index =< k
      BY <2>2 DEF Ghosts
    <3>4. \A i \in 1 .. Len(f[k]) : f[k][i].ghost => f[k][i].index \in deleted /\ f[k][i].index =< k + 1
      <4>1. \A d \in deleted : d =< k => d =< k + 1
        BY <3>2
      <4> QED BY <3>3, <4>1
    <3>5. \A d \in deleted : d =< k + 1 =>
            \E i \in 1 .. Len(f[k]) : \A j \in 1 .. Len(f[k]) : f[k][j].ghost /\ f[k][j].index = d <=> j = i
      BY <2>2, <3>2 DEF Ghosts
    <3> QED BY <3>1, <3>4, <3>5 DEF Ghosts
  <2> QED BY <2>4, <2>5
<1>5. m \in S
  <2> HIDE DEF S
  <2> QED BY <1>2, <1>3, <1>4, NumbersFrom
<1>6. Ghosts(f[m], deleted, m)
  BY <1>2, <1>5
<1> QED BY <1>1, <1>6 DEF m, deleted

-----------------------------------------------------------------------------
(* Links.                                                                  *)

(* A run of rows that join is as long as its rows are many, at least: the  *)
(* lengths up to the longest one are counted.                              *)
LEMMA RunIsLongEnough ==
  ASSUME NEW s \in Seq(ScreenRow), NEW y \in 1 .. Len(s), NEW w, NEW n \in 1 .. (Len(s) - y),
         Last(s[y].words) = w,
         \A k \in 1 .. n : UrlSafe(s[y + k]) /\ ~StartsUrl(s[y + k]) /\ ~Bulleted(s[y + k], {"minus"}),
         \A k \in 1 .. (n - 1) : Fills(s[y + k])
  PROVE  FullUrlRows(s, y, w) \in Nat /\ n <= FullUrlRows(s, y, w)
<1> DEFINE Joins(k) == /\ s[y + k].wrapped \/ k > 1 \/ Last(s[y].words) = w
                       /\ UrlSafe(s[y + k])
                       /\ ~StartsUrl(s[y + k]) /\ ~Bulleted(s[y + k], {"minus"})
           joining == {k \in 1 .. (Len(s) - y) : Joins(k)}
           lengths == {m \in 1 .. (Len(s) - y) : /\ 1 .. m \subseteq joining
                                                 /\ \A k \in 1 .. (m - 1) : Fills(s[y + k])}
<1>1. FullUrlRows(s, y, w) = Cardinality(lengths)
  BY DEF FullUrlRows, RunLength
<1>2. \A k \in 1 .. n : Joins(k)
  OBVIOUS
<1>3. 1 .. n \subseteq lengths
  <2> SUFFICES ASSUME NEW m \in 1 .. n PROVE m \in lengths
    OBVIOUS
  <2>1. m \in 1 .. (Len(s) - y) /\ 1 .. m \subseteq 1 .. n /\ 1 .. (m - 1) \subseteq 1 .. (n - 1)
    OBVIOUS
  <2>2. ASSUME NEW k \in 1 .. m PROVE k \in joining
    <3>1. k \in 1 .. n /\ k \in 1 .. (Len(s) - y)
      BY <2>1
    <3>2. Joins(k)
      BY <1>2, <3>1
    <3> HIDE DEF Joins
    <3> QED BY <3>1, <3>2
  <2> HIDE DEF Joins
  <2> QED BY <2>1, <2>2
<1> HIDE DEF Joins
<1>4. IsFiniteSet(1 .. (Len(s) - y)) /\ lengths \subseteq 1 .. (Len(s) - y)
  BY FS_Interval
<1>5. IsFiniteSet(lengths)
  BY <1>4, FS_Subset
<1>6. Cardinality(1 .. n) = n
  BY FS_Interval
<1> HIDE DEF lengths
<1> QED BY <1>1, <1>3, <1>5, <1>6, FS_Subset, FS_CardinalityType

(* Below a row that ends in a URL, the rows up to a continuation join. *)
LEMMA OriginReaches ==
  ASSUME NEW s \in Seq(ScreenRow), NEW y \in 1 .. Len(s), ContinuesUrl(s, y),
         NEW o \in UrlOrigins(s, y)
  PROVE  /\ o \in 1 .. Len(s) /\ s[o].words \in Seq(WordRecords) /\ s[o].words # <<>>
         /\ Last(s[o].words) = s[o].words[Len(s[o].words)] /\ Last(s[o].words).kind = "url"
         /\ FullUrlRows(s, o, Last(s[o].words)) \in Nat
         /\ y - o \in 1 .. FullUrlRows(s, o, Last(s[o].words))
<1>1. /\ o \in 1 .. (y - 1) /\ EndsInUrl(s[o])
      /\ \A j \in (o + 1) .. (y - 1) : UrlSafe(s[j]) /\ Fills(s[j]) /\ ~EndsInUrl(s[j])
  BY DEF UrlOrigins
<1>2. o \in 1 .. Len(s) /\ y - o \in 1 .. (Len(s) - o)
  BY <1>1
<1>3. \A j \in 1 .. Len(s) : s[j].words \in Seq(WordRecords)
  <2>1. \A j \in 1 .. Len(s) : s[j] \in ScreenRow
    OBVIOUS
  <2>2. \A r \in ScreenRow : r.words \in Seq(WordRecords)
    BY DEF ScreenRow
  <2> QED BY <2>1, <2>2
<1>4. \A j \in (o + 1) .. (y - 1) : ~StartsUrl(s[j]) /\ ~Bulleted(s[j], {"minus"})
  <2> SUFFICES ASSUME NEW j \in (o + 1) .. (y - 1) PROVE ~StartsUrl(s[j]) /\ ~Bulleted(s[j], {"minus"})
    OBVIOUS
  <2>1. j \in 1 .. Len(s) /\ s[j].words \in Seq(WordRecords)
    BY <1>1, <1>3
  <2>2. Len(s[j].words) = 1 /\ ~EndsInUrl(s[j])
    BY <1>1 DEF Fills
  <2>3. Last(s[j].words) = Head(s[j].words)
    BY <2>1, <2>2 DEF Last
  <2> QED BY <2>2, <2>3 DEF StartsUrl, EndsInUrl, Bulleted
<1>5. UrlSafe(s[y]) /\ ~StartsUrl(s[y]) /\ ~Bulleted(s[y], {"minus"})
  <2>1. UrlStarts(s, y) = {} /\ UrlSafe(s[y]) /\ ~Bulleted(s[y], {"minus", "plus"})
    BY DEF ContinuesUrl
  <2>2. s[y].words \in Seq(WordRecords)
    BY <1>3
  <2>3. s[y].words # <<>> => 1 \in DOMAIN s[y].words /\ Head(s[y].words) = s[y].words[1]
    BY <2>2
  <2>4. ~StartsUrl(s[y])
    BY <2>1, <2>3 DEF StartsUrl, UrlStarts
  <2> QED BY <2>1, <2>4 DEF Bulleted
<1>6. \A k \in 1 .. (y - o) : UrlSafe(s[o + k]) /\ ~StartsUrl(s[o + k]) /\ ~Bulleted(s[o + k], {"minus"})
  <2> SUFFICES ASSUME NEW k \in 1 .. (y - o)
               PROVE  UrlSafe(s[o + k]) /\ ~StartsUrl(s[o + k]) /\ ~Bulleted(s[o + k], {"minus"})
    OBVIOUS
  <2>1. o + k \in (o + 1) .. (y - 1) \/ o + k = y
    BY <1>1
  <2> QED BY <1>1, <1>4, <1>5, <2>1
<1>7. \A k \in 1 .. (y - o - 1) : Fills(s[o + k])
  <2> SUFFICES ASSUME NEW k \in 1 .. (y - o - 1) PROVE Fills(s[o + k])
    OBVIOUS
  <2>1. o + k \in (o + 1) .. (y - 1)
    BY <1>1
  <2> QED BY <1>1, <2>1
<1>8. FullUrlRows(s, o, Last(s[o].words)) \in Nat /\ y - o <= FullUrlRows(s, o, Last(s[o].words))
  BY <1>2, <1>6, <1>7, RunIsLongEnough
<1> QED BY <1>1, <1>2, <1>3, <1>8 DEF EndsInUrl, Last

(* The rows a URL is joined from are rows of the screen that begin with a  *)
(* word.                                                                   *)
LEMMA RowsOfUrl ==
  ASSUME NEW s \in Seq(ScreenRow), NEW y \in 1 .. Len(s), NEW w, NEW k \in 1 .. FullUrlRows(s, y, w)
  PROVE  y + k \in 1 .. Len(s) /\ s[y + k].words # <<>>
<1> DEFINE Joins(j) == /\ s[y + j].wrapped \/ j > 1 \/ Last(s[y].words) = w
                       /\ UrlSafe(s[y + j])
                       /\ ~StartsUrl(s[y + j]) /\ ~Bulleted(s[y + j], {"minus"})
           joining == {j \in 1 .. (Len(s) - y) : Joins(j)}
           lengths == {m \in 1 .. (Len(s) - y) : /\ 1 .. m \subseteq joining
                                                 /\ \A j \in 1 .. (m - 1) : Fills(s[y + j])}
           n == Cardinality(lengths)
<1>1. FullUrlRows(s, y, w) = n
  BY DEF FullUrlRows, RunLength
<1>2. IsFiniteSet(1 .. (Len(s) - y)) /\ lengths \subseteq 1 .. (Len(s) - y)
  BY FS_Interval
<1>3. IsFiniteSet(lengths) /\ n \in Nat
  BY <1>2, FS_Subset, FS_CardinalityType
<1>4. n # 0
  BY <1>1, <1>3
<1> HIDE DEF Joins
<1>5. PICK m \in lengths : k <= m
  <2> SUFFICES ASSUME \A m \in lengths : ~(k <= m) PROVE FALSE
    OBVIOUS
  <2>1. k \in 1 .. n /\ k \in Int
    BY <1>1, <1>3
  <2> DEFINE all == Len(s) - y
  <2>5. all \in Int
    OBVIOUS
  <2> HIDE DEF lengths, all
  <2>2. lengths \subseteq 1 .. (k - 1)
    BY <1>2, <2>1, <2>5 DEF all
  <2>3. IsFiniteSet(1 .. (k - 1)) /\ Cardinality(1 .. (k - 1)) = k - 1
    BY <2>1, FS_Interval
  <2>4. Cardinality(lengths) <= Cardinality(1 .. (k - 1))
    BY <2>2, <2>3, FS_Subset
  <2> QED BY <1>3, <2>1, <2>3, <2>4
<1>6. k \in 1 .. m /\ 1 .. m \subseteq joining
  BY <1>1, <1>3, <1>5
<1>7. k \in 1 .. (Len(s) - y) /\ Joins(k)
  BY <1>6
<1>8. UrlSafe(s[y + k])
  BY <1>7 DEF Joins
<1> QED BY <1>7, <1>8 DEF UrlSafe

(* The words a URL is joined from, and what trimming the last one changes. *)
LEMMA JoinedType ==
  ASSUME NEW s \in Seq(ScreenRow), NEW y \in 1 .. Len(s), NEW w \in WordRecords, NEW n \in Nat,
         \A k \in 1 .. n : y + k \in 1 .. Len(s) /\ s[y + k].words # <<>>
  PROVE  JoinedWords(s, y, w, n) \in Seq(WordRecords) /\ JoinedWords(s, y, w, n) # <<>>
<1> DEFINE rest == [k \in 1 .. n |-> Head(s[y + k].words)]
<1>1. \A k \in 1 .. n : Head(s[y + k].words) \in WordRecords
  <2>1. \A r \in ScreenRow : r.words \in Seq(WordRecords)
    BY DEF ScreenRow
  <2>2. \A i \in 1 .. Len(s) : s[i] \in ScreenRow
    OBVIOUS
  <2>3. \A words \in Seq(WordRecords) : words # <<>> => Head(words) \in WordRecords
    OBVIOUS
  <2> QED BY <2>1, <2>2, <2>3
<1>2. rest \in Seq(WordRecords)
  <2>1. rest \in [1 .. n -> WordRecords]
    BY <1>1
  <2> HIDE DEF rest
  <2> QED BY <2>1
<1> HIDE DEF rest
<1>3. Cons(w, rest) \in Seq(WordRecords) /\ Len(Cons(w, rest)) = Len(rest) + 1 /\ Len(rest) \in Nat
  BY <1>2, OneBefore
<1>4. Cons(w, rest) # <<>>
  BY <1>3
<1> QED BY <1>3, <1>4 DEF JoinedWords, Cons, rest

LEMMA TrimmedIsSame ==
  ASSUME NEW words \in Seq(WordRecords), words # <<>>
  PROVE  (TrimUrlTrailing(words) = words) <=> ~Last(words).trail
<1> DEFINE n == Len(words)
           w == words[n]
           u == [w EXCEPT !.trail = FALSE]
<1>1. n \in DOMAIN words /\ w \in WordRecords /\ Last(words) = w
  BY DEF Last
<1>2. TrimUrlTrailing(words) = [words EXCEPT ![n] = u]
  BY DEF TrimUrlTrailing
<1>3. words = [i \in 1 .. n |-> words[i]] /\ n \in 1 .. n
  BY <1>1
<1> HIDE DEF n
<1>4. w.trail \in BOOLEAN /\ w = [kind |-> w.kind, trail |-> w.trail]
  BY <1>1 DEF WordRecords
<1> HIDE DEF w
<1>5. u.trail = FALSE /\ (w.trail = FALSE => u = w)
  <2>1. \A k, t, v : [[kind |-> k, trail |-> t] EXCEPT !.trail = v] = [kind |-> k, trail |-> v]
    OBVIOUS
  <2>2. \A k, t : [kind |-> k, trail |-> t].trail = t
    OBVIOUS
  <2>3. u = [kind |-> w.kind, trail |-> FALSE]
    <3> DEFINE r == [kind |-> w.kind, trail |-> w.trail]
    <3>1. [r EXCEPT !.trail = FALSE] = [kind |-> w.kind, trail |-> FALSE]
      BY <2>1, Zenon
    <3>2. w = r
      BY <1>4
    <3> HIDE DEF r
    <3> QED BY <3>1, <3>2, Zenon
  <2> HIDE DEF u
  <2> QED BY <1>4, <2>2, <2>3, Zenon
<1> HIDE DEF u
<1>6. [words EXCEPT ![n] = u][n] = u
  BY <1>3
<1>8. CASE w.trail = FALSE
  <2>1. u = w
    BY <1>5, <1>8
  <2>2. [words EXCEPT ![n] = w] = words
    BY <1>3 DEF w
  <2> QED BY <1>1, <1>2, <1>8, <2>1, <2>2
<1>9. CASE w.trail = TRUE
  <2>1. u # w
    BY <1>5, <1>9
  <2>2. [words EXCEPT ![n] = u] # words
    BY <1>6, <2>1 DEF w
  <2> QED BY <1>1, <1>2, <1>9, <2>2
<1> QED BY <1>4, <1>8, <1>9

(***************************************************************************)
(* The two algorithms that join a URL find the same rows on every screen,  *)
(* whatever its rows are: a row that the upward scan links                 *)
(* (terminal-entry.js:225-271) is one of the rows of the link it shows,    *)
(* and buildFullUrl() gives the row where the URL starts a link with the   *)
(* same rows.  What they open is the same URL only if it does not end in   *)
(* punctuation, which the row where it starts leaves out and the           *)
(* continuation does not.                                                  *)
(***************************************************************************)
THEOREM LinksAgree ==
  ASSUME NEW s \in Seq(ScreenRow), NEW y \in 1 .. Len(s), ContinuesUrl(s, y)
  PROVE  LET l == UrlContinuedAt(s, y)
         IN  /\ l.at \in l.ranges
             /\ \E above \in 1 .. (y - 1) : \E m \in UrlLinks(s, above) : SameLink(m, l)
<1> DEFINE o == CHOOSE x \in UrlOrigins(s, y) : TRUE
           w == Last(s[o].words)
           n == FullUrlRows(s, o, w)
           l == UrlContinuedAt(s, y)
           i == Len(s[o].words)
<1>1. o \in UrlOrigins(s, y)
  BY DEF ContinuesUrl
<1>2. o \in 1 .. (y - 1)
  BY <1>1 DEF UrlOrigins
<1> HIDE DEF o
<1>3. /\ o \in 1 .. Len(s) /\ s[o].words \in Seq(WordRecords) /\ s[o].words # <<>>
      /\ w = s[o].words[i] /\ w.kind = "url" /\ n \in Nat /\ y - o \in 1 .. n
  BY <1>1, OriginReaches
<1>4. /\ l.at = <<y, 1>> /\ l.target = JoinedWords(s, o, w, n)
      /\ l.ranges = {<<o, i>>} \cup Continuations(o, n)
  BY DEF UrlContinuedAt, o
<1>5. l.at \in l.ranges
  <2>1. y = o + (y - o)
    BY <1>2
  <2>2. <<y, 1>> \in Continuations(o, n)
    BY <1>3, <2>1 DEF Continuations
  <2> QED BY <1>4, <2>2
<1>6. i \in UrlStarts(s, o)
  BY <1>3 DEF UrlStarts
<1>7. UrlLinks(s, o) = UrlsOfRow(s, o)
  BY <1>6 DEF UrlLinks, ContinuesUrl
<1> DEFINE m == [kind |-> "url", at |-> <<o, i>>, target |-> TrimUrlTrailing(JoinedWords(s, o, w, n)),
                 ranges |-> {<<o, i>>} \cup Continuations(o, n)]
<1>8. m \in UrlsOfRow(s, o)
  BY <1>3, <1>6 DEF UrlsOfRow
<1>9. m.ranges = l.ranges /\ m.target = TrimUrlTrailing(l.target)
  BY <1>4
<1>10. l.target \in Seq(WordRecords) /\ l.target # <<>>
  <2>1. \A k \in 1 .. n : o + k \in 1 .. Len(s) /\ s[o + k].words # <<>>
    BY <1>3, RowsOfUrl
  <2>2. w \in WordRecords
    BY <1>3
  <2> HIDE DEF w, n, l
  <2> QED BY <1>3, <1>4, <2>1, <2>2, JoinedType
<1>11. (m.target = l.target) <=> ~Last(l.target).trail
  BY <1>9, <1>10, TrimmedIsSame
<1>12. SameLink(m, l)
  BY <1>9, <1>11 DEF SameLink
<1> QED BY <1>2, <1>5, <1>7, <1>8, <1>12

(***************************************************************************)
(* What is found at a place of a screen, or of a row of cells.             *)
(***************************************************************************)
LEMMA OffsetsGrow ==
  ASSUME NEW cells \in Seq(CellRecords)
  PROVE  LET n == Len(cells)
             before == StringOffset(cells)
         IN  /\ before \in [1 .. n + 1 -> Nat] /\ before[1] = 0
             /\ \A x \in 1 .. n :
                  before[x + 1] = before[x] + (IF cells[x].width = 0 THEN 0 ELSE CharLength(cells[x]))
<1> DEFINE n == Len(cells)
           W(x) == IF cells[x].width = 0 THEN 0 ELSE CharLength(cells[x])
           Offsets(f) == f = [x \in 1 .. (n + 1) |-> IF x = 1 THEN 0 ELSE f[x - 1] + W(x - 1)]
           F == [x \in 2 .. n + 1 |-> [v \in Nat |-> v + W(x - 1)]]
<1>1. n \in Nat /\ 1 \in Nat /\ n + 1 \in Nat /\ 1 =< n + 1 /\ 1 + 1 = 2
  OBVIOUS
<1>2. \A x \in 1 .. n : W(x) \in Nat
  <2> SUFFICES ASSUME NEW x \in 1 .. n PROVE W(x) \in Nat
    OBVIOUS
  <2>1. cells[x] \in CellRecords
    OBVIOUS
  <2>2. cells[x].chars \in Nat
    BY <2>1 DEF CellRecords
  <2> QED BY <2>2 DEF CharLength
<1> HIDE DEF W, n
<1>3. F \in [(1 + 1) .. n + 1 -> [Nat -> Nat]]
  <2>1. ASSUME NEW x \in 2 .. n + 1, NEW v \in Nat PROVE v + W(x - 1) \in Nat
    <3>1. x - 1 \in 1 .. n
      BY <1>1
    <3>2. W(x - 1) \in Nat
      BY <1>2, <3>1
    <3> QED BY <3>2
  <2> QED BY <1>1, <2>1
<1>4. PICK f : Line(f, 1, n + 1, Nat, 0, F)
  <2> HIDE DEF F
  <2>1. 0 \in Nat
    OBVIOUS
  <2> QED BY <1>1, <1>3, <2>1, LineExists
<1>5. f \in [1 .. n + 1 -> Nat] /\ \A x \in 1 .. n + 1 : f[x] = IF x = 1 THEN 0 ELSE F[x][f[x - 1]]
  BY <1>4 DEF Line
<1>6. Offsets(f)
  <2>1. ASSUME NEW x \in 1 .. n + 1, x # 1 PROVE f[x] = f[x - 1] + W(x - 1)
    <3>1. x \in 2 .. n + 1 /\ x - 1 \in 1 .. n + 1
      BY <1>1, <2>1
    <3>2. f[x - 1] \in Nat
      BY <1>5, <3>1
    <3>3. F[x][f[x - 1]] = f[x - 1] + W(x - 1)
      BY <3>1, <3>2
    <3> QED BY <1>5, <2>1, <3>3
  <2> HIDE DEF F
  <2> QED BY <1>5, <2>1
<1> DEFINE h == CHOOSE f_ : Offsets(f_)
<1>7. Offsets(h)
  <2> HIDE DEF Offsets
  <2> QED BY <1>6
<1>8. StringOffset(cells) = h
  BY DEF StringOffset, W, n
<1> HIDE DEF h
<1>0. \A y \in 1 .. n + 1 : h[y] = IF y = 1 THEN 0 ELSE h[y - 1] + W(y - 1)
  BY <1>7
<1>9. h[1] = 0 /\ \A x \in 1 .. n : h[x + 1] = h[x] + W(x)
  <2>1. ASSUME NEW x \in 1 .. n PROVE h[x + 1] = h[x] + W(x)
    <3>1. x + 1 \in 1 .. n + 1 /\ x + 1 # 1 /\ x + 1 - 1 = x
      BY <1>1
    <3>2. h[x + 1] = IF x + 1 = 1 THEN 0 ELSE h[x + 1 - 1] + W(x + 1 - 1)
      BY <1>0, <3>1
    <3> QED BY <3>1, <3>2
  <2>2. 1 \in 1 .. n + 1
    BY <1>1
  <2>3. h[1] = 0
    BY <1>0, <2>2
  <2> QED BY <2>1, <2>3
<1>10. \A x \in 1 .. n + 1 : h[x] \in Nat
  <2>1. h[1] \in Nat
    BY <1>9
  <2>2. ASSUME NEW x \in (1 + 1) .. n + 1, h[x - 1] \in Nat PROVE h[x] \in Nat
    <3>1. x - 1 \in 1 .. n /\ x - 1 + 1 = x
      BY <1>1
    <3>2. h[x] = h[x - 1] + W(x - 1)
      BY <1>9, <3>1
    <3> QED BY <1>2, <2>2, <3>1, <3>2
  <2> QED BY <1>1, <2>1, <2>2, LineKeeps
<1>11. h \in [1 .. n + 1 -> Nat]
  BY <1>7, <1>10
<1> QED BY <1>8, <1>9, <1>11 DEF n, W

(* The cell for an index: the index is in its text.                        *)
LEMMA CellIsFound ==
  ASSUME NEW cells \in Seq(CellRecords),
         NEW t \in 0 .. (StringOffset(cells)[Len(cells) + 1] - 1)
  PROVE  LET before == StringOffset(cells)
             x == MapStringIndexToCell(cells, t)
         IN  /\ x \in DOMAIN cells /\ cells[x].width # 0
             /\ before[x] =< t /\ t < before[x] + CharLength(cells[x])
<1> DEFINE n == Len(cells)
           before == StringOffset(cells)
           beyond == {y \in 1 .. n + 1 : before[y] > t}
           Found(x) == cells[x].width # 0 /\ before[x] + CharLength(cells[x]) > t
           found == {x \in DOMAIN cells : Found(x)}
<1>1. n \in Nat /\ DOMAIN cells = 1 .. n
  OBVIOUS
<1>2. /\ before \in [1 .. n + 1 -> Nat] /\ before[1] = 0
      /\ \A x \in 1 .. n : before[x + 1] = before[x] + (IF cells[x].width = 0 THEN 0 ELSE CharLength(cells[x]))
  BY OffsetsGrow
<1>3. MapStringIndexToCell(cells, t)
        = IF found = {} THEN n + 1 ELSE CHOOSE x \in found : \A z \in found : x <= z
  BY DEF MapStringIndexToCell
<1>4. t \in Nat /\ before[n + 1] \in Nat /\ t < before[n + 1]
  <2>1. before[n + 1] \in Nat
    <3> HIDE DEF n, before
    <3> QED BY <1>1, <1>2
  <2> HIDE DEF n, before
  <2>2. t \in 0 .. (before[n + 1] - 1)
    BY DEF n, before
  <2> QED BY <2>1, <2>2
<1> HIDE DEF n, before
<1>5. PICK y \in beyond : \A z \in beyond : y =< z
  <2>1. n + 1 \in beyond
    BY <1>1, <1>4
  <2>2. beyond \subseteq Nat /\ beyond # {}
    BY <1>1, <2>1
  <2> HIDE DEF beyond
  <2> QED BY <2>2, LeastNumber
<1>6. y \in 1 .. n + 1 /\ before[y] > t /\ y # 1
  BY <1>2, <1>4, <1>5
<1>7. ASSUME NEW x \in 1 .. n + 1, x < y PROVE before[x] =< t
  <2>1. x \notin beyond
    <3>1. ~(y =< x)
      BY <1>1, <1>6, <1>7
    <3> QED BY <1>5, <3>1
  <2>2. before[x] \in Nat /\ ~(before[x] > t)
    BY <1>2, <2>1
  <2> QED BY <1>4, <2>2
<1>8. y - 1 \in found
  <2>1. y - 1 \in 1 .. n /\ y - 1 \in 1 .. n + 1 /\ y - 1 < y /\ y - 1 + 1 = y
    BY <1>1, <1>6
  <2>2. before[y] = before[y - 1] + (IF cells[y - 1].width = 0 THEN 0 ELSE CharLength(cells[y - 1]))
    BY <1>2, <2>1
  <2>3. before[y - 1] =< t /\ before[y - 1] \in Nat
    BY <1>2, <1>7, <2>1
  <2>4. cells[y - 1].width # 0
    BY <1>4, <1>6, <2>2, <2>3
  <2>5. before[y - 1] + CharLength(cells[y - 1]) > t
    BY <1>6, <2>2, <2>4
  <2> QED BY <1>1, <2>1, <2>4, <2>5
<1> DEFINE x == CHOOSE x_ \in found : \A z \in found : x_ <= z
<1>9. x \in found /\ \A z \in found : x =< z
  <2>1. found \subseteq Nat /\ found # {}
    BY <1>1, <1>8
  <2> HIDE DEF found
  <2>2. \E x_ \in found : \A z \in found : x_ <= z
    BY <2>1, LeastNumber
  <2> QED BY <2>2
<1>10. MapStringIndexToCell(cells, t) = x
  <2> HIDE DEF found
  <2> QED BY <1>3, <1>8
<1> HIDE DEF x
<1>11. x \in 1 .. n /\ cells[x].width # 0 /\ before[x] + CharLength(cells[x]) > t
  BY <1>1, <1>9
<1>12. x \in 1 .. n + 1 /\ x < y
  <2>1. x =< y - 1
    BY <1>8, <1>9
  <2> QED BY <1>1, <1>6, <1>11, <2>1
<1>13. before[x] =< t
  BY <1>7, <1>12
<1>14. t < before[x] + CharLength(cells[x])
  BY <1>11
<1> QED BY <1>1, <1>10, <1>11, <1>13, <1>14 DEF before

-----------------------------------------------------------------------------
(* Every input.                                                            *)

Given == input = NoInput \/ input \in Inputs

LEMMA InputIsGiven == FunctionsSpec => []Given
<1>1. FunctionsInit => Given
  BY DEF FunctionsInit, Given
<1>2. Given /\ [FunctionsNext]_input => Given'
  BY DEF FunctionsNext, Given
<1> QED BY <1>1, <1>2, PTL DEF FunctionsSpec

LEMMA GivenLinksAreWhole == Given => LinksAreWhole
<1> SUFFICES ASSUME Given PROVE LinksAreWhole
  OBVIOUS
<1>1. ContinuationsAgree
  <2> SUFFICES ASSUME Is("screen"), NEW y \in DOMAIN input.screen, ContinuesUrl(input.screen, y)
               PROVE  LET l == UrlContinuedAt(input.screen, y)
                      IN  /\ l.at \in l.ranges
                          /\ \E above \in 1 .. (y - 1) : \E m \in UrlLinks(input.screen, above) : SameLink(m, l)
    BY DEF ContinuationsAgree
  <2>1. input.screen \in Seq(ScreenRow)
    BY InputsAreGiven DEF Given, Is
  <2>2. y \in 1 .. Len(input.screen)
    BY <2>1
  <2> QED BY <2>1, <2>2, LinksAgree
<1>2. CellHoldsIndex
  <2> SUFFICES ASSUME Is("cells") PROVE CellHoldsIndex
    BY DEF CellHoldsIndex
  <2>1. input.cells \in Seq(CellRecords)
    BY InputsAreGiven DEF Given, Is
  <2> DEFINE Holds(t) ==
        LET x == MapStringIndexToCell(input.cells, t)
        IN  /\ x \in DOMAIN input.cells /\ input.cells[x].width # 0
            /\ StringOffset(input.cells)[x] <= t
            /\ t < StringOffset(input.cells)[x] + CharLength(input.cells[x])
  <2>2. \A t \in 0 .. (StringOffset(input.cells)[Len(input.cells) + 1] - 1) : Holds(t)
    BY <2>1, CellIsFound
  <2> QED BY <2>2 DEF CellHoldsIndex
<1> QED BY <1>1, <1>2 DEF LinksAreWhole

(***************************************************************************)
(* The links of every screen are whole: a row linked as the continuation   *)
(* of a URL has the rows of the link of the row where it starts, and opens *)
(* the same but for the punctuation at its end; and the pointer meets the  *)
(* characters of a link, wide and combined ones included                   *)
(* (terminal-entry.js:90-130, 225-271).                                    *)
(***************************************************************************)
THEOREM LinksStayWhole == FunctionsSpec => []LinksAreWhole
BY InputIsGiven, GivenLinksAreWhole, PTL

LEMMA GivenTextIsKept == Given => TextIsKept
<1> SUFFICES ASSUME Given PROVE TextIsKept
  OBVIOUS
<1> DEFINE text == input.text
<1>1. ASSUME Is("script") \/ Is("html") \/ Is("code") \/ Is("place") \/ Is("line")
      PROVE  text \in Seq(Range(text))
  BY <1>1, InputsAreGiven DEF Given, Is, IsSequence
<1>2. ASSUME Is("image")
      PROVE  /\ input.src.segs \in Seq(Range(input.src.segs)) /\ input.dir.segs \in Seq(Range(input.dir.segs))
             /\ input.src = [abs |-> input.src.abs, segs |-> input.src.segs] /\ input.src.abs \in BOOLEAN
             /\ input.dir = [abs |-> input.dir.abs, segs |-> input.dir.segs] /\ input.dir.abs \in BOOLEAN
  BY <1>2, InputsAreGiven DEF Given, Is, IsPath, IsSequence
<1> DEFINE T == Range(text)
<1> HIDE DEF T
<1>3. TextArrives
  <2>1. ASSUME Is("script") PROVE TemplateValue(EscapeForTemplate(text)) = LineFeeds(text)
    <3> DEFINE U == T \cup Special
    <3>1. text \in Seq(U) /\ Special \subseteq U
      BY <1>1, <2>1 DEF T
    <3> HIDE DEF U, text
    <3> QED BY <3>1, ScriptArrives
  <2> DEFINE U == T \cup Markup
  <2>2. Markup \subseteq U
    OBVIOUS
  <2>3. ASSUME Is("html") \/ Is("code") PROVE text \in Seq(U)
    BY <1>1, <2>3 DEF T
  <2>4. ASSUME Is("html"), "dquote" \notin Range(text) PROVE "dquote" \notin U
    BY <2>4 DEF T, Markup
  <2> HIDE DEF U, text
  <2>5. ASSUME Is("html") PROVE TextContent(EscapeHtml(text)) = text
    BY <2>2, <2>3, <2>5, EscapedTextArrives
  <2>6. ASSUME Is("code"), NEW cut \in 0 .. Len(text)
        PROVE  TextContent(RendererCode(input.lang, text, cut)) = text
    <3>1. text \in Seq(U)
      BY <2>3, <2>6
    <3> QED BY <2>2, <3>1, CodeArrives
  <2>7. ASSUME Is("html"), "dquote" \notin Range(text)
        PROVE  /\ AttributeValue(RendererImage(text, text).alt) = text
               /\ AttributeValue(RendererImage(text, text).title) = text
    <3>1. text \in Seq(U) /\ "dquote" \notin U
      BY <2>3, <2>4, <2>7
    <3> QED BY <2>2, <3>1, AttributeArrives
  <2> QED BY <2>1, <2>5, <2>6, <2>7 DEF TextArrives, text
<1>4. PlacesAreFound
  <2> SUFFICES ASSUME Is("place") PROVE PlacesAreFound
    BY DEF PlacesAreFound
  <2>1. text \in Seq(T)
    BY <1>1 DEF T
  <2>2. Len(text) \in Nat /\ IsFiniteSet(LineStarts(text)) /\ Cardinality(LineStarts(text)) \in Nat
    <3>1. Len(text) \in Nat
      BY <2>1
    <3>2. IsFiniteSet(0 .. Len(text)) /\ LineStarts(text) \subseteq 0 .. Len(text)
      BY <3>1, FS_Interval DEF LineStarts
    <3> QED BY <3>1, <3>2, FS_Subset, FS_CardinalityType
  <2> HIDE DEF text
  <2>3. \A pos \in 0 .. Len(text) :
          RevealLocation(text, LocationForPos(text, pos).line, LocationForPos(text, pos).column) = pos
    BY <2>1, PositionIsFound
  <2>4. \A line \in 1 .. (Cardinality(LineStarts(text)) + 1), column \in 0 .. (Len(text) + 2) :
          line \in Nat \ {0} /\ column \in Nat
    BY <2>2
  <2>5. \A line \in 1 .. (Cardinality(LineStarts(text)) + 1), column \in 0 .. (Len(text) + 2) :
          LET found == RevealLocation(text, line, column)
              there == LocationForPos(text, found)
          IN  /\ there.line = Min({line, Cardinality(LineStarts(text))})
              /\ there.column = Max({1, column})
                   \/ (there.column < column /\ (found = Len(text) \/ text[found + 1] = "LF"))
    BY <2>1, <2>4, PlaceIsFound
  <2> QED BY <2>3, <2>5 DEF PlacesAreFound, text
<1>5. IdentifierIsThere
  <2> SUFFICES ASSUME Is("line"), NEW pos \in 0 .. Len(text)
               PROVE  LET found == IdentifierRangeAtPos(text, pos)
                          At(r) == r[1] <= pos /\ pos <= r[2]
                      IN  /\ \A r \in Identifiers(text) : At(r) => found = r
                          /\ found # NoRange =>
                               /\ found \in Identifiers(text)
                               /\ At(found) \/ (pos = Len(text) /\ pos = found[2] + 1)
    BY DEF IdentifierIsThere
  <2>1. text \in Seq(T)
    BY <1>1 DEF T
  <2> HIDE DEF text
  <2> QED BY <2>1, IdentifierIsFound
<1>6. ImageIsFound
  <2> SUFFICES ASSUME Is("image") PROVE ImageIsFound
    BY DEF ImageIsFound
  <2> DEFINE U == Range(input.src.segs) \cup Range(input.dir.segs) \cup {"up", "cwd"}
             src == input.src
             dir == input.dir
  <2>1. src.segs \in Seq(U) /\ dir.segs \in Seq(U) /\ src.abs \in BOOLEAN /\ dir.abs \in BOOLEAN
    BY <1>2
  <2>2. src = [abs |-> src.abs, segs |-> src.segs] /\ dir = [abs |-> dir.abs, segs |-> dir.segs]
    BY <1>2
  <2>3. "up" \in U /\ "cwd" \in U
    OBVIOUS
  <2> HIDE DEF U
  <2>4. src \in [abs : BOOLEAN, segs : Seq(U)] /\ dir \in [abs : BOOLEAN, segs : Seq(U)]
    BY <2>1, <2>2
  <2> HIDE DEF src, dir
  <2> QED BY <2>3, <2>4, ImagePathIsFound DEF ImageIsFound, src, dir
<1> QED BY <1>3, <1>4, <1>5, <1>6 DEF TextIsKept

(***************************************************************************)
(* Every text keeps its meaning between the app and its pages: a file      *)
(* reaches its page unchanged through the template literal of a script     *)
(* (escapeForTemplateLiteral()), through HTML and through highlighted      *)
(* code; every place of a file, and every identifier, is found again; and  *)
(* an image is looked for where its path leads                             *)
(* (markdown-preview-entry.js, editor-entry.js).                           *)
(***************************************************************************)
THEOREM TextStaysKept == FunctionsSpec => []TextIsKept
BY InputIsGiven, GivenTextIsKept, PTL

LEMMA MatchesAreLongest ==
  ASSUME NEW T, NEW old \in Seq(T), NEW new \in Seq(T)
  PROVE  LongestIsKept(old, new)
<1> DEFINE p == <<Len(old), Len(new)>>
<1>1. PICK back : WayBack(old, new, back) /\ Matches(old, new) = back[p]
  BY MatchesAreOnTheWay
<1>2. p \in Cells(Len(old), Len(new))
  BY DEF Cells
<1>3. \A c : c \in CommonSubsequences(old, new) <=> CommonIn(old, new, c, p)
  BY CommonMeans
<1> HIDE DEF p
<1>4. CommonIn(old, new, back[p], p) /\ Cardinality(back[p]) = LcsTable(old, new)[p]
  BY <1>1, <1>2, WayBackIsCommon
<1>5. \A c : CommonIn(old, new, c, p) => Cardinality(c) =< LcsTable(old, new)[p]
  BY <1>2, CommonIsNoLonger
<1> QED BY <1>1, <1>3, <1>4, <1>5 DEF LongestIsKept

LEMMA ChildrenAreAll ==
  ASSUME NEW T, NEW old \in Seq(T), NEW new \in Seq(T)
  PROVE  AllAreShown(old, new)
<1> DEFINE s == Children(old, new)
           n == Len(new)
           kept == {p[1] : p \in Matches(old, new)}
           deleted == Deleted(old, new)
<1>1. s \in ChildLists(old, new) /\ Ghosts(s, deleted, Len(old))
  BY ChildrenAreListed, DeletedHaveGhosts
<1>2. DOMAIN old \ kept = deleted /\ deleted \subseteq 1 .. Len(old) /\ Len(old) \in Nat
  BY DEF Deleted
<1>3. DOMAIN new = 1 .. n /\ n \in Nat
  OBVIOUS
<1> HIDE DEF s, kept, n, deleted
<1>4. s \in Seq(Entries) /\ InOrder(Numbers(s), Len(s), n)
  BY <1>1 DEF ChildLists, n
<1>5. \A i \in 1 .. Len(s) : s[i].index \in IF s[i].ghost THEN 1 .. Len(old) ELSE 1 .. n
  BY <1>1 DEF ChildLists, n
<1>6. DOMAIN s = 1 .. Len(s) /\ Len(s) \in Nat
  BY <1>4
<1>7. \A i \in 1 .. Len(s) : s[i] \in Entries /\ s[i].ghost \in BOOLEAN /\ s[i].index \in Nat
  <2>1. \A i \in 1 .. Len(s) : s[i] \in Entries
    BY <1>4
  <2>2. \A e \in Entries : e.ghost \in BOOLEAN /\ e.index \in Nat
    BY DEF Entries
  <2> QED BY <2>1, <2>2
<1>8. ASSUME NEW i \in 1 .. Len(s)
      PROVE  Numbers(s)[i] = (IF s[i].ghost THEN 0 - s[i].index ELSE s[i].index)
  BY DEF Numbers, NumberOf
<1>9. ASSUME NEW i \in 1 .. Len(s) PROVE 0 < Numbers(s)[i] <=> ~s[i].ghost
  <2>1. CASE s[i].ghost
    <3>1. s[i].index \in 1 .. Len(old)
      BY <1>5, <2>1
    <3> QED BY <1>2, <1>8, <2>1, <3>1
  <2>2. CASE ~s[i].ghost
    <3>1. s[i].index \in 1 .. n
      BY <1>5, <2>2
    <3> QED BY <1>3, <1>8, <2>2, <3>1
  <2> QED BY <2>1, <2>2
<1>10. ASSUME NEW i \in 1 .. Len(s), NEW j \in 1 .. Len(s), i < j, ~s[i].ghost, ~s[j].ghost
       PROVE  s[i].index < s[j].index
  <2>1. Numbers(s)[i] < Numbers(s)[j]
    BY <1>4, <1>9, <1>10 DEF InOrder
  <2> QED BY <1>8, <1>10, <2>1
<1>11. ASSUME NEW k \in 1 .. n PROVE \E i \in 1 .. Len(s) : ChildPlaces(s, FALSE, k) = {i}
  <2>1. PICK i \in 1 .. Len(s) : Numbers(s)[i] = k
    BY <1>4 DEF InOrder
  <2>2. ~s[i].ghost /\ s[i].index = k
    BY <1>3, <1>8, <1>9, <2>1
  <2>3. ASSUME NEW j \in 1 .. Len(s), s[j].ghost = FALSE, s[j].index = k PROVE j = i
    <3>1. ~(s[i].index < s[j].index) /\ ~(s[j].index < s[i].index)
      BY <1>3, <2>2, <2>3
    <3>2. ~(i < j) /\ ~(j < i)
      BY <1>10, <2>2, <2>3, <3>1
    <3> QED BY <3>2
  <2>4. s[i].ghost = FALSE
    BY <1>7, <2>2
  <2>5. \A j : j \in ChildPlaces(s, FALSE, k) <=> j \in 1 .. Len(s) /\ s[j].ghost = FALSE /\ s[j].index = k
    BY <1>6 DEF ChildPlaces
  <2>6. ChildPlaces(s, FALSE, k) = {i}
    BY <2>2, <2>3, <2>4, <2>5
  <2> QED BY <2>6
<1>12. ASSUME NEW k \in deleted PROVE \E i \in 1 .. Len(s) : ChildPlaces(s, TRUE, k) = {i}
  <2>1. k =< Len(old)
    BY <1>2
  <2>2. PICK i \in 1 .. Len(s) : \A j \in 1 .. Len(s) : s[j].ghost /\ s[j].index = k <=> j = i
    BY <1>1, <2>1 DEF Ghosts
  <2>3. \A j : j \in ChildPlaces(s, TRUE, k) <=> j \in 1 .. Len(s) /\ s[j].ghost = TRUE /\ s[j].index = k
    BY <1>6 DEF ChildPlaces
  <2>4. \A j \in 1 .. Len(s) : s[j].ghost = TRUE <=> s[j].ghost
    BY <1>7
  <2>5. ChildPlaces(s, TRUE, k) = {i}
    BY <2>2, <2>3, <2>4
  <2> QED BY <2>5
<1>13. ASSUME NEW i \in 1 .. Len(s) PROVE s[i].index \in IF s[i].ghost THEN deleted ELSE 1 .. n
  <2>1. s[i].ghost => s[i].index \in deleted
    BY <1>1 DEF Ghosts
  <2> QED BY <1>5, <2>1
<1> QED BY <1>2, <1>3, <1>6, <1>10, <1>11, <1>12, <1>13 DEF AllAreShown, s, kept

LEMMA GivenBlocksAreKept == Given => BlocksAreKept
<1> SUFFICES ASSUME Given, Is("blocks") PROVE BlocksAreKept
  BY DEF BlocksAreKept
<1> DEFINE old == input.old
           new == input.new
           T == Range(old) \cup Range(new)
<1>1. old \in Seq(Range(old)) /\ new \in Seq(Range(new))
  BY InputsAreGiven DEF Given, Is, IsSequence
<1>2. old \in Seq(T) /\ new \in Seq(T)
  <2> HIDE DEF old, new
  <2> QED BY <1>1
<1> HIDE DEF T
<1> QED BY <1>2, MatchesAreLongest, ChildrenAreAll DEF BlocksAreKept

(***************************************************************************)
(* Between any two renderings of a Markdown file as many blocks as         *)
(* possible are kept, and each of the others is a ghost once, among the    *)
(* new blocks in their order (markdown-preview-entry.js:151-236).          *)
(***************************************************************************)
THEOREM BlocksStayKept == FunctionsSpec => []BlocksAreKept
BY InputIsGiven, GivenBlocksAreKept, PTL

-----------------------------------------------------------------------------
(* TableRows of a diff.                                                         *)

(* A cell that is highlighted shows its text, sign and tokens.             *)
LEMMA TokensAreRead ==
  ASSUME NEW T, Markup \subseteq T, NEW body \in Seq(T), NEW cut \in Nat
  PROVE  Tokens(body, cut) \in Seq(T) /\ TextContent(Tokens(body, cut)) = body
<1> DEFINE at == IF cut <= Len(body) THEN cut ELSE Len(body)
           p == SubSeq(body, 1, at)
           t == SubSeq(body, at + 1, Len(body))
<1>1. at \in 0 .. Len(body)
  OBVIOUS
<1>2. Tokens(body, cut) = Join(Span(p), Span(t))
  BY DEF Tokens, Join
<1>3. Halves(body, at, p, t)
  BY DEF Halves
<1> HIDE DEF at, p, t
<1> QED BY <1>1, <1>2, <1>3, SpansAreRead

LEMMA SplitJoins ==
  ASSUME NEW T, NEW text \in Seq(T)
  PROVE  /\ SplitPrefix(text).prefix \in Seq(T) /\ SplitPrefix(text).body \in Seq(T)
         /\ Join(SplitPrefix(text).prefix, SplitPrefix(text).body) = text
<1>1. CASE text # <<>> /\ Head(text) \in {"+", "-", " "}
  <2>1. SplitPrefix(text).prefix = <<Head(text)>> /\ SplitPrefix(text).body = Tail(text)
    BY <1>1 DEF SplitPrefix
  <2>2. Head(text) \in T /\ Tail(text) \in Seq(T) /\ text = Cons(Head(text), Tail(text))
    BY <1>1, HeadIsCons
  <2> DEFINE x == Head(text)
             r == Tail(text)
  <2>3. <<x>> \in Seq(T)
    BY <2>2
  <2>4. Join(<<x>>, r) = Cons(x, r)
    <3> HIDE DEF x, r
    <3> QED BY DEF Join, Cons
  <2> QED BY <2>1, <2>2, <2>3, <2>4
<1>2. CASE ~(text # <<>> /\ Head(text) \in {"+", "-", " "})
  <2>1. SplitPrefix(text).prefix = <<>> /\ SplitPrefix(text).body = text
    BY <1>2 DEF SplitPrefix
  <2>2. <<>> \in Seq(T)
    OBVIOUS
  <2> QED BY <2>1, <2>2, JoinNone
<1> QED BY <1>1, <1>2

LEMMA HighlightedIsRead ==
  ASSUME NEW T, Markup \subseteq T, NEW text \in Seq(T), NEW cut \in Nat
  PROVE  TextContent(HighlightCell(text, cut)) = text
<1> DEFINE prefix == SplitPrefix(text).prefix
           body == SplitPrefix(text).body
           t == Tokens(body, cut)
<1>1. prefix \in Seq(T) /\ body \in Seq(T) /\ Join(prefix, body) = text
  BY SplitJoins
<1>2. CASE body = <<>>
  BY <1>2, EscapedTextArrives DEF HighlightCell, EscapeHTML
<1>3. CASE body # <<>>
  <2>1. HighlightCell(text, cut) = Join(EscapeHtml(prefix), t)
    BY <1>3 DEF HighlightCell, EscapeHTML, Join
  <2> HIDE DEF prefix, body
  <2>2. t \in Seq(T) /\ TextContent(t) = body
    BY <1>1, TokensAreRead
  <2> HIDE DEF t
  <2>3. TextContent(Join(EscapeHtml(prefix), t)) = Join(prefix, TextContent(t))
    BY <1>1, <2>2, EscapedIsRead
  <2> QED BY <1>1, <2>1, <2>2, <2>3
<1> QED BY <1>2, <1>3

HasCode(row, text) == row.code = EscapeHtml(text)

LEMMA CodeIsShown ==
  ASSUME NEW T, Markup \subseteq T, NEW text \in Seq(T), NEW cut \in Nat, NEW lang, NEW how,
         NEW row, HasCode(row, text)
  PROVE  ShownCode(row, lang, how, cut) = text
<1>1. TextContent(row.code) = text
  BY EscapedTextArrives DEF HasCode
<1>2. TextContent(HighlightCell(text, cut)) = text
  BY HighlightedIsRead
<1> QED BY <1>1, <1>2 DEF ShownCode

(* The languages.                                                          *)
EditorNames ==
  {"javascript", "jsx", "typescript", "tsx", "python", "html", "css", "json", "markdown", "rust",
   "go", "java", "c", "cpp", "xml", "sql", "php", "yaml", "sass", "scss", "shell", "toml", "ruby", "swift"}

LEMMA NamesOfLanguages == DOMAIN EditorLanguages = EditorNames /\ DOMAIN DiffLanguages = ShikiLangs
BY DEF EditorLanguages, EditorNames, DiffLanguages, ShikiLangs

LEMMA NamesAreSome == \A l \in EditorNames \cup ShikiLangs : l # NoLanguage
BY Zenon DEF EditorNames, ShikiLangs, NoLanguage

LEMMA LanguageOf ==
  ASSUME NEW table, NEW ext, NoLanguage \notin DOMAIN table
  PROVE  /\ \/ Language(table, ext) = NoLanguage
            \/ Language(table, ext) \in DOMAIN table /\ ext \in table[Language(table, ext)]
         /\ (\E l \in DOMAIN table : ext \in table[l]) => Language(table, ext) # NoLanguage
BY DEF Language

LEMMA ShellIsKnown == "shell" # NoLanguage /\ "shellscript" # NoLanguage
BY NamesAreSome DEF EditorNames, ShikiLangs

LEMMA ShikiLangIsKept == \A l \in ShikiLangs : NormalizeLang(l) = l
BY DEF NormalizeLang, ShikiLangs

LEMMA EditorLangIsKnown ==
  ASSUME NEW l \in EditorNames
  PROVE  NormalizeLang(l) # NoLanguage \/ l = "scss" \/ l = "sass"
<1>1. CASE l = "shell"
  <2>1. NormalizeLang(l) = "shellscript"
    BY <1>1 DEF NormalizeLang, ShikiLangs
  <2> QED BY <2>1, ShellIsKnown
<1>2. CASE l # "shell" /\ l # "scss" /\ l # "sass"
  <2>1. l \in ShikiLangs
    BY <1>2 DEF EditorNames, ShikiLangs
  <2> QED BY <2>1, ShikiLangIsKept, NamesAreSome
<1> QED BY <1>1, <1>2

LEMMA SuffixIsKnown ==
  ASSUME NEW ext, NEW l \in EditorNames, ext \in EditorLanguages[l]
  PROVE  \E m \in ShikiLangs : ext \in DiffLanguages[m]
<1> DEFINE m == IF l = "sass" \/ l = "scss" THEN "css" ELSE IF l = "shell" THEN "shellscript" ELSE
                IF ext = "h" THEN "c" ELSE l
<1>1. m \in ShikiLangs
  BY DEF EditorNames, ShikiLangs
<1>2. ext \in DiffLanguages[m]
  BY DEF EditorNames, EditorLanguages, DiffLanguages
<1> QED BY <1>1, <1>2

LEMMA LanguagesOfFile == LanguagesAgree
<1> SUFFICES ASSUME Is("file") PROVE LanguagesAgree
  BY DEF LanguagesAgree
<1> DEFINE file == input.file
           editor == DetectLanguage(file)
           shiki == DetectShikiLang(file)
           ext == file.ext
<1>1. EditorNames \subseteq LanguageExtensions \cup {"scss"} /\ "shell" \in EditorNames /\ "shellscript" \in ShikiLangs
  BY DEF EditorNames, LanguageExtensions, ShikiLangs
<1>2. NoLanguage \notin DOMAIN EditorLanguages /\ NoLanguage \notin DOMAIN DiffLanguages
  BY NamesOfLanguages, NamesAreSome
<1>3. CASE file.name \in ShellNames
  <2>1. editor = "shell" /\ shiki = "shellscript"
    BY <1>3 DEF DetectLanguage, DetectShikiLang
  <2>2. editor \in EditorNames /\ shiki \in ShikiLangs
    BY <1>1, <2>1
  <2> HIDE DEF editor, shiki, file
  <2>3. NormalizeLang(shiki) # NoLanguage /\ shiki # NoLanguage
    BY <2>2, NamesAreSome, ShikiLangIsKept
  <2>4. NormalizeLang(editor) # NoLanguage \/ editor = "scss" \/ editor = "sass"
    BY <2>2, EditorLangIsKnown
  <2> QED BY <1>1, <2>2, <2>3, <2>4 DEF LanguagesAgree, editor, shiki, file
<1>4. CASE file.name \notin ShellNames
  <2>1. editor = Language(EditorLanguages, ext) /\ shiki = Language(DiffLanguages, ext)
    BY <1>4 DEF DetectLanguage, DetectShikiLang
  <2> HIDE DEF editor, shiki, ext
  <2>2. editor = NoLanguage \/ (editor \in EditorNames /\ ext \in EditorLanguages[editor])
    BY <1>2, <2>1, NamesOfLanguages, LanguageOf
  <2>3. shiki = NoLanguage \/ shiki \in ShikiLangs
    BY <1>2, <2>1, NamesOfLanguages, LanguageOf
  <2>4. editor # NoLanguage => shiki # NoLanguage
    <3> SUFFICES ASSUME editor # NoLanguage PROVE shiki # NoLanguage
      OBVIOUS
    <3>1. \E m \in ShikiLangs : ext \in DiffLanguages[m]
      BY <2>2, SuffixIsKnown
    <3> QED BY <1>2, <2>1, <3>1, NamesOfLanguages, LanguageOf
  <2>5. shiki # NoLanguage => NormalizeLang(shiki) # NoLanguage
    BY <2>3, NamesAreSome, ShikiLangIsKept
  <2>6. editor # NoLanguage => NormalizeLang(editor) # NoLanguage \/ editor = "scss" \/ editor = "sass"
    BY <2>2, EditorLangIsKnown
  <2> QED BY <1>1, <2>2, <2>4, <2>5, <2>6 DEF LanguagesAgree, editor, shiki, file
<1> QED BY <1>3, <1>4

(* The lines of a diff over the characters T, and the states of the loop.  *)
DiffSigns == {"+", "-", " ", "@"}
IsSigned(text) == Head(text) \in {"+", "-", " "}
DiffOver(lines, T) ==
  /\ Len(lines) \in Nat
  /\ \A k \in 1 .. Len(lines) :
       \/ lines[k].kind = "hunk" /\ lines[k].old \in Nat /\ lines[k].new \in Nat
       \/ lines[k].kind = "line" /\ lines[k].text \in Seq(T)
TableRows(T) ==
  [class : {"hunk", "expand-row", "add", "del", "context"}, old : Int, new : Int, sign : T, code : Seq(T)]
TableStates(T) == [rows : Seq(TableRows(T)), old : Int, new : Int, prevOldEnd : Int, hunks : Nat]

LEMMA CodeRowType ==
  ASSUME NEW T, Markup \subseteq T, DiffSigns \subseteq T, NEW s \in TableStates(T), NEW text \in Seq(T), text # <<>>
  PROVE  /\ CodeRow(s, text) \in TableRows(T)
         /\ CodeRow(s, text).class \notin {"hunk", "expand-row"}
         /\ CodeRow(s, text).old = (IF IsAdd(text) THEN 0 ELSE s.old)
         /\ CodeRow(s, text).new = (IF IsDel(text) THEN 0 ELSE s.new)
         /\ CodeRow(s, text).sign = (IF IsSigned(text) THEN Head(text) ELSE " ")
         /\ CodeRow(s, text).code = EscapeHtml(IF IsSigned(text) THEN Tail(text) ELSE text)
<1> DEFINE body == IF IsSigned(text) THEN Tail(text) ELSE text
           code == EscapeHtml(IF Head(text) \in {"+", "-", " "} THEN Tail(text) ELSE text)
           sign == IF IsAdd(text) \/ IsDel(text) THEN Head(text) ELSE " "
           class == IF IsAdd(text) THEN "add" ELSE IF IsDel(text) THEN "del" ELSE "context"
           old == IF IsAdd(text) THEN 0 ELSE s.old
           new == IF IsDel(text) THEN 0 ELSE s.new
<1>1. Tail(text) \in Seq(T) /\ Head(text) \in T
  BY HeadIsCons
<1>2. body \in Seq(T)
  BY <1>1
<1>3. code = EscapeHtml(body)
  BY DEF IsSigned
<1>4. sign = (IF IsSigned(text) THEN Head(text) ELSE " ")
  BY DEF IsAdd, IsDel, IsSigned
<1>5. class \in {"add", "del", "context"}
  OBVIOUS
<1>6. old \in Int /\ new \in Int
  BY DEF TableStates
<1>7. CodeRow(s, text) = [class |-> class, old |-> old, new |-> new, sign |-> sign, code |-> code]
  BY DEF CodeRow, Row
<1> HIDE DEF class, sign, code, old, new, body
<1>8. code \in Seq(T)
  BY <1>2, <1>3, EscapedTextArrives
<1>9. sign \in T
  <2>1. " " \in T
    BY DEF DiffSigns
  <2> QED BY <1>1, <1>4, <2>1
<1>10. CodeRow(s, text) \in TableRows(T)
  BY <1>5, <1>6, <1>7, <1>8, <1>9 DEF TableRows
<1>11. CodeRow(s, text).class \notin {"hunk", "expand-row"}
  BY <1>5, <1>7
<1>12. /\ CodeRow(s, text).old = old /\ CodeRow(s, text).new = new
       /\ CodeRow(s, text).sign = sign /\ CodeRow(s, text).code = code
  BY <1>7
<1> QED BY <1>3, <1>4, <1>10, <1>11, <1>12 DEF old, new, body

LEMMA LineAdded ==
  ASSUME NEW T, Markup \subseteq T, DiffSigns \subseteq T, NEW s \in TableStates(T),
         NEW line, line.kind = "line", line.text \in Seq(T), HasRow(line)
  PROVE  /\ AddTo(s, line) \in TableStates(T)
         /\ AddTo(s, line).rows = Append(s.rows, CodeRow(s, line.text))
         /\ AddTo(s, line).old = (IF HasOldRow(line) THEN s.old + 1 ELSE s.old)
         /\ AddTo(s, line).new = (IF HasNewRow(line) THEN s.new + 1 ELSE s.new)
         /\ AddTo(s, line).prevOldEnd = (IF HasOldRow(line) THEN s.old ELSE s.prevOldEnd)
         /\ AddTo(s, line).hunks = s.hunks
<1> DEFINE text == line.text
           r == CodeRow(s, text)
           u == Append(s.rows, r)
           old == IF HasOldRow(line) THEN s.old + 1 ELSE s.old
           new == IF HasNewRow(line) THEN s.new + 1 ELSE s.new
           end == IF HasOldRow(line) THEN s.old ELSE s.prevOldEnd
<1>1. text # <<>> /\ ~IsHeader(text) /\ line.kind # "hunk"
  BY DEF HasRow
<1>2. HasOldRow(line) = ~IsAdd(text) /\ HasNewRow(line) = ~IsDel(text)
  BY DEF HasOldRow, HasNewRow, IsAdd, IsDel
<1>3. r \in TableRows(T)
  BY <1>1, CodeRowType
<1>4. s.rows \in Seq(TableRows(T)) /\ s.old \in Int /\ s.new \in Int /\ s.prevOldEnd \in Int /\ s.hunks \in Nat
  BY DEF TableStates
<1>5. s = [rows |-> s.rows, old |-> s.old, new |-> s.new, prevOldEnd |-> s.prevOldEnd, hunks |-> s.hunks]
  BY DEF TableStates
<1>6. AddTo(s, line) = [s EXCEPT !.rows = Append(@, r), !.old = IF IsAdd(text) THEN @ ELSE @ + 1,
                                 !.new = IF IsDel(text) THEN @ ELSE @ + 1,
                                 !.prevOldEnd = IF IsAdd(text) THEN @ ELSE s.old]
  BY <1>1 DEF AddTo, AddLine
<1> HIDE DEF r, text
<1>7. AddTo(s, line) = [rows |-> u, old |-> old, new |-> new, prevOldEnd |-> end, hunks |-> s.hunks]
  BY <1>2, <1>5, <1>6
<1>8. u \in Seq(TableRows(T)) /\ old \in Int /\ new \in Int /\ end \in Int
  BY <1>3, <1>4
<1> HIDE DEF u, old, new, end
<1>9. AddTo(s, line) \in TableStates(T)
  BY <1>4, <1>7, <1>8 DEF TableStates
<1> QED BY <1>7, <1>9 DEF u, old, new, end, r, text

LEMMA LineSkipped ==
  ASSUME NEW s, NEW line, line.kind = "line", ~HasRow(line)
  PROVE  AddTo(s, line) = s /\ ~HasOldRow(line) /\ ~HasNewRow(line)
BY DEF AddTo, AddLine, HasRow, HasOldRow, HasNewRow

HiddenRow(gap) == Row("expand-row", gap, 0, " ", <<>>)
HunkRow == Row("hunk", 0, 0, " ", <<"@", "@">>)
HeadRows(s, gap) == IF s.hunks # 0 /\ gap > 0 THEN Append(s.rows, HiddenRow(gap)) ELSE s.rows

LEMMA HeadRowsType ==
  ASSUME NEW T, DiffSigns \subseteq T, NEW s \in TableStates(T), NEW gap \in Int
  PROVE  HunkRow \in TableRows(T) /\ HiddenRow(gap) \in TableRows(T) /\ HeadRows(s, gap) \in Seq(TableRows(T))
<1> DEFINE blank == " "
           at == "@"
           head == "hunk"
           expand == "expand-row"
           code == <<at, at>>
<1>1. blank \in T /\ at \in T /\ head \in {"hunk", "expand-row", "add", "del", "context"}
      /\ expand \in {"hunk", "expand-row", "add", "del", "context"} /\ 0 \in Int
  <2>1. blank \in DiffSigns /\ at \in DiffSigns
    BY DEF DiffSigns
  <2>2. blank \in T /\ at \in T
    BY <2>1
  <2>3. head \in {"hunk", "expand-row", "add", "del", "context"}
    OBVIOUS
  <2>4. expand \in {"hunk", "expand-row", "add", "del", "context"}
    OBVIOUS
  <2> HIDE DEF at, blank, head, expand
  <2> QED BY <2>2, <2>3, <2>4
<1> HIDE DEF at, blank, head, expand
<1>2. code \in Seq(T) /\ <<>> \in Seq(T)
  BY <1>1, TwoIsCons
<1> HIDE DEF code
<1>3. \A class \in {"hunk", "expand-row", "add", "del", "context"} : \A old \in Int : \A text \in Seq(T) :
        Row(class, old, 0, blank, text) \in TableRows(T)
  BY <1>1 DEF Row, TableRows
<1>4. HunkRow \in TableRows(T)
  <2>1. HunkRow = Row(head, 0, 0, blank, code)
    BY DEF HunkRow, head, blank, code, at
  <2> QED BY <1>1, <1>2, <1>3, <2>1
<1>5. HiddenRow(gap) \in TableRows(T)
  <2>1. HiddenRow(gap) = Row(expand, gap, 0, blank, <<>>)
    BY DEF HiddenRow, expand, blank
  <2> QED BY <1>1, <1>2, <1>3, <2>1
<1>6. s.rows \in Seq(TableRows(T))
  BY DEF TableStates
<1> QED BY <1>4, <1>5, <1>6 DEF HeadRows

LEMMA HunkAdded ==
  ASSUME NEW T, DiffSigns \subseteq T, NEW s \in TableStates(T),
         NEW line, line.kind = "hunk", line.old \in Nat, line.new \in Nat
  PROVE  /\ AddTo(s, line) \in TableStates(T)
         /\ AddTo(s, line).rows = Append(HeadRows(s, line.old - s.prevOldEnd - 1), HunkRow)
         /\ AddTo(s, line).old = line.old
         /\ AddTo(s, line).new = line.new
         /\ AddTo(s, line).prevOldEnd = s.prevOldEnd
         /\ AddTo(s, line).hunks = s.hunks + 1
<1> DEFINE gap == line.old - s.prevOldEnd - 1
           v == HeadRows(s, gap)
           u == Append(v, HunkRow)
<1>1. s.rows \in Seq(TableRows(T)) /\ s.prevOldEnd \in Int /\ s.hunks \in Nat
  BY DEF TableStates
<1>2. s = [rows |-> s.rows, old |-> s.old, new |-> s.new, prevOldEnd |-> s.prevOldEnd, hunks |-> s.hunks]
  BY DEF TableStates
<1>3. gap \in Int
  BY <1>1
<1>4. AddTo(s, line) = [s EXCEPT !.rows = u, !.old = line.old, !.new = line.new, !.hunks = @ + 1]
  BY DEF AddTo, AddHunk, HeadRows, HiddenRow, HunkRow
<1> HIDE DEF gap
<1>5. v \in Seq(TableRows(T)) /\ HunkRow \in TableRows(T)
  BY <1>3, HeadRowsType
<1> HIDE DEF v
<1>6. u \in Seq(TableRows(T))
  BY <1>5
<1> HIDE DEF u
<1>7. AddTo(s, line) = [rows |-> u, old |-> line.old, new |-> line.new, prevOldEnd |-> s.prevOldEnd, hunks |-> s.hunks + 1]
  BY <1>1, <1>2, <1>4
<1>8. AddTo(s, line) \in TableStates(T)
  BY <1>1, <1>6, <1>7 DEF TableStates
<1> QED BY <1>7, <1>8 DEF u, v, gap

(* What a row of the table shows.                                          *)
LEMMA LineIsShown ==
  ASSUME NEW T, Markup \subseteq T, DiffSigns \subseteq T, NEW s \in TableStates(T), NEW text \in Seq(T), text # <<>>,
         NEW lang, NEW how, NEW cut \in Nat
  PROVE  ShownRow(CodeRow(s, text), lang, how, cut)
           = <<"line", IF Head(text) # "+" THEN s.old ELSE 0, IF Head(text) # "-" THEN s.new ELSE 0,
               IF IsSigned(text) THEN text ELSE <<" ">> \o text>>
<1> DEFINE r == CodeRow(s, text)
           body == IF IsSigned(text) THEN Tail(text) ELSE text
           sign == IF IsSigned(text) THEN Head(text) ELSE " "
<1>1. /\ r.class \notin {"hunk", "expand-row"}
      /\ r.old = (IF IsAdd(text) THEN 0 ELSE s.old) /\ r.new = (IF IsDel(text) THEN 0 ELSE s.new)
      /\ r.sign = sign /\ r.code = EscapeHtml(body)
  BY CodeRowType
<1> HIDE DEF r
<1>2. Tail(text) \in Seq(T) /\ text = Cons(Head(text), Tail(text))
  BY HeadIsCons
<1>3. ShownCode(r, lang, how, cut) = body
  <2>1. HasCode(r, body) /\ body \in Seq(T)
    BY <1>1, <1>2 DEF HasCode
  <2> HIDE DEF body
  <2> QED BY <2>1, CodeIsShown
<1>4. <<r.sign>> \o ShownCode(r, lang, how, cut) = IF IsSigned(text) THEN text ELSE <<" ">> \o text
  BY <1>1, <1>2, <1>3 DEF Cons
<1>5. ShownRow(r, lang, how, cut) = <<"line", r.old, r.new, <<r.sign>> \o ShownCode(r, lang, how, cut)>>
  BY <1>1 DEF ShownRow
<1>6. r.old = (IF Head(text) # "+" THEN s.old ELSE 0) /\ r.new = (IF Head(text) # "-" THEN s.new ELSE 0)
  BY <1>1 DEF IsAdd, IsDel
<1> QED BY <1>4, <1>5, <1>6 DEF r

LEMMA HeadsAreShown ==
  ASSUME NEW lang, NEW how, NEW cut, NEW gap
  PROVE  /\ ShownRow(HunkRow, lang, how, cut) = <<"hunk">>
         /\ ShownRow(HiddenRow(gap), lang, how, cut) = <<"hidden", gap>>
BY DEF ShownRow, HunkRow, HiddenRow, Row

LEMMA OneMoreIsShown ==
  ASSUME NEW R, NEW rows \in Seq(R), NEW r \in R, NEW lang, NEW how, NEW cut
  PROVE  ShownRows(Append(rows, r), lang, how, cut)
           = Append(ShownRows(rows, lang, how, cut), ShownRow(r, lang, how, cut))
<1> DEFINE S(x) == ShownRow(x, lang, how, cut)
           X == {S(x) : x \in R}
           n == Len(rows)
           a == Append(rows, r)
           p == [k \in DOMAIN rows |-> S(rows[k])]
           q == [k \in DOMAIN a |-> S(a[k])]
           b == Append(p, S(r))
<1>1. n \in Nat /\ DOMAIN rows = 1 .. n /\ \A k \in 1 .. n : rows[k] \in R
  OBVIOUS
<1>2. a \in Seq(R) /\ Len(a) = n + 1 /\ a[n + 1] = r /\ \A k \in 1 .. n : a[k] = rows[k]
  BY AppendProperties
<1> HIDE DEF S, n, a
<1>3. p \in Seq(X) /\ Len(p) = n /\ \A k \in 1 .. n : p[k] = S(rows[k])
  <2>1. p \in [1 .. n -> X]
    BY <1>1
  <2> QED BY <1>1, <2>1
<1>4. \A k \in 1 .. n + 1 : a[k] \in R
  BY <1>2
<1>5. q \in Seq(X) /\ Len(q) = n + 1 /\ \A k \in 1 .. n + 1 : q[k] = S(a[k])
  <2>1. DOMAIN a = 1 .. n + 1 /\ n + 1 \in Nat
    BY <1>1, <1>2
  <2>2. q \in [1 .. n + 1 -> X]
    BY <1>4, <2>1
  <2> QED BY <2>1, <2>2
<1>6. S(r) \in X
  OBVIOUS
<1> DEFINE e == S(r)
<1> HIDE DEF X, p, q, e
<1>7. b \in Seq(X) /\ Len(b) = n + 1 /\ b[n + 1] = S(r) /\ \A k \in 1 .. n : b[k] = p[k]
  <2>1. p \in Seq(X) /\ e \in X /\ Len(p) = n
    BY <1>3, <1>6 DEF e
  <2>2. /\ Append(p, e) \in Seq(X) /\ Len(Append(p, e)) = Len(p) + 1 /\ Append(p, e)[Len(p) + 1] = e
        /\ \A k \in 1 .. Len(p) : Append(p, e)[k] = p[k]
    BY <2>1, AppendProperties
  <2> QED BY <2>1, <2>2 DEF e
<1> HIDE DEF b
<1>8. ASSUME NEW k \in 1 .. n + 1 PROVE q[k] = b[k]
  <2>1. CASE k = n + 1
    <3>1. q[k] = S(a[k]) /\ a[k] = r
      BY <1>2, <1>5, <2>1
    <3> QED BY <1>7, <2>1, <3>1
  <2>2. CASE k # n + 1
    <3>1. k \in 1 .. n
      BY <1>1, <2>2
    <3> QED BY <1>2, <1>3, <1>5, <1>7, <3>1
  <2> QED BY <2>1, <2>2
<1>9. q = b
  BY <1>5, <1>7, <1>8, SeqEqual
<1> QED BY <1>9 DEF ShownRows, p, q, b, a, S

LEMMA OneIsJoined ==
  ASSUME NEW X, NEW s \in Seq(X), NEW x \in X
  PROVE  Append(s, x) = Join(s, <<x>>)
BY AppendIsConcat DEF Join

LEMMA TwoAreJoined ==
  ASSUME NEW X, NEW s \in Seq(X), NEW x \in X, NEW y \in X
  PROVE  Append(Append(s, x), y) = Join(s, <<x, y>>)
<1>1. <<x>> \in Seq(X) /\ <<x, y>> = Append(<<x>>, y)
  BY OneIsCons
<1>2. Append(s, x) = Join(s, <<x>>)
  BY OneIsJoined
<1> DEFINE o == <<x>>
<1>3. o \in Seq(X)
  BY <1>1
<1> HIDE DEF o
<1>4. Append(Join(s, o), y) = Join(s, Append(o, y))
  BY <1>3, AppendJoin
<1> QED BY <1>1, <1>2, <1>4 DEF o

(* The hunk of a line, and the lines of a hunk.                            *)
LEMMA KindsOfLines ==
  ASSUME NEW T, NEW lines, DiffOver(lines, T), NEW k \in 1 .. Len(lines)
  PROVE  \/ lines[k].kind = "hunk" /\ lines[k].kind # "line" /\ lines[k].old \in Nat /\ lines[k].new \in Nat
         \/ lines[k].kind = "line" /\ lines[k].kind # "hunk" /\ lines[k].text \in Seq(T)
BY DEF DiffOver

LEMMA HunkIsOne ==
  ASSUME NEW lines, NEW k \in Nat, NEW h \in 0 .. k, IsHunkOf(lines, h, k)
  PROVE  HunkOf(lines, k) = h
<1>1. ASSUME NEW a \in 0 .. k, NEW b \in 0 .. k, IsHunkOf(lines, a, k), IsHunkOf(lines, b, k) PROVE ~(a < b)
  <2> SUFFICES ASSUME a < b PROVE FALSE
    OBVIOUS
  <2>1. b # 0 /\ b \in (a + 1) .. k
    OBVIOUS
  <2>2. lines[b].kind = "hunk"
    BY <1>1, <2>1 DEF IsHunkOf
  <2>3. lines[b].kind = "line"
    BY <1>1, <2>1 DEF IsHunkOf
  <2> QED BY <2>2, <2>3
<1>2. \E g \in 0 .. k : IsHunkOf(lines, g, k)
  OBVIOUS
<1>3. HunkOf(lines, k) \in 0 .. k /\ IsHunkOf(lines, HunkOf(lines, k), k)
  BY <1>2 DEF HunkOf
<1>4. ~(HunkOf(lines, k) < h) /\ ~(h < HunkOf(lines, k))
  BY <1>1, <1>3
<1> QED BY <1>3, <1>4

LEMMA HunkOfHunk ==
  ASSUME NEW lines, NEW k \in Nat, k = 0 \/ lines[k].kind = "hunk"
  PROVE  HunkOf(lines, k) = k /\ IsHunkOf(lines, k, k)
<1>1. IsHunkOf(lines, k, k) /\ k \in 0 .. k
  BY DEF IsHunkOf
<1> QED BY <1>1, HunkIsOne

LEMMA HunkOfLine ==
  ASSUME NEW lines, NEW k \in Nat, NEW h \in 0 .. k, IsHunkOf(lines, h, k), lines[k + 1].kind = "line"
  PROVE  HunkOf(lines, k + 1) = h /\ IsHunkOf(lines, h, k + 1)
<1>1. h \in 0 .. k + 1 /\ k + 1 \in Nat
  OBVIOUS
<1>2. \A i \in (h + 1) .. (k + 1) : i = k + 1 \/ i \in (h + 1) .. k
  OBVIOUS
<1>3. IsHunkOf(lines, h, k + 1)
  BY <1>2 DEF IsHunkOf
<1> QED BY <1>1, <1>3, HunkIsOne

LEMMA LinesAreFinite ==
  ASSUME NEW lines, NEW h \in Nat, NEW k \in Nat
  PROVE  /\ IsFiniteSet(OldLinesOf(lines, h, k)) /\ Cardinality(OldLinesOf(lines, h, k)) \in Nat
         /\ IsFiniteSet(NewLinesOf(lines, h, k)) /\ Cardinality(NewLinesOf(lines, h, k)) \in Nat
<1>1. IsFiniteSet((h + 1) .. k)
  BY FS_Interval
<1>2. OldLinesOf(lines, h, k) \subseteq (h + 1) .. k /\ NewLinesOf(lines, h, k) \subseteq (h + 1) .. k
  BY DEF OldLinesOf, NewLinesOf
<1> QED BY <1>1, <1>2, FS_Subset, FS_CardinalityType

LEMMA NoLinesYet ==
  ASSUME NEW lines, NEW k \in Nat, k # 0 => lines[k].old \in Nat /\ lines[k].new \in Nat
  PROVE  /\ NextOld(lines, k, k) = (IF k = 0 THEN 0 ELSE lines[k].old)
         /\ NextNew(lines, k, k) = (IF k = 0 THEN 0 ELSE lines[k].new)
         /\ OldLinesOf(lines, k, k) = {}
<1>1. (k + 1) .. k = {}
  OBVIOUS
<1>2. OldLinesOf(lines, k, k) = {} /\ NewLinesOf(lines, k, k) = {}
  BY <1>1 DEF OldLinesOf, NewLinesOf
<1>3. Cardinality({}) = 0
  BY FS_EmptySet
<1> QED BY <1>2, <1>3 DEF NextOld, NextNew

LEMMA OneMoreLine ==
  ASSUME NEW lines, NEW k \in Nat, NEW h \in 0 .. k, h # 0 => lines[h].old \in Nat /\ lines[h].new \in Nat
  PROVE  /\ NextOld(lines, h, k) \in Nat /\ NextNew(lines, h, k) \in Nat
         /\ NextOld(lines, h, k + 1) = NextOld(lines, h, k) + (IF HasOldRow(lines[k + 1]) THEN 1 ELSE 0)
         /\ NextNew(lines, h, k + 1) = NextNew(lines, h, k) + (IF HasNewRow(lines[k + 1]) THEN 1 ELSE 0)
<1> DEFINE A == OldLinesOf(lines, h, k)
           B == NewLinesOf(lines, h, k)
           C == OldLinesOf(lines, h, k + 1)
           D == NewLinesOf(lines, h, k + 1)
           x == k + 1
           a == IF h = 0 THEN 0 ELSE lines[h].old
           b == IF h = 0 THEN 0 ELSE lines[h].new
<1>1. h \in Nat /\ (h + 1) .. (k + 1) = ((h + 1) .. k) \cup {k + 1} /\ k + 1 \notin (h + 1) .. k
  OBVIOUS
<1>2. IsFiniteSet(A) /\ Cardinality(A) \in Nat /\ IsFiniteSet(B) /\ Cardinality(B) \in Nat
  BY <1>1, LinesAreFinite
<1>3. k + 1 \notin A /\ k + 1 \notin B
  BY <1>1 DEF OldLinesOf, NewLinesOf
<1>4. C = (IF HasOldRow(lines[k + 1]) THEN A \cup {k + 1} ELSE A)
  BY <1>1 DEF OldLinesOf
<1>5. D = (IF HasNewRow(lines[k + 1]) THEN B \cup {k + 1} ELSE B)
  BY <1>1 DEF NewLinesOf
<1>6. a \in Nat /\ b \in Nat
  OBVIOUS
<1>7. /\ NextOld(lines, h, k) = a + Cardinality(A) /\ NextOld(lines, h, k + 1) = a + Cardinality(C)
      /\ NextNew(lines, h, k) = b + Cardinality(B) /\ NextNew(lines, h, k + 1) = b + Cardinality(D)
  BY DEF NextOld, NextNew
<1> HIDE DEF A, B, C, D, a, b
<1>8. x \notin A /\ x \notin B /\ C = (IF HasOldRow(lines[x]) THEN A \cup {x} ELSE A)
      /\ D = (IF HasNewRow(lines[x]) THEN B \cup {x} ELSE B)
  BY <1>3, <1>4, <1>5
<1> HIDE DEF x
<1>9. Cardinality(A \cup {x}) = Cardinality(A) + 1 /\ Cardinality(B \cup {x}) = Cardinality(B) + 1
  BY <1>2, <1>8, FS_AddElement
<1>10. Cardinality(C) = Cardinality(A) + (IF HasOldRow(lines[x]) THEN 1 ELSE 0)
  BY <1>2, <1>8, <1>9
<1>11. Cardinality(D) = Cardinality(B) + (IF HasNewRow(lines[x]) THEN 1 ELSE 0)
  BY <1>2, <1>8, <1>9
<1> QED BY <1>2, <1>6, <1>7, <1>10, <1>11 DEF x

(* The number of the last old line that is shown.                          *)
LEMMA NoneIsLast == ASSUME NEW lines PROVE LastOld(lines, 0) = 0
<1>1. (0 + 1) .. 0 = {}
  OBVIOUS
<1> QED BY <1>1 DEF LastOld, OldLinesOf

LEMMA LastIsLast ==
  ASSUME NEW lines, NEW k \in Nat
  PROVE  LastOld(lines, k + 1) = IF HasOldRow(lines[k + 1]) THEN NextOld(lines, HunkOf(lines, k + 1), k) ELSE LastOld(lines, k)
<1> DEFINE A == OldLinesOf(lines, 0, k)
           C == OldLinesOf(lines, 0, k + 1)
           last == CHOOSE i \in C : \A j \in C : j <= i
           Number(i) == NextOld(lines, HunkOf(lines, i), i - 1)
<1>1. (0 + 1) .. (k + 1) = ((0 + 1) .. k) \cup {k + 1}
  OBVIOUS
<1>2. CASE HasOldRow(lines[k + 1])
  <2>1. k + 1 \in C /\ \A j \in C : j \in 1 .. (k + 1)
    BY <1>1, <1>2 DEF OldLinesOf
  <2> HIDE DEF C
  <2>2. \A j \in C : j <= k + 1
    BY <2>1
  <2>3. last \in C /\ \A j \in C : j <= last
    BY <2>1, <2>2
  <2>4. k + 1 <= last /\ last <= k + 1 /\ last \in 1 .. (k + 1)
    BY <2>1, <2>2, <2>3
  <2> HIDE DEF last
  <2>5. last = k + 1 /\ (k + 1) - 1 = k
    BY <2>4
  <2>6. C # {}
    BY <2>1
  <2>7. LastOld(lines, k + 1) = IF C = {} THEN 0 ELSE Number(last)
    BY DEF LastOld, C, last
  <2>8. LastOld(lines, k + 1) = Number(k + 1)
    BY <2>5, <2>6, <2>7
  <2> QED BY <1>2, <2>5, <2>8
<1>3. CASE ~HasOldRow(lines[k + 1])
  <2>1. C = A
    BY <1>1, <1>3 DEF OldLinesOf
  <2> HIDE DEF A, C
  <2>2. LastOld(lines, k + 1) = IF C = {} THEN 0 ELSE Number(CHOOSE i \in C : \A j \in C : j <= i)
    BY DEF LastOld, C
  <2>3. LastOld(lines, k) = IF A = {} THEN 0 ELSE Number(CHOOSE i \in A : \A j \in A : j <= i)
    BY DEF LastOld, A
  <2> QED BY <1>3, <2>1, <2>2, <2>3
<1> QED BY <1>2, <1>3

(* The loop: f[k] is its state after k lines.                              *)
Building(f, lines, T) ==
  /\ f[0] = NoRows /\ \A k \in 0 .. Len(lines) : f[k] \in TableStates(T)
  /\ \A k \in 1 .. Len(lines) : f[k] = AddTo(f[k - 1], lines[k])

LEMMA NoRowsType == ASSUME NEW T PROVE NoRows \in TableStates(T)
BY DEF NoRows, TableStates

LEMMA AddToType ==
  ASSUME NEW T, Markup \subseteq T, DiffSigns \subseteq T, NEW lines, DiffOver(lines, T),
         NEW k \in 1 .. Len(lines), NEW s \in TableStates(T)
  PROVE  AddTo(s, lines[k]) \in TableStates(T)
<1>1. CASE lines[k].kind = "hunk"
  BY <1>1, KindsOfLines, HunkAdded
<1>2. CASE lines[k].kind # "hunk" /\ HasRow(lines[k])
  BY <1>2, KindsOfLines, LineAdded
<1>3. CASE lines[k].kind # "hunk" /\ ~HasRow(lines[k])
  BY <1>3, KindsOfLines, LineSkipped
<1> QED BY <1>1, <1>2, <1>3

LEMMA TableIsBuilt ==
  ASSUME NEW T, Markup \subseteq T, DiffSigns \subseteq T, NEW lines, DiffOver(lines, T)
  PROVE  \E f : Building(f, lines, T) /\ BuildDiffRows(lines) = f[Len(lines)].rows
<1> DEFINE n == Len(lines)
           V == TableStates(T)
           F == [k \in (0 + 1) .. n |-> [s \in V |-> AddTo(s, lines[k])]]
           G(d, k) == IF k = 0 THEN NoRows ELSE AddTo(d[k - 1], lines[k])
           Whole(d) == d = [k \in 0 .. n |-> G(d, k)]
           h == CHOOSE d_ : Whole(d_)
<1>1. n \in Nat /\ 0 =< n /\ 0 \in Nat /\ NoRows \in V
  BY NoRowsType DEF DiffOver
<1>2. \A k \in 0 .. n : k = 0 \/ (k \in (0 + 1) .. n /\ k \in 1 .. n /\ k # 0 /\ k - 1 \in 0 .. n)
  BY <1>1
<1>3. F \in [(0 + 1) .. n -> [V -> V]]
  <2>1. \A k \in (0 + 1) .. n : k \in 1 .. n
    OBVIOUS
  <2>2. \A k \in (0 + 1) .. n : \A s \in V : AddTo(s, lines[k]) \in V
    BY <2>1, AddToType
  <2> HIDE DEF V, n
  <2> QED BY <2>2
<1> HIDE DEF F
<1>4. PICK f : Line(f, 0, n, V, NoRows, F)
  <2> HIDE DEF V, n
  <2> QED BY <1>1, <1>3, LineExists
<1>5. f \in [0 .. n -> V] /\ \A k \in 0 .. n : f[k] = IF k = 0 THEN NoRows ELSE F[k][f[k - 1]]
  <2> HIDE DEF V, n
  <2> QED BY <1>4 DEF Line
<1>6. Whole(f)
  <2>1. ASSUME NEW k \in 0 .. n PROVE f[k] = G(f, k)
    <3>1. CASE k = 0
      BY <1>5, <3>1
    <3>2. CASE k # 0
      <4>1. k \in (0 + 1) .. n /\ f[k - 1] \in V
        <5> HIDE DEF V, n
        <5> QED BY <1>2, <1>5, <3>2
      <4>2. F[k][f[k - 1]] = AddTo(f[k - 1], lines[k])
        <5> HIDE DEF V, n
        <5> QED BY <4>1 DEF F
      <4> QED BY <1>5, <3>2, <4>2
    <3> QED BY <3>1, <3>2
  <2> HIDE DEF n, G, V
  <2> QED BY <1>5, <2>1
<1>7. Whole(h)
  <2> HIDE DEF Whole
  <2> QED BY <1>6
<1>8. BuildDiffRows(lines) = h[n].rows
  BY DEF BuildDiffRows
<1> HIDE DEF h
<1>9. \A k \in 0 .. n : h[k] = G(h, k)
  <2> HIDE DEF n, G
  <2> QED BY <1>7
<1>10. h[0] = NoRows /\ \A k \in 1 .. n : h[k] = AddTo(h[k - 1], lines[k])
  <2>1. 0 \in 0 .. n
    BY <1>1
  <2>2. \A k \in 1 .. n : k \in 0 .. n /\ k # 0
    BY <1>1
  <2> HIDE DEF n
  <2> QED BY <1>9, <2>1, <2>2
<1>11. \A k \in 0 .. n : h[k] \in V
  <2>1. h[0] \in V
    BY <1>1, <1>10
  <2>2. ASSUME NEW k \in (0 + 1) .. n, h[k - 1] \in V PROVE h[k] \in V
    <3>1. k \in 1 .. n
      OBVIOUS
    <3>2. h[k] = AddTo(h[k - 1], lines[k])
      BY <1>10, <3>1
    <3> DEFINE s == h[k - 1]
    <3>3. s \in TableStates(T)
      BY <2>2
    <3> HIDE DEF s
    <3>4. AddTo(s, lines[k]) \in TableStates(T)
      BY <3>1, <3>3, AddToType
    <3> QED BY <3>2, <3>4 DEF s
  <2> HIDE DEF V, n
  <2> QED BY <1>1, <2>1, <2>2, LineKeeps
<1>12. Building(h, lines, T)
  BY <1>10, <1>11 DEF Building
<1> QED BY <1>8, <1>12

(* The numbers of the loop are those of the next lines, and the end of the *)
(* old lines is the last one shown.                                        *)
LinesCounted(s, lines, h, k) ==
  /\ h \in 0 .. k /\ IsHunkOf(lines, h, k) /\ HunkOf(lines, k) = h
  /\ h # 0 => lines[h].old \in Nat /\ lines[h].new \in Nat
  /\ s.old = NextOld(lines, h, k) /\ s.new = NextNew(lines, h, k) /\ s.prevOldEnd = LastOld(lines, k)
  /\ s.hunks = 0 <=> h = 0

LEMMA NoneIsCounted == ASSUME NEW lines PROVE LinesCounted(NoRows, lines, 0, 0)
<1>1. HunkOf(lines, 0) = 0 /\ IsHunkOf(lines, 0, 0)
  BY HunkOfHunk
<1>2. NextOld(lines, 0, 0) = 0 /\ NextNew(lines, 0, 0) = 0
  BY NoLinesYet
<1>3. LastOld(lines, 0) = 0
  BY NoneIsLast
<1>4. NoRows.old = 0 /\ NoRows.new = 0 /\ NoRows.prevOldEnd = 0 /\ NoRows.hunks = 0 /\ 0 \in 0 .. 0
  BY DEF NoRows
<1> QED BY <1>1, <1>2, <1>3, <1>4 DEF LinesCounted

LEMMA HunkIsCounted ==
  ASSUME NEW T, Markup \subseteq T, DiffSigns \subseteq T, NEW s \in TableStates(T), NEW lines, DiffOver(lines, T),
         NEW k \in Nat, k + 1 \in 1 .. Len(lines), lines[k + 1].kind = "hunk", NEW h, LinesCounted(s, lines, h, k)
  PROVE  LinesCounted(AddTo(s, lines[k + 1]), lines, k + 1, k + 1)
<1> DEFINE y == k + 1
           r == AddTo(s, lines[y])
<1>1. lines[y].old \in Nat /\ lines[y].new \in Nat /\ y \in Nat /\ y # 0 /\ y \in 0 .. y
  BY KindsOfLines
<1>2. r.old = lines[y].old /\ r.new = lines[y].new /\ r.prevOldEnd = s.prevOldEnd /\ r.hunks = s.hunks + 1
  BY <1>1, HunkAdded
<1>3. s.prevOldEnd = LastOld(lines, k) /\ s.hunks \in Nat
  BY DEF LinesCounted, TableStates
<1>4. LastOld(lines, y) = LastOld(lines, k)
  <2>1. ~HasOldRow(lines[y])
    BY DEF HasOldRow, HasRow
  <2> QED BY <2>1, LastIsLast
<1> HIDE DEF r
<1>5. lines[y].kind = "hunk"
  OBVIOUS
<1> HIDE DEF y
<1>6. HunkOf(lines, y) = y /\ IsHunkOf(lines, y, y)
  BY <1>1, <1>5, HunkOfHunk
<1>7. NextOld(lines, y, y) = lines[y].old /\ NextNew(lines, y, y) = lines[y].new
  BY <1>1, NoLinesYet
<1>8. r.hunks # 0
  BY <1>2, <1>3
<1>9. LinesCounted(r, lines, y, y)
  BY <1>1, <1>2, <1>3, <1>4, <1>6, <1>7, <1>8 DEF LinesCounted
<1> QED BY <1>9 DEF r, y

LEMMA LineIsCounted ==
  ASSUME NEW T, Markup \subseteq T, DiffSigns \subseteq T, NEW s \in TableStates(T), NEW lines, DiffOver(lines, T),
         NEW k \in Nat, k + 1 \in 1 .. Len(lines), lines[k + 1].kind = "line", NEW h, LinesCounted(s, lines, h, k)
  PROVE  LinesCounted(AddTo(s, lines[k + 1]), lines, h, k + 1)
<1> DEFINE x == lines[k + 1]
           r == AddTo(s, x)
<1>1. /\ h \in 0 .. k /\ IsHunkOf(lines, h, k) /\ (h # 0 => lines[h].old \in Nat /\ lines[h].new \in Nat)
      /\ s.old = NextOld(lines, h, k) /\ s.new = NextNew(lines, h, k) /\ s.prevOldEnd = LastOld(lines, k)
      /\ (s.hunks = 0 <=> h = 0)
  BY DEF LinesCounted
<1>2. x.kind = "line" /\ x.text \in Seq(T)
  BY KindsOfLines
<1>3. HunkOf(lines, k + 1) = h /\ IsHunkOf(lines, h, k + 1) /\ h \in 0 .. k + 1
  BY <1>1, HunkOfLine
<1>4. /\ NextOld(lines, h, k) \in Nat /\ NextNew(lines, h, k) \in Nat
      /\ NextOld(lines, h, k + 1) = NextOld(lines, h, k) + (IF HasOldRow(x) THEN 1 ELSE 0)
      /\ NextNew(lines, h, k + 1) = NextNew(lines, h, k) + (IF HasNewRow(x) THEN 1 ELSE 0)
  BY <1>1, OneMoreLine
<1>5. LastOld(lines, k + 1) = IF HasOldRow(x) THEN NextOld(lines, h, k) ELSE LastOld(lines, k)
  BY <1>3, LastIsLast
<1> HIDE DEF x
<1>6. /\ r.old = (IF HasOldRow(x) THEN s.old + 1 ELSE s.old) /\ r.new = (IF HasNewRow(x) THEN s.new + 1 ELSE s.new)
      /\ r.prevOldEnd = (IF HasOldRow(x) THEN s.old ELSE s.prevOldEnd) /\ r.hunks = s.hunks
  <2>1. CASE HasRow(x)
    BY <1>2, <2>1, LineAdded
  <2>2. CASE ~HasRow(x)
    BY <1>2, <2>2, LineSkipped
  <2> QED BY <2>1, <2>2
<1> HIDE DEF r
<1>7. r.old = NextOld(lines, h, k + 1) /\ r.new = NextNew(lines, h, k + 1)
  BY <1>1, <1>4, <1>6
<1>8. r.prevOldEnd = LastOld(lines, k + 1) /\ (r.hunks = 0 <=> h = 0)
  BY <1>1, <1>5, <1>6
<1> QED BY <1>1, <1>3, <1>7, <1>8 DEF LinesCounted, r, x

LEMMA StatesAreCounted ==
  ASSUME NEW T, Markup \subseteq T, DiffSigns \subseteq T, NEW lines, DiffOver(lines, T),
         NEW f, Building(f, lines, T), NEW k \in 0 .. Len(lines)
  PROVE  \E h : LinesCounted(f[k], lines, h, k)
<1> DEFINE n == Len(lines)
           S == {j \in Nat : j =< n => \E h : LinesCounted(f[j], lines, h, j)}
<1>1. n \in Nat
  BY DEF DiffOver
<1>2. \A j \in 1 .. n : f[j] = AddTo(f[j - 1], lines[j]) /\ f[j - 1] \in TableStates(T)
  <2>1. \A j \in 1 .. n : j - 1 \in 0 .. n
    BY <1>1
  <2> QED BY <2>1 DEF Building
<1>3. 0 \in S
  <2>1. f[0] = NoRows
    BY DEF Building
  <2> QED BY <2>1, NoneIsCounted
<1>4. ASSUME NEW j \in Nat, 0 =< j, j \in S PROVE j + 1 \in S
  <2> SUFFICES ASSUME j + 1 =< n PROVE \E h : LinesCounted(f[j + 1], lines, h, j + 1)
    OBVIOUS
  <2>1. j + 1 \in 1 .. n /\ (j + 1) - 1 = j /\ j =< n
    BY <1>1
  <2>2. PICK h : LinesCounted(f[j], lines, h, j)
    BY <1>4, <2>1
  <2> HIDE DEF S
  <2> DEFINE s == f[j]
  <2>3. s \in TableStates(T) /\ f[j + 1] = AddTo(s, lines[j + 1]) /\ LinesCounted(s, lines, h, j)
    <3>1. f[j + 1] = AddTo(f[(j + 1) - 1], lines[j + 1]) /\ f[(j + 1) - 1] \in TableStates(T)
      BY <1>2, <2>1
    <3> QED BY <2>1, <2>2, <3>1
  <2> HIDE DEF s
  <2>4. CASE lines[j + 1].kind = "hunk"
    <3>1. LinesCounted(AddTo(s, lines[j + 1]), lines, j + 1, j + 1)
      BY <2>1, <2>3, <2>4, HunkIsCounted
    <3> QED BY <2>3, <3>1
  <2>5. CASE lines[j + 1].kind # "hunk"
    <3>1. lines[j + 1].kind = "line"
      BY <2>1, <2>5, KindsOfLines
    <3>2. LinesCounted(AddTo(s, lines[j + 1]), lines, h, j + 1)
      BY <2>1, <2>3, <3>1, LineIsCounted
    <3> QED BY <2>3, <3>2
  <2> QED BY <2>4, <2>5
<1>5. \A j \in Nat : 0 =< j => j \in S
  <2> HIDE DEF S
  <2> QED BY <1>3, <1>4, NumbersFrom
<1>6. k \in Nat /\ 0 =< k /\ k =< n
  BY <1>1
<1>7. k \in S
  <2> HIDE DEF S
  <2> QED BY <1>5, <1>6
<1> QED BY <1>6, <1>7

(* What one line adds to the table is what is wanted for it.               *)
Shown(lines) ==
  {<<"hunk">>} \cup {<<"hidden", HiddenBefore(lines, k)>> : k \in 1 .. Len(lines)}
    \cup {LineWanted(lines, k) : k \in 1 .. Len(lines)}

LEMMA WantedType ==
  ASSUME NEW lines, NEW k \in 1 .. Len(lines)
  PROVE  WantedFor(lines, k) \in Seq(Shown(lines))
<1> DEFINE X == Shown(lines)
           a == <<"hunk">>
           b == <<"hidden", HiddenBefore(lines, k)>>
           c == LineWanted(lines, k)
<1>1. a \in X /\ b \in X /\ c \in X
  BY DEF Shown
<1>2. WantedFor(lines, k) \in {<<c>>, <<>>, <<b, a>>, <<a>>}
  BY DEF WantedFor
<1> HIDE DEF a, b, c, X
<1>3. <<c>> \in Seq(X) /\ <<>> \in Seq(X) /\ <<b, a>> \in Seq(X) /\ <<a>> \in Seq(X)
  BY <1>1, OneIsCons, TwoIsCons
<1> QED BY <1>2, <1>3 DEF X

(* The state s of the loop after k lines, the last hunk among them being h. *)
LoopReached(T, s, lines, h, k, lang, how, cut) ==
  /\ Markup \subseteq T /\ DiffSigns \subseteq T /\ s \in TableStates(T) /\ DiffOver(lines, T) /\ cut \in Nat
  /\ k \in Nat /\ k + 1 \in 1 .. Len(lines) /\ LinesCounted(s, lines, h, k)
  /\ ShownRows(s.rows, lang, how, cut) \in Seq(Shown(lines))

LEMMA LineIsWanted ==
  ASSUME NEW T, NEW s, NEW lines, NEW h, NEW k, NEW lang, NEW how, NEW cut, LoopReached(T, s, lines, h, k, lang, how, cut),
         lines[k + 1].kind = "line", HasRow(lines[k + 1])
  PROVE  ShownRows(AddTo(s, lines[k + 1]).rows, lang, how, cut)
           = Join(ShownRows(s.rows, lang, how, cut), WantedFor(lines, k + 1))
<1> DEFINE x == lines[k + 1]
           r == CodeRow(s, x.text)
           c == LineWanted(lines, k + 1)
           p == ShownRows(s.rows, lang, how, cut)
           R == TableRows(T)
           rows == s.rows
<1> /\ Markup \subseteq T /\ DiffSigns \subseteq T /\ s \in TableStates(T) /\ DiffOver(lines, T) /\ cut \in Nat
    /\ k \in Nat /\ k + 1 \in 1 .. Len(lines) /\ LinesCounted(s, lines, h, k)
    /\ ShownRows(s.rows, lang, how, cut) \in Seq(Shown(lines))
  BY DEF LoopReached
<1>1. /\ h \in 0 .. k /\ IsHunkOf(lines, h, k)
      /\ s.old = NextOld(lines, h, k) /\ s.new = NextNew(lines, h, k)
  BY DEF LinesCounted
<1>2. x.kind = "line" /\ x.text \in Seq(T) /\ x.text # <<>>
  BY KindsOfLines DEF HasRow
<1>3. HunkOf(lines, k + 1) = h
  BY <1>1, HunkOfLine
<1>4. (k + 1) - 1 = k
  OBVIOUS
<1>5. c = <<"line", IF HasOldRow(x) THEN s.old ELSE 0, IF HasNewRow(x) THEN s.new ELSE 0,
            IF IsSigned(x.text) THEN x.text ELSE <<" ">> \o x.text>>
  BY <1>1, <1>3, <1>4 DEF LineWanted, IsSigned
<1>6. WantedFor(lines, k + 1) = <<c>> /\ c \in Shown(lines)
  BY <1>2 DEF WantedFor, Shown
<1>7. HasRow(x) /\ (HasOldRow(x) <=> Head(x.text) # "+") /\ (HasNewRow(x) <=> Head(x.text) # "-")
  BY DEF HasOldRow, HasNewRow
<1> HIDE DEF c, x
<1>8. ShownRow(r, lang, how, cut)
        = <<"line", IF Head(x.text) # "+" THEN s.old ELSE 0, IF Head(x.text) # "-" THEN s.new ELSE 0,
            IF IsSigned(x.text) THEN x.text ELSE <<" ">> \o x.text>>
  BY <1>2, LineIsShown
<1>9. ShownRow(r, lang, how, cut) = c
  BY <1>5, <1>7, <1>8
<1>10. r \in R /\ AddTo(s, x).rows = Append(rows, r)
  BY <1>2, <1>7, CodeRowType, LineAdded
<1>11. rows \in Seq(R)
  BY DEF TableStates
<1> HIDE DEF r, R, rows
<1>12. ShownRows(Append(rows, r), lang, how, cut) = Append(ShownRows(rows, lang, how, cut), ShownRow(r, lang, how, cut))
  BY <1>10, <1>11, OneMoreIsShown
<1>13. p = ShownRows(rows, lang, how, cut) /\ p \in Seq(Shown(lines))
  BY DEF rows
<1> HIDE DEF p
<1>14. Append(p, c) = Join(p, <<c>>)
  BY <1>6, <1>13, OneIsJoined
<1> QED BY <1>6, <1>9, <1>10, <1>12, <1>13, <1>14 DEF x, p, rows

LEMMA NothingIsWanted ==
  ASSUME NEW T, NEW s, NEW lines, NEW h, NEW k, NEW lang, NEW how, NEW cut, LoopReached(T, s, lines, h, k, lang, how, cut),
         lines[k + 1].kind = "line", ~HasRow(lines[k + 1])
  PROVE  ShownRows(AddTo(s, lines[k + 1]).rows, lang, how, cut)
           = Join(ShownRows(s.rows, lang, how, cut), WantedFor(lines, k + 1))
<1> DEFINE p == ShownRows(s.rows, lang, how, cut)
<1>1. AddTo(s, lines[k + 1]) = s /\ WantedFor(lines, k + 1) = <<>>
  BY LineSkipped DEF WantedFor
<1>2. p \in Seq(Shown(lines))
  BY DEF LoopReached
<1> HIDE DEF p
<1>3. Join(p, <<>>) = p
  BY <1>2, JoinNone
<1> QED BY <1>1, <1>3 DEF p

LEMMA HeadsAreWanted ==
  ASSUME NEW T, DiffSigns \subseteq T, NEW s \in TableStates(T), NEW gap \in Int, NEW X,
         NEW lang, NEW how, NEW cut, ShownRows(s.rows, lang, how, cut) \in Seq(X),
         <<"hunk">> \in X, <<"hidden", gap>> \in X
  PROVE  ShownRows(Append(HeadRows(s, gap), HunkRow), lang, how, cut)
           = Join(ShownRows(s.rows, lang, how, cut),
                  IF s.hunks # 0 /\ gap > 0 THEN <<<<"hidden", gap>>, <<"hunk">>>> ELSE <<<<"hunk">>>>)
<1> DEFINE R == TableRows(T)
           rows == s.rows
           p == ShownRows(rows, lang, how, cut)
           a == <<"hunk">>
           b == <<"hidden", gap>>
           u == HunkRow
           v == HiddenRow(gap)
<1>1. u \in R /\ v \in R
  BY HeadRowsType
<1>2. rows \in Seq(R) /\ p \in Seq(X) /\ a \in X /\ b \in X
  BY DEF TableStates
<1>3. ShownRow(u, lang, how, cut) = a /\ ShownRow(v, lang, how, cut) = b
  BY HeadsAreShown
<1>4. HeadRows(s, gap) = IF s.hunks # 0 /\ gap > 0 THEN Append(rows, v) ELSE rows
  BY DEF HeadRows
<1> HIDE DEF a, b, u, v, R, rows
<1>5. ShownRows(Append(rows, u), lang, how, cut) = Append(p, a)
  BY <1>1, <1>2, <1>3, OneMoreIsShown
<1>6. ShownRows(Append(rows, v), lang, how, cut) = Append(p, b)
  BY <1>1, <1>2, <1>3, OneMoreIsShown
<1>7. ShownRows(Append(Append(rows, v), u), lang, how, cut) = Append(Append(p, b), a)
  <2> DEFINE q == Append(rows, v)
  <2>1. q \in Seq(R)
    BY <1>1, <1>2
  <2> HIDE DEF q
  <2>2. ShownRows(Append(q, u), lang, how, cut) = Append(ShownRows(q, lang, how, cut), ShownRow(u, lang, how, cut))
    BY <1>1, <2>1, OneMoreIsShown
  <2> QED BY <1>3, <1>6, <2>2 DEF q
<1> HIDE DEF p
<1>8. Append(p, a) = Join(p, <<a>>) /\ Append(Append(p, b), a) = Join(p, <<b, a>>)
  BY <1>2, OneIsJoined, TwoAreJoined
<1>9. CASE s.hunks # 0 /\ gap > 0
  BY <1>4, <1>7, <1>8, <1>9 DEF a, b, u, v, p, rows
<1>10. CASE ~(s.hunks # 0 /\ gap > 0)
  BY <1>4, <1>5, <1>8, <1>10 DEF a, b, u, v, p, rows
<1> QED BY <1>9, <1>10

LEMMA HunkIsWanted ==
  ASSUME NEW T, NEW s, NEW lines, NEW h, NEW k, NEW lang, NEW how, NEW cut, LoopReached(T, s, lines, h, k, lang, how, cut),
         lines[k + 1].kind = "hunk"
  PROVE  ShownRows(AddTo(s, lines[k + 1]).rows, lang, how, cut)
           = Join(ShownRows(s.rows, lang, how, cut), WantedFor(lines, k + 1))
<1> DEFINE x == lines[k + 1]
           gap == x.old - s.prevOldEnd - 1
           X == Shown(lines)
           p == ShownRows(s.rows, lang, how, cut)
           v == HeadRows(s, gap)
<1> /\ Markup \subseteq T /\ DiffSigns \subseteq T /\ s \in TableStates(T) /\ DiffOver(lines, T) /\ cut \in Nat
    /\ k \in Nat /\ k + 1 \in 1 .. Len(lines) /\ LinesCounted(s, lines, h, k)
    /\ ShownRows(s.rows, lang, how, cut) \in Seq(Shown(lines))
  BY DEF LoopReached
<1>1. HunkOf(lines, k) = h /\ s.prevOldEnd = LastOld(lines, k) /\ (s.hunks = 0 <=> h = 0)
  BY DEF LinesCounted
<1>2. x.kind = "hunk" /\ x.kind # "line" /\ x.old \in Nat /\ x.new \in Nat
  BY KindsOfLines
<1>3. s.prevOldEnd \in Int
  BY DEF TableStates
<1>4. (k + 1) - 1 = k
  OBVIOUS
<1>5. gap = HiddenBefore(lines, k + 1) /\ gap \in Int
  BY <1>1, <1>2, <1>3, <1>4 DEF HiddenBefore
<1>6. WantedFor(lines, k + 1) = IF s.hunks # 0 /\ gap > 0 THEN <<<<"hidden", gap>>, <<"hunk">>>> ELSE <<<<"hunk">>>>
  BY <1>1, <1>2, <1>4, <1>5 DEF WantedFor
<1>7. <<"hunk">> \in X /\ <<"hidden", gap>> \in X
  <2>1. <<"hidden", HiddenBefore(lines, k + 1)>> \in X
    BY DEF Shown
  <2>2. <<"hunk">> \in X
    BY DEF Shown
  <2> QED BY <1>5, <2>1, <2>2
<1> HIDE DEF x
<1>8. AddTo(s, x).rows = Append(v, HunkRow)
  BY <1>2, HunkAdded
<1> HIDE DEF gap
<1>9. p \in Seq(X)
  OBVIOUS
<1> HIDE DEF X
<1>10. ShownRows(Append(v, HunkRow), lang, how, cut)
         = Join(p, IF s.hunks # 0 /\ gap > 0 THEN <<<<"hidden", gap>>, <<"hunk">>>> ELSE <<<<"hunk">>>>)
  BY <1>5, <1>7, <1>9, HeadsAreWanted
<1> HIDE DEF v, p
<1> QED BY <1>6, <1>8, <1>10 DEF x, p

LEMMA TableIsWanted ==
  ASSUME NEW T, Markup \subseteq T, DiffSigns \subseteq T, NEW lines, DiffOver(lines, T),
         NEW lang, NEW how, NEW cut \in Nat
  PROVE  ShownRows(BuildDiffRows(lines), lang, how, cut) = FlattenSeq([k \in 1 .. Len(lines) |-> WantedFor(lines, k)])
<1> DEFINE n == Len(lines)
           X == Shown(lines)
           ss == [k \in 1 .. n |-> WantedFor(lines, k)]
<1>1. n \in Nat
  BY DEF DiffOver
<1>2. ss \in Seq(Seq(X)) /\ Len(ss) = n /\ \A k \in 1 .. n : ss[k] = WantedFor(lines, k)
  <2>1. \A k \in 1 .. n : WantedFor(lines, k) \in Seq(X)
    BY WantedType
  <2> HIDE DEF n, X
  <2>2. ss \in [1 .. n -> Seq(X)]
    BY <2>1
  <2> QED BY <1>1, <2>2
<1> HIDE DEF ss
<1>3. PICK w \in [0 .. Len(ss) -> Seq(X)] : Flattening(w, ss) /\ FlattenSeq(ss) = w[Len(ss)]
  <2> HIDE DEF X
  <2> QED BY <1>2, FlattenRuns
<1>4. PICK f : Building(f, lines, T) /\ BuildDiffRows(lines) = f[n].rows
  BY TableIsBuilt
<1> DEFINE P(r) == ShownRows(r, lang, how, cut)
           S == {k \in Nat : k =< n => P(f[k].rows) = w[k]}
<1>5. 0 \in S
  <2>1. f[0].rows = <<>>
    BY <1>4 DEF Building, NoRows
  <2>2. P(<<>>) = <<>>
    BY DEF ShownRows
  <2>3. w[0] = <<>>
    BY <1>3 DEF Flattening
  <2> QED BY <2>1, <2>2, <2>3
<1>6. ASSUME NEW k \in Nat, 0 =< k, k \in S PROVE k + 1 \in S
  <2> SUFFICES ASSUME k + 1 =< n PROVE P(f[k + 1].rows) = w[k + 1]
    OBVIOUS
  <2>1. k + 1 \in 1 .. n /\ (k + 1) - 1 = k /\ k \in 0 .. n /\ k =< n
    BY <1>1
  <2>2. P(f[k].rows) = w[k]
    BY <1>6, <2>1
  <2> HIDE DEF S
  <2>3. f[k + 1] = AddTo(f[k], lines[k + 1]) /\ f[k] \in TableStates(T)
    <3>1. f[k + 1] = AddTo(f[(k + 1) - 1], lines[k + 1])
      BY <1>4, <2>1 DEF Building
    <3> QED BY <1>4, <2>1, <3>1 DEF Building
  <2>4. w[k + 1] = Join(w[k], WantedFor(lines, k + 1)) /\ w[k] \in Seq(X)
    <3>1. \A j \in 1 .. Len(ss) : w[j] = w[j - 1] \o ss[j]
      BY <1>3 DEF Flattening
    <3>2. w[k + 1] = w[(k + 1) - 1] \o ss[k + 1]
      BY <1>2, <2>1, <3>1
    <3>3. k \in 0 .. Len(ss)
      BY <1>2, <2>1
    <3>4. w[k] \in Seq(X)
      <4> HIDE DEF X
      <4> QED BY <1>3, <3>3
    <3>5. ss[k + 1] = WantedFor(lines, k + 1)
      BY <1>2, <2>1
    <3> QED BY <2>1, <3>2, <3>4, <3>5 DEF Join
  <2>5. PICK h : LinesCounted(f[k], lines, h, k)
    BY <1>4, <2>1, StatesAreCounted
  <2> DEFINE s == f[k]
  <2>6. s \in TableStates(T) /\ LinesCounted(s, lines, h, k) /\ P(s.rows) = w[k] /\ P(s.rows) \in Seq(X)
    BY <2>2, <2>3, <2>4, <2>5
  <2>7. f[k + 1] = AddTo(s, lines[k + 1])
    BY <2>3
  <2> HIDE DEF s
  <2>8. k + 1 \in 1 .. Len(lines) /\ ShownRows(s.rows, lang, how, cut) \in Seq(Shown(lines))
    BY <2>1, <2>6
  <2>9. LoopReached(T, s, lines, h, k, lang, how, cut)
    BY <2>6, <2>8 DEF LoopReached
  <2> HIDE DEF P, X, n
  <2>10. ShownRows(AddTo(s, lines[k + 1]).rows, lang, how, cut)
           = Join(ShownRows(s.rows, lang, how, cut), WantedFor(lines, k + 1))
    <3>1. CASE lines[k + 1].kind = "hunk"
      BY <2>9, <3>1, HunkIsWanted
    <3>2. CASE lines[k + 1].kind # "hunk"
      <4>1. lines[k + 1].kind = "line"
        BY <2>8, <3>2, KindsOfLines
      <4>2. CASE HasRow(lines[k + 1])
        BY <2>9, <4>1, <4>2, LineIsWanted
      <4>3. CASE ~HasRow(lines[k + 1])
        BY <2>9, <4>1, <4>3, NothingIsWanted
      <4> QED BY <4>2, <4>3
    <3> QED BY <3>1, <3>2
  <2>11. P(AddTo(s, lines[k + 1]).rows) = Join(P(s.rows), WantedFor(lines, k + 1))
    BY <2>10 DEF P
  <2> QED BY <2>4, <2>6, <2>7, <2>11
<1>7. n \in S
  <2> HIDE DEF S, n
  <2>1. \A k \in Nat : 0 =< k => k \in S
    BY <1>5, <1>6, NumbersFrom
  <2> QED BY <1>1, <2>1
<1>8. P(f[n].rows) = w[n]
  BY <1>1, <1>7
<1> QED BY <1>2, <1>3, <1>4, <1>8 DEF ss

LEMMA SeqOfMore ==
  ASSUME NEW A, NEW B, A \subseteq B, NEW s \in Seq(A)
  PROVE  s \in Seq(B)
<1>1. Len(s) \in Nat /\ s \in [1 .. Len(s) -> B]
  OBVIOUS
<1> QED BY <1>1

(* The given lines are lines over the characters T.                        *)
LEMMA GivenDiffIsOver ==
  ASSUME NEW lines, IsDiff(lines)
  PROVE  \E T : Markup \subseteq T /\ DiffSigns \subseteq T /\ DiffOver(lines, T)
<1> DEFINE L == {i \in DOMAIN lines : lines[i].kind = "line"}
           T == (Markup \cup DiffSigns) \cup UNION {Range(lines[i].text) : i \in L}
<1>1. Len(lines) \in Nat /\ DOMAIN lines = 1 .. Len(lines)
  BY DEF IsDiff, IsSequence
<1>2. ASSUME NEW k \in DOMAIN lines, IsLine(lines[k])
      PROVE  lines[k].text \in Seq(T)
  <2> DEFINE text == lines[k].text
  <2>1. k \in L /\ text \in Seq(Range(text))
    BY <1>2 DEF IsLine, IsSequence
  <2>2. Range(text) \subseteq T
    <3>1. Range(text) \in {Range(lines[i].text) : i \in L}
      BY <2>1
    <3> HIDE DEF L
    <3> QED BY <3>1
  <2> HIDE DEF text, T
  <2>3. text \in Seq(T)
    BY <2>1, <2>2, SeqOfMore
  <2> QED BY <2>3 DEF text
<1>3. ASSUME NEW k \in 1 .. Len(lines)
      PROVE  \/ lines[k].kind = "hunk" /\ lines[k].old \in Nat /\ lines[k].new \in Nat
             \/ lines[k].kind = "line" /\ lines[k].text \in Seq(T)
  <2>1. k \in DOMAIN lines /\ (IsHunk(lines[k]) \/ IsLine(lines[k]))
    BY <1>1 DEF IsDiff
  <2> HIDE DEF T
  <2>2. CASE IsLine(lines[k])
    <3>1. lines[k].text \in Seq(T)
      BY <1>2, <2>1, <2>2
    <3> QED BY <2>2, <3>1 DEF IsLine
  <2>3. CASE IsHunk(lines[k])
    BY <2>3 DEF IsHunk
  <2> QED BY <2>1, <2>2, <2>3
<1>4. Markup \subseteq T /\ DiffSigns \subseteq T
  OBVIOUS
<1> HIDE DEF T
<1>5. DiffOver(lines, T)
  BY <1>1, <1>3 DEF DiffOver
<1> QED BY <1>4, <1>5

LEMMA GivenDiffIsShown == Given => DiffIsShown
<1> SUFFICES ASSUME Given PROVE DiffShowsLines
  BY LanguagesOfFile DEF DiffIsShown
<1> SUFFICES ASSUME Is("diff"),
                    NEW cut \in Cuts(input.lines), NEW lang \in {"go", "sh", "other"}, NEW how \in Highlighters
             PROVE  ShownRows(BuildDiffRows(input.lines), lang, how, cut)
                      = FlattenSeq([k \in DOMAIN input.lines |-> WantedFor(input.lines, k)])
  BY DEF DiffShowsLines
<1> DEFINE lines == input.lines
<1>1. IsDiff(lines)
  BY InputsAreGiven DEF Given, Is
<1> HIDE DEF lines
<1>2. PICK T : Markup \subseteq T /\ DiffSigns \subseteq T /\ DiffOver(lines, T)
  BY <1>1, GivenDiffIsOver
<1>3. DOMAIN lines = 1 .. Len(lines)
  BY <1>1 DEF IsDiff, IsSequence
<1>4. cut \in Nat
  <2>1. PICK k \in DOMAIN lines : lines[k].kind = "line" /\ cut \in 0 .. Len(lines[k].text)
    BY DEF Cuts, lines
  <2>2. IsLine(lines[k])
    BY <1>1, <2>1 DEF IsDiff, IsHunk
  <2> DEFINE text == lines[k].text
             U == Range(text)
  <2>3. text \in Seq(U)
    BY <2>2 DEF IsLine, IsSequence
  <2> HIDE DEF text, U
  <2>4. Len(text) \in Nat
    BY <2>3
  <2> QED BY <2>1, <2>4 DEF text
<1>5. ShownRows(BuildDiffRows(lines), lang, how, cut)
        = FlattenSeq([k \in 1 .. Len(lines) |-> WantedFor(lines, k)])
  BY <1>2, <1>4, TableIsWanted
<1> QED BY <1>3, <1>5 DEF lines

(***************************************************************************)
(* A diff shows what it says: the table built from any heads of hunks and  *)
(* lines of text has, line for line, a row with the sign and the text of   *)
(* the line and with its numbers, counted over the lines that have a row,  *)
(* before and after its code is highlighted, wherever the tokens are cut   *)
(* and whatever fails, and the lines hidden since the last old line shown  *)
(* counted before each hunk but the first.  A line that begins like a      *)
(* line of the header has no row and is not counted, which is what becomes *)
(* of a removed "--" or an added "++" line (buildDiffRows() in             *)
(* ChangesView.swift, shikiHighlightDiff() in diff-shiki-entry.js).  And   *)
(* the editor and the diff find languages that agree (detectLanguage(),    *)
(* detectShikiLang()).                                                     *)
(***************************************************************************)
THEOREM DiffStaysShown == FunctionsSpec => []DiffIsShown
BY InputIsGiven, GivenDiffIsShown, PTL

=============================================================================
