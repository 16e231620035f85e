-------------------------- MODULE RedactionProofs --------------------------
(***************************************************************************)
(* The positions of findings, for texts and labels of any length, any      *)
(* number of layers and any reports.                                       *)
(*                                                                         *)
(* The recursive functions of Redaction (shift, the builder, the turns of  *)
(* the loop) are unfolded by a form of induction over sets of numbers      *)
(* (UpTo), which rests on the least element of a set of naturals.          *)
(* Two facts carry the rest.  The label of an entry ends at Edge, the      *)
(* entry's end plus the shift after it, and edges increase: so the number  *)
(* of entries that toOriginalPos passes, and the number of labels that the *)
(* builder has written before a place, are the same (After).  And a        *)
(* position that toOriginalPos returns is never inside an entry: so        *)
(* findings of orderly layers are nested or apart (Nested), and neither    *)
(* applyRedactions nor dedup can lose one.                                 *)
(***************************************************************************)
EXTENDS Redaction, WellFoundedInduction, SequenceTheorems, FiniteSetTheorems, TLAPS

(* A nonempty set of naturals has a least element. *)
LEMMA LeastNat ==
  ASSUME NEW T \in SUBSET Nat, T # {}
  PROVE  \E x \in T : \A y \in T : x <= y
<1>1. PICK x \in T : \A y \in T : ~(<<y, x>> \in OpToRel(<, Nat))
  BY WFMin, NatLessThanWellFounded
<1>2. \A y \in T : ~(y < x)
  BY <1>1 DEF OpToRel
<1> QED BY <1>2

(* Induction up to n, over a set of numbers rather than a predicate. *)
LEMMA UpTo ==
  ASSUME NEW n \in Nat, NEW T, 0 \in T, \A k \in 0..(n - 1) : k \in T => k + 1 \in T
  PROVE  \A k \in 0..n : k \in T
<1> DEFINE Bad == (0..n) \ T
<1>1. Bad \in SUBSET Nat OBVIOUS
<1>2. SUFFICES ASSUME Bad # {} PROVE FALSE OBVIOUS
<1> HIDE DEF Bad
<1>3. PICK m \in Bad : \A k \in Bad : m <= k
  BY <1>1, <1>2, LeastNat
<1>4. m \in 0..n /\ m \notin T BY DEF Bad
<1>5. m # 0 BY <1>4
<1>6. m - 1 \in 0..(n - 1) /\ m - 1 \in 0..n BY <1>4, <1>5
<1>7. m - 1 \notin Bad BY <1>3, <1>6, <1>4
<1>8. m - 1 \in T BY <1>6, <1>7 DEF Bad
<1>9. (m - 1) + 1 = m BY <1>4
<1> QED BY <1>4, <1>6, <1>8, <1>9

(* h[i] is what i steps of G make of s0. *)
Solves(h, n, S, s0, G) ==
  h \in [0..n -> S] /\ h[0] = s0 /\ \A i \in 1..n : h[i] = G[i][h[i - 1]]

(* A value can be computed step by step: what a recursive function over    *)
(* 0..n is defined by has a solution.                                      *)
LEMMA Iterates ==
  ASSUME NEW n \in Nat, NEW S, NEW s0 \in S, NEW G \in [1..n -> [S -> S]]
  PROVE  \E h : Solves(h, n, S, s0, G)
<1> USE DEF Solves
<1> DEFINE P(k) == \E h \in [0..k -> S] :
                     h[0] = s0 /\ \A i \in 1..k : h[i] = G[i][h[i - 1]]
           T == {k \in 0..n : P(k)}
<1>1. 0 \in T
  <2> DEFINE h == [x \in 0..0 |-> s0]
  <2>1. h \in [0..0 -> S] /\ h[0] = s0 OBVIOUS
  <2>2. \A i \in 1..0 : FALSE OBVIOUS
  <2> HIDE DEF h
  <2>3. P(0) BY <2>1, <2>2
  <2> QED BY <2>3
<1>2. ASSUME NEW k \in 0..(n - 1), k \in T PROVE k + 1 \in T
  <2>1. PICK h \in [0..k -> S] : h[0] = s0 /\ \A i \in 1..k : h[i] = G[i][h[i - 1]]
    BY <1>2
  <2> DEFINE g == [x \in 0..(k + 1) |-> IF x = k + 1 THEN G[k + 1][h[k]] ELSE h[x]]
  <2>2. G[k + 1][h[k]] \in S
    <3>1. k + 1 \in 1..n /\ h[k] \in S OBVIOUS
    <3> QED BY <3>1
  <2>3. g \in [0..(k + 1) -> S] BY <2>2
  <2>4. g[k + 1] = G[k + 1][h[k]] /\ \A x \in 0..k : g[x] = h[x] OBVIOUS
  <2> HIDE DEF g
  <2>5. g[0] = s0 BY <2>1, <2>4
  <2>6. ASSUME NEW i \in 1..(k + 1) PROVE g[i] = G[i][g[i - 1]]
    <3>1. CASE i = k + 1
      <4>1. g[i - 1] = h[k] BY <3>1, <2>4
      <4> QED BY <4>1, <3>1, <2>4
    <3>2. CASE i # k + 1
      <4>1. i \in 1..k /\ i - 1 \in 0..k /\ i \in 0..k BY <3>2
      <4>2. g[i] = h[i] /\ g[i - 1] = h[i - 1] BY <4>1, <2>4
      <4> QED BY <4>1, <4>2, <2>1
    <3> QED BY <3>1, <3>2
  <2>7. P(k + 1) BY <2>3, <2>5, <2>6
  <2> QED BY <2>7
<1> HIDE DEF P
<1>3. \A k \in 0..(n - 1) : k \in T => k + 1 \in T BY <1>2
<1>4. n \in 0..n OBVIOUS
<1> HIDE DEF T
<1>5. n \in T BY <1>1, <1>3, <1>4, UpTo
<1> QED BY <1>5 DEF T, P

(* The parts of a finding. *)
LEMMA FindingParts ==
  ASSUME NEW f \in Finding
  PROVE  /\ f.start \in Nat /\ f.end \in Nat /\ f.start <= N /\ f.end <= N
         /\ f.len \in Nat /\ f.len >= 1 /\ f.len \in LabelLens
         /\ N \in Nat
<1>1. N \in Nat /\ LabelLens \subseteq Nat \ {0} BY RedactionAssumption
<1>2. f.start \in 0..N /\ f.end \in 0..N /\ f.len \in LabelLens BY DEF Finding
<1>3. f.len \in Nat \ {0} BY <1>1, <1>2
<1>4. f.start \in Nat /\ f.end \in Nat /\ f.start <= N /\ f.end <= N BY <1>1, <1>2
<1>5. f.len \in Nat /\ f.len >= 1 BY <1>3
<1> QED BY <1>1, <1>2, <1>4, <1>5

(* The parts of an entry of a sequence of findings. *)
LEMMA EntryParts ==
  ASSUME NEW es \in Seq(Finding), NEW i \in 1..Len(es)
  PROVE  /\ es[i] \in Finding
         /\ es[i].start \in Nat /\ es[i].end \in Nat /\ es[i].start <= N /\ es[i].end <= N
         /\ es[i].len \in Nat /\ es[i].len >= 1
<1>1. es[i] \in Finding OBVIOUS
<1> QED BY <1>1, FindingParts

(* shift is what its definition says: it grows by each label and shrinks  *)
(* by each span that the label replaces.                                   *)
LEMMA ShiftDef ==
  ASSUME NEW es \in Seq(Finding)
  PROVE  /\ Shift(es) \in [0..Len(es) -> Int]
         /\ Shift(es)[0] = 0
         /\ \A i \in 1..Len(es) :
              Shift(es)[i] = Shift(es)[i - 1] + es[i].len - (es[i].end - es[i].start)
<1> DEFINE n == Len(es)
           D(i) == es[i].len - (es[i].end - es[i].start)
           G == [i \in 1..n |-> [x \in Int |-> x + es[i].len - (es[i].end - es[i].start)]]
           Eq(sh) == sh = [i \in 0..n |-> IF i = 0 THEN 0
                             ELSE sh[i - 1] + es[i].len - (es[i].end - es[i].start)]
<1>1. n \in Nat
  OBVIOUS
<1>2. \A i \in 1..n : es[i].len \in Int /\ es[i].start \in Int /\ es[i].end \in Int
  BY EntryParts
<1>3. G \in [1..n -> [Int -> Int]]
  BY <1>2
<1>4. PICK h \in [0..n -> Int] : h[0] = 0 /\ \A i \in 1..n : h[i] = G[i][h[i - 1]]
  <2> DEFINE S == Int
             s0 == 0
  <2>1. s0 \in S OBVIOUS
  <2>2. G \in [1..n -> [S -> S]] BY <1>3
  <2> HIDE DEF G, n, S, s0
  <2>3. \E h : Solves(h, n, S, s0, G) BY <1>1, <2>1, <2>2, Iterates
  <2> QED BY <2>3 DEF S, s0, Solves
<1>5. \A i \in 1..n : h[i] = h[i - 1] + es[i].len - (es[i].end - es[i].start)
  <2> SUFFICES ASSUME NEW i \in 1..n
               PROVE  h[i] = h[i - 1] + es[i].len - (es[i].end - es[i].start)
    OBVIOUS
  <2>1. h[i - 1] \in Int OBVIOUS
  <2>2. h[i] = G[i][h[i - 1]] BY <1>4
  <2>3. G[i] = [x \in Int |-> x + es[i].len - (es[i].end - es[i].start)] OBVIOUS
  <2> QED BY <2>1, <2>2, <2>3
<1>6. Eq(h)
  BY <1>1, <1>4, <1>5
<1>7. Shift(es) = CHOOSE sh : Eq(sh)
  BY DEF Shift
<1>8. Eq(Shift(es))
  BY <1>6, <1>7
<1> DEFINE sh == Shift(es)
<1>a. Eq(sh) BY <1>8
<1> HIDE DEF G, n, sh
<1>9. DOMAIN sh = 0..n BY <1>a
<1>10. sh[0] = 0 BY <1>1, <1>a
<1>11. ASSUME NEW i \in 1..n
       PROVE  sh[i] = sh[i - 1] + es[i].len - (es[i].end - es[i].start)
  <2> DEFINE r == sh[i - 1] + es[i].len - (es[i].end - es[i].start)
             R == [j \in 0..n |-> IF j = 0 THEN 0
                     ELSE sh[j - 1] + es[j].len - (es[j].end - es[j].start)]
  <2>1. R[i] = r BY <1>1
  <2>2. sh = R BY <1>a
  <2> HIDE DEF R, r
  <2>3. sh[i] = r BY <2>1, <2>2
  <2> QED BY <2>3 DEF r
<1>12. \A i \in 0..n : sh[i] \in Int
  <2> DEFINE T == {i \in 0..n : sh[i] \in Int}
  <2>1. 0 \in T BY <1>1, <1>10
  <2>2. ASSUME NEW k \in 0..(n - 1), k \in T PROVE k + 1 \in T
    <3>1. k + 1 \in 1..n /\ (k + 1) - 1 = k BY <1>1
    <3>2. sh[k + 1] = sh[k] + es[k + 1].len - (es[k + 1].end - es[k + 1].start)
      BY <3>1, <1>11
    <3> QED BY <3>1, <3>2, <1>2, <2>2
  <2> HIDE DEF T
  <2>3. \A k \in 0..n : k \in T BY <1>1, <2>1, <2>2, UpTo
  <2> QED BY <2>3 DEF T
<1>13. sh \in [0..n -> Int] BY <1>9, <1>12, <1>a
<1> QED BY <1>10, <1>11, <1>13 DEF sh, n

-----------------------------------------------------------------------------
(* What applyRedactions leaves: entries one after the other, none empty. *)
Ordered(es) ==
  /\ es \in Seq(Finding)
  /\ \A i \in 1..Len(es) : PrevEnd(es, i - 1) <= es[i].start /\ es[i].start < es[i].end

(* The place in the redacted text behind the label of entry i. *)
Edge(es, i) == PrevEnd(es, i) + Shift(es)[i]

(* prev stays in the text. *)
LEMMA PrevEndType ==
  ASSUME NEW es \in Seq(Finding), NEW i \in 0..Len(es)
  PROVE  PrevEnd(es, i) \in Nat /\ PrevEnd(es, i) <= N
<1>1. CASE i = 0 BY <1>1, RedactionAssumption DEF PrevEnd
<1>2. CASE i # 0
  <2>1. i \in 1..Len(es) BY <1>2
  <2> QED BY <1>2, <2>1, EntryParts DEF PrevEnd
<1> QED BY <1>1, <1>2

(* A label lies behind what comes before its entry, and ends at its edge,  *)
(* which is where the shift has caught up with it.                         *)
LEMMA Edges ==
  ASSUME NEW es, Ordered(es)
  PROVE  /\ Edge(es, 0) = 0
         /\ \A i \in 0..Len(es) : Edge(es, i) \in Int
         /\ \A i \in 1..Len(es) :
              /\ RedactedStart(es, i) = es[i].start + Shift(es)[i - 1]
              /\ RedactedStart(es, i) \in Int
              /\ RedactedEnd(es, i) = Edge(es, i)
              /\ Edge(es, i) = RedactedStart(es, i) + es[i].len
              /\ Edge(es, i - 1) <= RedactedStart(es, i)
              /\ RedactedStart(es, i) < Edge(es, i)
<1> DEFINE sh == Shift(es)
<1>1. es \in Seq(Finding) BY DEF Ordered
<1>2. /\ sh \in [0..Len(es) -> Int] /\ sh[0] = 0
      /\ \A i \in 1..Len(es) : sh[i] = sh[i - 1] + es[i].len - (es[i].end - es[i].start)
  BY <1>1, ShiftDef
<1> HIDE DEF sh
<1>3. Len(es) \in Nat BY <1>1
<1>4. Edge(es, 0) = 0 BY <1>2 DEF Edge, PrevEnd, sh
<1>5. ASSUME NEW i \in 0..Len(es) PROVE Edge(es, i) \in Int
  <2>1. PrevEnd(es, i) \in Nat BY <1>1, PrevEndType
  <2>2. sh[i] \in Int BY <1>2
  <2> QED BY <2>1, <2>2 DEF Edge, sh
<1>6. ASSUME NEW i \in 1..Len(es)
      PROVE  /\ RedactedStart(es, i) = es[i].start + Shift(es)[i - 1]
             /\ RedactedStart(es, i) \in Int
             /\ RedactedEnd(es, i) = Edge(es, i)
             /\ Edge(es, i) = RedactedStart(es, i) + es[i].len
             /\ Edge(es, i - 1) <= RedactedStart(es, i)
             /\ RedactedStart(es, i) < Edge(es, i)
  <2>1. /\ es[i].start \in Nat /\ es[i].end \in Nat
        /\ es[i].len \in Nat /\ es[i].len >= 1
    BY <1>1, EntryParts
  <2>2. i - 1 \in 0..Len(es) /\ i # 0 BY <1>3
  <2>3. sh[i - 1] \in Int /\ PrevEnd(es, i - 1) \in Nat BY <2>2, <1>1, <1>2, PrevEndType
  <2>4. sh[i] = sh[i - 1] + es[i].len - (es[i].end - es[i].start) BY <1>2
  <2>5. PrevEnd(es, i - 1) <= es[i].start BY DEF Ordered
  <2>6. RedactedStart(es, i) = es[i].start + sh[i - 1] BY DEF RedactedStart, sh
  <2>7. RedactedEnd(es, i) = es[i].start + sh[i - 1] + es[i].len
    BY <2>6 DEF RedactedEnd
  <2>8. Edge(es, i) = es[i].end + sh[i] BY <2>2 DEF Edge, PrevEnd, sh
  <2>9. Edge(es, i - 1) = PrevEnd(es, i - 1) + sh[i - 1] BY DEF Edge, sh
  <2> HIDE DEF sh
  <2>10. RedactedStart(es, i) \in Int BY <2>1, <2>3, <2>6
  <2>11. Edge(es, i) = RedactedStart(es, i) + es[i].len
    BY <2>1, <2>3, <2>4, <2>6, <2>8
  <2>12. RedactedEnd(es, i) = Edge(es, i) BY <2>6, <2>7, <2>11
  <2>13. Edge(es, i - 1) <= RedactedStart(es, i)
    BY <2>1, <2>3, <2>5, <2>6, <2>9
  <2>14. RedactedStart(es, i) < Edge(es, i) BY <2>1, <2>10, <2>11
  <2> QED BY <2>6, <2>10, <2>11, <2>12, <2>13, <2>14 DEF sh
<1> QED BY <1>4, <1>5, <1>6

(* Further entries are further on, in the original and in the text. *)
LEMMA Increasing ==
  ASSUME NEW es, Ordered(es), NEW i \in 0..Len(es), NEW j \in 0..Len(es), i <= j
  PROVE  Edge(es, i) <= Edge(es, j) /\ PrevEnd(es, i) <= PrevEnd(es, j)
<1>1. es \in Seq(Finding) /\ Len(es) \in Nat BY DEF Ordered
<1> DEFINE n == Len(es)
           T == {k \in 0..n : i <= k => /\ Edge(es, i) <= Edge(es, k)
                                        /\ PrevEnd(es, i) <= PrevEnd(es, k)}
<1>2. Edge(es, i) \in Int /\ PrevEnd(es, i) \in Nat BY <1>1, Edges, PrevEndType
<1>3. 0 \in T
  <2>1. i <= 0 => i = 0 OBVIOUS
  <2> QED BY <1>1, <1>2, <2>1
<1>4. ASSUME NEW k \in 0..(n - 1), k \in T PROVE k + 1 \in T
  <2>1. k \in 0..n /\ k + 1 \in 1..n /\ k + 1 \in 0..n /\ (k + 1) - 1 = k BY <1>1
  <2>2. Edge(es, k) <= RedactedStart(es, k + 1) /\ RedactedStart(es, k + 1) < Edge(es, k + 1)
    BY <2>1, Edges
  <2>3. /\ PrevEnd(es, k) <= es[k + 1].start /\ es[k + 1].start < es[k + 1].end
    BY <2>1 DEF Ordered
  <2>4. PrevEnd(es, k + 1) = es[k + 1].end BY <2>1 DEF PrevEnd
  <2>5. es[k + 1].start \in Nat BY <1>1, <2>1, EntryParts
  <2>6. PrevEnd(es, k) \in Nat /\ PrevEnd(es, k + 1) \in Nat BY <1>1, <2>1, PrevEndType
  <2>7. Edge(es, k) \in Int /\ Edge(es, k + 1) \in Int /\ RedactedStart(es, k + 1) \in Int
    BY <2>1, Edges
  <2>8. CASE i = k + 1 BY <2>8, <2>1, <1>2
  <2>9. CASE i <= k
    <3>1. Edge(es, i) <= Edge(es, k) /\ PrevEnd(es, i) <= PrevEnd(es, k) BY <1>4, <2>9
    <3>2. Edge(es, i) <= Edge(es, k + 1) BY <3>1, <2>2, <2>7, <1>2
    <3>3. PrevEnd(es, i) <= PrevEnd(es, k + 1) BY <3>1, <2>3, <2>4, <2>5, <2>6, <1>2
    <3> QED BY <3>2, <3>3, <2>1
  <2>10. CASE i > k + 1 BY <2>10, <2>1
  <2> QED BY <2>8, <2>9, <2>10, <2>1
<1> HIDE DEF T, n
<1>5. n \in Nat BY <1>1 DEF n
<1>6. \A k \in 0..n : k \in T BY <1>3, <1>4, <1>5, UpTo
<1>7. j \in T BY <1>6 DEF n
<1> QED BY <1>7 DEF T

-----------------------------------------------------------------------------
(* Two pieces of text, one behind the other. *)
LEMMA Concat ==
  ASSUME NEW a \in Seq(Int), NEW b \in Seq(Int)
  PROVE  /\ a \o b \in Seq(Int)
         /\ Len(a \o b) = Len(a) + Len(b)
         /\ \A p \in 1..Len(a) : (a \o b)[p] = a[p]
         /\ \A p \in (Len(a) + 1)..(Len(a) + Len(b)) : (a \o b)[p] = b[p - Len(a)]
OBVIOUS

(* The pieces that the builder is given. *)
LEMMA Pieces ==
  /\ \A from, to \in Nat : from <= to =>
       /\ Bytes(from, to) \in Seq(Int) /\ Len(Bytes(from, to)) = to - from
       /\ \A p \in 1..(to - from) : Bytes(from, to)[p] = from + p - 1
  /\ \A len \in Nat :
       /\ LabelCells(len) \in Seq(Int) /\ Len(LabelCells(len)) = len
       /\ \A p \in 1..len : LabelCells(len)[p] = Label
<1>1. ASSUME NEW from \in Nat, NEW to \in Nat, from <= to
      PROVE  /\ Bytes(from, to) \in Seq(Int) /\ Len(Bytes(from, to)) = to - from
             /\ \A p \in 1..(to - from) : Bytes(from, to)[p] = from + p - 1
  <2>1. to - from \in Nat BY <1>1
  <2> QED BY <2>1 DEF Bytes
<1>2. ASSUME NEW len \in Nat
      PROVE  /\ LabelCells(len) \in Seq(Int) /\ Len(LabelCells(len)) = len
             /\ \A p \in 1..len : LabelCells(len)[p] = Label
  BY DEF LabelCells, Label
<1> QED BY <1>1, <1>2

(* What an entry adds to the text. *)
Piece(es, i) == Bytes(PrevEnd(es, i - 1), es[i].start)

(* The pieces of an entry are what is between it and the entry before, and *)
(* its label.                                                              *)
LEMMA PieceType ==
  ASSUME NEW es, Ordered(es), NEW i \in 1..Len(es)
  PROVE  /\ Piece(es, i) \in Seq(Int)
         /\ Len(Piece(es, i)) = es[i].start - PrevEnd(es, i - 1)
         /\ \A p \in 1..(es[i].start - PrevEnd(es, i - 1)) :
              Piece(es, i)[p] = PrevEnd(es, i - 1) + p - 1
         /\ LabelCells(es[i].len) \in Seq(Int)
         /\ Len(LabelCells(es[i].len)) = es[i].len
         /\ \A p \in 1..es[i].len : LabelCells(es[i].len)[p] = Label
<1>1. es \in Seq(Finding) /\ Len(es) \in Nat BY DEF Ordered
<1>2. es[i].start \in Nat /\ es[i].len \in Nat BY <1>1, EntryParts
<1>3. i - 1 \in 0..Len(es) BY <1>1
<1>4. PrevEnd(es, i - 1) \in Nat BY <1>1, <1>3, PrevEndType
<1>5. PrevEnd(es, i - 1) <= es[i].start BY DEF Ordered
<1> QED BY <1>2, <1>4, <1>5, Pieces DEF Piece

(* The builder holds what its definition says. *)
LEMMA WrittenDef ==
  ASSUME NEW es, Ordered(es)
  PROVE  /\ Written(es)[0] = <<>>
         /\ \A i \in 1..Len(es) :
              Written(es)[i] = (Written(es)[i - 1] \o Piece(es, i)) \o LabelCells(es[i].len)
<1> DEFINE n == Len(es)
           S == Seq(Int)
           s0 == <<>>
           G == [i \in 1..n |-> [x \in S |-> (x \o Piece(es, i)) \o LabelCells(es[i].len)]]
           Rhs(w) == [i \in 0..n |-> IF i = 0 THEN <<>>
                        ELSE (w[i - 1] \o Piece(es, i)) \o LabelCells(es[i].len)]
<1>1. n \in Nat BY DEF Ordered
<1>2. s0 \in S OBVIOUS
<1>3. G \in [1..n -> [S -> S]]
  <2> SUFFICES ASSUME NEW i \in 1..n, NEW x \in S
               PROVE  (x \o Piece(es, i)) \o LabelCells(es[i].len) \in S
    OBVIOUS
  <2>1. Piece(es, i) \in S /\ LabelCells(es[i].len) \in S BY PieceType
  <2>2. x \o Piece(es, i) \in S BY <2>1
  <2> QED BY <2>1, <2>2
<1>4. PICK h : Solves(h, n, S, s0, G)
  <2> HIDE DEF n, S, s0, G
  <2> QED BY <1>1, <1>2, <1>3, Iterates
<1>5. h \in [0..n -> S] /\ h[0] = <<>> /\ \A i \in 1..n : h[i] = G[i][h[i - 1]]
  BY <1>4 DEF Solves
<1>6. ASSUME NEW i \in 1..n
      PROVE  h[i] = (h[i - 1] \o Piece(es, i)) \o LabelCells(es[i].len)
  <2>1. h[i - 1] \in S BY <1>1, <1>5
  <2>2. h[i] = G[i][h[i - 1]] BY <1>5
  <2>3. G[i] = [x \in S |-> (x \o Piece(es, i)) \o LabelCells(es[i].len)] OBVIOUS
  <2> HIDE DEF S, G
  <2> QED BY <2>1, <2>2, <2>3
<1>7. h = Rhs(h)
  <2>1. DOMAIN h = 0..n BY <1>5
  <2>2. h = [i \in 0..n |-> h[i]] BY <1>5
  <2>3. ASSUME NEW i \in 0..n PROVE h[i] = Rhs(h)[i]
    <3> DEFINE r == (h[i - 1] \o Piece(es, i)) \o LabelCells(es[i].len)
    <3>1. Rhs(h)[i] = IF i = 0 THEN <<>> ELSE r OBVIOUS
    <3>2. i # 0 => i \in 1..n BY <1>1
    <3>3. i # 0 => h[i] = r BY <1>6, <3>2
    <3> HIDE DEF r, Rhs
    <3> QED BY <3>1, <3>3, <1>5
  <2> HIDE DEF n
  <2>4. Rhs(h) = [i \in 0..n |-> Rhs(h)[i]] OBVIOUS
  <2> HIDE DEF Rhs
  <2> QED BY <2>2, <2>3, <2>4
<1>8. Written(es) = CHOOSE w : w = Rhs(w)
  BY DEF Written, Piece
<1> DEFINE w == Written(es)
<1>9. w = Rhs(w)
  <2> HIDE DEF Rhs
  <2> QED BY <1>7, <1>8
<1> HIDE DEF w
<1>10. w[0] = <<>>
  <2>1. Rhs(w)[0] = <<>> BY <1>1
  <2> HIDE DEF Rhs
  <2> QED BY <1>9, <2>1
<1>11. ASSUME NEW i \in 1..n
       PROVE  w[i] = (w[i - 1] \o Piece(es, i)) \o LabelCells(es[i].len)
  <2> DEFINE r == (w[i - 1] \o Piece(es, i)) \o LabelCells(es[i].len)
  <2>0. i \in 0..n /\ i # 0 BY <1>1
  <2>a. Rhs(w)[i] = IF i = 0 THEN <<>> ELSE r
    <3> HIDE DEF n
    <3> QED BY <2>0
  <2>1. Rhs(w)[i] = r
    <3> HIDE DEF Rhs, r
    <3> QED BY <2>0, <2>a
  <2> HIDE DEF Rhs, r
  <2>2. w[i] = r BY <1>9, <2>1
  <2> QED BY <2>2 DEF r
<1> QED BY <1>10, <1>11 DEF w

(* The cell at place p of the text, if it comes after k labels. *)
Cell(es, k, p) ==
  IF k < Len(es) /\ p > RedactedStart(es, k + 1) THEN Label ELSE p - 1 - Shift(es)[k]

(* The cells of what is written after i entries. *)
HasCells(text, es, i) ==
  /\ text \in Seq(Int)
  /\ Len(text) = Edge(es, i)
  /\ \A k \in 0..(i - 1) : \A p \in (Edge(es, k) + 1)..Edge(es, k + 1) :
       text[p] = Cell(es, k, p)

(* One more entry. *)
LEMMA EntryCells ==
  ASSUME NEW es, Ordered(es), NEW j \in 0..(Len(es) - 1), NEW text, HasCells(text, es, j)
  PROVE  HasCells((text \o Piece(es, j + 1)) \o LabelCells(es[j + 1].len), es, j + 1)
<1> DEFINE i == j + 1
           b == Piece(es, i)
           l == LabelCells(es[i].len)
           t == text \o b
           u == t \o l
           sh == Shift(es)[j]
           rs == RedactedStart(es, i)
           e0 == Edge(es, j)
           e1 == Edge(es, i)
           pr == PrevEnd(es, j)
<1>1. es \in Seq(Finding) /\ Len(es) \in Nat BY DEF Ordered
<1>2. i \in 1..Len(es) /\ j \in 0..Len(es) /\ i - 1 = j /\ i \in 0..Len(es) /\ j < Len(es)
      /\ j \in Nat
  BY <1>1
<1>3. /\ b \in Seq(Int) /\ Len(b) = es[i].start - pr
      /\ \A p \in 1..(es[i].start - pr) : b[p] = pr + p - 1
      /\ l \in Seq(Int) /\ Len(l) = es[i].len
      /\ \A p \in 1..es[i].len : l[p] = Label
  BY <1>2, PieceType
<1>4. /\ es[i].start \in Nat /\ es[i].len \in Nat /\ es[i].len >= 1 /\ pr \in Nat
      /\ pr <= es[i].start
  BY <1>1, <1>2, EntryParts, PrevEndType DEF Ordered
<1>5. sh \in Int BY <1>1, <1>2, ShiftDef
<1>6. /\ e0 = pr + sh /\ rs = es[i].start + sh /\ e1 = rs + es[i].len
  BY <1>2, Edges DEF Edge
<1>7. text \in Seq(Int) /\ Len(text) = e0
  BY DEF HasCells
<1> HIDE DEF b, l, sh, rs, e0, e1, pr
<1>8. /\ t \in Seq(Int) /\ Len(t) = rs
      /\ \A p \in 1..e0 : t[p] = text[p]
      /\ \A p \in (e0 + 1)..rs : t[p] = p - 1 - sh
  <2>1. /\ t \in Seq(Int) /\ Len(t) = Len(text) + Len(b)
        /\ \A p \in 1..Len(text) : t[p] = text[p]
        /\ \A p \in (Len(text) + 1)..(Len(text) + Len(b)) : t[p] = b[p - Len(text)]
    BY <1>3, <1>7, Concat
  <2>2. Len(text) + Len(b) = rs BY <1>3, <1>4, <1>5, <1>6, <1>7
  <2>3. ASSUME NEW p \in (e0 + 1)..rs PROVE t[p] = p - 1 - sh
    <3>1. t[p] = b[p - e0] BY <2>1, <2>2, <1>7
    <3>a. e0 = pr + sh /\ rs = es[i].start + sh /\ pr \in Int /\ sh \in Int /\ es[i].start \in Int
      BY <1>4, <1>5, <1>6
    <3>2. p - e0 \in 1..(es[i].start - pr)
      <4> DEFINE st == es[i].start
      <4> HIDE DEF st
      <4>1. rs = st + sh /\ st \in Int BY <3>a DEF st
      <4>2. p - e0 \in 1..(st - pr) BY <3>a, <4>1
      <4> QED BY <4>2 DEF st
    <3>3. b[p - e0] = pr + (p - e0) - 1 BY <1>3, <3>2
    <3> QED BY <3>1, <3>3, <1>4, <1>5, <1>6
  <2> HIDE DEF t
  <2> QED BY <2>1, <2>2, <2>3, <1>7
<1> HIDE DEF t
<1>9. /\ u \in Seq(Int) /\ Len(u) = e1
      /\ \A p \in 1..rs : u[p] = t[p]
      /\ \A p \in (rs + 1)..e1 : u[p] = Label
  <2>1. /\ u \in Seq(Int) /\ Len(u) = Len(t) + Len(l)
        /\ \A p \in 1..Len(t) : u[p] = t[p]
        /\ \A p \in (Len(t) + 1)..(Len(t) + Len(l)) : u[p] = l[p - Len(t)]
    BY <1>3, <1>8, Concat
  <2>2. Len(t) + Len(l) = e1 BY <1>3, <1>4, <1>5, <1>6, <1>8
  <2>3. ASSUME NEW p \in (rs + 1)..e1 PROVE u[p] = Label
    <3>0. Len(t) = rs BY <1>8
    <3>1. u[p] = l[p - rs] BY <2>1, <2>2, <3>0
    <3>2. rs \in Int /\ e1 = rs + es[i].len /\ es[i].len \in Nat BY <1>4, <1>5, <1>6
    <3>3. p - rs \in 1..es[i].len BY <3>2
    <3> QED BY <3>1, <3>3, <1>3
  <2> HIDE DEF u
  <2> QED BY <2>1, <2>2, <2>3, <1>8
<1>10. e0 \in Nat /\ e0 <= rs /\ rs < e1 /\ rs \in Int /\ e1 \in Int
  <2>1. e0 \in Nat BY <1>7
  <2> QED BY <2>1, <1>4, <1>5, <1>6
<1>11. ASSUME NEW k \in 0..(i - 1), NEW p \in (Edge(es, k) + 1)..Edge(es, k + 1)
       PROVE  u[p] = Cell(es, k, p)
  <2> HIDE DEF u
  <2>1. CASE k < j
    <3>1. k \in 0..(j - 1) /\ k \in 0..Len(es) /\ k + 1 \in 0..Len(es) /\ k + 1 <= j
      BY <2>1, <1>1, <1>2
    <3>2. text[p] = Cell(es, k, p) BY <3>1 DEF HasCells
    <3>3. Edge(es, k + 1) <= e0 BY <3>1, <1>2, Increasing DEF e0
    <3>4. 0 <= Edge(es, k)
      <4>1. 0 \in 0..Len(es) /\ 0 <= k BY <3>1
      <4> QED BY <4>1, <3>1, Increasing, Edges
    <3>5. Edge(es, k) \in Int /\ Edge(es, k + 1) \in Int BY <3>1, Edges
    <3>6. p \in 1..e0 /\ p \in 1..rs BY <3>3, <3>4, <3>5, <1>10
    <3> QED BY <3>2, <3>6, <1>8, <1>9
  <2>2. CASE k = j
    <3>1. p \in (e0 + 1)..e1 BY <2>2 DEF e0, e1
    <3>2. Cell(es, k, p) = IF p > rs THEN Label ELSE p - 1 - sh
      BY <2>2, <1>2 DEF Cell, rs, sh
    <3>3. CASE p > rs
      <4>1. p \in (rs + 1)..e1 BY <3>1, <3>3, <1>10
      <4> QED BY <4>1, <3>2, <3>3, <1>9
    <3>4. CASE ~(p > rs)
      <4>1. p \in (e0 + 1)..rs /\ p \in 1..rs BY <3>1, <3>4, <1>10
      <4> QED BY <4>1, <3>2, <3>4, <1>8, <1>9
    <3> QED BY <3>3, <3>4
  <2> QED BY <2>1, <2>2, <1>2
<1> QED BY <1>9, <1>11 DEF HasCells, u, t, b, l, e1

(* After i entries the builder holds the text up to the edge of entry i. *)
LEMMA WrittenCells ==
  ASSUME NEW es, Ordered(es), NEW i \in 0..Len(es)
  PROVE  HasCells(Written(es)[i], es, i)
<1> DEFINE n == Len(es)
           T == {k \in 0..n : HasCells(Written(es)[k], es, k)}
<1>1. n \in Nat BY DEF Ordered
<1>2. 0 \in T
  <2>1. Written(es)[0] = <<>> /\ Edge(es, 0) = 0 BY WrittenDef, Edges
  <2>2. <<>> \in Seq(Int) /\ Len(<<>>) = 0 OBVIOUS
  <2>3. \A k \in 0..(0 - 1) : FALSE OBVIOUS
  <2>4. HasCells(<<>>, es, 0) BY <2>1, <2>2, <2>3 DEF HasCells
  <2> QED BY <1>1, <2>1, <2>4
<1>3. ASSUME NEW k \in 0..(n - 1), k \in T PROVE k + 1 \in T
  <2>1. k + 1 \in 1..n /\ (k + 1) - 1 = k /\ k + 1 \in 0..n BY <1>1
  <2>2. Written(es)[k + 1] = (Written(es)[k] \o Piece(es, k + 1)) \o LabelCells(es[k + 1].len)
    BY <2>1, WrittenDef
  <2>3. HasCells(Written(es)[k], es, k) BY <1>3
  <2>4. HasCells(Written(es)[k + 1], es, k + 1) BY <2>2, <2>3, EntryCells
  <2> QED BY <2>1, <2>4
<1> HIDE DEF T, n
<1>4. \A k \in 0..n : k \in T BY <1>1, <1>2, <1>3, UpTo
<1> QED BY <1>4 DEF T, n

(* The text that a layer is shown. *)
LEMMA TextCells ==
  ASSUME NEW es, Ordered(es)
  PROVE  /\ Cells(es) \in Seq(Int)
         /\ Len(Cells(es)) = N + Shift(es)[Len(es)]
         /\ \A k \in 0..Len(es), p \in 1..Len(Cells(es)) :
              Edge(es, k) < p /\ (k < Len(es) => p <= Edge(es, k + 1))
                => Cells(es)[p] = Cell(es, k, p)
<1> DEFINE n == Len(es)
           w == Written(es)[n]
           b == Bytes(PrevEnd(es, n), N)
           t == w \o b
           e == Edge(es, n)
           pr == PrevEnd(es, n)
           sh == Shift(es)[n]
<1>1. es \in Seq(Finding) /\ n \in Nat BY DEF Ordered
<1>2. n \in 0..n BY <1>1
<1>3. HasCells(w, es, n) BY <1>2, WrittenCells
<1>4. N \in Nat /\ pr \in Nat /\ pr <= N BY <1>1, <1>2, PrevEndType, RedactionAssumption
<1>5. sh \in Int /\ e = pr + sh BY <1>1, <1>2, ShiftDef DEF Edge
<1>6. /\ b \in Seq(Int) /\ Len(b) = N - pr
      /\ \A p \in 1..(N - pr) : b[p] = pr + p - 1
  BY <1>4, Pieces
<1>7. w \in Seq(Int) /\ Len(w) = e BY <1>3 DEF HasCells
<1>8. Cells(es) = t BY DEF Cells
<1> HIDE DEF w, b, e, pr, sh
<1>9. /\ t \in Seq(Int) /\ Len(t) = Len(w) + Len(b)
      /\ \A p \in 1..Len(w) : t[p] = w[p]
      /\ \A p \in (Len(w) + 1)..(Len(w) + Len(b)) : t[p] = b[p - Len(w)]
  BY <1>6, <1>7, Concat
<1> HIDE DEF t
<1>10. Len(t) = N + sh BY <1>4, <1>5, <1>6, <1>7, <1>9
<1>11. ASSUME NEW k \in 0..n, NEW p \in 1..Len(t),
              Edge(es, k) < p, k < n => p <= Edge(es, k + 1)
       PROVE  t[p] = Cell(es, k, p)
  <2>1. CASE k < n
    <3>1. k \in 0..(n - 1) /\ k + 1 \in 0..n /\ k + 1 <= n BY <2>1, <1>1
    <3>2. Edge(es, k) \in Int /\ Edge(es, k + 1) \in Int BY <3>1, Edges
    <3>3. p \in (Edge(es, k) + 1)..Edge(es, k + 1) BY <1>11, <2>1, <3>2, <1>9
    <3>4. w[p] = Cell(es, k, p) BY <1>3, <3>1, <3>3 DEF HasCells
    <3>5. Edge(es, k + 1) <= e BY <3>1, <1>2, Increasing DEF e
    <3>6. e \in Int BY <1>4, <1>5
    <3>7. p \in 1..Len(w) BY <3>2, <3>3, <3>5, <3>6, <1>7, <1>11
    <3> QED BY <3>4, <3>7, <1>9
  <2>2. CASE k = n
    <3>1. e < p BY <2>2, <1>11 DEF e
    <3>2. p \in (Len(w) + 1)..(Len(w) + Len(b)) BY <3>1, <1>7, <1>9
    <3>3. t[p] = b[p - e] BY <3>2, <1>7, <1>9
    <3>4. p - e \in 1..(N - pr) BY <3>2, <1>4, <1>5, <1>6, <1>7
    <3>5. b[p - e] = pr + (p - e) - 1 BY <3>4, <1>6
    <3>6. Cell(es, k, p) = p - 1 - sh BY <2>2, <1>1 DEF Cell, sh
    <3> QED BY <3>3, <3>5, <3>6, <1>4, <1>5, <1>11
  <2> QED BY <2>1, <2>2, <1>1
<1> QED BY <1>8, <1>9, <1>10, <1>11 DEF sh

-----------------------------------------------------------------------------
(* Position pos of the redacted text comes after k labels. *)
After(es, k, pos) ==
  /\ k \in 0..Len(es)
  /\ Edge(es, k) <= pos
  /\ k < Len(es) => pos < Edge(es, k + 1)

(* Every position comes after some number of labels, *)
LEMMA Located ==
  ASSUME NEW es, Ordered(es), NEW pos \in Nat
  PROVE  \E k : After(es, k, pos)
<1> DEFINE n == Len(es)
           T == {k \in 0..n : Edge(es, k) <= pos}
<1>1. n \in Nat BY DEF Ordered
<1>2. 0 \in T BY <1>1, Edges
<1>3. SUFFICES ASSUME \A k : ~After(es, k, pos) PROVE FALSE OBVIOUS
<1>4. ASSUME NEW k \in 0..(n - 1), k \in T PROVE k + 1 \in T
  <2>1. k \in 0..n /\ k + 1 \in 0..n /\ k < n BY <1>1
  <2>2. Edge(es, k + 1) \in Int BY <2>1, Edges
  <2>3. ~(pos < Edge(es, k + 1)) BY <1>3, <1>4, <2>1 DEF After
  <2> QED BY <2>1, <2>2, <2>3
<1> HIDE DEF T
<1>5. n \in T
  <2> HIDE DEF n
  <2>1. n \in 0..n BY <1>1
  <2> QED BY <1>1, <1>2, <1>4, <2>1, UpTo
<1> QED BY <1>1, <1>3, <1>5 DEF T, After

(* and toOriginalPos passes exactly these. *)
LEMMA PassedIs ==
  ASSUME NEW es, Ordered(es), NEW pos \in Nat, NEW k, After(es, k, pos)
  PROVE  Passed(pos, es) = k
<1> DEFINE n == Len(es)
           Stops(m) == /\ \A i \in 1..m : pos >= RedactedEnd(es, i)
                       /\ m < n => pos < RedactedEnd(es, m + 1)
<1>1. n \in Nat /\ k \in 0..n BY DEF Ordered, After
<1>2. \A i \in 1..n : RedactedEnd(es, i) = Edge(es, i) BY Edges
<1>3. \A i \in 0..n : Edge(es, i) \in Int BY Edges
<1>4. Stops(k)
  <2>1. ASSUME NEW i \in 1..k PROVE pos >= RedactedEnd(es, i)
    <3>1. i \in 1..n /\ i \in 0..n /\ i <= k BY <1>1
    <3>2. Edge(es, i) <= Edge(es, k) BY <3>1, <1>1, Increasing
    <3> QED BY <3>1, <3>2, <1>1, <1>2, <1>3 DEF After
  <2>2. ASSUME k < n PROVE pos < RedactedEnd(es, k + 1)
    <3>1. k + 1 \in 1..n BY <1>1, <2>2
    <3> QED BY <2>2, <3>1, <1>2 DEF After
  <2> QED BY <2>1, <2>2
<1>5. ASSUME NEW m \in 0..n, Stops(m) PROVE m = k
  <2>1. CASE m < k
    <3>1. m + 1 \in 1..k /\ m < n /\ m + 1 \in 1..n BY <1>1, <2>1
    <3>2. pos >= RedactedEnd(es, m + 1) BY <1>4, <3>1
    <3>3. pos < RedactedEnd(es, m + 1) BY <1>5, <3>1
    <3>4. RedactedEnd(es, m + 1) \in Int BY <3>1, <1>2, <1>3
    <3> QED BY <3>2, <3>3, <3>4
  <2>2. CASE k < m
    <3>1. k + 1 \in 1..m /\ k < n /\ k + 1 \in 1..n BY <1>1, <2>2
    <3>2. pos >= RedactedEnd(es, k + 1) BY <1>5, <3>1
    <3>3. pos < RedactedEnd(es, k + 1) BY <1>4, <3>1
    <3>4. RedactedEnd(es, k + 1) \in Int BY <3>1, <1>2, <1>3
    <3> QED BY <3>2, <3>3, <3>4
  <2> QED BY <1>1, <2>1, <2>2
<1>6. Passed(pos, es) = CHOOSE m \in 0..n : Stops(m) BY DEF Passed
<1> HIDE DEF Stops, n
<1> QED BY <1>1, <1>4, <1>5, <1>6

(* What toOriginalPos returns. *)
LEMMA OriginalPos ==
  ASSUME NEW es, Ordered(es), NEW pos \in Nat, NEW k, After(es, k, pos)
  PROVE  /\ ToOriginalPos(pos, es) \in Int
         /\ ToOriginalPos(pos, es) >= PrevEnd(es, k)
         /\ k < Len(es) =>
              /\ ToOriginalPos(pos, es) <= es[k + 1].start
              /\ pos <= RedactedStart(es, k + 1)
                    => ToOriginalPos(pos, es) = pos - Shift(es)[k]
              /\ pos > RedactedStart(es, k + 1)
                    => ToOriginalPos(pos, es) = es[k + 1].start
         /\ k = Len(es) => ToOriginalPos(pos, es) = pos - Shift(es)[k]
<1> DEFINE o == ToOriginalPos(pos, es)
           sh == Shift(es)[k]
           pr == PrevEnd(es, k)
<1>1. es \in Seq(Finding) /\ Len(es) \in Nat /\ k \in 0..Len(es) BY DEF Ordered, After
<1>2. o = IF k < Len(es) /\ pos > RedactedStart(es, k + 1) THEN es[k + 1].start ELSE pos - sh
  BY PassedIs DEF ToOriginalPos
<1>3. sh \in Int /\ pr \in Nat BY <1>1, ShiftDef, PrevEndType
<1>4. pos >= pr + sh BY DEF After, Edge
<1> HIDE DEF o, sh, pr
<1>5. CASE k < Len(es)
  <2> DEFINE st == es[k + 1].start
             rs == RedactedStart(es, k + 1)
  <2>1. k + 1 \in 1..Len(es) /\ (k + 1) - 1 = k BY <1>1, <1>5
  <2>2. st \in Nat /\ pr <= st BY <1>1, <2>1, EntryParts DEF Ordered, pr
  <2>3. rs = st + sh BY <2>1, Edges DEF sh
  <2> HIDE DEF st, rs
  <2>4. o = IF pos > rs THEN st ELSE pos - sh BY <1>2, <1>5 DEF st, rs
  <2>5. /\ o \in Int /\ o >= pr /\ o <= st
        /\ pos <= rs => o = pos - sh
        /\ pos > rs => o = st
    BY <1>3, <1>4, <2>2, <2>3, <2>4
  <2> QED BY <2>5, <1>1, <1>5 DEF o, sh, pr, st, rs
<1>6. CASE k = Len(es)
  <2>1. o = pos - sh BY <1>1, <1>2, <1>6
  <2>2. o \in Int /\ o >= pr BY <2>1, <1>3, <1>4
  <2> QED BY <2>1, <2>2, <1>1, <1>6 DEF o, sh, pr
<1> QED BY <1>1, <1>5, <1>6

(* toOriginalPos stays in the text, *)
LEMMA OriginalRange ==
  ASSUME NEW es, Ordered(es), NEW pos \in 0..Len(Cells(es))
  PROVE  ToOriginalPos(pos, es) \in 0..N
<1>1. es \in Seq(Finding) /\ Len(es) \in Nat /\ N \in Nat
  BY RedactionAssumption DEF Ordered
<1>2. Cells(es) \in Seq(Int) /\ Len(Cells(es)) = N + Shift(es)[Len(es)] BY TextCells
<1>3. Len(Cells(es)) \in Nat BY <1>2
<1>4. pos \in Nat BY <1>3
<1>5. PICK k : After(es, k, pos) BY <1>4, Located
<1>6. k \in 0..Len(es) BY <1>5 DEF After
<1>7. PrevEnd(es, k) \in Nat BY <1>1, <1>6, PrevEndType
<1>8. ToOriginalPos(pos, es) \in Int /\ ToOriginalPos(pos, es) >= PrevEnd(es, k)
  BY <1>4, <1>5, OriginalPos
<1>9. ToOriginalPos(pos, es) <= N
  <2>1. CASE k < Len(es)
    <3>1. k + 1 \in 1..Len(es) BY <1>1, <1>6, <2>1
    <3>2. es[k + 1].start \in Nat /\ es[k + 1].start <= N BY <1>1, <3>1, EntryParts
    <3>3. ToOriginalPos(pos, es) <= es[k + 1].start BY <1>4, <1>5, <2>1, OriginalPos
    <3> QED BY <3>2, <3>3, <1>1, <1>8
  <2>2. CASE k = Len(es)
    <3>1. Shift(es)[k] \in Int BY <1>1, <1>6, ShiftDef
    <3>2. ToOriginalPos(pos, es) = pos - Shift(es)[k] BY <1>4, <1>5, <2>2, OriginalPos
    <3>3. pos <= N + Shift(es)[k] BY <1>2, <1>3, <2>2
    <3> QED BY <3>1, <3>2, <3>3, <1>1, <1>4
  <2> QED BY <2>1, <2>2, <1>1, <1>6
<1> QED BY <1>1, <1>7, <1>8, <1>9

(* keeps the order of positions, *)
LEMMA OriginalMonotone ==
  ASSUME NEW es, Ordered(es), NEW p \in Nat, NEW q \in Nat, p <= q
  PROVE  ToOriginalPos(p, es) <= ToOriginalPos(q, es)
<1> DEFINE a == ToOriginalPos(p, es)
           b == ToOriginalPos(q, es)
           n == Len(es)
<1> SUFFICES a <= b OBVIOUS
<1>1. es \in Seq(Finding) /\ n \in Nat BY DEF Ordered
<1>2. PICK k : After(es, k, p) BY Located
<1>3. PICK m : After(es, m, q) BY Located
<1>4. k \in 0..n /\ m \in 0..n BY <1>2, <1>3 DEF After
<1>5. a \in Int /\ b \in Int /\ b >= PrevEnd(es, m) BY <1>2, <1>3, OriginalPos
<1>6. k <= m
  <2>1. SUFFICES ASSUME m < k PROVE FALSE BY <1>4
  <2>2. m + 1 \in 0..n /\ m < n /\ m + 1 <= k BY <1>1, <1>4, <2>1
  <2>3. Edge(es, m + 1) <= Edge(es, k) BY <2>2, <1>4, Increasing
  <2>4. Edge(es, m + 1) \in Int /\ Edge(es, k) \in Int BY <2>2, <1>4, Edges
  <2>5. Edge(es, k) <= p /\ q < Edge(es, m + 1) BY <2>2, <1>2, <1>3 DEF After
  <2> QED BY <2>3, <2>4, <2>5
<1>7. CASE k < m
  <2>1. k < n /\ k + 1 \in 1..n /\ k + 1 \in 0..n /\ k + 1 <= m /\ k + 1 # 0
    BY <1>1, <1>4, <1>7
  <2>2. a <= es[k + 1].start BY <1>2, <2>1, OriginalPos
  <2>3. es[k + 1].start < es[k + 1].end BY <2>1 DEF Ordered
  <2>4. es[k + 1].start \in Nat /\ es[k + 1].end \in Nat BY <1>1, <2>1, EntryParts
  <2>5. PrevEnd(es, k + 1) = es[k + 1].end BY <2>1 DEF PrevEnd
  <2>6. PrevEnd(es, k + 1) <= PrevEnd(es, m) BY <2>1, <1>4, Increasing
  <2>7. PrevEnd(es, m) \in Nat BY <1>1, <1>4, PrevEndType
  <2> HIDE DEF a, b
  <2> QED BY <2>2, <2>3, <2>4, <2>5, <2>6, <2>7, <1>5
<1>8. CASE k = m
  <2> DEFINE sh == Shift(es)[k]
  <2>1. sh \in Int BY <1>1, <1>4, ShiftDef
  <2>2. CASE k = n
    <3>1. a = p - sh /\ b = q - sh BY <1>2, <1>3, <1>8, <2>2, OriginalPos
    <3> HIDE DEF a, b, sh
    <3> QED BY <2>1, <3>1
  <2>3. CASE k < n
    <3> DEFINE rs == RedactedStart(es, k + 1)
               st == es[k + 1].start
    <3>1. k + 1 \in 1..n /\ (k + 1) - 1 = k BY <1>1, <1>4, <2>3
    <3>2. rs = st + sh /\ rs \in Int BY <3>1, Edges
    <3>3. /\ a <= st
          /\ p <= rs => a = p - sh
          /\ q <= rs => b = q - sh
          /\ q > rs => b = st
      BY <1>2, <1>3, <1>8, <2>3, OriginalPos
    <3> HIDE DEF a, b, sh, rs, st
    <3> QED BY <2>1, <3>2, <3>3, <1>5
  <2> QED BY <2>2, <2>3, <1>4, <1>1
<1> QED BY <1>4, <1>6, <1>7, <1>8

(* and maps the two sides of a visible byte to the two sides of that byte. *)
LEMMA VisibleByte ==
  ASSUME NEW es, Ordered(es), NEW p \in 1..Len(Cells(es)), Cells(es)[p] # Label
  PROVE  /\ ToOriginalPos(p - 1, es) = Cells(es)[p]
         /\ ToOriginalPos(p, es) = Cells(es)[p] + 1
         /\ Cells(es)[p] \in 0..(N - 1)
         /\ \E k : After(es, k, p - 1) /\ After(es, k, p)
<1> DEFINE n == Len(es)
           c == Cells(es)[p]
<1>1. es \in Seq(Finding) /\ n \in Nat BY DEF Ordered
<1>2. Len(Cells(es)) \in Nat BY TextCells
<1>3. p \in Nat /\ p - 1 \in Nat /\ p \in 0..Len(Cells(es)) /\ p - 1 \in 0..Len(Cells(es))
  BY <1>2
<1>4. PICK k : After(es, k, p - 1) BY <1>3, Located
<1>5. k \in 0..n BY <1>4 DEF After
<1> DEFINE sh == Shift(es)[k]
<1>6. sh \in Int BY <1>1, <1>5, ShiftDef
<1>7. Edge(es, k) \in Int /\ (k < n => Edge(es, k + 1) \in Int)
  <2>1. k < n => k + 1 \in 0..n BY <1>1, <1>5
  <2> QED BY <2>1, <1>5, Edges
<1>8. Edge(es, k) < p /\ (k < n => p <= Edge(es, k + 1))
  BY <1>3, <1>4, <1>7 DEF After
<1>9. c = Cell(es, k, p) BY <1>5, <1>8, TextCells
<1>10. c = p - 1 - sh /\ ~(k < n /\ p > RedactedStart(es, k + 1))
  BY <1>9 DEF Cell
<1>11. k < n => /\ RedactedStart(es, k + 1) \in Int
                /\ RedactedStart(es, k + 1) < Edge(es, k + 1)
  <2>1. k < n => k + 1 \in 1..n BY <1>1, <1>5
  <2> QED BY <2>1, Edges
<1>12. After(es, k, p)
  BY <1>3, <1>5, <1>7, <1>8, <1>10, <1>11 DEF After
<1>13. ToOriginalPos(p, es) = p - sh
  <2>1. CASE k < n
    <3>1. p <= RedactedStart(es, k + 1) BY <1>3, <1>10, <1>11, <2>1
    <3> QED BY <1>3, <1>12, <2>1, <3>1, OriginalPos
  <2>2. CASE k = n BY <1>3, <1>12, <2>2, OriginalPos
  <2> QED BY <2>1, <2>2, <1>1, <1>5
<1>14. ToOriginalPos(p - 1, es) = p - 1 - sh
  <2>1. CASE k < n
    <3>1. p - 1 <= RedactedStart(es, k + 1) BY <1>3, <1>10, <1>11, <2>1
    <3> QED BY <1>3, <1>4, <2>1, <3>1, OriginalPos
  <2>2. CASE k = n BY <1>3, <1>4, <2>2, OriginalPos
  <2> QED BY <2>1, <2>2, <1>1, <1>5
<1>15. ToOriginalPos(p, es) \in 0..N /\ ToOriginalPos(p - 1, es) \in 0..N
  BY <1>3, OriginalRange
<1>16. N \in Nat BY RedactionAssumption
<1> HIDE DEF sh, c
<1>17. ToOriginalPos(p, es) = c + 1 BY <1>3, <1>6, <1>10, <1>13
<1>18. c \in Int BY <1>3, <1>6, <1>10
<1>19. c \in 0..(N - 1) BY <1>10, <1>14, <1>15, <1>16, <1>17, <1>18
<1> QED BY <1>4, <1>10, <1>12, <1>14, <1>17, <1>19 DEF c

(* An entry is wholly before or wholly behind what lies between two. *)
LEMMA Gap ==
  ASSUME NEW es, Ordered(es), NEW k \in 0..Len(es), NEW i \in 1..Len(es)
  PROVE  \/ es[i].end <= PrevEnd(es, k)
         \/ k < Len(es) /\ es[k + 1].start <= es[i].start
<1>1. es \in Seq(Finding) /\ Len(es) \in Nat BY DEF Ordered
<1>2. i \in 0..Len(es) /\ i # 0 /\ i - 1 \in 0..Len(es) BY <1>1
<1>3. CASE i <= k
  <2>1. PrevEnd(es, i) <= PrevEnd(es, k) BY <1>2, <1>3, Increasing
  <2> QED BY <2>1, <1>2 DEF PrevEnd
<1>4. CASE i = k + 1
  <2>1. es[i].start \in Nat BY <1>1, EntryParts
  <2> QED BY <2>1, <1>1, <1>4
<1>5. CASE i > k + 1
  <2>1. k + 1 \in 1..Len(es) /\ k + 1 \in 0..Len(es) /\ k + 1 # 0 /\ k + 1 <= i - 1 /\ k < Len(es)
    BY <1>1, <1>5
  <2>2. PrevEnd(es, k + 1) <= PrevEnd(es, i - 1) BY <1>2, <2>1, Increasing
  <2>3. PrevEnd(es, k + 1) = es[k + 1].end BY <2>1 DEF PrevEnd
  <2>4. /\ es[k + 1].start < es[k + 1].end
        /\ PrevEnd(es, i - 1) <= es[i].start
    BY <2>1 DEF Ordered
  <2>5. /\ es[k + 1].start \in Nat /\ es[k + 1].end \in Nat /\ es[i].start \in Nat
        /\ PrevEnd(es, i - 1) \in Nat
    BY <1>1, <1>2, <2>1, EntryParts, PrevEndType
  <2>6. es[k + 1].start <= es[i].start BY <2>2, <2>3, <2>4, <2>5
  <2> QED BY <2>1, <2>6
<1> QED BY <1>1, <1>3, <1>4, <1>5

(* toOriginalPos does not point into an entry, *)
LEMMA NotInside ==
  ASSUME NEW es, Ordered(es), NEW pos \in Nat, NEW i \in 1..Len(es)
  PROVE  ToOriginalPos(pos, es) <= es[i].start \/ es[i].end <= ToOriginalPos(pos, es)
<1> DEFINE o == ToOriginalPos(pos, es)
<1> SUFFICES o <= es[i].start \/ es[i].end <= o OBVIOUS
<1>1. PICK k : After(es, k, pos) BY Located
<1>2. k \in 0..Len(es) /\ es \in Seq(Finding) /\ Len(es) \in Nat BY <1>1 DEF After, Ordered
<1>3. o \in Int /\ o >= PrevEnd(es, k) /\ (k < Len(es) => o <= es[k + 1].start)
  BY <1>1, OriginalPos
<1>4. PrevEnd(es, k) \in Nat /\ es[i].start \in Nat /\ es[i].end \in Nat
  BY <1>2, PrevEndType, EntryParts
<1>5. k < Len(es) => es[k + 1].start \in Nat
  <2>1. k < Len(es) => k + 1 \in 1..Len(es) BY <1>2
  <2> QED BY <2>1, <1>2, EntryParts
<1> HIDE DEF o
<1> QED BY <1>2, <1>3, <1>4, <1>5, Gap

(* and a visible byte lies in none. *)
LEMMA VisibleOutside ==
  ASSUME NEW es, Ordered(es), NEW p \in 1..Len(Cells(es)), Cells(es)[p] # Label,
         NEW i \in 1..Len(es)
  PROVE  Cells(es)[p] < es[i].start \/ es[i].end <= Cells(es)[p]
<1> DEFINE c == Cells(es)[p]
<1> SUFFICES c < es[i].start \/ es[i].end <= c OBVIOUS
<1>1. PICK k : After(es, k, p - 1) /\ After(es, k, p) BY VisibleByte
<1>2. k \in 0..Len(es) /\ es \in Seq(Finding) /\ Len(es) \in Nat BY <1>1 DEF After, Ordered
<1>3. p \in Nat /\ p - 1 \in Nat
  <2>1. Len(Cells(es)) \in Nat BY TextCells
  <2> QED BY <2>1
<1>4. ToOriginalPos(p - 1, es) = c /\ ToOriginalPos(p, es) = c + 1 /\ c \in 0..(N - 1)
  BY VisibleByte
<1>5. c >= PrevEnd(es, k) BY <1>1, <1>3, <1>4, OriginalPos
<1>6. k < Len(es) => c + 1 <= es[k + 1].start BY <1>1, <1>3, <1>4, OriginalPos
<1>7. PrevEnd(es, k) \in Nat /\ es[i].start \in Nat /\ es[i].end \in Nat
  BY <1>2, PrevEndType, EntryParts
<1>8. k < Len(es) => es[k + 1].start \in Nat
  <2>1. k < Len(es) => k + 1 \in 1..Len(es) BY <1>2
  <2> QED BY <2>1, <1>2, EntryParts
<1>9. c \in Int BY <1>4, RedactionAssumption
<1> HIDE DEF c
<1> QED BY <1>2, <1>5, <1>6, <1>7, <1>8, <1>9, Gap

-----------------------------------------------------------------------------
(* applyRedactions.  What it may apply next is there, if anything is. *)
LEMMA FirstExists ==
  ASSUME NEW fs \in SUBSET Finding, NEW prev \in Nat, FirstOf(fs, prev) = {},
         NEW f \in fs, f.start < f.end
  PROVE  f.start < prev
<1> DEFINE usable == {g \in fs : g.start >= prev /\ g.start < g.end /\ g.end <= N}
           starts == {g.start : g \in usable}
<1>1. SUFFICES ASSUME f.start >= prev PROVE FALSE
  <2>1. f.start \in Nat BY FindingParts
  <2> QED BY <2>1
<1>2. f \in usable BY <1>1, FindingParts
<1>3. starts \in SUBSET Nat /\ starts # {}
  <2>1. \A g \in usable : g.start \in Nat BY FindingParts
  <2> QED BY <1>2, <2>1
<1>4. PICK x \in starts : \A y \in starts : x <= y
  <2> HIDE DEF starts
  <2> QED BY <1>3, LeastNat
<1>5. PICK g \in usable : g.start = x BY <1>4
<1>6. \A h \in usable : g.start <= h.start BY <1>4, <1>5
<1>7. g \in FirstOf(fs, prev) BY <1>6 DEF FirstOf
<1> QED BY <1>7

(* A run of the loop. *)
Run(s, fs, k) ==
  /\ s \in Seq(Finding) /\ Len(s) = k
  /\ \A i \in 1..k : s[i] \in FirstOf(fs, PrevEnd(s, i - 1))

(* The turns of the loop are what their definition says, *)
LEMMA TurnsDef ==
  ASSUME NEW fs \in SUBSET Finding
  PROVE  /\ Turns(fs)[0] = {<<>>}
         /\ \A k \in 1..N : Turns(fs)[k] =
              UNION {{Append(s, f) : f \in FirstOf(fs, PrevEnd(s, k - 1))} :
                       s \in Turns(fs)[k - 1]}
<1> DEFINE S == SUBSET Seq(Finding)
           s0 == {<<>>}
           St(k, X) == UNION {{Append(s, f) : f \in FirstOf(fs, PrevEnd(s, k - 1))} : s \in X}
           G == [k \in 1..N |-> [X \in S |-> St(k, X)]]
           Rhs(t) == [k \in 0..N |-> IF k = 0 THEN {<<>>} ELSE St(k, t[k - 1])]
<1>1. N \in Nat BY RedactionAssumption
<1>2. s0 \in S OBVIOUS
<1>3. G \in [1..N -> [S -> S]]
  <2> SUFFICES ASSUME NEW k \in 1..N, NEW X \in S PROVE St(k, X) \in S OBVIOUS
  <2>1. \A s \in X : \A f \in FirstOf(fs, PrevEnd(s, k - 1)) : Append(s, f) \in Seq(Finding)
    BY DEF FirstOf
  <2> QED BY <2>1
<1>4. PICK h : Solves(h, N, S, s0, G)
  <2> HIDE DEF S, s0, G
  <2> QED BY <1>1, <1>2, <1>3, Iterates
<1> HIDE DEF St
<1>5. h \in [0..N -> S] /\ h[0] = {<<>>} /\ \A k \in 1..N : h[k] = G[k][h[k - 1]]
  BY <1>4 DEF Solves
<1>6. ASSUME NEW k \in 1..N PROVE h[k] = St(k, h[k - 1])
  <2>1. h[k - 1] \in S BY <1>1, <1>5
  <2>2. h[k] = G[k][h[k - 1]] BY <1>5
  <2>3. G[k] = [X \in S |-> St(k, X)] OBVIOUS
  <2> HIDE DEF S, G
  <2> QED BY <2>1, <2>2, <2>3
<1>7. h = Rhs(h)
  <2>1. h = [k \in 0..N |-> h[k]] BY <1>5
  <2>2. ASSUME NEW k \in 0..N PROVE h[k] = Rhs(h)[k]
    <3>1. Rhs(h)[k] = IF k = 0 THEN {<<>>} ELSE St(k, h[k - 1]) OBVIOUS
    <3>2. k # 0 => k \in 1..N BY <1>1
    <3> HIDE DEF Rhs
    <3> QED BY <3>1, <3>2, <1>5, <1>6
  <2>3. Rhs(h) = [k \in 0..N |-> Rhs(h)[k]] OBVIOUS
  <2> HIDE DEF Rhs
  <2> QED BY <2>1, <2>2, <2>3
<1>8. Turns(fs) = CHOOSE t : t = Rhs(t)
  BY DEF Turns, St
<1> DEFINE t == Turns(fs)
<1>9. t = Rhs(t)
  <2> HIDE DEF Rhs
  <2> QED BY <1>7, <1>8
<1> HIDE DEF t
<1>10. t[0] = {<<>>}
  <2>1. Rhs(t)[0] = {<<>>} BY <1>1
  <2> HIDE DEF Rhs
  <2> QED BY <1>9, <2>1
<1>11. ASSUME NEW k \in 1..N PROVE t[k] = St(k, t[k - 1])
  <2>1. k \in 0..N /\ k # 0 BY <1>1
  <2>2. Rhs(t)[k] = IF k = 0 THEN {<<>>} ELSE St(k, t[k - 1]) BY <2>1
  <2> HIDE DEF Rhs
  <2> QED BY <1>9, <2>1, <2>2
<1> QED BY <1>10, <1>11 DEF t, St

(* so each turn appends a finding that comes first behind the last. *)
LEMMA TurnsAreRuns ==
  ASSUME NEW fs \in SUBSET Finding, NEW k \in 0..N, NEW s \in Turns(fs)[k]
  PROVE  Run(s, fs, k)
<1> DEFINE T == {j \in 0..N : \A r \in Turns(fs)[j] : Run(r, fs, j)}
<1>1. N \in Nat BY RedactionAssumption
<1>2. 0 \in T
  <2>1. Turns(fs)[0] = {<<>>} BY TurnsDef
  <2>2. Run(<<>>, fs, 0) BY DEF Run
  <2> QED BY <1>1, <2>1, <2>2
<1>3. ASSUME NEW j \in 0..(N - 1), j \in T PROVE j + 1 \in T
  <2>1. j + 1 \in 1..N /\ (j + 1) - 1 = j /\ j + 1 \in 0..N /\ j \in Nat BY <1>1
  <2>2. ASSUME NEW r \in Turns(fs)[j + 1] PROVE Run(r, fs, j + 1)
    <3>0. Turns(fs)[j + 1] =
            UNION {{Append(q, f) : f \in FirstOf(fs, PrevEnd(q, (j + 1) - 1))} :
                     q \in Turns(fs)[(j + 1) - 1]}
      BY <2>1, TurnsDef, Zenon
    <3>1. PICK q \in Turns(fs)[j] : \E f \in FirstOf(fs, PrevEnd(q, j)) : r = Append(q, f)
      BY <2>1, <3>0, Zenon
    <3>2. PICK f \in FirstOf(fs, PrevEnd(q, j)) : r = Append(q, f) BY <3>1
    <3>3. /\ q \in Seq(Finding) /\ Len(q) = j
          /\ \A i \in 1..j : q[i] \in FirstOf(fs, PrevEnd(q, i - 1))
      BY <1>3 DEF Run
    <3>4. f \in Finding BY DEF FirstOf
    <3>5. /\ r \in Seq(Finding) /\ Len(r) = j + 1 /\ r[j + 1] = f
          /\ \A i \in 1..j : r[i] = q[i]
      BY <3>2, <3>3, <3>4
    <3>6. ASSUME NEW i \in 0..j PROVE PrevEnd(r, i) = PrevEnd(q, i)
      <4>1. i # 0 => r[i] = q[i] BY <3>5
      <4> QED BY <4>1 DEF PrevEnd
    <3>7. ASSUME NEW i \in 1..(j + 1) PROVE r[i] \in FirstOf(fs, PrevEnd(r, i - 1))
      <4>1. i - 1 \in 0..j BY <2>1
      <4>2. PrevEnd(r, i - 1) = PrevEnd(q, i - 1) BY <4>1, <3>6
      <4>3. CASE i = j + 1 BY <4>3, <4>2, <3>5, <2>1
      <4>4. CASE i # j + 1
        <5>1. i \in 1..j BY <4>4, <2>1
        <5> QED BY <5>1, <4>2, <3>3, <3>5
      <4> QED BY <4>3, <4>4
    <3> QED BY <3>5, <3>7 DEF Run
  <2> QED BY <2>1, <2>2
<1> HIDE DEF T
<1>4. \A j \in 0..N : j \in T BY <1>1, <1>2, <1>3, UpTo
<1> QED BY <1>4 DEF T

(* What applyRedactions returns: findings of its input, in order, and      *)
(* every finding that is not empty starts in one of them.                  *)
LEMMA AppliedFacts ==
  ASSUME NEW fs \in SUBSET Finding, NEW s \in Applied(fs)
  PROVE  /\ Ordered(s)
         /\ \A i \in 1..Len(s) : s[i] \in fs
         /\ \A f \in fs : f.start < f.end =>
              \E i \in 1..Len(s) : s[i].start <= f.start /\ f.start < s[i].end
<1>1. PICK k \in 0..N : s \in Turns(fs)[k] /\ FirstOf(fs, PrevEnd(s, k)) = {}
  BY DEF Applied
<1>2. /\ s \in Seq(Finding) /\ Len(s) = k
      /\ \A i \in 1..k : s[i] \in FirstOf(fs, PrevEnd(s, i - 1))
  BY <1>1, TurnsAreRuns DEF Run
<1>3. \A i \in 1..k : s[i] \in fs BY <1>2 DEF FirstOf
<1>4. Ordered(s)
  <2> SUFFICES ASSUME NEW i \in 1..k
               PROVE  PrevEnd(s, i - 1) <= s[i].start /\ s[i].start < s[i].end
    BY <1>2 DEF Ordered
  <2>1. i - 1 \in 0..Len(s) /\ i \in 1..Len(s) BY <1>2
  <2>2. PrevEnd(s, i - 1) \in Nat /\ s[i].start \in Nat
    BY <2>1, <1>2, PrevEndType, EntryParts
  <2>3. s[i].start >= PrevEnd(s, i - 1) /\ s[i].start < s[i].end BY <1>2 DEF FirstOf
  <2> QED BY <2>2, <2>3
<1>5. ASSUME NEW f \in fs, f.start < f.end
      PROVE  \E i \in 1..k : s[i].start <= f.start /\ f.start < s[i].end
  <2> DEFINE T == {i \in 0..k : f.start < PrevEnd(s, i)}
  <2>0. k \in Nat /\ k \in 0..Len(s) BY <1>2
  <2>a. f.start \in Nat /\ f.end <= N BY FindingParts
  <2>1. k \in T
    <3>1. PrevEnd(s, k) \in Nat BY <2>0, <1>2, PrevEndType
    <3>2. f.start < PrevEnd(s, k) BY <3>1, <1>1, <1>5, FirstExists
    <3> QED BY <2>0, <3>2
  <2>2. T \in SUBSET Nat /\ T # {} BY <2>0, <2>1
  <2>3. PICK i \in T : \A j \in T : i <= j
    <3> HIDE DEF T
    <3> QED BY <2>2, LeastNat
  <2>4. i \in 0..k /\ f.start < PrevEnd(s, i) OBVIOUS
  <2>5. i # 0 BY <2>4, <2>a DEF PrevEnd
  <2>6. i \in 1..k /\ i - 1 \in 0..k /\ i - 1 \in 0..Len(s) BY <2>4, <2>5, <1>2
  <2>7. i - 1 \notin T BY <2>0, <2>3, <2>4
  <2>8. PrevEnd(s, i - 1) \in Nat BY <2>6, <1>2, PrevEndType
  <2>9. f.start >= PrevEnd(s, i - 1) BY <2>a, <2>6, <2>7, <2>8
  <2>10. s[i] \in FirstOf(fs, PrevEnd(s, i - 1)) BY <2>6, <1>2
  <2>11. s[i].start <= f.start BY <2>a, <2>9, <2>10, <1>5 DEF FirstOf
  <2>12. PrevEnd(s, i) = s[i].end BY <2>5 DEF PrevEnd
  <2> QED BY <2>4, <2>6, <2>11, <2>12
<1> QED BY <1>2, <1>3, <1>4, <1>5

-----------------------------------------------------------------------------
(* A finding covers another; two findings are apart. *)
Covers(g, f) == g.start <= f.start /\ f.end <= g.end

Apart(f, g) == f.end <= g.start \/ g.end <= f.start

(* Findings that meet are one inside the other, with another start. *)
Nested(fs) ==
  \A f, g \in fs :
    \/ f = g
    \/ Apart(f, g)
    \/ f.start < g.start /\ Covers(f, g)
    \/ g.start < f.start /\ Covers(g, f)

Full(fs) == \A f \in fs : f.start < f.end /\ f.seen \subseteq f.start..(f.end - 1)

Covered(fs, es) == \A f \in fs : \E i \in 1..Len(es) : Covers(es[i], f)

(* A layer is shown the text with all earlier findings behind labels.  So  *)
(* if it starts its findings at visible characters and counts in bytes,    *)
(* the findings are nested, and what is found is masked, then and in the   *)
(* end.                                                                    *)
Neat ==
  /\ Full(findings)
  /\ Nested(findings)
  /\ Covered(findings, offsets)
  /\ layer < Len(pipe.units) => \A i \in 1..Len(offsets) : offsets[i] \in findings
  /\ redacted => Covered(findings, output)

(* The inductive invariant. *)
RedactionInv ==
  /\ pipe \in Pipelines
  /\ layer \in 0..Len(pipe.units)
  /\ redacted \in BOOLEAN
  /\ redacted => layer = Len(pipe.units)
  /\ Positions
  /\ Ordered(offsets)
  /\ Ordered(output)
  /\ pipe.orderly /\ pipe.cont = {} => Neat

(* applyRedactions covers nested findings. *)
LEMMA AppliedCovers ==
  ASSUME NEW fs \in SUBSET Finding, Nested(fs), Full(fs), NEW s \in Applied(fs)
  PROVE  Covered(fs, s)
<1> SUFFICES ASSUME NEW f \in fs PROVE \E i \in 1..Len(s) : Covers(s[i], f)
  BY DEF Covered
<1>1. f.start < f.end BY DEF Full
<1>2. PICK i \in 1..Len(s) : s[i].start <= f.start /\ f.start < s[i].end
  BY <1>1, AppliedFacts
<1>3. s[i] \in fs BY AppliedFacts
<1>4. /\ f.start \in Nat /\ f.end \in Nat
      /\ s[i].start \in Nat /\ s[i].end \in Nat
  BY <1>3, FindingParts
<1>5. f = s[i] \/ Covers(s[i], f)
  BY <1>1, <1>2, <1>3, <1>4 DEF Nested, Apart, Covers
<1>6. f = s[i] => Covers(s[i], f) BY <1>4 DEF Covers
<1> QED BY <1>5, <1>6

(* Positions in characters: at most the position in bytes, in order, and   *)
(* the same if no character has two bytes.                                 *)
LEMMA PositionFacts ==
  ASSUME NEW text, NEW p \in Nat, NEW q \in Nat, p <= q
  PROVE  /\ Position(text, p) \in 0..p
         /\ Position(text, p) <= Position(text, q)
         /\ pipe.cont = {} => Position(text, p) = p
<1>1. CASE pipe.units[layer + 1] = "bytes"
  BY <1>1 DEF Position
<1>2. CASE pipe.units[layer + 1] # "bytes"
  <2> DEFINE B(m) == {i \in 1..m : Begins(text, i)}
  <2>1. \A m \in Nat : IsFiniteSet(1..m) /\ Cardinality(1..m) = m
    <3> SUFFICES ASSUME NEW m \in Nat PROVE IsFiniteSet(1..m) /\ Cardinality(1..m) = m
      OBVIOUS
    <3>1. Cardinality(1..m) = IF 1 > m THEN 0 ELSE m - 1 + 1 BY FS_Interval
    <3> QED BY <3>1, FS_Interval
  <2>2. B(p) \in SUBSET (1..p) /\ B(p) \in SUBSET B(q) /\ B(q) \in SUBSET (1..q) OBVIOUS
  <2>3. Position(text, p) = Cardinality(B(p)) /\ Position(text, q) = Cardinality(B(q))
    BY <1>2 DEF Position
  <2>4. pipe.cont = {} => B(p) = 1..p BY DEF Begins
  <2> HIDE DEF B
  <2>5. IsFiniteSet(B(p)) /\ IsFiniteSet(B(q)) /\ Cardinality(B(p)) <= p
    BY <2>1, <2>2, FS_Subset
  <2>6. Cardinality(B(p)) <= Cardinality(B(q)) BY <2>2, <2>5, FS_Subset
  <2>7. Cardinality(B(p)) \in Nat BY <2>5, FS_CardinalityType
  <2>8. pipe.cont = {} => Cardinality(B(p)) = p BY <2>1, <2>4
  <2> QED BY <2>3, <2>5, <2>6, <2>7, <2>8
<1> QED BY <1>1, <1>2

(* A span of the text that a layer is shown. *)
LEMMA SpanFacts ==
  ASSUME Ordered(offsets), NEW span \in Spans(CurrentText)
  PROVE  /\ Len(CurrentText) \in Nat
         /\ span[1] \in 0..Len(CurrentText) /\ span[2] \in 0..Len(CurrentText)
         /\ span[1] < span[2]
         /\ span[1] \in Nat /\ span[2] \in Nat
         /\ pipe.orderly => CurrentText[span[1] + 1] # Label
<1>1. Len(CurrentText) \in Nat BY TextCells DEF CurrentText
<1>2. span \in (0..Len(CurrentText)) \X (0..Len(CurrentText)) BY DEF Spans
<1>3. span[1] < span[2] /\ (pipe.orderly => CurrentText[span[1] + 1] # Label) BY DEF Spans
<1>4. span[1] \in 0..Len(CurrentText) /\ span[2] \in 0..Len(CurrentText) BY <1>2
<1> QED BY <1>1, <1>3, <1>4

(* What a layer reports is a finding, whatever it is. *)
LEMMA MappedType ==
  ASSUME Ordered(offsets), NEW span \in Spans(CurrentText), NEW len \in LabelLens
  PROVE  Mapped(span, len) \in Finding /\ Mapped(span, len).start <= Mapped(span, len).end
<1> DEFINE text == CurrentText
           s == Position(text, span[1])
           e == Position(text, span[2])
           o(x) == ToOriginalPos(x, offsets)
           seen == {text[i] : i \in (span[1] + 1)..span[2]} \ {Label}
<1>1. /\ Len(text) \in Nat
      /\ span[1] \in 0..Len(text) /\ span[2] \in 0..Len(text)
      /\ span[1] < span[2] /\ span[1] \in Nat /\ span[2] \in Nat
  BY SpanFacts
<1>2. text = Cells(offsets) BY DEF CurrentText
<1>3. s \in 0..span[1] /\ e \in 0..span[2] /\ s <= e BY <1>1, PositionFacts
<1>4. s \in 0..Len(text) /\ e \in 0..Len(text) /\ s \in Nat /\ e \in Nat
  <2> HIDE DEF s, e, text
  <2> QED BY <1>1, <1>3
<1>5. o(s) \in 0..N /\ o(e) \in 0..N BY <1>2, <1>4, OriginalRange
<1>6. o(s) <= o(e) BY <1>3, <1>4, OriginalMonotone
<1>7. seen \in SUBSET (0..(N - 1))
  <2> SUFFICES ASSUME NEW i \in (span[1] + 1)..span[2], text[i] # Label
               PROVE  text[i] \in 0..(N - 1)
    OBVIOUS
  <2>1. i \in 1..Len(text)
    <3> HIDE DEF text
    <3> QED BY <1>1
  <2> QED BY <2>1, <1>2, VisibleByte
<1>8. Mapped(span, len) = [start |-> o(s), end |-> o(e), len |-> len, seen |-> seen]
  BY DEF Mapped
<1> HIDE DEF s, e, o, seen
<1> QED BY <1>5, <1>6, <1>7, <1>8 DEF Finding

(* What an orderly layer reports is a span with all it saw, and lies       *)
(* around what is masked or beside it.                                     *)
LEMMA MappedNeat ==
  ASSUME Ordered(offsets), pipe.orderly, pipe.cont = {},
         NEW span \in Spans(CurrentText), NEW len \in LabelLens
  PROVE  /\ Mapped(span, len).start < Mapped(span, len).end
         /\ Mapped(span, len).seen \subseteq
              Mapped(span, len).start..(Mapped(span, len).end - 1)
         /\ Mapped(span, len).start = ToOriginalPos(span[1], offsets)
         /\ Mapped(span, len).end = ToOriginalPos(span[2], offsets)
         /\ \A i \in 1..Len(offsets) :
              \/ Apart(Mapped(span, len), offsets[i])
              \/ /\ Mapped(span, len).start < offsets[i].start
                 /\ Covers(Mapped(span, len), offsets[i])
<1> DEFINE text == CurrentText
           s == span[1]
           e == span[2]
           a == ToOriginalPos(s, offsets)
           b == ToOriginalPos(e, offsets)
           seen == {text[i] : i \in (s + 1)..e} \ {Label}
           m == Mapped(span, len)
<1>1. /\ Len(text) \in Nat
      /\ s \in 0..Len(text) /\ e \in 0..Len(text)
      /\ s < e /\ s \in Nat /\ e \in Nat /\ text[s + 1] # Label
  BY SpanFacts
<1>2. text = Cells(offsets) BY DEF CurrentText
<1>3. Position(text, s) = s /\ Position(text, e) = e BY <1>1, PositionFacts
<1>4. m = [start |-> a, end |-> b, len |-> len, seen |-> seen] BY <1>3 DEF Mapped
<1>5. m.start = a /\ m.end = b /\ m.seen = seen BY <1>4
<1> HIDE DEF text, s, e, a, b, seen, m
<1>6. s + 1 \in 1..Len(text) /\ s + 1 \in Nat /\ s + 1 <= e /\ (s + 1) - 1 = s BY <1>1
<1>7. a = text[s + 1] /\ ToOriginalPos(s + 1, offsets) = a + 1 /\ a \in 0..(N - 1)
  BY <1>1, <1>2, <1>6, VisibleByte DEF a
<1>8. b \in 0..N BY <1>1, <1>2, OriginalRange DEF b
<1>9. a + 1 <= b BY <1>1, <1>6, <1>7, OriginalMonotone DEF b
<1>10. N \in Nat /\ a \in Int /\ b \in Int BY <1>7, <1>8, RedactionAssumption
<1>11. a < b BY <1>9, <1>10
<1>12. seen \subseteq a..(b - 1)
  <2> SUFFICES ASSUME NEW i \in (s + 1)..e, text[i] # Label
               PROVE  text[i] \in a..(b - 1)
    BY DEF seen
  <2>1. i \in 1..Len(text) /\ i \in Nat /\ i - 1 \in Nat /\ s <= i - 1 /\ i <= e BY <1>1
  <2>2. /\ ToOriginalPos(i - 1, offsets) = text[i]
        /\ ToOriginalPos(i, offsets) = text[i] + 1 /\ text[i] \in 0..(N - 1)
    BY <2>1, <1>2, VisibleByte
  <2>3. a <= text[i] BY <2>1, <2>2, <1>1, OriginalMonotone DEF a
  <2>4. text[i] + 1 <= b BY <2>1, <2>2, <1>1, OriginalMonotone DEF b
  <2>5. text[i] \in Int BY <2>2, <1>10
  <2> QED BY <2>3, <2>4, <2>5, <1>10
<1>13. ASSUME NEW i \in 1..Len(offsets)
       PROVE  Apart(m, offsets[i]) \/ (m.start < offsets[i].start /\ Covers(m, offsets[i]))
  <2>1. a < offsets[i].start \/ offsets[i].end <= a
    BY <1>1, <1>2, <1>6, <1>7, VisibleOutside
  <2>2. b <= offsets[i].start \/ offsets[i].end <= b BY <1>1, NotInside DEF b
  <2>3. offsets[i].start \in Nat /\ offsets[i].end \in Nat BY EntryParts DEF Ordered
  <2> QED BY <2>1, <2>2, <2>3, <1>5, <1>10 DEF Apart, Covers
<1> QED BY <1>5, <1>11, <1>12, <1>13 DEF m, a, b, s, e

(* A layer reports spans; those of an orderly layer do not overlap. *)
LEMMA ReportFacts ==
  ASSUME NEW text, NEW ss \in Reports(text)
  PROVE  /\ ss \subseteq Spans(text)
         /\ pipe.orderly => \A x, y \in ss : x = y \/ x[2] <= y[1] \/ y[2] <= x[1]
<1>1. CASE ss = {} BY <1>1
<1>2. CASE ss # {}
  <2>1. PICK sp \in [1..MaxReports -> Spans(text)] :
          /\ ss = {sp[i] : i \in 1..MaxReports}
          /\ pipe.orderly => \A i, j \in 1..MaxReports :
                               sp[i] = sp[j] \/ ~Overlap(sp[i], sp[j])
    BY <1>2 DEF Reports
  <2>2. \A x \in ss : \E i \in 1..MaxReports : x = sp[i] BY <2>1
  <2>3. ss \subseteq Spans(text) BY <2>1
  <2>4. \A x \in Spans(text) : x[1] \in Int /\ x[2] \in Int BY DEF Spans
  <2>5. ASSUME pipe.orderly, NEW x \in ss, NEW y \in ss
        PROVE  x = y \/ ~Overlap(x, y)
    BY <2>1, <2>2, <2>5
  <2>6. \A x, y \in ss : ~Overlap(x, y) => x[2] <= y[1] \/ y[2] <= x[1]
    BY <2>3, <2>4 DEF Overlap
  <2> QED BY <2>3, <2>5, <2>6
<1> QED BY <1>1, <1>2

(* dedup keeps a finding around each that it drops. *)
LEMMA DedupCovers ==
  ASSUME NEW fs \in SUBSET Finding, Nested(fs), Full(fs), NEW f \in fs
  PROVE  \E g \in Dedup(fs) : Covers(g, f)
<1> DEFINE around == {g \in fs : Covers(g, f)}
           starts == {g.start : g \in around}
<1>0. \A g \in fs : g.start \in Nat /\ g.end \in Nat /\ g.start < g.end
  BY FindingParts DEF Full
<1>1. f \in around BY <1>0 DEF Covers
<1>2. starts \in SUBSET Nat /\ starts # {} BY <1>0, <1>1
<1>3. PICK x \in starts : \A y \in starts : x <= y
  <2> HIDE DEF starts
  <2> QED BY <1>2, LeastNat
<1>4. PICK g \in around : g.start = x BY <1>3
<1>5. \A h \in around : g.start <= h.start BY <1>3, <1>4
<1>6. g \in fs /\ Covers(g, f) BY <1>4
<1>7. ASSUME NEW h \in fs, Contained(g, h) PROVE Contained(h, g)
  <2>1. h.start <= g.start /\ g.end <= h.end BY <1>0, <1>6, <1>7 DEF Contained
  <2>2. Covers(h, f) BY <2>1, <1>0, <1>6 DEF Covers
  <2>3. g.start <= h.start BY <2>2, <1>5
  <2>4. g = h BY <2>1, <2>3, <1>0, <1>6 DEF Nested, Apart
  <2> QED BY <2>4, <1>7
<1>8. g \in Dedup(fs) BY <1>6, <1>7 DEF Dedup
<1> QED BY <1>6, <1>8

(* The findings of one more orderly layer are nested with the others. *)
LEMMA ScanNested ==
  ASSUME RedactionInv, pipe.orderly, pipe.cont = {},
         NEW ss \in Reports(CurrentText), NEW len \in [ss -> LabelLens]
  PROVE  /\ Full(findings \cup {Mapped(span, len[span]) : span \in ss})
         /\ Nested(findings \cup {Mapped(span, len[span]) : span \in ss})
<1> DEFINE new == {Mapped(span, len[span]) : span \in ss}
<1>1. Ordered(offsets) /\ Neat /\ findings \subseteq Finding BY DEF RedactionInv, Positions
<1>2. /\ ss \subseteq Spans(CurrentText)
      /\ \A x, y \in ss : x = y \/ x[2] <= y[1] \/ y[2] <= x[1]
  BY ReportFacts
<1>3. Full(new)
  BY <1>1, <1>2, MappedNeat DEF Full
<1>4. new \subseteq Finding BY <1>1, <1>2, MappedType
<1>5. \A f \in findings \cup new : f.start \in Nat /\ f.end \in Nat
  <2> HIDE DEF new
  <2> QED BY <1>1, <1>4, FindingParts
<1>6. ASSUME NEW f \in new, NEW g \in new PROVE f = g \/ Apart(f, g)
  <2>1. PICK x \in ss : f = Mapped(x, len[x]) OBVIOUS
  <2>2. PICK y \in ss : g = Mapped(y, len[y]) OBVIOUS
  <2> HIDE DEF new
  <2>3. x \in Spans(CurrentText) /\ y \in Spans(CurrentText) BY <1>2
  <2>4. /\ f.start = ToOriginalPos(x[1], offsets) /\ f.end = ToOriginalPos(x[2], offsets)
        /\ g.start = ToOriginalPos(y[1], offsets) /\ g.end = ToOriginalPos(y[2], offsets)
    BY <2>1, <2>2, <2>3, <1>1, MappedNeat
  <2>5. x[1] \in Nat /\ x[2] \in Nat /\ y[1] \in Nat /\ y[2] \in Nat
    BY <2>3, <1>1, SpanFacts
  <2>6. CASE x = y BY <2>1, <2>2, <2>6
  <2>7. CASE x[2] <= y[1]
    <3>1. f.end <= g.start BY <2>4, <2>5, <2>7, <1>1, OriginalMonotone
    <3> QED BY <3>1 DEF Apart
  <2>8. CASE y[2] <= x[1]
    <3>1. g.end <= f.start BY <2>4, <2>5, <2>8, <1>1, OriginalMonotone
    <3> QED BY <3>1 DEF Apart
  <2> QED BY <2>6, <2>7, <2>8, <1>2
<1>7. ASSUME NEW f \in findings, NEW g \in new
      PROVE  Apart(f, g) \/ (g.start < f.start /\ Covers(g, f))
  <2>1. PICK i \in 1..Len(offsets) : Covers(offsets[i], f) BY <1>1 DEF Neat, Covered
  <2>2. PICK y \in ss : g = Mapped(y, len[y]) OBVIOUS
  <2>3. \/ Apart(g, offsets[i])
        \/ g.start < offsets[i].start /\ Covers(g, offsets[i])
    BY <1>1, <1>2, <2>2, MappedNeat
  <2>4. offsets[i].start \in Nat /\ offsets[i].end \in Nat BY <1>1, EntryParts DEF Ordered
  <2>5. f.start \in Nat /\ f.end \in Nat /\ g.start \in Nat /\ g.end \in Nat BY <1>5
  <2> HIDE DEF new
  <2> QED BY <2>1, <2>3, <2>4, <2>5 DEF Apart, Covers
<1> HIDE DEF new
<1>8. Full(findings \cup new) BY <1>1, <1>3 DEF Neat, Full
<1>9. Nested(findings \cup new)
  <2> SUFFICES ASSUME NEW f \in findings \cup new, NEW g \in findings \cup new
               PROVE  \/ f = g
                      \/ Apart(f, g)
                      \/ f.start < g.start /\ Covers(f, g)
                      \/ g.start < f.start /\ Covers(g, f)
    BY DEF Nested
  <2>1. CASE f \in findings /\ g \in findings BY <2>1, <1>1 DEF Neat, Nested
  <2>2. CASE f \in new /\ g \in new BY <2>2, <1>6
  <2>3. CASE f \in findings /\ g \in new BY <2>3, <1>7
  <2>4. CASE f \in new /\ g \in findings
    <3>1. Apart(g, f) \/ (f.start < g.start /\ Covers(f, g)) BY <2>4, <1>7
    <3>2. Apart(g, f) => Apart(f, g) BY DEF Apart
    <3> QED BY <3>1, <3>2
  <2> QED BY <2>1, <2>2, <2>3, <2>4
<1> QED BY <1>8, <1>9 DEF new

(* Fewer findings are nested too. *)
LEMMA SubNested ==
  ASSUME NEW fs, NEW gs \in SUBSET fs
  PROVE  (Nested(fs) => Nested(gs)) /\ (Full(fs) => Full(gs))
BY DEF Nested, Full

-----------------------------------------------------------------------------
(* Pipeline.Scan: one more layer. *)
LEMMA ScanStep ==
  ASSUME RedactionInv, Scan
  PROVE  RedactionInv'
<1>0. PICK ss \in Reports(CurrentText) : \E len \in [ss -> LabelLens] :
        /\ findings' = findings \cup {Mapped(span, len[span]) : span \in ss}
        /\ offsets' \in IF ss = {} THEN {offsets} ELSE Applied(findings')
  BY DEF Scan
<1>1. PICK len \in [ss -> LabelLens] :
        /\ findings' = findings \cup {Mapped(span, len[span]) : span \in ss}
        /\ offsets' \in IF ss = {} THEN {offsets} ELSE Applied(findings')
  BY <1>0
<1> DEFINE new == {Mapped(span, len[span]) : span \in ss}
<1>2. /\ layer < Len(pipe.units) /\ layer' = layer + 1
      /\ UNCHANGED <<pipe, output, redacted>>
  BY DEF Scan
<1>3. /\ pipe \in Pipelines /\ layer \in 0..Len(pipe.units) /\ redacted \in BOOLEAN
      /\ Positions /\ Ordered(offsets) /\ Ordered(output) /\ ~redacted
  BY <1>2 DEF RedactionInv
<1>4. Len(pipe.units) \in Nat BY <1>3, RedactionAssumption
<1>5. layer' \in 0..Len(pipe'.units) BY <1>2, <1>3, <1>4
<1>6. \A f \in new : f \in Finding /\ f.start <= f.end
  BY <1>3, ReportFacts, MappedType
<1> HIDE DEF new
<1>7. findings' = findings \cup new BY <1>1 DEF new
<1>8. Positions' BY <1>3, <1>6, <1>7 DEF Positions
<1>9. findings' \subseteq Finding BY <1>8 DEF Positions
<1>10. Ordered(offsets')
  <2>1. CASE ss = {} BY <2>1, <1>1, <1>3
  <2>2. CASE ss # {} BY <2>2, <1>1, <1>9, AppliedFacts
  <2> QED BY <2>1, <2>2
<1>11. ASSUME pipe.orderly, pipe.cont = {} PROVE Neat'
  <2>1. Neat BY <1>11 DEF RedactionInv
  <2>2. Full(findings') /\ Nested(findings')
    BY <1>7, <1>11, ScanNested DEF new
  <2>3. CASE ss = {}
    <3>1. offsets' = offsets /\ findings' = findings BY <2>3, <1>1
    <3>2. layer' < Len(pipe'.units) => layer < Len(pipe.units) BY <1>2
    <3> QED BY <2>1, <2>2, <3>1, <3>2, <1>2, <1>3 DEF Neat
  <2>4. CASE ss # {}
    <3>1. offsets' \in Applied(findings') BY <2>4, <1>1
    <3>2. Covered(findings', offsets') BY <3>1, <2>2, <1>9, AppliedCovers
    <3>3. \A i \in 1..Len(offsets') : offsets'[i] \in findings' BY <3>1, <1>9, AppliedFacts
    <3> QED BY <2>2, <3>2, <3>3, <1>2, <1>3 DEF Neat
  <2> QED BY <2>3, <2>4
<1> QED BY <1>2, <1>3, <1>5, <1>8, <1>10, <1>11 DEF RedactionInv

(* Coordinator.ScanAndRedact drops an allowed word. *)
LEMMA AllowWordStep ==
  ASSUME RedactionInv, NEW f \in findings, AllowWord(f)
  PROVE  RedactionInv'
<1>1. /\ layer = Len(pipe.units) /\ ~redacted
      /\ findings' = findings \ {f}
      /\ UNCHANGED <<pipe, layer, offsets, output, redacted>>
  BY DEF AllowWord
<1>2. Positions' BY <1>1 DEF RedactionInv, Positions
<1>3. ASSUME pipe.orderly, pipe.cont = {} PROVE Neat'
  <2>1. Neat BY <1>3 DEF RedactionInv
  <2>2. findings' \in SUBSET findings BY <1>1
  <2>3. Full(findings') /\ Nested(findings') BY <2>1, <2>2, SubNested DEF Neat
  <2>4. Covered(findings', offsets') BY <2>1, <2>2, <1>1 DEF Neat, Covered
  <2>5. layer \in Int BY RedactionAssumption DEF RedactionInv
  <2>6. ~(layer' < Len(pipe'.units)) BY <1>1, <2>5
  <2> QED BY <2>3, <2>4, <2>6, <1>1 DEF Neat
<1> QED BY <1>1, <1>2, <1>3 DEF RedactionInv

(* redactor.Redact. *)
LEMMA RedactStep ==
  ASSUME RedactionInv, Redact
  PROVE  RedactionInv'
<1>1. /\ layer = Len(pipe.units) /\ redacted' = TRUE
      /\ output' \in Applied(Dedup(findings))
      /\ UNCHANGED <<pipe, layer, findings, offsets>>
  BY DEF Redact
<1>2. findings \in SUBSET Finding BY DEF RedactionInv, Positions
<1>3. Dedup(findings) \in SUBSET Finding /\ Dedup(findings) \in SUBSET findings
  BY <1>2 DEF Dedup
<1>4. Ordered(output') BY <1>1, <1>3, AppliedFacts
<1>5. ASSUME pipe.orderly, pipe.cont = {} PROVE Neat'
  <2>1. Neat BY <1>5 DEF RedactionInv
  <2>2. Full(Dedup(findings)) /\ Nested(Dedup(findings))
    BY <2>1, <1>3, SubNested DEF Neat
  <2>3. Covered(Dedup(findings), output') BY <2>2, <1>1, <1>3, AppliedCovers
  <2>4. Covered(findings, output')
    <3> SUFFICES ASSUME NEW f \in findings
                 PROVE  \E i \in 1..Len(output') : Covers(output'[i], f)
      BY DEF Covered
    <3>1. PICK g \in Dedup(findings) : Covers(g, f) BY <1>2, <2>1, DedupCovers DEF Neat
    <3>2. PICK i \in 1..Len(output') : Covers(output'[i], g) BY <2>3 DEF Covered
    <3>3. output'[i] \in Finding BY <1>4, EntryParts DEF Ordered
    <3>4. /\ output'[i].start \in Nat /\ output'[i].end \in Nat /\ g.start \in Nat
          /\ g.end \in Nat /\ f.start \in Nat /\ f.end \in Nat
      BY <3>3, <1>2, <1>3, FindingParts
    <3> QED BY <3>1, <3>2, <3>4 DEF Covers
  <2> QED BY <2>1, <2>4, <1>1 DEF Neat
<1>6. Positions' BY <1>1 DEF RedactionInv, Positions
<1> QED BY <1>1, <1>4, <1>5, <1>6 DEF RedactionInv

(* The invariant is inductive: one step for each layer, each allowed word  *)
(* and Redact.                                                             *)
THEOREM RedactionInvariant == Spec => []RedactionInv
<1>1. Init => RedactionInv
  <2> SUFFICES ASSUME Init PROVE RedactionInv OBVIOUS
  <2>1. Len(pipe.units) \in Nat /\ pipe \in Pipelines BY RedactionAssumption DEF Init
  <2>2. Ordered(<<>>) BY DEF Ordered
  <2>3. Positions BY DEF Init, Positions
  <2>4. Neat BY DEF Init, Neat, Full, Nested, Covered
  <2>5. layer \in 0..Len(pipe.units) BY <2>1 DEF Init
  <2>7. redacted \in BOOLEAN /\ ~redacted BY Zenon DEF Init
  <2>6. Ordered(offsets) /\ Ordered(output) BY <2>2 DEF Init
  <2> QED BY <2>1, <2>3, <2>4, <2>5, <2>6, <2>7 DEF RedactionInv
<1>2. RedactionInv /\ [Next]_vars => RedactionInv'
  <2> SUFFICES ASSUME RedactionInv, [Next]_vars PROVE RedactionInv' OBVIOUS
  <2>1. CASE Scan BY <2>1, ScanStep
  <2>2. CASE \E f \in findings : AllowWord(f) BY <2>2, AllowWordStep
  <2>3. CASE Redact BY <2>3, RedactStep
  <2>4. CASE UNCHANGED vars
    BY <2>4 DEF vars, RedactionInv, Positions, Neat
  <2> QED BY <2>1, <2>2, <2>3, <2>4 DEF Next
<1> QED BY <1>1, <1>2, PTL DEF Spec

(* Whatever layers report, toOriginalPos maps it into the text and keeps   *)
(* its ends in order, so the slices text[prev:f.Start] that Redact takes   *)
(* unchecked are in range.                                                 *)
THEOREM RedactionPositions == Spec => []Positions
<1>1. RedactionInv => Positions BY DEF RedactionInv
<1> QED BY <1>1, RedactionInvariant, PTL

(* In every text that Pipeline.Scan shows to a layer, toOriginalPos maps   *)
(* the two ends of a visible span to its place in the original, whatever   *)
(* the number and the lengths of the labels before it.                     *)
THEOREM RedactionRoundTrip == Spec => []RoundTrip
<1>1. RedactionInv => RoundTrip
  <2> SUFFICES ASSUME Ordered(offsets), NEW s \in 0..Len(CurrentText),
                      NEW e \in 0..Len(CurrentText), s < e,
                      \A i \in (s + 1)..e : CurrentText[i] # Label
               PROVE  /\ ToOriginalPos(s, offsets) = CurrentText[s + 1]
                      /\ ToOriginalPos(e, offsets) = CurrentText[e] + 1
    BY DEF RedactionInv, RoundTrip
  <2>1. CurrentText = Cells(offsets) /\ Len(CurrentText) \in Nat BY TextCells DEF CurrentText
  <2>2. /\ s + 1 \in 1..Len(CurrentText) /\ e \in 1..Len(CurrentText) /\ (s + 1) - 1 = s
        /\ s + 1 \in (s + 1)..e /\ e \in (s + 1)..e
    BY <2>1
  <2> QED BY <2>1, <2>2, VisibleByte
<1> QED BY <1>1, RedactionInvariant, PTL

(* An entry hides what it covers. *)
LEMMA CoveredHidden ==
  ASSUME NEW es, Ordered(es), NEW i \in 1..Len(es), NEW f \in Finding, Covers(es[i], f)
  PROVE  f.start..(f.end - 1) \subseteq Hidden(es)
<1>1. es[i].start \in Nat /\ es[i].end \in Nat BY EntryParts DEF Ordered
<1>2. f.start \in Nat /\ f.end \in Nat BY FindingParts
<1>3. f.start..(f.end - 1) \subseteq es[i].start..(es[i].end - 1)
  BY <1>1, <1>2 DEF Covers
<1>4. i \in DOMAIN es BY DEF Ordered
<1> QED BY <1>3, <1>4 DEF Hidden

(* If layers start their findings at visible characters and characters are *)
(* single bytes, all that any of them saw, but for allowed words, is       *)
(* behind a label in what Redact returns: neither dedup nor the skipping   *)
(* of overlaps loses a byte.                                               *)
THEOREM RedactionHides == Spec => []AllFoundHidden
<1>1. RedactionInv => AllFoundHidden
  <2> SUFFICES ASSUME RedactionInv, redacted, pipe.orderly, pipe.cont = {},
                      NEW f \in findings
               PROVE  f.seen \subseteq Hidden(output)
    BY DEF AllFoundHidden
  <2>1. Neat /\ Ordered(output) /\ f \in Finding BY DEF RedactionInv, Positions
  <2>2. PICK i \in 1..Len(output) : Covers(output[i], f) BY <2>1 DEF Neat, Covered
  <2>3. f.start..(f.end - 1) \subseteq Hidden(output) BY <2>1, <2>2, CoveredHidden
  <2>4. f.seen \subseteq f.start..(f.end - 1) BY <2>1 DEF Neat, Full
  <2> QED BY <2>3, <2>4
<1> QED BY <1>1, RedactionInvariant, PTL

(* Under the same conditions the text shown to a layer hides all that was  *)
(* hidden from the layer before: applyRedactions, which starts again from  *)
(* the original, uncovers nothing.                                         *)
THEOREM RedactionMaskStays == Spec => MaskedStays
<1> DEFINE Stays == pipe.orderly /\ pipe.cont = {} => Hidden(offsets) \subseteq Hidden(offsets')
<1>1. RedactionInv /\ RedactionInv' /\ [Next]_vars => [Stays]_vars
  <2> SUFFICES ASSUME RedactionInv, RedactionInv', Next, pipe.orderly, pipe.cont = {}
               PROVE  Hidden(offsets) \subseteq Hidden(offsets')
    OBVIOUS
  <2>1. ASSUME Scan
        PROVE  Hidden(offsets) \subseteq Hidden(offsets')
    <3>1. layer < Len(pipe.units) /\ pipe' = pipe /\ findings \subseteq findings'
      BY <2>1 DEF Scan
    <3>2. Neat /\ Ordered(offsets) BY DEF RedactionInv
    <3>3. Neat' /\ Ordered(offsets') BY <3>1 DEF RedactionInv
    <3>4. Covered(findings', offsets') BY <3>3 DEF Neat
    <3>5. ASSUME NEW i \in DOMAIN offsets
          PROVE  offsets[i].start..(offsets[i].end - 1) \subseteq Hidden(offsets')
      <4>1. i \in 1..Len(offsets) BY <3>2 DEF Ordered
      <4>2. offsets[i] \in findings /\ offsets[i] \in Finding
        BY <4>1, <3>1, <3>2, EntryParts DEF Neat, Ordered
      <4>3. PICK j \in 1..Len(offsets') : Covers(offsets'[j], offsets[i])
        BY <4>2, <3>1, <3>4 DEF Covered
      <4> QED BY <4>2, <4>3, <3>3, CoveredHidden
    <3> QED BY <3>5 DEF Hidden
  <2>2. ASSUME NEW f \in findings, AllowWord(f)
        PROVE  Hidden(offsets) \subseteq Hidden(offsets')
    BY <2>2 DEF AllowWord, Hidden
  <2>3. CASE Redact BY <2>3 DEF Redact, Hidden
  <2> QED BY <2>1, <2>2, <2>3 DEF Next
<1>2. Spec => [][Stays]_vars BY <1>1, RedactionInvariant, PTL DEF Spec
<1> QED BY <1>2 DEF MaskedStays
=============================================================================
