--------------------------- MODULE ScanCacheProofs ---------------------------
(***************************************************************************)
(* The cache of ScanCacheLRU keeps its map and its list in step, and holds *)
(* exactly the most recently used keys, for any keys, values and sizes and *)
(* any sequence of calls.                                                  *)
(***************************************************************************)
EXTENDS ScanCacheLRU, SequenceTheorems, FiniteSetTheorems, TLAPS

(* What the list can hold. *)
Capacity == IF maxSize = 0 THEN 1 ELSE maxSize

(* What is in front of place i of a list. *)
Before(o, i) == {o[j] : j \in 1..(i - 1)}

(* A list of keys, each once. *)
IsList(o) == o \in Seq(Keys) /\ \A i, j \in DOMAIN o : o[i] = o[j] => i = j

-----------------------------------------------------------------------------
(* The list.                                                               *)

(* MoveToFront permutes the list: k first, then the others as they were. *)
LEMMA MoveToFrontFacts ==
  ASSUME NEW o, IsList(o), NEW k \in ToSet(o)
  PROVE  /\ MoveToFront(o, k) \in Seq(Keys) /\ Len(MoveToFront(o, k)) = Len(o)
         /\ \E at \in 1..Len(o) :
              /\ o[at] = k
              /\ \A j \in 1..Len(o) :
                   MoveToFront(o, k)[j] = IF j = 1 THEN k
                                          ELSE IF j <= at THEN o[j - 1] ELSE o[j]
<1> DEFINE at == CHOOSE i \in DOMAIN o : o[i] = k
<1>0. o \in Seq(Keys) /\ DOMAIN o = 1..Len(o) /\ Len(o) \in Nat
      /\ \A i \in 1..Len(o) : o[i] \in Keys
  BY LenProperties, ElementOfSeq DEF IsList
<1>1. at \in 1..Len(o) /\ o[at] = k
  BY <1>0 DEF ToSet
<1>2. k \in Keys
  BY <1>0, <1>1
<1>3. MoveToFront(o, k) =
        [j \in 1..Len(o) |-> IF j = 1 THEN k ELSE IF j <= at THEN o[j - 1] ELSE o[j]]
  BY <1>0 DEF MoveToFront
<1> HIDE DEF at
<1>4. \A j \in 1..Len(o) :
        (IF j = 1 THEN k ELSE IF j <= at THEN o[j - 1] ELSE o[j]) \in Keys
  BY <1>0, <1>1, <1>2
<1>5. MoveToFront(o, k) \in [1..Len(o) -> Keys]
  BY <1>3, <1>4
<1>6. MoveToFront(o, k) \in Seq(Keys) /\ Len(MoveToFront(o, k)) = Len(o)
  BY <1>0, <1>5, SeqDef
<1> QED BY <1>1, <1>3, <1>6

(* So it is a list of the same keys, and what is in front of a key other   *)
(* than k is what was there, and k.                                        *)
LEMMA MoveToFrontList ==
  ASSUME NEW o, IsList(o), NEW k \in ToSet(o)
  PROVE  /\ IsList(MoveToFront(o, k))
         /\ Len(MoveToFront(o, k)) = Len(o)
         /\ ToSet(MoveToFront(o, k)) = ToSet(o)
         /\ \A i \in 1..Len(o) :
              \/ MoveToFront(o, k)[i] = k /\ Before(MoveToFront(o, k), i) = {}
              \/ /\ MoveToFront(o, k)[i] # k
                 /\ \E h \in 1..Len(o) :
                      /\ o[h] = MoveToFront(o, k)[i]
                      /\ Before(MoveToFront(o, k), i) = Before(o, h) \cup {k}
<1> DEFINE m == MoveToFront(o, k)
<1>1. m \in Seq(Keys) /\ Len(m) = Len(o)
  BY MoveToFrontFacts
<1>2. PICK at \in 1..Len(o) :
        /\ o[at] = k
        /\ \A j \in 1..Len(o) : m[j] = IF j = 1 THEN k ELSE IF j <= at THEN o[j - 1] ELSE o[j]
  BY MoveToFrontFacts
<1>3. /\ o \in Seq(Keys) /\ DOMAIN o = 1..Len(o) /\ Len(o) \in Nat
      /\ \A i, j \in 1..Len(o) : o[i] = o[j] => i = j
      /\ DOMAIN m = 1..Len(o)
  BY <1>1, LenProperties DEF IsList
<1> HIDE DEF m
<1>4. m[1] = k /\ 1 \in 1..Len(o)
  BY <1>2, <1>3
<1>5. /\ \A j \in 1..Len(o) : j > at => m[j] = o[j]
      /\ \A j \in 1..Len(o) : j # 1 /\ j <= at => m[j] = o[j - 1]
  BY <1>2
<1>6. IsList(m)
  <2> SUFFICES ASSUME NEW i \in 1..Len(o), NEW j \in 1..Len(o), m[i] = m[j] PROVE i = j
    BY <1>1, <1>3 DEF IsList
  <2>1. PICK a \in 1..Len(o) : m[i] = o[a] /\ (i = 1 => a = at)
                              /\ (i # 1 /\ i <= at => a = i - 1) /\ (i > at /\ i # 1 => a = i)
    <3>1. CASE i = 1
      BY <3>1, <1>2, <1>4
    <3>2. CASE i # 1 /\ i <= at
      BY <3>2, <1>2, <1>3, <1>5
    <3>3. CASE i # 1 /\ i > at
      BY <3>3, <1>2, <1>3, <1>5
    <3> QED BY <3>1, <3>2, <3>3
  <2>2. PICK b \in 1..Len(o) : m[j] = o[b] /\ (j = 1 => b = at)
                              /\ (j # 1 /\ j <= at => b = j - 1) /\ (j > at /\ j # 1 => b = j)
    <3>1. CASE j = 1
      BY <3>1, <1>2, <1>4
    <3>2. CASE j # 1 /\ j <= at
      BY <3>2, <1>2, <1>3, <1>5
    <3>3. CASE j # 1 /\ j > at
      BY <3>3, <1>2, <1>3, <1>5
    <3> QED BY <3>1, <3>2, <3>3
  <2>3. a = b
    BY <1>3, <2>1, <2>2
  <2> QED BY <1>2, <1>3, <2>1, <2>2, <2>3
<1>7. ASSUME NEW i \in 1..Len(o)
      PROVE  \/ m[i] = k /\ Before(m, i) = {}
             \/ /\ m[i] # k
                /\ \E h \in 1..Len(o) : o[h] = m[i] /\ Before(m, i) = Before(o, h) \cup {k}
  <2>1. CASE i = 1
    BY <2>1, <1>4 DEF Before
  <2>2. CASE i # 1 /\ i <= at
    <3>1. m[i] = o[i - 1] /\ i - 1 \in 1..Len(o) /\ i - 1 # at
      BY <2>2, <1>2, <1>3, <1>5
    <3>2. m[i] # k
      BY <3>1, <1>2, <1>3
    <3>3. Before(m, i) = Before(o, i - 1) \cup {k}
      <4>1. ASSUME NEW x \in Before(m, i) PROVE x \in Before(o, i - 1) \cup {k}
        <5>1. PICK j \in 1..(i - 1) : x = m[j]
          BY DEF Before
        <5>2. CASE j = 1
          BY <5>1, <5>2, <1>4
        <5>3. CASE j # 1
          <6>1. x = o[j - 1] /\ j - 1 \in 1..((i - 1) - 1)
            BY <5>1, <5>3, <2>2, <1>2, <1>3, <1>5
          <6> QED BY <6>1 DEF Before
        <5> QED BY <5>2, <5>3
      <4>2. ASSUME NEW x \in Before(o, i - 1) PROVE x \in Before(m, i)
        <5>1. PICK j \in 1..((i - 1) - 1) : x = o[j]
          BY DEF Before
        <5>2. j + 1 \in 1..(i - 1) /\ m[j + 1] = o[j]
          <6>1. j + 1 \in 1..Len(o) /\ j + 1 # 1 /\ j + 1 <= at /\ (j + 1) - 1 = j
            BY <5>1, <2>2, <1>2, <1>3
          <6> QED BY <6>1, <5>1, <2>2, <1>5
        <5> QED BY <5>1, <5>2 DEF Before
      <4>3. k \in Before(m, i)
        BY <2>2, <1>3, <1>4 DEF Before
      <4> QED BY <4>1, <4>2, <4>3
    <3> QED BY <3>1, <3>2, <3>3
  <2>3. CASE i # 1 /\ i > at
    <3>1. m[i] = o[i] /\ i # at
      BY <2>3, <1>2, <1>3, <1>5
    <3>2. m[i] # k
      BY <3>1, <1>2, <1>3
    <3>3. Before(m, i) = Before(o, i) \cup {k}
      <4>1. ASSUME NEW x \in Before(m, i) PROVE x \in Before(o, i) \cup {k}
        <5>1. PICK j \in 1..(i - 1) : x = m[j]
          BY DEF Before
        <5>2. CASE j = 1
          BY <5>1, <5>2, <1>4
        <5>3. CASE j # 1 /\ j <= at
          <6>1. x = o[j - 1] /\ j - 1 \in 1..(i - 1)
            BY <5>1, <5>3, <1>3, <1>5
          <6> QED BY <6>1 DEF Before
        <5>4. CASE j # 1 /\ j > at
          <6>1. x = o[j]
            BY <5>1, <5>4, <1>3, <1>5
          <6> QED BY <6>1 DEF Before
        <5> QED BY <5>2, <5>3, <5>4, <1>2
      <4>2. ASSUME NEW x \in Before(o, i) PROVE x \in Before(m, i)
        <5>1. PICK j \in 1..(i - 1) : x = o[j]
          BY DEF Before
        <5>2. CASE j < at
          <6>1. j + 1 \in 1..Len(o) /\ j + 1 # 1 /\ j + 1 <= at /\ (j + 1) - 1 = j
                /\ j + 1 \in 1..(i - 1)
            BY <5>1, <5>2, <2>3, <1>2, <1>3
          <6> QED BY <6>1, <5>1, <1>5 DEF Before
        <5>3. CASE j = at
          <6>1. x = m[1] /\ 1 \in 1..(i - 1)
            BY <5>1, <5>3, <2>3, <1>2, <1>4
          <6> QED BY <6>1 DEF Before
        <5>4. CASE j > at
          <6>1. x = m[j]
            BY <5>1, <5>4, <1>3, <1>5
          <6> QED BY <6>1 DEF Before
        <5> QED BY <5>2, <5>3, <5>4, <1>2
      <4>3. k \in Before(m, i)
        BY <2>3, <1>3, <1>4 DEF Before
      <4> QED BY <4>1, <4>2, <4>3
    <3> QED BY <3>1, <3>2, <3>3
  <2>4. i = 1 \/ (i # 1 /\ i <= at) \/ (i # 1 /\ i > at)
    BY <1>2
  <2> QED BY <2>1, <2>2, <2>3, <2>4
<1>8. ToSet(m) = ToSet(o)
  <2>1. ASSUME NEW i \in 1..Len(o) PROVE m[i] \in ToSet(o)
    BY <1>2, <1>3, <1>7 DEF ToSet
  <2>2. ASSUME NEW j \in 1..Len(o) PROVE o[j] \in ToSet(m)
    <3>1. CASE j < at
      <4>1. j + 1 \in 1..Len(o) /\ j + 1 # 1 /\ j + 1 <= at /\ (j + 1) - 1 = j
        BY <3>1, <1>2, <1>3
      <4> QED BY <4>1, <1>3, <1>5 DEF ToSet
    <3>2. CASE j = at
      BY <3>2, <1>2, <1>3, <1>4 DEF ToSet
    <3>3. CASE j > at
      BY <3>3, <1>3, <1>5 DEF ToSet
    <3> QED BY <3>1, <3>2, <3>3, <1>2
  <2>3. ToSet(m) \subseteq ToSet(o)
    BY <2>1, <1>3 DEF ToSet
  <2>4. ToSet(o) \subseteq ToSet(m)
    BY <2>2, <1>3 DEF ToSet
  <2> QED BY <2>3, <2>4
<1> QED BY <1>1, <1>6, <1>7, <1>8 DEF m

(* A list counts its keys. *)
LEMMA ListCounts ==
  ASSUME NEW o, IsList(o), NEW n \in 0..Len(o)
  PROVE  IsFiniteSet({o[j] : j \in 1..n}) /\ Cardinality({o[j] : j \in 1..n}) = n
<1> DEFINE S == {o[j] : j \in 1..n}
           f == [j \in 1..n |-> o[j]]
<1>0. o \in Seq(Keys) /\ DOMAIN o = 1..Len(o) /\ Len(o) \in Nat /\ n \in Nat
      /\ \A i, j \in 1..Len(o) : o[i] = o[j] => i = j
  BY LenProperties DEF IsList
<1>1. f \in Bijection(1..n, S)
  BY <1>0 DEF Bijection, Injection, Surjection, IsInjective
<1>2. ExistsBijection(1..n, S)
  BY <1>1 DEF ExistsBijection
<1>3. IsFiniteSet(1..n) /\ Cardinality(1..n) = n
  BY <1>0, FS_Interval
<1> QED BY <1>2, <1>3, FS_Bijection

(* Put in front of a list that does not have it, k pushes all others back. *)
LEMMA InsertList ==
  ASSUME NEW o, IsList(o), NEW k \in Keys, k \notin ToSet(o)
  PROVE  /\ IsList(<<k>> \o o)
         /\ Len(<<k>> \o o) = Len(o) + 1
         /\ ToSet(<<k>> \o o) = ToSet(o) \cup {k}
         /\ \A i \in 1..(Len(o) + 1) :
              \/ (<<k>> \o o)[i] = k /\ Before(<<k>> \o o, i) = {}
              \/ /\ (<<k>> \o o)[i] # k /\ i - 1 \in 1..Len(o)
                 /\ o[i - 1] = (<<k>> \o o)[i]
                 /\ Before(<<k>> \o o, i) = Before(o, i - 1) \cup {k}
<1> DEFINE m == <<k>> \o o
<1>1. /\ o \in Seq(Keys) /\ DOMAIN o = 1..Len(o) /\ Len(o) \in Nat
      /\ \A i, j \in 1..Len(o) : o[i] = o[j] => i = j
      /\ \A i \in 1..Len(o) : o[i] # k
  BY LenProperties DEF IsList, ToSet
<1>2. <<k>> \in Seq(Keys) /\ Len(<<k>>) = 1 /\ <<k>>[1] = k
  OBVIOUS
<1>3. /\ m \in Seq(Keys) /\ Len(m) = Len(o) + 1
      /\ \A i \in 1..(Len(o) + 1) : m[i] = IF i <= 1 THEN <<k>>[i] ELSE o[i - 1]
  BY <1>1, <1>2, ConcatProperties
<1> HIDE DEF m
<1>4. /\ DOMAIN m = 1..(Len(o) + 1) /\ m[1] = k
      /\ \A i \in 1..(Len(o) + 1) : i # 1 => m[i] = o[i - 1] /\ i - 1 \in 1..Len(o) /\ m[i] # k
  BY <1>1, <1>2, <1>3, LenProperties
<1>5. IsList(m)
  <2> SUFFICES ASSUME NEW i \in 1..(Len(o) + 1), NEW j \in 1..(Len(o) + 1), m[i] = m[j]
               PROVE  i = j
    BY <1>3, <1>4 DEF IsList
  <2>1. CASE i = 1 \/ j = 1
    BY <2>1, <1>4
  <2>2. CASE i # 1 /\ j # 1
    <3>1. o[i - 1] = o[j - 1] /\ i - 1 \in 1..Len(o) /\ j - 1 \in 1..Len(o)
      BY <2>2, <1>4
    <3>2. i - 1 = j - 1
      BY <3>1, <1>1
    <3> QED BY <3>2, <1>1
  <2> QED BY <2>1, <2>2
<1>6. ToSet(m) = ToSet(o) \cup {k}
  <2>1. ASSUME NEW j \in 1..Len(o) PROVE o[j] \in ToSet(m)
    <3>1. j + 1 \in 1..(Len(o) + 1) /\ j + 1 # 1 /\ (j + 1) - 1 = j
      BY <1>1
    <3> QED BY <3>1, <1>4 DEF ToSet
  <2>2. ToSet(o) \cup {k} \subseteq ToSet(m)
    BY <2>1, <1>1, <1>4 DEF ToSet
  <2>3. ToSet(m) \subseteq ToSet(o) \cup {k}
    BY <1>1, <1>4 DEF ToSet
  <2> QED BY <2>2, <2>3
<1>7. ASSUME NEW i \in 1..(Len(o) + 1), i # 1
      PROVE  Before(m, i) = Before(o, i - 1) \cup {k}
  <2>1. ASSUME NEW j \in 1..(i - 1) PROVE m[j] \in Before(o, i - 1) \cup {k}
    <3>1. CASE j = 1
      BY <3>1, <1>4
    <3>2. CASE j # 1
      <4>1. j \in 1..(Len(o) + 1) /\ j - 1 \in 1..((i - 1) - 1)
        BY <3>2, <1>1, <1>7
      <4> QED BY <4>1, <3>2, <1>4 DEF Before
    <3> QED BY <3>1, <3>2
  <2>2. ASSUME NEW j \in 1..((i - 1) - 1) PROVE o[j] \in Before(m, i)
    <3>1. j + 1 \in 1..(i - 1) /\ j + 1 \in 1..(Len(o) + 1) /\ j + 1 # 1 /\ (j + 1) - 1 = j
      BY <1>1, <1>7
    <3> QED BY <3>1, <1>4 DEF Before
  <2>3. k \in Before(m, i)
    BY <1>1, <1>4, <1>7 DEF Before
  <2>4. Before(m, i) \subseteq Before(o, i - 1) \cup {k}
    BY <2>1 DEF Before
  <2>5. Before(o, i - 1) \subseteq Before(m, i)
    BY <2>2 DEF Before
  <2> QED BY <2>3, <2>4, <2>5
<1>8. Before(m, 1) = {}
  BY DEF Before
<1>9. ASSUME NEW i \in 1..(Len(o) + 1)
      PROVE  \/ m[i] = k /\ Before(m, i) = {}
             \/ /\ m[i] # k /\ i - 1 \in 1..Len(o) /\ o[i - 1] = m[i]
                /\ Before(m, i) = Before(o, i - 1) \cup {k}
  BY <1>4, <1>7, <1>8
<1> QED BY <1>3, <1>5, <1>6, <1>9 DEF m

-----------------------------------------------------------------------------
(* The history.                                                            *)

(* The keys touched after the last touch of x in a history h. *)
Since(h, x) ==
  {h[i] : i \in {i \in DOMAIN h : \A j \in DOMAIN h : h[j] = x => j < i}}

(* A touch of k comes after those of all others, and nothing after it. *)
LEMMA TouchHistory ==
  ASSUME NEW h \in Seq(Keys), NEW k \in Keys
  PROVE  /\ Append(h, k) \in Seq(Keys)
         /\ ToSet(Append(h, k)) = ToSet(h) \cup {k}
         /\ Since(Append(h, k), k) = {}
         /\ \A x : x # k => Since(Append(h, k), x) = Since(h, x) \cup {k}
<1> DEFINE n == Len(h)
           g == Append(h, k)
<1>1. /\ n \in Nat /\ DOMAIN h = 1..n /\ DOMAIN g = 1..(n + 1)
      /\ g \in Seq(Keys)
      /\ \A i \in 1..n : g[i] = h[i]
      /\ g[n + 1] = k
  BY LenProperties, AppendProperties
<1> HIDE DEF n, g
<1>2. ToSet(g) = ToSet(h) \cup {k}
  <2>1. ToSet(g) \subseteq ToSet(h) \cup {k}
    BY <1>1 DEF ToSet
  <2>2. \A i \in 1..n : i \in 1..(n + 1)
    BY <1>1
  <2>3. n + 1 \in 1..(n + 1)
    BY <1>1
  <2>4. ToSet(h) \cup {k} \subseteq ToSet(g)
    BY <1>1, <2>2, <2>3 DEF ToSet
  <2> QED BY <2>1, <2>4
<1>3. Since(g, k) = {}
  <2> SUFFICES ASSUME NEW i \in 1..(n + 1), \A j \in 1..(n + 1) : g[j] = k => j < i
               PROVE  FALSE
    BY <1>1 DEF Since
  <2>1. n + 1 < i
    BY <1>1
  <2> QED BY <1>1, <2>1
<1>4. ASSUME NEW x, x # k PROVE Since(g, x) = Since(h, x) \cup {k}
  <2> DEFINE After(i) == \A j \in 1..n : h[j] = x => j < i
  <2>1. \A i \in 1..(n + 1) : (\A j \in 1..(n + 1) : g[j] = x => j < i) <=> After(i)
    BY <1>1, <1>4
  <2>2. Since(g, x) = {g[i] : i \in {i \in 1..(n + 1) : After(i)}}
    <3>1. Since(g, x) =
            {g[i] : i \in {i \in 1..(n + 1) : \A j \in 1..(n + 1) : g[j] = x => j < i}}
      BY <1>1 DEF Since
    <3>2. {i \in 1..(n + 1) : \A j \in 1..(n + 1) : g[j] = x => j < i}
            = {i \in 1..(n + 1) : After(i)}
      BY <2>1
    <3> QED BY <3>1, <3>2
  <2>3. Since(h, x) = {h[i] : i \in {i \in 1..n : After(i)}}
    BY <1>1 DEF Since
  <2>4. After(n + 1)
    BY <1>1
  <2> HIDE DEF After
  <2>5. \A i \in 1..n : i \in 1..(n + 1)
    BY <1>1
  <2>6. \A i \in 1..(n + 1) : i \in 1..n \/ i = n + 1
    BY <1>1
  <2>7. n + 1 \in 1..(n + 1)
    BY <1>1
  <2>8. Since(g, x) \subseteq Since(h, x) \cup {k}
    BY <1>1, <2>2, <2>3, <2>6
  <2>9. Since(h, x) \subseteq Since(g, x)
    BY <1>1, <2>2, <2>3, <2>5
  <2>10. k \in Since(g, x)
    BY <1>1, <2>2, <2>4, <2>7
  <2> QED BY <2>8, <2>9, <2>10
<1> QED BY <1>1, <1>2, <1>3, <1>4 DEF g

(* What was touched is finite. *)
LEMMA SinceFinite ==
  ASSUME NEW h \in Seq(Keys), NEW x
  PROVE  IsFiniteSet(Since(h, x))
<1> DEFINE D == {i \in DOMAIN h : \A j \in DOMAIN h : h[j] = x => j < i}
           f == [i \in D |-> h[i]]
<1>1. DOMAIN h = 1..Len(h) /\ Len(h) \in Nat
  BY LenProperties
<1>2. IsFiniteSet(1..Len(h)) /\ D \in SUBSET (1..Len(h))
  BY <1>1, FS_Interval
<1>3. IsFiniteSet(D)
  BY <1>2, FS_Subset
<1>4. Since(h, x) = {h[i] : i \in D}
  BY DEF Since
<1> HIDE DEF D
<1>5. f \in Surjection(D, Since(h, x))
  BY <1>4 DEF Surjection
<1> HIDE DEF f
<1> QED BY <1>3, <1>5, FS_Surjection

-----------------------------------------------------------------------------
(* The invariant.                                                          *)

(* Map and list are in step. *)
Shape ==
  /\ maxSize \in Nat
  /\ history \in Seq(Keys)
  /\ cache = [items |-> cache.items, order |-> cache.order]
  /\ IsList(cache.order)
  /\ ToSet(cache.order) = DOMAIN cache.items
  /\ Len(cache.order) <= Capacity

(* A list o after a history h: what is in front of a key is what was       *)
(* touched after it, and a key that was touched and is not there gave way  *)
(* to a full list of keys touched later.                                   *)
Recent(o, h, room) ==
  /\ ToSet(o) \subseteq ToSet(h)
  /\ \A i \in 1..Len(o) : Since(h, o[i]) = Before(o, i)
  /\ \A x \in ToSet(h) \ ToSet(o) : Len(o) = room /\ ToSet(o) \subseteq Since(h, x)

(* An entry is what was put last. *)
Entries ==
  \A k \in DOMAIN cache.items : k \in DOMAIN written /\ cache.items[k] = written[k]

CacheInv == Shape /\ Recent(cache.order, history, Capacity) /\ Entries

(* A touch of k that turns the list o into m keeps it Recent. *)
LEMMA TouchKeepsRecent ==
  ASSUME NEW o, IsList(o), NEW h \in Seq(Keys), NEW room, Recent(o, h, room),
         NEW k \in Keys, NEW m, IsList(m), k \in ToSet(m),
         \A i \in 1..Len(m) :
           \/ m[i] = k /\ Before(m, i) = {}
           \/ /\ m[i] # k
              /\ \E a \in 1..Len(o) : o[a] = m[i] /\ Before(m, i) = Before(o, a) \cup {k},
         \A x \in ToSet(h) \ ToSet(m) : Len(m) = room /\ ToSet(m) \subseteq Since(h, x) \cup {k}
  PROVE  Recent(m, Append(h, k), room)
<1> DEFINE g == Append(h, k)
<1>1. /\ ToSet(g) = ToSet(h) \cup {k} /\ Since(g, k) = {}
      /\ \A x : x # k => Since(g, x) = Since(h, x) \cup {k}
  BY TouchHistory
<1> HIDE DEF g
<1>2. DOMAIN m = 1..Len(m) /\ DOMAIN o = 1..Len(o)
  BY LenProperties DEF IsList
<1>3. ASSUME NEW i \in 1..Len(m)
      PROVE  m[i] \in ToSet(g) /\ Since(g, m[i]) = Before(m, i)
  <2>1. CASE m[i] = k
    BY <2>1, <1>1
  <2>2. CASE m[i] # k
    <3>1. PICK a \in 1..Len(o) : o[a] = m[i] /\ Before(m, i) = Before(o, a) \cup {k}
      BY <2>2
    <3>2. o[a] \in ToSet(h) /\ Since(h, o[a]) = Before(o, a)
      BY <1>2 DEF Recent, ToSet
    <3> QED BY <1>1, <2>2, <3>1, <3>2
  <2> QED BY <2>1, <2>2
<1>4. ToSet(m) \subseteq ToSet(g)
  <2>1. ToSet(m) = {m[i] : i \in 1..Len(m)}
    BY <1>2 DEF ToSet
  <2> QED BY <1>3, <2>1
<1>5. ASSUME NEW x \in ToSet(g) \ ToSet(m)
      PROVE  Len(m) = room /\ ToSet(m) \subseteq Since(g, x)
  <2>1. x # k /\ x \in ToSet(h)
    BY <1>1
  <2> QED BY <1>1, <1>5, <2>1
<1> QED BY <1>3, <1>4, <1>5 DEF Recent, g

(* Moved to the front, a cached key is the most recent one. *)
LEMMA MoveKeepsRecent ==
  ASSUME NEW o, IsList(o), NEW h \in Seq(Keys), NEW room, Recent(o, h, room),
         NEW k \in ToSet(o)
  PROVE  /\ k \in Keys
         /\ Recent(MoveToFront(o, k), Append(h, k), room)
<1> DEFINE m == MoveToFront(o, k)
<1>1. k \in Keys
  <2>1. \A i \in DOMAIN o : o[i] \in Keys
    BY LenProperties, ElementOfSeq DEF IsList
  <2> QED BY <2>1 DEF ToSet
<1>2. IsList(m) /\ Len(m) = Len(o) /\ ToSet(m) = ToSet(o)
  BY MoveToFrontList
<1>3. \A i \in 1..Len(o) :
        \/ m[i] = k /\ Before(m, i) = {}
        \/ /\ m[i] # k
           /\ \E a \in 1..Len(o) : o[a] = m[i] /\ Before(m, i) = Before(o, a) \cup {k}
  BY MoveToFrontList
<1> HIDE DEF m
<1>4. \A x \in ToSet(h) \ ToSet(m) : Len(m) = room /\ ToSet(m) \subseteq Since(h, x) \cup {k}
  BY <1>2 DEF Recent
<1>5. Recent(m, Append(h, k), room)
  BY <1>1, <1>2, <1>3, <1>4, TouchKeepsRecent
<1> QED BY <1>1, <1>5 DEF m

(* EvictOldest makes room: the last key goes if the list is full. *)
LEMMA EvictFacts ==
  ASSUME Shape
  PROVE  LET e == EvictOldest(cache, maxSize)
             o == cache.order
         IN  /\ IsList(e.order)
             /\ Len(e.order) = IF Len(o) = Capacity THEN Len(o) - 1 ELSE Len(o)
             /\ \A i \in 1..Len(e.order) : i \in 1..Len(o) /\ e.order[i] = o[i]
             /\ DOMAIN e.items = ToSet(e.order)
             /\ DOMAIN e.items \subseteq DOMAIN cache.items
             /\ \A x \in DOMAIN e.items : e.items[x] = cache.items[x]
<1> DEFINE e == EvictOldest(cache, maxSize)
           o == cache.order
           n == Len(o)
<1>0. /\ o \in Seq(Keys) /\ DOMAIN o = 1..n /\ n \in Nat
      /\ \A i, j \in 1..n : o[i] = o[j] => i = j
      /\ ToSet(o) = DOMAIN cache.items
      /\ n <= Capacity /\ maxSize \in Nat
      /\ o = <<>> <=> n = 0
  BY LenProperties, EmptySeq DEF Shape, IsList
<1>1. (Len(o) >= maxSize /\ o # <<>>) <=> n = Capacity
  BY <1>0 DEF Capacity
<1>2. CASE n = Capacity
  <2>0. n >= 1 /\ n - 1 \in Nat
    BY <1>0, <1>2 DEF Capacity
  <2>1. /\ e.items = [k \in DOMAIN cache.items \ {Last(o)} |-> cache.items[k]]
        /\ e.order = Front(o)
    BY <1>1, <1>2 DEF EvictOldest
  <2>2. /\ e.order \in Seq(Keys) /\ Len(e.order) = n - 1
        /\ \A i \in 1..(n - 1) : e.order[i] = o[i]
    <3>1. \A i \in 1..(n - 1) : o[i] \in Keys
      BY <1>0, ElementOfSeq
    <3>2. /\ SubSeq(o, 1, n - 1) \in Seq(Keys)
          /\ Len(SubSeq(o, 1, n - 1)) = IF 1 <= n - 1 THEN (n - 1) - 1 + 1 ELSE 0
          /\ \A i \in 1..((n - 1) - 1 + 1) : SubSeq(o, 1, n - 1)[i] = o[1 + i - 1]
      BY <1>0, <3>1, SubSeqProperties
    <3> QED BY <1>0, <2>0, <2>1, <3>2 DEF Front
  <2>3. DOMAIN e.order = 1..(n - 1)
    BY <2>2, LenProperties
  <2>4. \A i \in 1..(n - 1) : i \in 1..n /\ i # n
    BY <1>0
  <2>5. IsList(e.order)
    BY <1>0, <2>2, <2>3, <2>4 DEF IsList
  <2>7. DOMAIN e.items = DOMAIN cache.items \ {o[n]}
        /\ \A x \in DOMAIN e.items : e.items[x] = cache.items[x]
    BY <2>1 DEF Last
  <2> HIDE DEF e, o, n
  <2>6. ToSet(e.order) = DOMAIN cache.items \ {o[n]}
    <3>1. n \in 1..n /\ \A i \in 1..n : i # n => i \in 1..(n - 1)
      BY <1>0, <2>0
    <3>2. ASSUME NEW i \in 1..(n - 1) PROVE e.order[i] \in ToSet(o) \ {o[n]}
      <4>1. i \in 1..n /\ i # n /\ e.order[i] = o[i]
        BY <2>2, <2>4
      <4>2. o[i] # o[n]
        BY <1>0, <3>1, <4>1
      <4> QED BY <1>0, <4>1, <4>2 DEF ToSet
    <3>3. ASSUME NEW x \in ToSet(o) \ {o[n]} PROVE x \in ToSet(e.order)
      <4>1. PICK i \in 1..n : x = o[i] /\ i # n
        BY <1>0 DEF ToSet
      <4> QED BY <2>2, <2>3, <3>1, <4>1 DEF ToSet
    <3>4. ToSet(e.order) = {e.order[i] : i \in 1..(n - 1)}
      BY <2>3 DEF ToSet
    <3> QED BY <1>0, <3>2, <3>3, <3>4
  <2> QED BY <1>2, <2>2, <2>4, <2>5, <2>6, <2>7 DEF e, o, n
<1>3. CASE n # Capacity
  <2>1. e = cache
    BY <1>1, <1>3 DEF EvictOldest
  <2> QED BY <1>0, <1>3, <2>1 DEF Shape
<1> QED BY <1>2, <1>3

(* A new key in front, after the eviction, is the most recent one. *)
LEMMA InsertKeepsRecent ==
  ASSUME Shape, Recent(cache.order, history, Capacity), NEW k \in Keys, k \notin DOMAIN cache.items
  PROVE  LET e == EvictOldest(cache, maxSize)
             m == <<k>> \o e.order
         IN  /\ IsList(m) /\ Len(m) <= Capacity
             /\ ToSet(m) = DOMAIN e.items \cup {k}
             /\ Recent(m, Append(history, k), Capacity)
<1> DEFINE e == EvictOldest(cache, maxSize)
           o == cache.order
           p == e.order
           m == <<k>> \o p
           n == Len(o)
<1>1. /\ IsList(p)
      /\ Len(p) = IF n = Capacity THEN n - 1 ELSE n
      /\ \A i \in 1..Len(p) : i \in 1..n /\ p[i] = o[i]
      /\ DOMAIN e.items = ToSet(p)
      /\ DOMAIN e.items \subseteq DOMAIN cache.items
  BY EvictFacts
<1>2. /\ IsList(o) /\ o \in Seq(Keys) /\ DOMAIN o = 1..n /\ n \in Nat /\ n <= Capacity
      /\ DOMAIN p = 1..Len(p) /\ Len(p) \in Nat
      /\ maxSize \in Nat /\ Capacity \in Nat \ {0} /\ history \in Seq(Keys)
      /\ ToSet(o) = DOMAIN cache.items
  BY <1>1, LenProperties DEF Shape, IsList, Capacity
<1> HIDE DEF e, o, p, n
<1>3. k \notin ToSet(p)
  BY <1>1
<1>4. /\ IsList(m) /\ Len(m) = Len(p) + 1 /\ ToSet(m) = ToSet(p) \cup {k}
      /\ \A i \in 1..(Len(p) + 1) :
           \/ m[i] = k /\ Before(m, i) = {}
           \/ /\ m[i] # k /\ i - 1 \in 1..Len(p) /\ p[i - 1] = m[i]
              /\ Before(m, i) = Before(p, i - 1) \cup {k}
  BY <1>1, <1>3, InsertList
<1> HIDE DEF m
<1>5. Len(m) <= Capacity /\ (n = Capacity => Len(m) = Capacity)
  BY <1>1, <1>2, <1>4
<1>6. ASSUME NEW i \in 1..Len(p) PROVE Before(p, i) = Before(o, i)
  <2>1. \A j \in 1..(i - 1) : j \in 1..Len(p)
    BY <1>2
  <2>2. \A j \in 1..(i - 1) : p[j] = o[j]
    BY <1>1, <2>1
  <2> QED BY <2>2 DEF Before
<1>7. ASSUME NEW i \in 1..Len(m)
      PROVE  \/ m[i] = k /\ Before(m, i) = {}
             \/ /\ m[i] # k
                /\ \E a \in 1..n : o[a] = m[i] /\ Before(m, i) = Before(o, a) \cup {k}
  BY <1>1, <1>4, <1>6
<1>8. ToSet(p) \subseteq ToSet(o)
  BY <1>1, <1>2
<1>9. Recent(o, history, Capacity)
  BY DEF o
<1>10. ASSUME NEW x \in ToSet(history) \ ToSet(m)
       PROVE  Len(m) = Capacity /\ ToSet(m) \subseteq Since(history, x) \cup {k}
  <2>1. CASE x \notin ToSet(o)
    BY <1>4, <1>5, <1>8, <1>9, <2>1 DEF Recent, n
  <2>2. CASE x \in ToSet(o)
    <3>1. PICK a \in 1..n : x = o[a]
      BY <1>2, <2>2 DEF ToSet
    <3>2. a \notin 1..Len(p)
      <4> SUFFICES ASSUME a \in 1..Len(p) PROVE FALSE
        OBVIOUS
      <4>1. x \in ToSet(p)
        BY <1>1, <1>2, <3>1 DEF ToSet
      <4> QED BY <1>4, <4>1
    <3>3. n = Capacity /\ a = n /\ Len(p) = n - 1
      BY <1>1, <1>2, <3>2
    <3>4. Since(history, x) = Before(o, n)
      BY <1>9, <3>1, <3>3 DEF Recent, n
    <3>5. ToSet(p) \subseteq Before(o, n)
      <4>1. ToSet(p) = {p[i] : i \in 1..(n - 1)}
        BY <1>2, <3>3 DEF ToSet
      <4>2. \A i \in 1..(n - 1) : p[i] = o[i]
        BY <1>1, <3>3
      <4> QED BY <4>1, <4>2 DEF Before
    <3> QED BY <1>4, <1>5, <3>3, <3>4, <3>5
  <2> QED BY <2>1, <2>2
<1>11. k \in ToSet(m)
  BY <1>4
<1>12. Recent(m, Append(history, k), Capacity)
  BY <1>2, <1>4, <1>7, <1>9, <1>10, <1>11, TouchKeepsRecent DEF n
<1> QED BY <1>1, <1>4, <1>5, <1>12 DEF m, p, e

-----------------------------------------------------------------------------
(* The calls.                                                              *)

(* Get of a cached key. *)
LEMMA GetStep ==
  ASSUME CacheInv, NEW k \in Keys, DoGet(k)
  PROVE  CacheInv'
<1>1. /\ k \in DOMAIN cache.items /\ history' = Append(history, k)
      /\ cache' = [items |-> cache.items, order |-> MoveToFront(cache.order, k)]
      /\ maxSize' = maxSize /\ written' = written
  BY DEF DoGet, Cached, Touch, CacheInv, Shape
<1>2. /\ IsList(cache.order) /\ k \in ToSet(cache.order) /\ history \in Seq(Keys)
      /\ maxSize \in Nat /\ Capacity' = Capacity
      /\ ToSet(cache.order) = DOMAIN cache.items /\ Len(cache.order) <= Capacity
  BY <1>1 DEF CacheInv, Shape, Capacity
<1> DEFINE m == MoveToFront(cache.order, k)
<1>3. IsList(m) /\ Len(m) = Len(cache.order) /\ ToSet(m) = ToSet(cache.order)
  BY <1>2, MoveToFrontList
<1>4. Recent(m, Append(history, k), Capacity)
  BY <1>2, MoveKeepsRecent DEF CacheInv
<1>5. cache'.items = cache.items /\ cache'.order = m
  BY <1>1
<1>6. history' \in Seq(Keys)
  BY <1>1, <1>2, TouchHistory
<1> HIDE DEF m
<1>7. Shape'
  BY <1>1, <1>2, <1>3, <1>5, <1>6 DEF Shape
<1>8. Recent(cache.order, history, Capacity)'
  BY <1>1, <1>2, <1>4, <1>5
<1>9. Entries'
  BY <1>1, <1>5 DEF CacheInv, Entries
<1> QED BY <1>7, <1>8, <1>9 DEF CacheInv

(* Put, of a cached key and of a new one. *)
LEMMA PutStep ==
  ASSUME CacheInv, NEW k \in Keys, NEW v, DoPut(k, v)
  PROVE  CacheInv'
<1> DEFINE e == EvictOldest(cache, maxSize)
<1>1. /\ history' = Append(history, k) /\ maxSize' = maxSize
      /\ cache' = Put(cache, k, v, maxSize)
      /\ written' = [x \in DOMAIN written \cup {k} |-> IF x = k THEN v ELSE written[x]]
      /\ maxSize \in Nat /\ Capacity' = Capacity /\ history \in Seq(Keys)
  BY DEF DoPut, CacheInv, Shape, Capacity
<1>2. history' \in Seq(Keys)
  BY <1>1, TouchHistory
<1>3. CASE k \in DOMAIN cache.items
  <2> DEFINE m == MoveToFront(cache.order, k)
  <2>1. cache' = [items |-> [cache.items EXCEPT ![k] = v], order |-> m]
    BY <1>1, <1>3 DEF Put, Cached, Overwrite
  <2>2. /\ IsList(cache.order) /\ k \in ToSet(cache.order)
        /\ ToSet(cache.order) = DOMAIN cache.items /\ Len(cache.order) <= Capacity
    BY <1>3 DEF CacheInv, Shape
  <2>3. IsList(m) /\ Len(m) = Len(cache.order) /\ ToSet(m) = ToSet(cache.order)
    BY <2>2, MoveToFrontList
  <2>4. Recent(m, Append(history, k), Capacity)
    BY <1>1, <2>2, MoveKeepsRecent DEF CacheInv
  <2>5. /\ cache'.order = m /\ DOMAIN cache'.items = DOMAIN cache.items
        /\ \A x \in DOMAIN cache.items : cache'.items[x] = IF x = k THEN v ELSE cache.items[x]
        /\ cache' = [items |-> cache'.items, order |-> cache'.order]
    BY <2>1
  <2> HIDE DEF m
  <2>6. Shape'
    BY <1>1, <1>2, <2>2, <2>3, <2>5 DEF Shape
  <2>7. Recent(cache.order, history, Capacity)'
    BY <1>1, <2>4, <2>5
  <2>8. Entries'
    BY <1>1, <2>5 DEF CacheInv, Entries
  <2> QED BY <2>6, <2>7, <2>8 DEF CacheInv
<1>4. CASE k \notin DOMAIN cache.items
  <2> DEFINE m == <<k>> \o e.order
  <2>1. cache' = [items |-> [x \in DOMAIN e.items \cup {k} |-> IF x = k THEN v ELSE e.items[x]],
                  order |-> m]
    BY <1>1, <1>4 DEF Put, Cached, Insert
  <2>2. /\ IsList(m) /\ Len(m) <= Capacity /\ ToSet(m) = DOMAIN e.items \cup {k}
        /\ Recent(m, Append(history, k), Capacity)
    BY <1>4, InsertKeepsRecent DEF CacheInv
  <2>3. /\ DOMAIN e.items \subseteq DOMAIN cache.items
        /\ \A x \in DOMAIN e.items : e.items[x] = cache.items[x]
    BY EvictFacts DEF CacheInv
  <2> HIDE DEF e, m
  <2>4. /\ cache'.order = m /\ DOMAIN cache'.items = DOMAIN e.items \cup {k}
        /\ \A x \in DOMAIN e.items \cup {k} :
             cache'.items[x] = IF x = k THEN v ELSE e.items[x]
        /\ cache' = [items |-> cache'.items, order |-> cache'.order]
    BY <2>1
  <2>5. Shape'
    BY <1>1, <1>2, <2>2, <2>4 DEF Shape, IsList, ToSet
  <2>6. Recent(cache.order, history, Capacity)'
    BY <1>1, <2>2, <2>4
  <2>7. Entries'
    BY <1>1, <1>4, <2>3, <2>4 DEF CacheInv, Entries
  <2> QED BY <2>5, <2>6, <2>7 DEF CacheInv
<1> QED BY <1>3, <1>4

(* An empty cache and an empty history. *)
LEMMA EmptyInv ==
  ASSUME maxSize \in Nat, cache = EmptyCache, history = <<>>
  PROVE  CacheInv
<1>1. cache.items = <<>> /\ cache.order = <<>> /\ cache = [items |-> <<>>, order |-> <<>>]
  BY DEF EmptyCache
<1>2. /\ <<>> \in Seq(Keys) /\ Len(<<>>) = 0 /\ DOMAIN <<>> = {}
  OBVIOUS
<1>3. IsList(<<>>) /\ ToSet(<<>>) = {}
  BY <1>2 DEF IsList, ToSet
<1>4. Shape
  BY <1>1, <1>2, <1>3 DEF Shape, Capacity
<1>5. Recent(<<>>, <<>>, Capacity)
  BY <1>2, <1>3 DEF Recent
<1>6. Entries
  BY <1>1, <1>2 DEF Entries
<1> QED BY <1>1, <1>4, <1>5, <1>6 DEF CacheInv

(* CacheInv holds in every reachable state. *)
LEMMA CacheInvariant == Spec => []CacheInv
<1>1. Init => CacheInv
  BY EmptyInv, SizesAssumption DEF Init
<1>2. CacheInv /\ [Next]_vars => CacheInv'
  <2> SUFFICES ASSUME CacheInv, [Next]_vars PROVE CacheInv'
    OBVIOUS
  <2>1. CASE DoInvalidate
    <3>1. maxSize' \in Nat /\ cache' = EmptyCache /\ history' = <<>>
      BY <2>1 DEF DoInvalidate, CacheInv, Shape
    <3>2. (maxSize \in Nat /\ cache = EmptyCache /\ history = <<>> => CacheInv)'
      BY EmptyInv, PTL
    <3> QED BY <3>1, <3>2 DEF EmptyCache
  <2>2. CASE UNCHANGED vars
    BY <2>2 DEF vars, CacheInv, Shape, Entries, Capacity, Recent
  <2> QED BY <2>1, <2>2, GetStep, PutStep DEF Next
<1> QED BY <1>1, <1>2, PTL DEF Spec

(* cache.go: map and list hold the same keys, each once, and never more    *)
(* than the cache may hold, for any size (0 included).                     *)
THEOREM MapAndListInStep == Spec => []CacheConsistent
<1>1. CacheInv => CacheConsistent
  BY DEF CacheInv, Shape, CacheConsistent, Consistent, IsList, Capacity
<1> QED BY <1>1, CacheInvariant, PTL

(* cache.go Get/Put are "least recently used": what is cached is what was  *)
(* touched with fewer than the capacity's number of keys since, and its    *)
(* entry is what was put last, after any sequence of calls.                *)
THEOREM LeastRecentlyUsed == Spec => []HoldsMostRecent
<1>1. CacheInv => HoldsMostRecent
  <2> SUFFICES ASSUME CacheInv PROVE HoldsMostRecent
    OBVIOUS
  <2> DEFINE o == cache.order
             n == Len(o)
  <2>1. /\ IsList(o) /\ DOMAIN o = 1..n /\ n \in Nat /\ n <= Capacity /\ Capacity \in Nat
        /\ ToSet(o) = DOMAIN cache.items /\ history \in Seq(Keys)
        /\ Recent(o, history, Capacity)
    BY LenProperties DEF CacheInv, Shape, IsList, Capacity
  <2> HIDE DEF o
  <2>2. \A x : TouchedSince(x) = Since(history, x)
    BY DEF TouchedSince, Since
  <2>3. ASSUME NEW k \in DOMAIN cache.items
        PROVE  k \in ToSet(history) /\ Cardinality(Since(history, k)) < Capacity
    <3>1. PICK i \in 1..n : k = o[i]
      BY <2>1 DEF ToSet
    <3>2. k \in ToSet(history) /\ Since(history, k) = Before(o, i)
      BY <2>1, <3>1 DEF Recent
    <3>3. Cardinality(Before(o, i)) = i - 1
      <4>1. i - 1 \in 0..n
        BY <2>1
      <4> QED BY <2>1, <4>1, ListCounts DEF Before
    <3> QED BY <2>1, <3>2, <3>3
  <2>4. ASSUME NEW k \in ToSet(history), k \notin DOMAIN cache.items
        PROVE  ~(Cardinality(Since(history, k)) < Capacity)
    <3>1. n = Capacity /\ ToSet(o) \subseteq Since(history, k)
      BY <2>1, <2>4 DEF Recent
    <3>2. IsFiniteSet(Since(history, k))
      BY <2>1, SinceFinite
    <3>3. Cardinality(ToSet(o)) = n
      <4>1. n \in 0..n /\ ToSet(o) = {o[j] : j \in 1..n}
        BY <2>1 DEF ToSet
      <4> QED BY <2>1, <4>1, ListCounts
    <3>4. Cardinality(ToSet(o)) <= Cardinality(Since(history, k))
      BY <3>1, <3>2, FS_Subset
    <3>5. Cardinality(Since(history, k)) \in Nat
      BY <3>2, FS_CardinalityType
    <3> QED BY <2>1, <3>1, <3>3, <3>4, <3>5
  <2>5. DOMAIN cache.items =
          {k \in ToSet(history) : Cardinality(TouchedSince(k)) < Capacity}
    BY <2>2, <2>3, <2>4
  <2>6. \A k \in DOMAIN cache.items : cache.items[k] = written[k]
    BY DEF CacheInv, Entries
  <2> QED BY <2>5, <2>6 DEF HoldsMostRecent, Capacity
<1> QED BY <1>1, CacheInvariant, PTL
=============================================================================
