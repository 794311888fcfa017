--------------------------- MODULE ArchiveProofs ---------------------------
(***************************************************************************)
(* Theorems about module Archive, for every selection of files, whatever   *)
(* their names and sizes and whatever one of them becomes while it is      *)
(* read: no two entries have one name, and an archive that was finished    *)
(* has the declared length and gives every file back as it was read.       *)
(***************************************************************************)
EXTENDS Archive, SequenceTheorems, FiniteSetTheorems, WellFoundedInduction,
        NaturalsInduction, TLAPS

\* A selection, which no step changes.
Selected ==
    /\ Len(files) \in 2..MaxFiles
    /\ files \in [1..Len(files) -> [name : Names, size : 0..MaxSize]]

----------------------------------------------------------------------------
(* Names *)

\* What an entry may be called: Name, with what Base fills in.
Called ==
    [stem : STRING \cup {"file"}, number : 0..MaxFiles, marks : Seq(Nat),
     ext : STRING \cup {""}]

LEMMA BaseIs ==
    ASSUME Selected, NEW i \in DOMAIN files
    PROVE  /\ Base(files[i].name, i) \in Called
           /\ Base(files[i].name, i).marks = files[i].name.marks
           /\ i \in 1..Len(files) /\ Len(files) \in Nat /\ files[i].size \in 0..MaxSize
<1>1. /\ Len(files) \in Nat /\ Len(files) <= MaxFiles /\ MaxFiles \in Nat
      /\ i \in 1..Len(files) /\ files[i].name \in Name /\ files[i].size \in 0..MaxSize
  BY ArchiveAssumption DEF Selected
<1> DEFINE n == files[i].name
<1>2. n \in Name /\ i \in 0..MaxFiles
  BY <1>1
<1> HIDE DEF n
<1> DEFINE f == [stem |-> "file", number |-> i, marks |-> <<>>, ext |-> ""]
<1>3. f \in Called /\ f.marks = <<>>
  <2>1. <<>> \in Seq(Nat)
    BY EmptySeq
  <2>2. f.marks = <<>>
    OBVIOUS
  <2> QED BY <1>2, <2>1, <2>2 DEF Called
<1>4. (Base(n, i) = f /\ n.marks = <<>>) \/ Base(n, i) = n
  BY DEF Base, Nameless
<1> HIDE DEF f
<1>5. Base(n, i) \in Called /\ Base(n, i).marks = n.marks
  <2>1. n \in Called
    BY <1>2 DEF Name, Called
  <2> QED BY <1>3, <1>4, <2>1
<1> QED BY <1>1, <1>5 DEF n

\* The names before the i-th that are the same.
Same(i) == {j \in 1..i - 1 : Key(Base(files[j].name, j)) = Key(Base(files[i].name, i))}

LEMMA BeforeIs ==
    ASSUME NEW i \in Nat
    PROVE  /\ Before(i) = Cardinality(Same(i)) /\ Before(i) \in Nat
           /\ IsFiniteSet(Same(i))
<1>1. IsFiniteSet(1..i - 1)
  BY FS_Interval
<1>2. IsFiniteSet(Same(i))
  BY <1>1, FS_Subset DEF Same
<1> QED BY <1>2, FS_CardinalityType DEF Before, Same

\* Of two files of one key, the later has more before it.
LEMMA BeforeGrows ==
    ASSUME NEW i \in Nat, NEW j \in Nat, 1 <= i, i < j,
           Key(Base(files[i].name, i)) = Key(Base(files[j].name, j))
    PROVE  Before(i) < Before(j)
<1>1. Same(i) \subseteq Same(j) \ {i} /\ i \in Same(j)
  BY DEF Same
<1>2. IsFiniteSet(Same(j)) /\ Cardinality(Same(j)) \in Nat /\ Cardinality(Same(i)) \in Nat
  BY BeforeIs
<1>3. IsFiniteSet(Same(j) \ {i}) /\ Cardinality(Same(j) \ {i}) = Cardinality(Same(j)) - 1
  BY <1>1, <1>2, FS_RemoveElement
<1>4. Cardinality(Same(i)) <= Cardinality(Same(j) \ {i})
  BY <1>1, <1>3, FS_Subset
<1> QED BY <1>2, <1>3, <1>4, BeforeIs

LEMMA UniqueNameIs ==
    ASSUME Selected, NEW i \in DOMAIN files
    PROVE  /\ UniqueName(i) \in Called
           /\ UniqueName(i).stem = Base(files[i].name, i).stem
           /\ UniqueName(i).number = Base(files[i].name, i).number
           /\ UniqueName(i).ext = Base(files[i].name, i).ext
           /\ UniqueName(i).marks = IF Before(i) = 0 THEN files[i].name.marks
                                    ELSE Append(files[i].name.marks, Before(i))
<1> DEFINE b == Base(files[i].name, i)
<1>1. b \in Called /\ b.marks = files[i].name.marks /\ i \in Nat
  BY BaseIs
<1>2. Before(i) \in Nat
  BY <1>1, BeforeIs
<1>3. UniqueName(i) = IF Before(i) = 0 THEN b ELSE [b EXCEPT !.marks = Append(@, Before(i))]
  BY DEF UniqueName
<1> HIDE DEF b
<1> DEFINE m == Append(b.marks, Before(i))
<1>4. m \in Seq(Nat)
  <2>1. b.marks \in Seq(Nat)
    BY <1>1 DEF Called
  <2> QED BY <1>2, <2>1
<1> HIDE DEF m
<1>5. /\ [b EXCEPT !.marks = m] \in Called
      /\ [b EXCEPT !.marks = m].marks = m
      /\ [b EXCEPT !.marks = m].stem = b.stem
      /\ [b EXCEPT !.marks = m].number = b.number
      /\ [b EXCEPT !.marks = m].ext = b.ext
  BY <1>1, <1>4 DEF Called
<1>6. [b EXCEPT !.marks = Append(@, Before(i))] = [b EXCEPT !.marks = m]
  BY <1>1 DEF m, Called
<1>7. m = Append(files[i].name.marks, Before(i))
  BY <1>1 DEF m
<1> QED BY <1>1, <1>3, <1>5, <1>6, <1>7 DEF b

LEMMA SelectedStep == Selected /\ [Next]_vars => Selected' /\ files' = files
<1>1. [Next]_vars => files' = files
  BY DEF Next, vars, FileChanges, StartsEntry, ReadsPiece, EndsEntry, Finishes
<1> QED BY <1>1 DEF Selected

LEMMA SelectedInit == Init => Selected
<1> SUFFICES ASSUME Init PROVE Selected
  OBVIOUS
<1>1. PICK n \in 2..MaxFiles : files \in [1..n -> [name : Names, size : 0..MaxSize]]
  BY DEF Init
<1>2. Len(files) = n
  BY <1>1, ArchiveAssumption
<1> QED BY <1>1, <1>2 DEF Selected

\* Files of one name, from different folders or in different case, have entries
\* of different names (uniqueNames).
THEOREM EntriesDiffer == Spec => []NamesDiffer
<1>1. Selected => NamesDiffer
  <2> SUFFICES ASSUME Selected, \A i \in DOMAIN files : files[i].name.marks = <<>>,
                      NEW i \in DOMAIN files, NEW j \in DOMAIN files, i < j,
                      Key(UniqueName(i)) = Key(UniqueName(j))
               PROVE  FALSE
    BY DEF NamesDiffer
  <2>1. /\ i \in Nat /\ j \in Nat /\ 1 <= i
        /\ Base(files[i].name, i) \in Called /\ Base(files[i].name, i).marks = <<>>
        /\ Base(files[j].name, j) \in Called /\ Base(files[j].name, j).marks = <<>>
    BY BaseIs
  <2>2. /\ Before(i) \in Nat /\ Before(j) \in Nat
    BY <2>1, BeforeIs
  <2>3. UniqueName(i) \in Called /\ UniqueName(j) \in Called
    BY UniqueNameIs
  <2>4. /\ Lower(UniqueName(i).stem) = Lower(UniqueName(j).stem)
        /\ UniqueName(i).number = UniqueName(j).number
        /\ UniqueName(i).marks = UniqueName(j).marks
        /\ Lower(UniqueName(i).ext) = Lower(UniqueName(j).ext)
    BY DEF Key
  <2>5. Key(Base(files[i].name, i)) = Key(Base(files[j].name, j))
    BY <2>1, <2>4, UniqueNameIs DEF Key
  <2>6. Before(i) < Before(j)
    BY <2>1, <2>5, BeforeGrows
  <2>7. UniqueName(j).marks = Append(<<>>, Before(j))
    <3>1. Before(j) # 0
      BY <2>2, <2>6
    <3>2. UniqueName(j).marks = Append(files[j].name.marks, Before(j))
      BY <3>1, UniqueNameIs
    <3> QED BY <3>2
  <2>8. UniqueName(i).marks = <<>> \/ UniqueName(i).marks = Append(<<>>, Before(i))
    BY <2>2, UniqueNameIs
  <2> QED BY <2>2, <2>4, <2>6, <2>7, <2>8
<1> QED BY <1>1, SelectedInit, SelectedStep, PTL DEF Spec

----------------------------------------------------------------------------
(* Pieces put together *)

\* What FlattenSeq puts together, piece by piece.
Joined(s) ==
    LET flatten[i \in 1..Len(s)] == IF i = 1 THEN s[i] ELSE flatten[i-1] \o s[i]
    IN  flatten

\* Induction on the natural numbers, for the sets that are written out.
LEMMA NatInduct ==
    ASSUME NEW N \in Nat, NEW S, 0 \in S, \A m \in 0..N : m \in S /\ m < N => m + 1 \in S
    PROVE  0..N \subseteq S
<1> DEFINE T == {m \in Nat : m <= N /\ m \notin S}
<1>1. SUFFICES ASSUME T # {} PROVE FALSE
  OBVIOUS
<1>2. T \subseteq Nat
  OBVIOUS
<1>3. PICK m \in T : \A y \in T : ~(<<y, m>> \in OpToRel(<, Nat))
  BY <1>1, <1>2, NatLessThanWellFounded, WFMin
<1>4. \A y \in T : ~(y < m)
  BY <1>3 DEF OpToRel
<1>5. m \in Nat /\ m <= N /\ m \notin S
  BY <1>3
<1>6. m # 0 /\ m - 1 \in 0..N /\ m - 1 < m /\ m - 1 < N /\ (m - 1) + 1 = m
  BY <1>5
<1>7. m - 1 \in S
  BY <1>4, <1>6
<1> QED BY <1>5, <1>6, <1>7

\* The function that Joined defines, up to m.
JoinedTo(s, m, f) ==
    f = [i \in 1..m |-> IF i = 1 THEN s[i] ELSE f[i-1] \o s[i]]

\* The pieces can be put together, so the recursion says what Joined is.
LEMMA JoinedExists ==
    ASSUME NEW s, NEW N \in Nat
    PROVE  \E f : JoinedTo(s, N, f)
<1> DEFINE S == {m \in 0..N : \E f : JoinedTo(s, m, f)}
<1>1. 0 \in S
  <2>1. JoinedTo(s, 0, [i \in 1..0 |-> s[i]])
    BY DEF JoinedTo
  <2> QED BY <2>1
<1>2. ASSUME NEW m \in 0..N, m \in S, m < N PROVE m + 1 \in S
  <2>1. PICK g : JoinedTo(s, m, g)
    BY <1>2
  <2>2. g = [i \in 1..m |-> IF i = 1 THEN s[i] ELSE g[i-1] \o s[i]]
    BY <2>1 DEF JoinedTo
  <2> DEFINE last == IF m = 0 THEN s[1] ELSE g[m] \o s[m + 1]
             f == [i \in 1..(m + 1) |-> IF i = m + 1 THEN last ELSE g[i]]
  <2>3. \A i \in 1..m : f[i] = g[i]
    OBVIOUS
  <2>4. f[m + 1] = last
    OBVIOUS
  <2>5. \A i \in 1..(m + 1) : f[i] = IF i = 1 THEN s[i] ELSE f[i-1] \o s[i]
    <3>1. CASE m = 0
      BY <2>4, <3>1
    <3>2. CASE m > 0
      <4>1. \A i \in 1..m : f[i] = IF i = 1 THEN s[i] ELSE f[i-1] \o s[i]
        <5>1. \A i \in 1..m : g[i] = IF i = 1 THEN s[i] ELSE g[i-1] \o s[i]
          BY <2>2
        <5>2. \A i \in 1..m : i # 1 => i - 1 \in 1..m
          OBVIOUS
        <5> HIDE DEF f
        <5> QED BY <2>3, <5>1, <5>2
      <4>2. last = f[m] \o s[m + 1]
        <5>1. m \in 1..m /\ m # 0
          BY <3>2
        <5>2. f[m] = g[m]
          BY <2>3, <5>1
        <5>3. last = g[m] \o s[m + 1]
          BY <5>1
        <5> HIDE DEF f, last
        <5> QED BY <5>2, <5>3
      <4> HIDE DEF f, last
      <4>3. f[m + 1] = IF m + 1 = 1 THEN s[m + 1] ELSE f[(m + 1) - 1] \o s[m + 1]
        <5>1. m + 1 # 1 /\ (m + 1) - 1 = m
          BY <3>2
        <5> QED BY <2>4, <4>2, <5>1
      <4> QED BY <4>1, <4>3
    <3>3. m = 0 \/ m > 0
      OBVIOUS
    <3> HIDE DEF f
    <3> QED BY <3>1, <3>2, <3>3
  <2>6. JoinedTo(s, m + 1, f)
    <3>1. f = [i \in 1..(m + 1) |-> f[i]]
      OBVIOUS
    <3> HIDE DEF f
    <3>2. f = [i \in 1..(m + 1) |-> IF i = 1 THEN s[i] ELSE f[i-1] \o s[i]]
      BY <2>5, <3>1
    <3> QED BY <3>2 DEF JoinedTo
  <2> HIDE DEF f
  <2> QED BY <1>2, <2>6
<1> HIDE DEF S
<1>3. 0..N \subseteq S
  BY <1>1, <1>2, NatInduct
<1> QED BY <1>3 DEF S

\* Joined adds one piece after the other.
LEMMA JoinedIs ==
    ASSUME NEW s, Len(s) \in Nat
    PROVE  \A i \in 1..Len(s) :
             Joined(s)[i] = IF i = 1 THEN s[i] ELSE Joined(s)[i-1] \o s[i]
<1>1. PICK g : JoinedTo(s, Len(s), g)
  BY JoinedExists
<1>2. g = [i \in 1..Len(s) |-> IF i = 1 THEN s[i] ELSE g[i-1] \o s[i]]
  BY <1>1 DEF JoinedTo
<1>3. Joined(s) = [i \in 1..Len(s) |-> IF i = 1 THEN s[i] ELSE Joined(s)[i-1] \o s[i]]
  BY <1>2 DEF Joined
<1> DEFINE f == Joined(s)
<1>4. f = [i \in 1..Len(s) |-> IF i = 1 THEN s[i] ELSE f[i-1] \o s[i]]
  BY <1>3
<1> HIDE DEF f
<1>5. \A i \in 1..Len(s) : f[i] = IF i = 1 THEN s[i] ELSE f[i-1] \o s[i]
  BY <1>4
<1> QED BY <1>5 DEF f

LEMMA Concat ==
    ASSUME NEW S, NEW s \in Seq(S), NEW t \in Seq(S)
    PROVE  /\ s \o t \in Seq(S) /\ Len(s) \in Nat /\ Len(t) \in Nat
           /\ Len(s \o t) = Len(s) + Len(t)
           /\ \A x \in 1..Len(s) : (s \o t)[x] = s[x]
           /\ \A x \in 1..Len(t) : (s \o t)[Len(s) + x] = t[x]
<1>1. /\ s \o t \in Seq(S) /\ Len(s) \in Nat /\ Len(t) \in Nat
      /\ Len(s \o t) = Len(s) + Len(t)
      /\ \A i \in 1 .. Len(s) + Len(t) :
            (s \o t)[i] = IF i <= Len(s) THEN s[i] ELSE t[i - Len(s)]
  BY ConcatProperties, LenProperties
<1>2. \A x \in 1..Len(s) : x \in 1..Len(s) + Len(t) /\ x <= Len(s)
  BY <1>1
<1>3. \A x \in 1..Len(t) : /\ Len(s) + x \in 1..Len(s) + Len(t) /\ ~(Len(s) + x <= Len(s))
                           /\ (Len(s) + x) - Len(s) = x
  BY <1>1
<1> QED BY <1>1, <1>2, <1>3

\* The first m pieces.
Upto(s, m) == IF m = 0 THEN <<>> ELSE Joined(s)[m]

LEMMA UptoIs ==
    ASSUME NEW X, NEW s \in Seq(Seq(X))
    PROVE  /\ Upto(s, 0) = <<>>
           /\ \A m \in 0..Len(s) : Upto(s, m) \in Seq(X)
           /\ \A m \in 1..Len(s) : Upto(s, m) = Upto(s, m - 1) \o s[m]
           /\ FlattenSeq(s) = Upto(s, Len(s))
<1>1. Len(s) \in Nat /\ \A m \in 1..Len(s) : s[m] \in Seq(X)
  OBVIOUS
<1>2. Upto(s, 0) = <<>>
  BY DEF Upto
<1>3. ASSUME NEW m \in 1..Len(s) PROVE Upto(s, m) = Upto(s, m - 1) \o s[m]
  <2>1. Joined(s)[m] = IF m = 1 THEN s[m] ELSE Joined(s)[m-1] \o s[m]
    BY <1>1, JoinedIs
  <2>2. CASE m = 1
    <3>1. Upto(s, m) = s[m] /\ Upto(s, m - 1) = <<>>
      BY <2>1, <2>2 DEF Upto
    <3>2. <<>> \o s[m] = s[m]
      BY <1>1, ConcatEmptySeq
    <3> QED BY <3>1, <3>2
  <2>3. CASE m # 1
    <3>1. m # 0 /\ m - 1 # 0
      BY <1>1, <2>3
    <3> QED BY <2>1, <2>3, <3>1 DEF Upto
  <2> QED BY <2>2, <2>3
<1> DEFINE S == {m \in 0..Len(s) : Upto(s, m) \in Seq(X)}
<1>4. 0..Len(s) \subseteq S
  <2>1. 0 \in S
    <3>1. Upto(s, 0) \in Seq(X)
      BY <1>2, EmptySeq
    <3>2. 0 \in 0..Len(s)
      BY <1>1
    <3> HIDE DEF Upto
    <3> QED BY <3>1, <3>2
  <2>2. ASSUME NEW m \in 0..Len(s), m \in S, m < Len(s) PROVE m + 1 \in S
    <3>1. m + 1 \in 1..Len(s) /\ (m + 1) - 1 = m
      BY <1>1, <2>2
    <3>2. Upto(s, m + 1) = Upto(s, m) \o s[m + 1]
      BY <1>3, <3>1
    <3>3. Upto(s, m) \in Seq(X) /\ s[m + 1] \in Seq(X)
      BY <1>1, <2>2, <3>1
    <3>4. Upto(s, m + 1) \in Seq(X)
      BY <3>2, <3>3, ConcatProperties
    <3> QED BY <3>1, <3>4
  <2> HIDE DEF S
  <2> QED BY <1>1, <2>1, <2>2, NatInduct
<1>5. FlattenSeq(s) = Upto(s, Len(s))
  <2>1. CASE Len(s) = 0
    BY <1>2, <2>1 DEF FlattenSeq
  <2>2. CASE Len(s) # 0
    BY <2>2 DEF FlattenSeq, Upto, Joined
  <2> QED BY <2>1, <2>2
<1> QED BY <1>2, <1>3, <1>4, <1>5

\* A piece lies where the pieces before it end.
\* Two sequences of pieces that begin alike are put together alike so far.
LEMMA UptoAlike ==
    ASSUME NEW X, NEW s \in Seq(Seq(X)), NEW t \in Seq(Seq(X)), Len(s) = Len(t),
           NEW m \in 0..Len(s), \A j \in 1..m : s[j] = t[j]
    PROVE  \A k \in 0..m : Upto(s, k) = Upto(t, k)
<1> DEFINE S == {k \in 0..m : Upto(s, k) = Upto(t, k)}
<1>1. m \in Nat /\ Len(s) \in Nat /\ m <= Len(s)
  OBVIOUS
<1>2. 0 \in S
  BY <1>1 DEF Upto
<1>3. ASSUME NEW k \in 0..m, k \in S, k < m PROVE k + 1 \in S
  <2>1. k + 1 \in 1..m /\ k + 1 \in 1..Len(s) /\ k + 1 \in 0..m /\ (k + 1) - 1 = k
    BY <1>1, <1>3
  <2>2. Upto(s, k + 1) = Upto(s, k) \o s[k + 1]
    BY <2>1, UptoIs
  <2>3. Upto(t, k + 1) = Upto(t, k) \o t[k + 1]
    BY <2>1, UptoIs
  <2>4. s[k + 1] = t[k + 1] /\ Upto(s, k) = Upto(t, k)
    BY <1>3, <2>1
  <2> QED BY <2>1, <2>2, <2>3, <2>4
<1> HIDE DEF S
<1>4. 0..m \subseteq S
  BY <1>1, <1>2, <1>3, NatInduct
<1> QED BY <1>4 DEF S

LEMMA UptoHolds ==
    ASSUME NEW X, NEW s \in Seq(Seq(X)), NEW k \in 1..Len(s), NEW m \in k..Len(s)
    PROVE  /\ Len(Upto(s, k - 1)) \in Nat /\ Len(Upto(s, m)) \in Nat
           /\ Len(Upto(s, k - 1)) + Len(s[k]) <= Len(Upto(s, m))
           /\ \A x \in 1..Len(s[k]) : Upto(s, m)[Len(Upto(s, k - 1)) + x] = s[k][x]
<1> DEFINE b == Len(Upto(s, k - 1))
           p == s[k]
           Holds(n) == /\ Upto(s, n) \in Seq(X)
                       /\ b + Len(p) <= Len(Upto(s, n))
                       /\ \A x \in 1..Len(p) : Upto(s, n)[b + x] = p[x]
           S == {d \in 0..Len(s) - k : Holds(k + d)}
<1>1. /\ Len(s) \in Nat /\ k \in Nat /\ m \in Nat /\ k - 1 \in 0..Len(s) /\ Len(s) - k \in Nat
      /\ Upto(s, k - 1) \in Seq(X) /\ b \in Nat /\ p \in Seq(X) /\ Len(p) \in Nat
  <2>1. /\ Len(s) \in Nat /\ k \in Nat /\ m \in Nat /\ k - 1 \in 0..Len(s) /\ Len(s) - k \in Nat
    OBVIOUS
  <2>2. Upto(s, k - 1) \in Seq(X)
    BY <2>1, UptoIs
  <2>3. p \in Seq(X)
    BY <2>1, ElementOfSeq
  <2> HIDE DEF p
  <2> QED BY <2>1, <2>2, <2>3, LenProperties
<1>2. 0 \in S
  <2>1. Upto(s, k) = Upto(s, k - 1) \o p
    BY UptoIs
  <2>2. Holds(k)
    BY <1>1, <2>1, Concat
  <2>3. k + 0 = k /\ 0 \in 0..Len(s) - k
    BY <1>1
  <2> HIDE DEF Holds
  <2> QED BY <2>2, <2>3
<1>3. ASSUME NEW d \in 0..Len(s) - k, d \in S, d < Len(s) - k PROVE d + 1 \in S
  <2> DEFINE n == k + d
             q == s[n + 1]
  <2>1. /\ n \in Nat /\ n + 1 \in 1..Len(s) /\ (n + 1) - 1 = n /\ k + (d + 1) = n + 1
        /\ d + 1 \in 0..Len(s) - k
    BY <1>1, <1>3
  <2>2. Holds(n) /\ q \in Seq(X)
    <3>1. Holds(k + d)
      <4> HIDE DEF Holds
      <4> QED BY <1>3
    <3>2. q \in Seq(X)
      BY <2>1
    <3> QED BY <3>1, <3>2
  <2>3. Upto(s, n + 1) = Upto(s, n) \o q
    BY <2>1, UptoIs
  <2> HIDE DEF n, q, b, p
  <2>4. /\ Upto(s, n + 1) \in Seq(X)
        /\ Len(Upto(s, n + 1)) = Len(Upto(s, n)) + Len(q)
        /\ \A x \in 1..Len(Upto(s, n)) : Upto(s, n + 1)[x] = Upto(s, n)[x]
    <3>1. Upto(s, n) \in Seq(X) /\ q \in Seq(X)
      BY <2>2
    <3> DEFINE a == Upto(s, n)
    <3> HIDE DEF a
    <3>2. /\ a \o q \in Seq(X) /\ Len(a \o q) = Len(a) + Len(q)
          /\ \A x \in 1..Len(a) : (a \o q)[x] = a[x]
      BY <3>1, Concat DEF a
    <3> QED BY <2>3, <3>2 DEF a
  <2>5. \A x \in 1..Len(p) : b + x \in 1..Len(Upto(s, n))
    BY <1>1, <2>2
  <2>6. b + Len(p) <= Len(Upto(s, n + 1))
    <3>1. Len(Upto(s, n)) \in Nat /\ Len(q) \in Nat
      BY <2>2, LenProperties
    <3> QED BY <1>1, <2>2, <2>4, <3>1
  <2>7. Holds(n + 1)
    BY <2>2, <2>4, <2>5, <2>6
  <2> HIDE DEF Holds
  <2> QED BY <2>1, <2>7
<1> HIDE DEF S
<1>4. 0..Len(s) - k \subseteq S
  BY <1>1, <1>2, <1>3, NatInduct
<1>5. m - k \in 0..Len(s) - k /\ k + (m - k) = m
  BY <1>1
<1>6. Holds(m)
  <2> HIDE DEF Holds
  <2> QED BY <1>4, <1>5 DEF S
<1> HIDE DEF b, p
<1>7. /\ b \in Nat /\ Len(Upto(s, m)) \in Nat
      /\ b + Len(p) <= Len(Upto(s, m))
      /\ \A x \in 1..Len(p) : Upto(s, m)[b + x] = p[x]
  BY <1>1, <1>6
<1> QED BY <1>7 DEF b, p

----------------------------------------------------------------------------
(* What the archive is made of *)

What ==
    [kind : {"local"}, nameLen : Nat] \cup [kind : {"descriptor"}, size : Nat]
      \cup [kind : {"file"}, file : Nat, as : {"chosen", "rewritten"}]
      \cup [kind : {"central"}, name : Called, size : Nat, offset : Nat]
      \cup [kind : {"end"}, count : Nat, length : Nat, offset : Nat]

Byte == [at : Nat, what : What]

\* An entry as it is when its file kept its length.
Whole(i) ==
    LocalHeader(UniqueName(i)) \o Contents(i, files[i].size) \o Descriptor(files[i].size)

Wholes == [i \in 1..Len(files) |-> Whole(i)]

\* The first m entries, and what the writer remembers of them.
Body(m) == Upto(Wholes, m)
Entered(i) == [file |-> i, offset |-> Len(Body(i - 1)), written |-> files[i].size]
Finished(m) == [j \in 1..m |-> Entered(j)]

\* The records of the directory.
Heads == [i \in 1..Len(files) |-> CentralHeader(Entered(i))]

\* The length of a name.
Long(i) == NameLen(UniqueName(i))

\* A function on 1..n is a sequence of length n.
LEMMA MappingIsASeq ==
    ASSUME NEW S, NEW n \in Nat, NEW f, f \in [1..n -> S]
    PROVE  f \in Seq(S) /\ Len(f) = n
OBVIOUS

LEMMA Joining ==
    /\ \A p, q \in Seq(Byte) : p \o q \in Seq(Byte)
    /\ \A p, q, r \in Seq(Byte) : (p \o q) \o r = p \o (q \o r)
<1>1. \A p, q \in Seq(Byte) : p \o q \in Seq(Byte)
  BY ConcatProperties
<1>2. \A p, q, r \in Seq(Byte) : (p \o q) \o r = p \o (q \o r)
  BY ConcatAssociative
<1> QED BY <1>1, <1>2

LEMMA BytesIs ==
    ASSUME NEW n \in Nat, NEW w \in What
    PROVE  /\ Bytes(n, w) \in Seq(Byte) /\ Len(Bytes(n, w)) = n
           /\ \A k \in 1..n : Bytes(n, w)[k] = [at |-> k, what |-> w]
<1> DEFINE f == [k \in 1..n |-> [at |-> k, what |-> w]]
<1>1. \A k \in 1..n : [at |-> k, what |-> w] \in Byte
  BY DEF Byte
<1>2. f \in [1..n -> Byte]
  BY <1>1
<1>3. \A k \in 1..n : f[k] = [at |-> k, what |-> w]
  OBVIOUS
<1>4. Bytes(n, w) = f
  BY DEF Bytes
<1> HIDE DEF f
<1>5. f \in Seq(Byte) /\ Len(f) = n
  BY <1>2, MappingIsASeq
<1> QED BY <1>3, <1>4, <1>5

LEMMA LongIs ==
    ASSUME Selected, NEW i \in 1..Len(files)
    PROVE  Long(i) \in Nat /\ Long(i) >= 1 /\ UniqueName(i) \in Called /\ i \in Nat
           /\ files[i].size \in Nat /\ i \in DOMAIN files /\ Len(files) \in Nat
<1>1. i \in DOMAIN files
  BY DEF Selected
<1>2. UniqueName(i) \in Called
  BY <1>1, UniqueNameIs
<1>3. files[i].size \in Nat /\ i \in Nat /\ Len(files) \in Nat
  BY <1>1, BaseIs, ArchiveAssumption
<1>4. UniqueName(i).marks \in Seq(Nat)
  BY <1>2 DEF Called
<1> QED BY <1>1, <1>2, <1>3, <1>4 DEF Long, NameLen

LEMMA LocalHeaderIs ==
    ASSUME Selected, NEW i \in 1..Len(files)
    PROVE  /\ LocalHeader(UniqueName(i)) \in Seq(Byte)
           /\ Len(LocalHeader(UniqueName(i))) = LocalLen + Long(i)
           /\ LocalHeader(UniqueName(i))[1] =
                [at |-> 1, what |-> [kind |-> "local", nameLen |-> Long(i)]]
<1> DEFINE w == [kind |-> "local", nameLen |-> Long(i)]
           n == LocalLen + Long(i)
<1>1. w \in What
  BY LongIs DEF What
<1>2. n \in Nat /\ 1 \in 1..n
  BY LongIs DEF LocalLen
<1>3. LocalHeader(UniqueName(i)) = Bytes(n, w)
  BY DEF LocalHeader, Long
<1> HIDE DEF w, n
<1>4. Bytes(n, w) \in Seq(Byte) /\ Len(Bytes(n, w)) = n /\ Bytes(n, w)[1] = [at |-> 1, what |-> w]
  BY <1>1, <1>2, BytesIs
<1> QED BY <1>3, <1>4 DEF w, n

LEMMA ContentsIs ==
    ASSUME NEW i \in Nat, NEW n \in Nat
    PROVE  Contents(i, n) \in Seq(Byte) /\ Len(Contents(i, n)) = n
<1> DEFINE e == [at |-> 1, what |-> [kind |-> "end", count |-> 1, length |-> 1, offset |-> 0]]
           a(k) == IF k <= kept[i] THEN "chosen" ELSE "rewritten"
           b(k) == [at |-> k, what |-> [kind |-> "file", file |-> i, as |-> a(k)]]
           f == [k \in 1..n |-> IF i = 1 /\ k = n THEN e ELSE b(k)]
<1>1. e \in Byte
  BY DEF Byte, What
<1>2. \A k \in 1..n : b(k) \in Byte
  <2>1. \A k : a(k) \in {"chosen", "rewritten"}
    OBVIOUS
  <2> HIDE DEF a
  <2> QED BY <2>1 DEF Byte, What
<1>3. Contents(i, n) = f
  BY DEF Contents
<1> HIDE DEF e, b
<1>4. f \in [1..n -> Byte]
  BY <1>1, <1>2
<1> HIDE DEF f
<1> QED BY <1>3, <1>4, MappingIsASeq

LEMMA DescriptorIs ==
    ASSUME NEW n \in Nat
    PROVE  Descriptor(n) \in Seq(Byte) /\ Len(Descriptor(n)) = DescriptorLen
<1>1. [kind |-> "descriptor", size |-> n] \in What
  BY DEF What
<1>2. DescriptorLen \in Nat
  BY DEF DescriptorLen
<1> QED BY <1>1, <1>2, BytesIs DEF Descriptor

\* An entry: its header, what its file holds, and its descriptor.
LEMMA WholeIs ==
    ASSUME Selected, NEW i \in 1..Len(files)
    PROVE  /\ Whole(i) \in Seq(Byte)
           /\ Len(Whole(i)) = LocalLen + Long(i) + files[i].size + DescriptorLen
           /\ Whole(i)[1] = [at |-> 1, what |-> [kind |-> "local", nameLen |-> Long(i)]]
           /\ \A x \in 1..files[i].size :
                Whole(i)[LocalLen + Long(i) + x] = Contents(i, files[i].size)[x]
<1> DEFINE h == LocalHeader(UniqueName(i))
           c == Contents(i, files[i].size)
           d == Descriptor(files[i].size)
           n == LocalLen + Long(i)
           z == files[i].size
<1>1. n \in Nat /\ n >= 1 /\ z \in Nat /\ i \in Nat /\ DescriptorLen \in Nat
  BY LongIs DEF LocalLen, DescriptorLen
<1>2. h \in Seq(Byte) /\ Len(h) = n
      /\ h[1] = [at |-> 1, what |-> [kind |-> "local", nameLen |-> Long(i)]]
  BY LocalHeaderIs
<1>3. c \in Seq(Byte) /\ Len(c) = z
  BY <1>1, ContentsIs
<1>4. d \in Seq(Byte) /\ Len(d) = DescriptorLen
  BY <1>1, DescriptorIs
<1>5. Whole(i) = (h \o c) \o d
  BY DEF Whole
<1> HIDE DEF h, c, d, n, z
<1>6. /\ h \o c \in Seq(Byte) /\ Len(h \o c) = n + z
      /\ (h \o c)[1] = h[1]
      /\ \A x \in 1..z : (h \o c)[n + x] = c[x]
  <2>1. /\ h \o c \in Seq(Byte) /\ Len(h \o c) = Len(h) + Len(c)
        /\ \A x \in 1..Len(h) : (h \o c)[x] = h[x]
        /\ \A x \in 1..Len(c) : (h \o c)[Len(h) + x] = c[x]
    <3>1. h \in Seq(Byte) /\ c \in Seq(Byte)
      BY <1>2, <1>3
    <3> QED BY <3>1, Concat
  <2> DEFINE v == h \o c
  <2> HIDE DEF v
  <2>2. 1 \in 1..n
    BY <1>1
  <2>3. /\ v \in Seq(Byte) /\ Len(v) = n + z
        /\ v[1] = h[1] /\ \A x \in 1..z : v[n + x] = c[x]
    <3>1. Len(h) = n /\ Len(c) = z
      BY <1>2, <1>3
    <3>2. /\ v \in Seq(Byte) /\ Len(v) = Len(h) + Len(c)
          /\ \A x \in 1..Len(h) : v[x] = h[x]
          /\ \A x \in 1..Len(c) : v[Len(h) + x] = c[x]
      BY <2>1 DEF v
    <3> QED BY <2>2, <3>1, <3>2, Zenon
  <2> QED BY <2>3 DEF v
<1> DEFINE u == h \o c
<1>7. /\ Whole(i) \in Seq(Byte) /\ Len(Whole(i)) = (n + z) + DescriptorLen
      /\ \A x \in 1..n + z : Whole(i)[x] = u[x]
  <2>1. u \in Seq(Byte) /\ Len(u) = n + z /\ Whole(i) = u \o d
    BY <1>5, <1>6
  <2> HIDE DEF u
  <2>2. /\ u \o d \in Seq(Byte) /\ Len(u \o d) = Len(u) + Len(d)
        /\ \A x \in 1..Len(u) : (u \o d)[x] = u[x]
    BY <1>4, <2>1, Concat
  <2> QED BY <1>1, <1>4, <2>1, <2>2
<1>8. 1 \in 1..n + z /\ \A x \in 1..z : n + x \in 1..n + z
  BY <1>1
<1>9. /\ Whole(i)[1] = h[1]
      /\ \A x \in 1..z : Whole(i)[n + x] = c[x]
  BY <1>6, <1>7, <1>8
<1> QED BY <1>2, <1>7, <1>9 DEF n, z, c

LEMMA WholesAre ==
    ASSUME Selected
    PROVE  /\ Wholes \in Seq(Seq(Byte)) /\ Len(Wholes) = Len(files) /\ Len(files) \in Nat
           /\ \A i \in 1..Len(files) : Wholes[i] = Whole(i)
<1>1. \A i \in 1..Len(files) : Whole(i) \in Seq(Byte)
  BY WholeIs
<1>2. Wholes \in [1..Len(files) -> Seq(Byte)]
  BY <1>1 DEF Wholes
<1>3. Len(files) \in Nat
  BY ArchiveAssumption DEF Selected
<1>4. Wholes \in Seq(Seq(Byte)) /\ Len(Wholes) = Len(files)
  BY <1>2, <1>3, MappingIsASeq
<1> QED BY <1>3, <1>4 DEF Wholes

\* The entries, one after the other.
LEMMA BodyIs ==
    ASSUME Selected
    PROVE  /\ Body(0) = <<>>
           /\ \A m \in 0..Len(files) : Body(m) \in Seq(Byte) /\ Len(Body(m)) \in Nat
           /\ \A m \in 1..Len(files) : Body(m) = Body(m - 1) \o Whole(m)
<1>1. /\ Body(0) = <<>>
      /\ \A m \in 0..Len(files) : Body(m) \in Seq(Byte)
      /\ \A m \in 1..Len(files) : Body(m) = Body(m - 1) \o Whole(m)
  BY WholesAre, UptoIs DEF Body
<1> QED BY <1>1

\* What the writer remembers of the entry it is reading, w bytes into it, and
\* what it has written if the file is still what it was.
Reading(i, w) == [file |-> i, offset |-> Len(Body(i - 1)), written |-> w]
Partly(i, w) ==
    Body(i - 1) \o LocalHeader(UniqueName(i)) \o SubSeq(Contents(i, files[i].size), 1, w)

\* None of this changes, as long as nobody writes to a file.
LEMMA Unchanging ==
    ASSUME files' = files, kept' = kept
    PROVE  /\ \A i : UniqueName(i)' = UniqueName(i)
           /\ \A m : Body(m)' = Body(m)
           /\ \A m : Finished(m)' = Finished(m)
           /\ Heads' = Heads
           /\ \A i, w : Reading(i, w)' = Reading(i, w) /\ Partly(i, w)' = Partly(i, w)
<1>1. ASSUME NEW i PROVE UniqueName(i)' = UniqueName(i)
  BY DEF UniqueName, Before, Base, Key, Nameless
<1>2. ASSUME NEW i PROVE Whole(i)' = Whole(i)
  <2>1. UniqueName(i)' = UniqueName(i)
    BY <1>1
  <2> QED BY <2>1 DEF Whole, LocalHeader, NameLen, Contents, Descriptor, Bytes
<1>3. Wholes' = Wholes
  BY <1>2 DEF Wholes
<1>4. ASSUME NEW m PROVE Body(m)' = Body(m)
  BY <1>3 DEF Body, Upto, Joined
<1>5. ASSUME NEW i PROVE Entered(i)' = Entered(i)
  BY <1>4 DEF Entered
<1>6. ASSUME NEW m PROVE Finished(m)' = Finished(m)
  BY <1>5 DEF Finished
<1>7. Heads' = Heads
  <2>1. ASSUME NEW i PROVE CentralHeader(Entered(i))' = CentralHeader(Entered(i))
    <3>1. UniqueName(i)' = UniqueName(i)
      BY <1>1
    <3> QED BY <1>4, <3>1 DEF CentralHeader, Entered, NameLen, Bytes
  <2> QED BY <2>1 DEF Heads
<1>8. ASSUME NEW i, NEW w PROVE Reading(i, w)' = Reading(i, w) /\ Partly(i, w)' = Partly(i, w)
  <2>1. UniqueName(i)' = UniqueName(i)
    BY <1>1
  <2> QED BY <1>4, <2>1 DEF Reading, Partly, LocalHeader, Contents, Bytes, NameLen
<1> QED BY <1>1, <1>4, <1>6, <1>7, <1>8

----------------------------------------------------------------------------
(* The invariant *)

\* While it writes: m whole entries, or the header of the i-th and w of its bytes.
Between(m) ==
    /\ index = m /\ current = <<>>
    /\ central = Finished(m) /\ out = Body(m)

InHand(i, w) ==
    /\ index = i /\ current = <<Reading(i, w)>>
    /\ w <= disk[i]
    /\ central = Finished(i - 1)
    /\ disk[i] = files[i].size => out = Partly(i, w)

OpenInv ==
    \/ \E m \in 0..Len(files) : Between(m)
    \/ \E i \in 1..Len(files), w \in Nat : InHand(i, w)

\* The end record of a finished archive.
Closing ==
    [kind |-> "end", count |-> Len(files) % CountWrap, length |-> Len(FlattenSeq(Heads)),
     offset |-> Len(Body(Len(files)))]

ClosedInv == out = Body(Len(files)) \o FlattenSeq(Heads) \o Bytes(EndLen, Closing)

ArchiveInv ==
    /\ Selected
    /\ disk \in [1..Len(files) -> 0..MaxSize] /\ kept \in [1..Len(files) -> 0..MaxSize]
    /\ stream \in {"open", "closed", "error"}
    /\ stream = "open" => OpenInv
    /\ stream = "closed" => ClosedInv

LEMMA FinishedIs ==
    ASSUME NEW m \in Nat
    PROVE  /\ Len(Finished(m)) = m /\ DOMAIN Finished(m) = 1..m
           /\ \A j \in 1..m : Finished(m)[j] = Entered(j)
           /\ Append(Finished(m), Entered(m + 1)) = Finished(m + 1)
<1> DEFINE S == {Entered(j) : j \in 1..m + 1}
           f == Finished(m)
           g == Finished(m + 1)
           e == Entered(m + 1)
<1>1. /\ f \in [1..m -> S] /\ g \in [1..m + 1 -> S] /\ e \in S
      /\ \A j \in 1..m : f[j] = Entered(j)
      /\ \A j \in 1..m + 1 : g[j] = Entered(j)
  BY DEF Finished
<1>2. m + 1 \in Nat
  OBVIOUS
<1> HIDE DEF S, f, g, e
<1>3. f \in Seq(S) /\ Len(f) = m /\ g \in Seq(S) /\ Len(g) = m + 1
  BY <1>1, <1>2, MappingIsASeq
<1>4. /\ Append(f, e) \in Seq(S) /\ Len(Append(f, e)) = m + 1
      /\ \A j \in 1..m : Append(f, e)[j] = f[j]
      /\ Append(f, e)[m + 1] = e
  BY <1>1, <1>3
<1>5. \A j \in 1..m + 1 : Append(f, e)[j] = g[j]
  <2>1. \A j \in 1..m : Append(f, e)[j] = g[j]
    BY <1>1, <1>4
  <2>2. Append(f, e)[m + 1] = g[m + 1]
    BY <1>1, <1>4 DEF e
  <2>3. \A j \in 1..m + 1 : j \in 1..m \/ j = m + 1
    OBVIOUS
  <2> QED BY <2>1, <2>2, <2>3
<1>6. Append(f, e) = g
  BY <1>3, <1>4, <1>5, SeqEqual
<1>7. DOMAIN f = 1..m
  BY <1>1
<1> QED BY <1>1, <1>3, <1>6, <1>7 DEF f, g, e

LEMMA ArchiveInit == Init => ArchiveInv
<1> SUFFICES ASSUME Init PROVE ArchiveInv
  OBVIOUS
<1>1. Selected
  BY SelectedInit
<1>2. \A i \in 1..Len(files) : files[i].size \in 0..MaxSize
  BY <1>1 DEF Selected
<1>3. disk \in [1..Len(files) -> 0..MaxSize] /\ kept = disk
  <2>1. DOMAIN files = 1..Len(files)
    BY <1>1 DEF Selected
  <2> QED BY <1>2, <2>1 DEF Init
<1>4. OpenInv
  <2>1. Finished(0) = <<>>
    BY DEF Finished
  <2>2. Len(files) \in Nat
    BY <1>1, WholesAre
  <2>3. Between(0) /\ 0 \in 0..Len(files)
    BY <1>1, <2>1, <2>2, BodyIs DEF Init, Between
  <2> QED BY <2>3 DEF OpenInv
<1> QED BY <1>1, <1>3, <1>4 DEF Init, ArchiveInv

\* What every step keeps, and what a step may take for granted.
LEMMA ArchiveFrame ==
    ASSUME ArchiveInv, [Next]_vars, kept' = kept
    PROVE  /\ Selected /\ Selected' /\ files' = files
           /\ \A i : UniqueName(i)' = UniqueName(i)
           /\ \A m : Body(m)' = Body(m) /\ Finished(m)' = Finished(m)
           /\ \A i, w : Reading(i, w)' = Reading(i, w) /\ Partly(i, w)' = Partly(i, w)
           /\ Heads' = Heads
           /\ Len(files) \in Nat /\ disk \in [1..Len(files) -> 0..MaxSize]
           /\ kept' \in [1..Len(files) -> 0..MaxSize]
           /\ \A i \in 1..Len(files) : disk[i] \in Nat /\ files[i].size \in Nat
<1>1. Selected /\ Selected' /\ files' = files
  BY SelectedStep DEF ArchiveInv
<1>2. \A i \in 1..Len(files) : disk[i] \in Nat /\ files[i].size \in Nat
  BY <1>1, LongIs, ArchiveAssumption DEF ArchiveInv
<1>3. /\ \A i : UniqueName(i)' = UniqueName(i)
      /\ \A m : Body(m)' = Body(m) /\ Finished(m)' = Finished(m)
      /\ \A i, w : Reading(i, w)' = Reading(i, w) /\ Partly(i, w)' = Partly(i, w)
      /\ Heads' = Heads
  BY <1>1, Unchanging
<1> QED BY <1>1, <1>2, <1>3, WholesAre DEF ArchiveInv

\* The parts of an entry, in sequences of bytes.
LEMMA PartsAre ==
    ASSUME Selected, NEW i \in 1..Len(files), NEW w \in 0..files[i].size
    PROVE  /\ Body(i - 1) \in Seq(Byte)
           /\ LocalHeader(UniqueName(i)) \in Seq(Byte)
           /\ Contents(i, files[i].size) \in Seq(Byte)
           /\ Len(Contents(i, files[i].size)) = files[i].size /\ files[i].size \in Nat
           /\ SubSeq(Contents(i, files[i].size), 1, w) \in Seq(Byte)
           /\ Descriptor(files[i].size) \in Seq(Byte)
           /\ i - 1 \in 0..Len(files) /\ i \in Nat
<1>1. i \in Nat /\ files[i].size \in Nat /\ Len(files) \in Nat
  BY LongIs
<1>2. i - 1 \in 0..Len(files)
  BY <1>1
<1>3. Contents(i, files[i].size) \in Seq(Byte) /\ Len(Contents(i, files[i].size)) = files[i].size
  BY <1>1, ContentsIs
<1> DEFINE c == Contents(i, files[i].size)
<1> HIDE DEF c
<1>4. SubSeq(c, 1, w) \in Seq(Byte)
  <2>1. c \in Seq(Byte) /\ Len(c) = files[i].size
    BY <1>3 DEF c
  <2>2. \A x \in 1..w : c[x] \in Byte
    BY <1>1, <2>1, ElementOfSeq
  <2>3. w \in Int /\ 1 \in Int
    BY <1>1
  <2> QED BY <2>2, <2>3, SubSeqProperties
<1> QED BY <1>1, <1>2, <1>3, <1>4, BodyIs, LocalHeaderIs, DescriptorIs DEF c

\* The entries are sequences of bytes after a step, too.
WholesTyped ==
    /\ Wholes \in Seq(Seq(Byte)) /\ Len(Wholes) = Len(files) /\ Len(files) \in Nat
    /\ \A i \in 1..Len(files) : Wholes[i] = Whole(i)

LEMMA WholesNext == Selected' => WholesTyped'
<1>1. Selected => WholesTyped
  BY WholesAre DEF WholesTyped
<1> QED BY <1>1, PTL

\* The entries before the first file that was written to are what they were.
LEMMA BodyBefore ==
    ASSUME Selected, Selected', files' = files, NEW m \in 0..Len(files),
           \A j \in 1..m : kept'[j] = kept[j]
    PROVE  /\ \A k \in 0..m : Body(k)' = Body(k)
           /\ Finished(m)' = Finished(m)
<1>1. /\ Wholes \in Seq(Seq(Byte)) /\ Len(Wholes) = Len(files) /\ Len(files) \in Nat
      /\ \A i \in 1..Len(files) : Wholes[i] = Whole(i)
  BY WholesAre
<1>2. /\ Wholes' \in Seq(Seq(Byte)) /\ Len(Wholes') = Len(files)
      /\ \A i \in 1..Len(files) : Wholes'[i] = Whole(i)'
  BY WholesNext DEF WholesTyped
<1>3. ASSUME NEW j \in 1..m PROVE Wholes[j] = Wholes'[j]
  <2>1. j \in 1..Len(files) /\ kept'[j] = kept[j]
    BY <1>1
  <2>2. UniqueName(j)' = UniqueName(j)
    BY DEF UniqueName, Before, Base, Key, Nameless
  <2>3. Whole(j)' = Whole(j)
    BY <2>1, <2>2 DEF Whole, LocalHeader, NameLen, Contents, Descriptor, Bytes
  <2> QED BY <1>1, <1>2, <2>1, <2>3
<1>4. \A k \in 0..m : Upto(Wholes, k) = Upto(Wholes', k)
  <2> DEFINE s == Wholes
             t == Wholes'
  <2>1. /\ s \in Seq(Seq(Byte)) /\ t \in Seq(Seq(Byte)) /\ Len(s) = Len(t) /\ m \in 0..Len(s)
        /\ \A j \in 1..m : s[j] = t[j]
    BY <1>1, <1>2, <1>3
  <2> HIDE DEF s, t
  <2>2. \A k \in 0..m : Upto(s, k) = Upto(t, k)
    BY <2>1, UptoAlike
  <2> QED BY <2>2 DEF s, t
<1>5. \A k \in 0..m : Body(k)' = Body(k)
  BY <1>4 DEF Body, Upto, Joined
<1>6. ASSUME NEW j \in 1..m PROVE Entered(j)' = Entered(j)
  <2>1. j - 1 \in 0..m
    BY <1>1
  <2>2. Body(j - 1)' = Body(j - 1)
    BY <1>5, <2>1
  <2> QED BY <2>2 DEF Entered
<1>7. Finished(m)' = Finished(m)
  BY <1>6 DEF Finished
<1> QED BY <1>5, <1>7

\* What has been read of a file is not what is written to it afterwards.
LEMMA ReadBefore ==
    ASSUME Selected, Selected', files' = files, NEW k \in 1..Len(files), NEW w \in Nat,
           kept'[k] = kept[k] \/ (w <= files[k].size /\ kept'[k] = w /\ kept[k] = files[k].size)
    PROVE  SubSeq(Contents(k, files[k].size), 1, w)' = SubSeq(Contents(k, files[k].size), 1, w)
<1> DEFINE c == Contents(k, files[k].size)
<1>1. CASE kept'[k] = kept[k]
  <2>1. c' = c
    BY <1>1 DEF Contents
  <2> QED BY <2>1
<1>2. CASE w <= files[k].size /\ kept'[k] = w /\ kept[k] = files[k].size
  <2>1. k \in Nat /\ files[k].size \in Nat
    BY LongIs
  <2>2. \A x \in 1..w : c'[x] = c[x]
    BY <1>2, <2>1 DEF Contents
  <2>3. SubSeq(c, 1, w) = [x \in 1..w |-> c[x]]
    OBVIOUS
  <2>4. SubSeq(c, 1, w)' = [x \in 1..w |-> c'[x]]
    OBVIOUS
  <2> QED BY <2>2, <2>3, <2>4
<1> QED BY <1>1, <1>2

\* Another program writes to a file that is still to be read, or to the rest of
\* the one in hand: what is written of the archive stays what was read.
LEMMA ChangeStep == ArchiveInv /\ FileChanges => ArchiveInv'
<1> SUFFICES ASSUME ArchiveInv, FileChanges PROVE ArchiveInv'
  OBVIOUS
<1>1. Selected /\ Selected' /\ files' = files /\ Len(files) \in Nat /\ DOMAIN files = 1..Len(files)
  <2>1. [Next]_vars /\ Selected
    BY DEF Next, ArchiveInv
  <2> QED BY <2>1, SelectedStep, WholesAre DEF Selected
<1>2. /\ disk \in [1..Len(files) -> 0..MaxSize] /\ kept \in [1..Len(files) -> 0..MaxSize]
      /\ \A j \in 1..Len(files) : disk[j] = files[j].size /\ kept[j] = files[j].size
      /\ stream = "open" /\ OpenInv
      /\ MaxSize \in Nat
  BY <1>1, ArchiveAssumption DEF FileChanges, Untouched, ArchiveInv
<1>3. PICK i \in 1..Len(files), n \in 0..MaxSize :
        /\ \/ index < i /\ kept' = [kept EXCEPT ![i] = 0]
           \/ /\ current # <<>> /\ current[1].file = i /\ current[1].written <= n
              /\ kept' = [kept EXCEPT ![i] = current[1].written]
        /\ disk' = [disk EXCEPT ![i] = n]
  BY <1>1 DEF FileChanges
<1>4. /\ stream' = stream /\ index' = index /\ current' = current /\ central' = central
      /\ out' = out
  BY DEF FileChanges
<1>5. disk' \in [1..Len(files) -> 0..MaxSize]
  BY <1>2, <1>3
<1>6. ASSUME NEW m \in 0..Len(files), Between(m)
      PROVE  Between(m)' /\ kept' \in [1..Len(files) -> 0..MaxSize]
  <2>1. m < i /\ kept' = [kept EXCEPT ![i] = 0]
    BY <1>3, <1>6 DEF Between
  <2>2. \A j \in 1..m : kept'[j] = kept[j]
    BY <1>1, <1>2, <2>1
  <2>3. Body(m)' = Body(m) /\ Finished(m)' = Finished(m)
    BY <1>1, <2>2, BodyBefore
  <2>4. kept' \in [1..Len(files) -> 0..MaxSize]
    BY <1>2, <2>1
  <2> QED BY <1>4, <1>6, <2>3, <2>4 DEF Between
<1>7. ASSUME NEW k \in 1..Len(files), NEW w \in Nat, InHand(k, w)
      PROVE  InHand(k, w)' /\ kept' \in [1..Len(files) -> 0..MaxSize]
  <2>1. /\ current[1].file = k /\ current[1].written = w /\ index = k
        /\ w <= files[k].size /\ files[k].size <= MaxSize /\ files[k].size \in Nat
    BY <1>2, <1>7 DEF InHand, Reading
  <2>2. \/ k < i /\ kept' = [kept EXCEPT ![i] = 0]
        \/ k = i /\ kept' = [kept EXCEPT ![i] = w] /\ w <= n
    BY <1>3, <2>1
  <2>3. k - 1 \in 0..Len(files) /\ \A j \in 1..k - 1 : kept'[j] = kept[j]
    BY <1>1, <1>2, <2>2
  <2>4. Body(k - 1)' = Body(k - 1) /\ Finished(k - 1)' = Finished(k - 1)
    <3>1. k - 1 \in 0..k - 1
      BY <1>1
    <3> QED BY <1>1, <2>3, <3>1, BodyBefore
  <2>5. kept'[k] = kept[k] \/ (w <= files[k].size /\ kept'[k] = w /\ kept[k] = files[k].size)
    BY <1>2, <2>1, <2>2
  <2>6. SubSeq(Contents(k, files[k].size), 1, w)' = SubSeq(Contents(k, files[k].size), 1, w)
    BY <1>1, <2>5, ReadBefore
  <2>7. UniqueName(k)' = UniqueName(k)
    BY <1>1 DEF UniqueName, Before, Base, Key, Nameless
  <2>8. LocalHeader(UniqueName(k))' = LocalHeader(UniqueName(k))
    BY <2>7 DEF LocalHeader, NameLen, Bytes
  <2>9. Partly(k, w)' = Partly(k, w) /\ Reading(k, w)' = Reading(k, w)
    BY <2>4, <2>6, <2>8 DEF Partly, Reading
  <2>10. w <= disk'[k]
    BY <1>2, <1>3, <2>1, <2>2
  <2>11. out = Partly(k, w)
    BY <1>2, <1>7 DEF InHand
  <2>12. kept' \in [1..Len(files) -> 0..MaxSize]
    <3>1. 0 \in 0..MaxSize /\ w \in 0..MaxSize
      BY <1>2, <2>1
    <3>2. \E v \in 0..MaxSize : kept' = [kept EXCEPT ![i] = v]
      BY <2>2, <3>1
    <3>3. kept \in [1..Len(files) -> 0..MaxSize]
      BY <1>2
    <3> QED BY ONLY <3>2, <3>3
  <2> QED BY <1>4, <1>7, <2>4, <2>9, <2>10, <2>11, <2>12 DEF InHand
<1>8. OpenInv' /\ kept' \in [1..Len(files) -> 0..MaxSize]
  BY <1>1, <1>2, <1>6, <1>7 DEF OpenInv
<1> QED BY <1>1, <1>2, <1>4, <1>5, <1>8 DEF ArchiveInv

\* The next file is begun.
LEMMA StartStep == ArchiveInv /\ StartsEntry => ArchiveInv'
<1> SUFFICES ASSUME ArchiveInv, StartsEntry PROVE ArchiveInv'
  OBVIOUS
<1>1. [Next]_vars /\ kept' = kept
  BY DEF Next, StartsEntry
<1>2. /\ Selected /\ Selected' /\ files' = files /\ Len(files) \in Nat
      /\ \A m : Finished(m)' = Finished(m)
      /\ \A k, w : Reading(k, w)' = Reading(k, w) /\ Partly(k, w)' = Partly(k, w)
      /\ disk \in [1..Len(files) -> 0..MaxSize] /\ kept' \in [1..Len(files) -> 0..MaxSize]
      /\ \A i \in 1..Len(files) : disk[i] \in Nat /\ files[i].size \in Nat
  BY <1>1, ArchiveFrame
<1>3. PICK m \in 0..Len(files) : Between(m)
  BY DEF StartsEntry, ArchiveInv, OpenInv, InHand
<1> DEFINE i == m + 1
<1>4. i \in 1..Len(files) /\ i - 1 = m
  BY <1>2, <1>3 DEF StartsEntry, Between
<1>5. /\ index' = i /\ disk' = disk /\ central' = central /\ stream' = stream
      /\ out' = Body(i - 1) \o LocalHeader(UniqueName(i))
      /\ current' = <<[file |-> i, offset |-> Len(Body(i - 1)), written |-> 0]>>
  BY <1>3, <1>4 DEF StartsEntry, Between
<1> HIDE DEF i
<1>6. out' = Partly(i, 0)
  <2>1. 0 \in 0..files[i].size
    BY <1>2, <1>4
  <2>2. Body(i - 1) \in Seq(Byte) /\ LocalHeader(UniqueName(i)) \in Seq(Byte)
    BY <1>2, <1>4, <2>1, PartsAre
  <2> DEFINE b == Body(i - 1)
             h == LocalHeader(UniqueName(i))
  <2> HIDE DEF b, h
  <2>3. b \o h \in Seq(Byte)
    BY <2>2, ConcatProperties DEF b, h
  <2>4. (b \o h) \o <<>> = b \o h
    BY <2>3, ConcatEmptySeq
  <2>5. SubSeq(Contents(i, files[i].size), 1, 0) = <<>>
    BY SubSeqEmpty
  <2> QED BY <1>5, <2>4, <2>5 DEF Partly, b, h
<1>7. InHand(i, 0)'
  <2>1. central' = Finished(i - 1)
    BY <1>3, <1>4, <1>5 DEF Between
  <2>2. current' = <<Reading(i, 0)>>
    BY <1>5 DEF Reading
  <2>3. 0 <= disk[i]
    BY <1>2, <1>4
  <2> QED BY <1>2, <1>4, <1>5, <1>6, <2>1, <2>2, <2>3 DEF InHand
<1>8. OpenInv'
  BY <1>2, <1>4, <1>7 DEF OpenInv
<1> QED BY <1>2, <1>5, <1>8 DEF ArchiveInv, StartsEntry

\* A piece of the file in hand.
LEMMA PieceStep == ArchiveInv /\ ReadsPiece => ArchiveInv'
<1> SUFFICES ASSUME ArchiveInv, ReadsPiece PROVE ArchiveInv'
  OBVIOUS
<1>1. [Next]_vars /\ kept' = kept
  BY DEF Next, ReadsPiece
<1>2. /\ Selected /\ Selected' /\ files' = files /\ Len(files) \in Nat
      /\ \A m : Finished(m)' = Finished(m)
      /\ \A k, w : Reading(k, w)' = Reading(k, w) /\ Partly(k, w)' = Partly(k, w)
      /\ disk \in [1..Len(files) -> 0..MaxSize] /\ kept' \in [1..Len(files) -> 0..MaxSize]
      /\ \A i \in 1..Len(files) : disk[i] \in Nat /\ files[i].size \in Nat
  BY <1>1, ArchiveFrame
<1>3. PICK i \in 1..Len(files), w \in Nat : InHand(i, w)
  BY DEF ReadsPiece, ArchiveInv, OpenInv, Between
<1>4. /\ current = <<Reading(i, w)>> /\ current[1] = Reading(i, w)
      /\ Reading(i, w).file = i /\ Reading(i, w).written = w
  BY <1>3 DEF InHand, Reading
<1>5. PICK n \in (w + 1)..disk[i] :
        /\ out' = out \o SubSeq(Contents(i, disk[i]), w + 1, n)
        /\ current' = <<[Reading(i, w) EXCEPT !.written = n]>>
  BY <1>4 DEF ReadsPiece
<1>6. /\ disk' = disk /\ index' = index /\ central' = central /\ stream' = stream
  BY DEF ReadsPiece
<1>7. current' = <<Reading(i, n)>>
  <2>1. [Reading(i, w) EXCEPT !.written = n] = Reading(i, n)
    BY DEF Reading
  <2> QED BY <1>5, <2>1
<1>8. n \in Nat /\ n <= disk[i]
  BY <1>2, <1>3, <1>5
<1>9. disk[i] = files[i].size => out' = Partly(i, n)
  <2> SUFFICES ASSUME disk[i] = files[i].size PROVE out' = Partly(i, n)
    OBVIOUS
  <2> DEFINE b == Body(i - 1)
             h == LocalHeader(UniqueName(i))
             c == Contents(i, files[i].size)
             s == SubSeq(c, 1, w)
             t == SubSeq(c, w + 1, n)
  <2>1. w \in 0..files[i].size /\ n \in 0..files[i].size /\ w <= n
    BY <1>2, <1>3, <1>5, <1>8 DEF InHand
  <2>2. /\ b \in Seq(Byte) /\ h \in Seq(Byte) /\ c \in Seq(Byte)
        /\ s \in Seq(Byte) /\ Len(c) = files[i].size /\ files[i].size \in Nat
    BY <1>2, <2>1, PartsAre
  <2>3. out' = ((b \o h) \o s) \o t
    BY <1>3, <1>5 DEF InHand, Partly
  <2> HIDE DEF b, h, c
  <2>4. t \in Seq(Byte)
    <3>1. \A x \in (w + 1)..n : c[x] \in Byte
      BY <2>1, <2>2, ElementOfSeq
    <3>2. w + 1 \in Int /\ n \in Int
      BY <2>1
    <3> QED BY <3>1, <3>2, SubSeqProperties
  <2>5. s \o t = SubSeq(c, 1, n)
    <3>1. 1 \in 1..Len(c) + 1 /\ w \in 1 - 1..Len(c) /\ n \in w..Len(c)
      BY <2>1, <2>2
    <3> QED BY <2>2, <3>1, ConcatAdjacentSubSeq
  <2> HIDE DEF s, t
  <2>6. b \in Seq(Byte) /\ h \in Seq(Byte) /\ s \in Seq(Byte)
    BY <2>2
  <2>7. ((b \o h) \o s) \o t = (b \o h) \o (s \o t)
    <3>1. b \o h \in Seq(Byte)
      BY <2>6, Joining, Zenon
    <3> DEFINE x == b \o h
    <3>2. x \in Seq(Byte)
      BY <3>1
    <3> HIDE DEF x
    <3>3. (x \o s) \o t = x \o (s \o t)
      <4>1. s \in Seq(Byte)
        BY <2>6
      <4>2. \A p, q, r \in Seq(Byte) : (p \o q) \o r = p \o (q \o r)
        BY Joining
      <4> QED BY ONLY <2>4, <3>2, <4>1, <4>2, Zenon
    <3> QED BY <3>3 DEF x
  <2> QED BY <2>3, <2>5, <2>7 DEF Partly, b, h, c
<1>10. InHand(i, n)'
  BY <1>2, <1>3, <1>6, <1>7, <1>8, <1>9 DEF InHand
<1>11. OpenInv'
  BY <1>2, <1>8, <1>10 DEF OpenInv
<1> QED BY <1>2, <1>6, <1>11 DEF ArchiveInv, ReadsPiece

\* The file in hand is at its end: if it is as long as it was, so is its entry.
LEMMA EndStep == ArchiveInv /\ EndsEntry => ArchiveInv'
<1> SUFFICES ASSUME ArchiveInv, EndsEntry PROVE ArchiveInv'
  OBVIOUS
<1>1. [Next]_vars /\ kept' = kept
  BY DEF Next, EndsEntry
<1>2. /\ Selected /\ Selected' /\ files' = files /\ Len(files) \in Nat
      /\ \A m : Body(m)' = Body(m) /\ Finished(m)' = Finished(m)
      /\ disk \in [1..Len(files) -> 0..MaxSize] /\ kept' \in [1..Len(files) -> 0..MaxSize]
      /\ \A i \in 1..Len(files) : disk[i] \in Nat /\ files[i].size \in Nat
  BY <1>1, ArchiveFrame
<1>3. PICK i \in 1..Len(files), w \in Nat : InHand(i, w)
  BY DEF EndsEntry, ArchiveInv, OpenInv, Between
<1>4. /\ current = <<Reading(i, w)>> /\ current[1] = Reading(i, w)
      /\ Reading(i, w).file = i /\ Reading(i, w).written = w
  BY <1>3 DEF InHand, Reading
<1>5. w = disk[i] /\ disk' = disk /\ index' = index
  BY <1>4 DEF EndsEntry
<1>6. CASE SameSize(Reading(i, w))
  <2>1. /\ out' = out \o Descriptor(w) /\ central' = Append(central, Reading(i, w))
        /\ current' = <<>> /\ stream' = stream
    BY <1>4, <1>6 DEF EndsEntry
  <2>2. w = files[i].size
    BY <1>4, <1>6 DEF SameSize
  <2> DEFINE b == Body(i - 1)
             h == LocalHeader(UniqueName(i))
             c == Contents(i, files[i].size)
             d == Descriptor(files[i].size)
  <2>3. /\ b \in Seq(Byte) /\ h \in Seq(Byte) /\ c \in Seq(Byte) /\ d \in Seq(Byte)
        /\ Len(c) = w /\ i - 1 \in Nat /\ i - 1 + 1 = i /\ i \in 0..Len(files)
    BY <1>2, <1>3, <2>2, PartsAre
  <2>4. out = (b \o h) \o SubSeq(c, 1, w)
    BY <1>3, <1>5, <2>2 DEF InHand, Partly
  <2>5. Body(i) = b \o ((h \o c) \o d)
    BY <1>2, BodyIs DEF Whole
  <2>6. out' = ((b \o h) \o SubSeq(c, 1, w)) \o d
    BY <2>1, <2>2, <2>4
  <2> HIDE DEF b, h, c, d
  <2>7. SubSeq(c, 1, w) = c
    BY <2>3, SubSeqFull
  <2>8. ((b \o h) \o c) \o d = b \o ((h \o c) \o d)
    <3>1. (b \o h) \o c = b \o (h \o c) /\ h \o c \in Seq(Byte)
      BY <2>3, Joining, Zenon
    <3>2. (b \o (h \o c)) \o d = b \o ((h \o c) \o d)
      BY <2>3, <3>1, Joining, Zenon
    <3> QED BY <3>1, <3>2, Zenon
  <2>9. out' = Body(i)
    BY <2>5, <2>6, <2>7, <2>8
  <2>10. central' = Finished(i)
    <3>1. central = Finished(i - 1) /\ Reading(i, w) = Entered(i)
      BY <1>3, <2>2 DEF InHand, Reading, Entered
    <3>2. Append(Finished(i - 1), Entered(i - 1 + 1)) = Finished(i - 1 + 1)
      BY <2>3, FinishedIs
    <3> QED BY <2>1, <2>3, <3>1, <3>2
  <2>11. Between(i)'
    BY <1>2, <1>3, <1>5, <2>1, <2>9, <2>10 DEF Between, InHand
  <2>12. OpenInv'
    BY <1>2, <2>3, <2>11 DEF OpenInv
  <2> QED BY <1>2, <1>5, <2>1, <2>12 DEF ArchiveInv, EndsEntry
<1>7. CASE ~SameSize(Reading(i, w))
  <2>1. stream' = "error"
    BY <1>4, <1>7 DEF EndsEntry
  <2> QED BY <1>2, <1>5, <2>1 DEF ArchiveInv
<1> QED BY <1>6, <1>7

\* The directory and the end record.
LEMMA FinishStep == ArchiveInv /\ Finishes => ArchiveInv'
<1> SUFFICES ASSUME ArchiveInv, Finishes PROVE ArchiveInv'
  OBVIOUS
<1>1. [Next]_vars /\ kept' = kept
  BY DEF Next, Finishes
<1>2. /\ Selected /\ Selected' /\ files' = files /\ Len(files) \in Nat
      /\ \A m : Body(m)' = Body(m)
      /\ Heads' = Heads
      /\ disk \in [1..Len(files) -> 0..MaxSize] /\ kept' \in [1..Len(files) -> 0..MaxSize]
  BY <1>1, ArchiveFrame
<1>3. PICK m \in 0..Len(files) : Between(m)
  BY DEF Finishes, ArchiveInv, OpenInv, InHand
<1> DEFINE n == Len(files)
<1>4. central = Finished(n) /\ out = Body(n) /\ stream' = "closed" /\ disk' = disk
      /\ out' = out \o Directory(central) \o EndRecord(central, Len(out))
  BY <1>3 DEF Finishes, Between
<1>5. Len(central) = n /\ DOMAIN central = 1..n /\ \A j \in 1..n : central[j] = Entered(j)
  BY <1>2, <1>4, FinishedIs
<1>6. Directory(central) = FlattenSeq(Heads)
  <2>1. [j \in DOMAIN central |-> CentralHeader(central[j])] = Heads
    BY <1>5 DEF Heads
  <2> QED BY <2>1 DEF Directory
<1>7. EndRecord(central, Len(out)) = Bytes(EndLen, Closing)
  <2> DEFINE e(k, l, o) == [kind |-> "end", count |-> k % CountWrap, length |-> l,
                            offset |-> o]
  <2>1. EndRecord(central, Len(out))
          = Bytes(EndLen, e(Len(central), Len(Directory(central)), Len(out)))
    BY DEF EndRecord
  <2>2. Closing = e(n, Len(FlattenSeq(Heads)), Len(Body(n)))
    BY DEF Closing
  <2> HIDE DEF e
  <2>3. /\ Len(central) = n /\ Directory(central) = FlattenSeq(Heads)
        /\ Len(out) = Len(Body(n))
    BY <1>4, <1>5, <1>6
  <2> QED BY <2>1, <2>2, <2>3, Zenon
<1>8. ClosedInv'
  <2>1. Body(n)' = Body(n)
    BY <1>2
  <2>2. Bytes(EndLen, Closing)' = Bytes(EndLen, Closing) /\ FlattenSeq(Heads)' = FlattenSeq(Heads)
    BY <1>2, <2>1 DEF Closing, Bytes, EndLen, FlattenSeq
  <2> QED BY <1>2, <1>4, <1>6, <1>7, <2>1, <2>2 DEF ClosedInv
<1> QED BY <1>2, <1>4, <1>8 DEF ArchiveInv

LEMMA ArchiveStep == ArchiveInv /\ [Next]_vars => ArchiveInv'
<1> SUFFICES ASSUME ArchiveInv, [Next]_vars PROVE ArchiveInv'
  OBVIOUS
<1>1. CASE UNCHANGED vars
  <2>1. /\ Selected' /\ files' = files
        /\ \A m : Body(m)' = Body(m) /\ Finished(m)' = Finished(m)
        /\ \A k, w : Reading(k, w)' = Reading(k, w) /\ Partly(k, w)' = Partly(k, w)
        /\ Heads' = Heads
    BY <1>1, ArchiveFrame DEF vars
  <2>2. UNCHANGED <<files, disk, kept, out, index, current, central, stream>>
    BY <1>1 DEF vars
  <2>3. OpenInv => OpenInv'
    <3>1. ASSUME NEW m \in 0..Len(files), Between(m) PROVE OpenInv'
      <4>1. Between(m)'
        BY <2>1, <2>2, <3>1 DEF Between
      <4> QED BY <2>1, <4>1 DEF OpenInv
    <3>2. ASSUME NEW i \in 1..Len(files), NEW w \in Nat, InHand(i, w) PROVE OpenInv'
      <4>1. InHand(i, w)'
        BY <2>1, <2>2, <3>2 DEF InHand
      <4> QED BY <2>1, <4>1 DEF OpenInv
    <3> QED BY <3>1, <3>2 DEF OpenInv
  <2>4. ClosedInv => ClosedInv'
    <3>1. files' = files /\ Heads' = Heads /\ Body(Len(files))' = Body(Len(files))
      BY <2>1
    <3>2. Bytes(EndLen, Closing)' = Bytes(EndLen, Closing)
          /\ FlattenSeq(Heads)' = FlattenSeq(Heads)
      BY <3>1 DEF Closing, Bytes, EndLen, FlattenSeq
    <3> QED BY <2>2, <3>1, <3>2 DEF ClosedInv
  <2> QED BY <2>1, <2>2, <2>3, <2>4 DEF ArchiveInv
<1> QED BY <1>1, ChangeStep, StartStep, PieceStep, EndStep, FinishStep DEF Next

----------------------------------------------------------------------------
(* Reading it back *)

\* What the directory says of the i-th file.
Listed(i) ==
    [kind |-> "central", name |-> UniqueName(i), size |-> files[i].size,
     offset |-> Len(Body(i - 1))]

LEMMA HeadIs ==
    ASSUME Selected, NEW i \in 1..Len(files)
    PROVE  /\ CentralHeader(Entered(i)) \in Seq(Byte)
           /\ Len(CentralHeader(Entered(i))) = CentralLen + Long(i)
           /\ CentralHeader(Entered(i))[1] = [at |-> 1, what |-> Listed(i)]
<1> DEFINE n == CentralLen + Long(i)
<1>1. i - 1 \in 0..Len(files)
  BY LongIs
<1>2. Len(Body(i - 1)) \in Nat
  BY <1>1, BodyIs
<1>3. Listed(i) \in What
  BY <1>2, LongIs DEF Listed, What
<1>4. n \in Nat /\ 1 \in 1..n
  BY LongIs DEF CentralLen
<1>5. CentralHeader(Entered(i)) = Bytes(n, Listed(i))
  BY DEF CentralHeader, Entered, Long, Listed
<1> HIDE DEF n
<1>6. /\ Bytes(n, Listed(i)) \in Seq(Byte) /\ Len(Bytes(n, Listed(i))) = n
      /\ Bytes(n, Listed(i))[1] = [at |-> 1, what |-> Listed(i)]
  BY <1>3, <1>4, BytesIs
<1> QED BY <1>5, <1>6 DEF n

\* Where the k-th record of the directory begins in it.
Place(k) == Len(Upto(Heads, k - 1))

LEMMA HeadsAre ==
    ASSUME Selected
    PROVE  /\ FlattenSeq(Heads) \in Seq(Byte) /\ Len(FlattenSeq(Heads)) \in Nat
           /\ Len(FlattenSeq(Heads)) = Place(Len(files) + 1)
           /\ Place(1) = 0
           /\ \A k \in 1..Len(files) :
                /\ Place(k) \in Nat
                /\ Place(k + 1) = Place(k) + CentralLen + Long(k)
                /\ Place(k) + CentralLen + Long(k) <= Len(FlattenSeq(Heads))
                /\ FlattenSeq(Heads)[Place(k) + 1] = [at |-> 1, what |-> Listed(k)]
<1> DEFINE n == Len(files)
           h(k) == CentralHeader(Entered(k))
<1>1. n \in Nat
  BY WholesAre
<1>2. \A k \in 1..n : h(k) \in Seq(Byte)
  BY HeadIs
<1>3. Heads \in [1..n -> Seq(Byte)] /\ \A k \in 1..n : Heads[k] = h(k)
  BY <1>2 DEF Heads
<1>4. Heads \in Seq(Seq(Byte)) /\ Len(Heads) = n
  BY <1>1, <1>3, MappingIsASeq
<1>5. /\ FlattenSeq(Heads) = Upto(Heads, n)
      /\ Upto(Heads, 0) = <<>>
      /\ \A m \in 0..n : Upto(Heads, m) \in Seq(Byte)
      /\ \A m \in 1..n : Upto(Heads, m) = Upto(Heads, m - 1) \o Heads[m]
  BY <1>4, UptoIs
<1>6. n \in 0..n /\ (n + 1) - 1 = n
  BY <1>1
<1>7. /\ FlattenSeq(Heads) \in Seq(Byte) /\ Len(FlattenSeq(Heads)) \in Nat
      /\ Len(FlattenSeq(Heads)) = Place(n + 1)
  <2>1. FlattenSeq(Heads) \in Seq(Byte)
    BY <1>5, <1>6
  <2>2. Len(FlattenSeq(Heads)) = Place(n + 1)
    BY <1>5, <1>6 DEF Place
  <2> QED BY <2>1, <2>2, LenProperties
<1>8. Place(1) = 0
  BY <1>5 DEF Place
<1>9. ASSUME NEW k \in 1..n
      PROVE  /\ Place(k) \in Nat
             /\ Place(k + 1) = Place(k) + CentralLen + Long(k)
             /\ Place(k) + CentralLen + Long(k) <= Len(FlattenSeq(Heads))
             /\ FlattenSeq(Heads)[Place(k) + 1] = [at |-> 1, what |-> Listed(k)]
  <2>1. /\ Heads[k] \in Seq(Byte) /\ Len(Heads[k]) = CentralLen + Long(k)
        /\ Heads[k][1] = [at |-> 1, what |-> Listed(k)]
    BY <1>3, HeadIs
  <2>2. /\ n \in k..n /\ k - 1 \in 0..n /\ (k + 1) - 1 = k
        /\ Long(k) \in Nat /\ CentralLen \in Nat /\ 1 \in 1..CentralLen + Long(k)
    BY <1>1, LongIs DEF CentralLen
  <2>3. /\ Place(k) \in Nat
        /\ Place(k) + Len(Heads[k]) <= Len(Upto(Heads, n))
        /\ \A x \in 1..Len(Heads[k]) : Upto(Heads, n)[Place(k) + x] = Heads[k][x]
    <3>1. k \in 1..Len(Heads) /\ n \in k..Len(Heads)
      BY <1>4, <2>2
    <3>2. /\ Len(Upto(Heads, k - 1)) \in Nat
          /\ Len(Upto(Heads, k - 1)) + Len(Heads[k]) <= Len(Upto(Heads, n))
          /\ \A x \in 1..Len(Heads[k]) :
               Upto(Heads, n)[Len(Upto(Heads, k - 1)) + x] = Heads[k][x]
      BY <1>4, <3>1, UptoHolds
    <3> QED BY <3>2 DEF Place
  <2>4. Upto(Heads, n)[Place(k) + 1] = Heads[k][1]
    BY <2>1, <2>2, <2>3
  <2>5. Place(k + 1) = Place(k) + Len(Heads[k])
    <3> DEFINE a == Upto(Heads, k - 1)
    <3>1. a \in Seq(Byte) /\ Upto(Heads, k) = a \o Heads[k]
      BY <1>5, <2>2
    <3> HIDE DEF a
    <3>2. Len(a \o Heads[k]) = Len(a) + Len(Heads[k])
      BY <2>1, <3>1, Concat
    <3> QED BY <2>2, <3>1, <3>2 DEF Place, a
  <2> DEFINE r == Heads[k]
             y == Place(k)
             z == Place(k + 1)
             l == Long(k)
             t == FlattenSeq(Heads)
  <2>6. /\ t = Upto(Heads, n) /\ Len(r) = CentralLen + l /\ y \in Nat
        /\ y + Len(r) <= Len(t) /\ t[y + 1] = [at |-> 1, what |-> Listed(k)]
        /\ z = y + Len(r) /\ l \in Nat /\ CentralLen \in Nat
    BY <1>5, <2>1, <2>2, <2>3, <2>4, <2>5
  <2> HIDE DEF r, y, z, l, t
  <2>7. z = y + CentralLen + l /\ y + CentralLen + l <= Len(t)
    BY <2>6
  <2> QED BY <2>6, <2>7 DEF y, z, l, t
<1> QED BY <1>7, <1>8, <1>9

\* Where the i-th entry begins, and what lies there.
LEMMA EntryAt ==
    ASSUME Selected, NEW i \in 1..Len(files)
    PROVE  LET o == Len(Body(i - 1))
           IN  /\ o \in Nat /\ Len(Body(Len(files))) \in Nat
               /\ o + LocalLen + Long(i) + files[i].size <= Len(Body(Len(files)))
               /\ Body(Len(files))[o + 1] =
                    [at |-> 1, what |-> [kind |-> "local", nameLen |-> Long(i)]]
               /\ \A x \in 1..files[i].size :
                    Body(Len(files))[o + LocalLen + Long(i) + x] = Contents(i, files[i].size)[x]
<1> DEFINE n == Len(files)
           o == Len(Body(i - 1))
           p == LocalLen + Long(i)
           z == files[i].size
           w == Whole(i)
<1>1. /\ Wholes \in Seq(Seq(Byte)) /\ Len(Wholes) = n /\ Wholes[i] = w /\ n \in Nat
  BY WholesAre
<1>2. /\ w \in Seq(Byte) /\ Len(w) = p + z + DescriptorLen
      /\ w[1] = [at |-> 1, what |-> [kind |-> "local", nameLen |-> Long(i)]]
      /\ \A x \in 1..z : w[p + x] = Contents(i, z)[x]
  BY WholeIs
<1>3. p \in Nat /\ z \in Nat /\ DescriptorLen \in Nat /\ p >= 1 /\ n \in i..n
  BY <1>1, LongIs DEF LocalLen, DescriptorLen
<1> HIDE DEF p, z, w
<1>4. /\ o \in Nat /\ Len(Body(n)) \in Nat
      /\ o + Len(w) <= Len(Body(n))
      /\ \A x \in 1..Len(w) : Body(n)[o + x] = w[x]
  <2>1. i \in 1..Len(Wholes) /\ n \in i..Len(Wholes)
    BY <1>1, <1>3
  <2>2. /\ Len(Upto(Wholes, i - 1)) \in Nat /\ Len(Upto(Wholes, n)) \in Nat
        /\ Len(Upto(Wholes, i - 1)) + Len(Wholes[i]) <= Len(Upto(Wholes, n))
        /\ \A x \in 1..Len(Wholes[i]) :
             Upto(Wholes, n)[Len(Upto(Wholes, i - 1)) + x] = Wholes[i][x]
    BY <1>1, <2>1, UptoHolds
  <2> QED BY <1>1, <2>2 DEF Body
<1> HIDE DEF o, n
<1>5. 1 \in 1..Len(w) /\ \A x \in 1..z : p + x \in 1..Len(w) /\ x \in Nat
  BY <1>2, <1>3
<1>6. Body(n)[o + 1] = w[1] /\ \A x \in 1..z : Body(n)[o + (p + x)] = w[p + x]
  BY <1>4, <1>5
<1>7. o + p + z <= Len(Body(n))
  BY <1>2, <1>3, <1>4
<1>8. \A x \in 1..z : Body(n)[(o + p) + x] = Contents(i, z)[x]
  <2>1. \A x \in 1..z : (o + p) + x = o + (p + x)
    BY <1>3, <1>4, <1>5
  <2> QED BY <1>2, <1>6, <2>1
<1>9. o + p = o + LocalLen + Long(i)
  BY <1>3, <1>4, LongIs DEF p, LocalLen
<1> QED BY <1>2, <1>4, <1>6, <1>7, <1>8, <1>9 DEF o, n, z

\* The three parts of a finished archive, byte by byte.
LEMMA OutIs ==
    ASSUME Selected, ClosedInv
    PROVE  LET b == Len(Body(Len(files)))
               d == Len(FlattenSeq(Heads))
           IN  /\ b \in Nat /\ d \in Nat
               /\ out \in Seq(Byte) /\ Len(out) = b + d + EndLen
               /\ \A x \in 1..b : out[x] = Body(Len(files))[x]
               /\ \A x \in 1..d : out[b + x] = FlattenSeq(Heads)[x]
               /\ out[(b + d) + 1] = [at |-> 1, what |-> Closing]
<1> DEFINE B == Body(Len(files))
           D == FlattenSeq(Heads)
           E == Bytes(EndLen, Closing)
           b == Len(B)
           d == Len(D)
<1>1. B \in Seq(Byte) /\ b \in Nat
  BY WholesAre, BodyIs
<1>2. D \in Seq(Byte) /\ d \in Nat
  BY HeadsAre
<1>3. Closing \in What
  <2>1. Len(files) \in Nat
    BY WholesAre
  <2>2. CountWrap \in Nat /\ CountWrap > 0
    BY ArchiveAssumption
  <2>3. Len(files) % CountWrap \in Nat
    BY <2>1, <2>2
  <2> HIDE DEF B, D
  <2> QED BY <1>1, <1>2, <2>3 DEF Closing, What, B, D
<1>4. E \in Seq(Byte) /\ Len(E) = EndLen /\ E[1] = [at |-> 1, what |-> Closing]
      /\ EndLen \in Nat /\ 1 \in 1..EndLen
  <2>1. EndLen \in Nat /\ 1 \in 1..EndLen
    BY DEF EndLen
  <2>2. /\ E \in Seq(Byte) /\ Len(E) = EndLen
        /\ \A k \in 1..EndLen : E[k] = [at |-> k, what |-> Closing]
    BY <1>3, <2>1, BytesIs
  <2> HIDE DEF E
  <2> QED BY <2>1, <2>2
<1>5. out = (B \o D) \o E
  BY DEF ClosedInv
<1> HIDE DEF B, D, E
<1> DEFINE u == B \o D
<1>6. /\ u \in Seq(Byte) /\ Len(u) = b + d
      /\ \A x \in 1..b : u[x] = B[x]
      /\ \A x \in 1..d : u[b + x] = D[x]
  BY <1>1, <1>2, Concat
<1>7. out = u \o E
  BY <1>5
<1> HIDE DEF u
<1>8. /\ u \o E \in Seq(Byte) /\ Len(u \o E) = Len(u) + Len(E)
      /\ \A x \in 1..Len(u) : (u \o E)[x] = u[x]
      /\ \A x \in 1..Len(E) : (u \o E)[Len(u) + x] = E[x]
  <2>1. u \in Seq(Byte) /\ E \in Seq(Byte)
    BY <1>4, <1>6
  <2> QED BY <2>1, Concat
<1>9. \A x \in 1..b : x \in 1..b + d
  BY <1>1, <1>2
<1>10. \A x \in 1..d : b + x \in 1..b + d
  BY <1>1, <1>2
<1>11. /\ out \in Seq(Byte) /\ Len(out) = b + d + EndLen
       /\ \A x \in 1..b : out[x] = B[x]
       /\ \A x \in 1..d : out[b + x] = D[x]
       /\ out[(b + d) + 1] = E[1]
  BY <1>1, <1>2, <1>4, <1>6, <1>7, <1>8, <1>9, <1>10
<1> QED BY <1>1, <1>2, <1>4, <1>11 DEF B, D

\* The reader finds the end record the writer put last, whatever a file holds.
LEMMA EndIs ==
    ASSUME Selected, ClosedInv
    PROVE  EndsFound # {} /\ TheEnd = Closing
<1> DEFINE e == Len(Body(Len(files))) + Len(FlattenSeq(Heads))
<1>1. e \in Nat /\ Len(out) = e + EndLen /\ out[e + 1] = [at |-> 1, what |-> Closing]
  BY OutIs
<1> HIDE DEF e
<1>2. Closing.kind = "end"
  BY DEF Closing
<1>3. e \in EndsFound
  <2>1. e \in 0..Len(out) - 1 /\ e + EndLen <= Len(out)
    BY <1>1 DEF EndLen
  <2>2. Is(e, "end")
    BY <1>1, <1>2 DEF Is
  <2> QED BY <2>1, <2>2 DEF EndsFound, Ends
<1>4. \A f \in EndsFound : f \in Nat /\ f <= e
  BY <1>1 DEF EndsFound, Ends, EndLen
<1>5. LastEnd(EndsFound) = e
  <2>1. \E g \in EndsFound : \A f \in EndsFound : f <= g
    BY <1>3, <1>4
  <2> DEFINE l == LastEnd(EndsFound)
  <2>2. l \in EndsFound /\ \A f \in EndsFound : f <= l
    BY <2>1 DEF LastEnd
  <2> HIDE DEF l
  <2>3. l \in Nat /\ l <= e /\ e <= l
    BY <1>3, <1>4, <2>2
  <2>4. l = e
    BY <1>1, <2>3
  <2> QED BY <2>4 DEF l
<1> QED BY <1>1, <1>3, <1>5 DEF TheEnd

\* The declared length, entry by entry.
Takes(p, k) ==
    p + (LocalLen + NameLen(UniqueName(k)) + files[k].size + DescriptorLen)
      + (CentralLen + NameLen(UniqueName(k)))

SizedBy(f) == f = [n \in 0..Len(files) |-> IF n = 0 THEN 0 ELSE Takes(f[n - 1], n)]

LEMMA SizedIs ==
    ASSUME Selected
    PROVE  Sized[Len(files)] = Len(Body(Len(files))) + Len(FlattenSeq(Heads))
<1> DEFINE n == Len(files)
           at(k) == Len(Body(k)) + Place(k + 1)
           f == [k \in 0..n |-> at(k)]
<1>1. n \in Nat
  BY WholesAre
<1>2. at(0) = 0
  <2>1. Len(Body(0)) = 0 /\ Place(1) = 0 /\ 0 + 1 = 1
    BY BodyIs, HeadsAre
  <2> QED BY <2>1
<1>3. ASSUME NEW k \in 1..n PROVE at(k) = Takes(at(k - 1), k)
  <2>1. /\ k - 1 \in 0..n /\ k \in 0..n /\ (k - 1) + 1 = k
        /\ Long(k) \in Nat /\ files[k].size \in Nat /\ Long(k) = NameLen(UniqueName(k))
        /\ LocalLen \in Nat /\ DescriptorLen \in Nat /\ CentralLen \in Nat
    BY <1>1, LongIs DEF LocalLen, DescriptorLen, CentralLen, Long
  <2>2. /\ Body(k) = Body(k - 1) \o Whole(k) /\ Body(k - 1) \in Seq(Byte)
        /\ Len(Body(k - 1)) \in Nat
    BY <2>1, BodyIs
  <2>3. Whole(k) \in Seq(Byte)
        /\ Len(Whole(k)) = LocalLen + Long(k) + files[k].size + DescriptorLen
    BY WholeIs
  <2>4. Len(Body(k - 1) \o Whole(k)) = Len(Body(k - 1)) + Len(Whole(k))
    BY <2>2, <2>3, Concat
  <2>5. Place(k) \in Nat /\ Place(k + 1) = Place(k) + CentralLen + Long(k)
    BY HeadsAre
  <2>6. at(k - 1) = Len(Body(k - 1)) + Place(k)
    BY <2>1
  <2>7. at(k) = (Len(Body(k - 1)) + Len(Whole(k))) + Place(k + 1)
    BY <2>2, <2>4
  <2> HIDE DEF at
  <2> DEFINE x == Len(Body(k - 1))
             y == Place(k)
             l == Long(k)
             z == files[k].size
  <2>8. Takes(at(k - 1), k)
          = at(k - 1) + (LocalLen + l + z + DescriptorLen) + (CentralLen + l)
    BY DEF Takes, Long
  <2>9. at(k - 1) = x + y /\ at(k) = (x + (LocalLen + l + z + DescriptorLen))
                                       + (y + CentralLen + l)
    BY <2>3, <2>5, <2>6, <2>7
  <2>10. x \in Nat /\ y \in Nat /\ l \in Nat /\ z \in Nat
    BY <2>1, <2>2, <2>5
  <2> HIDE DEF x, y, l, z
  <2> QED BY <2>1, <2>8, <2>9, <2>10
<1> HIDE DEF at
<1>4. f = [k \in 0..n |-> IF k = 0 THEN 0 ELSE Takes(f[k - 1], k)]
  <2>1. ASSUME NEW k \in 0..n PROVE f[k] = IF k = 0 THEN 0 ELSE Takes(f[k - 1], k)
    <3>1. CASE k = 0
      BY <1>2, <3>1
    <3>2. CASE k # 0
      <4>1. k \in 1..n /\ k - 1 \in 0..n
        BY <1>1, <3>2
      <4> QED BY <1>3, <3>2, <4>1
    <3> QED BY <3>1, <3>2
  <2>2. f = [k \in 0..n |-> f[k]]
    OBVIOUS
  <2> HIDE DEF f
  <2> QED BY <2>1, <2>2
<1>5. SizedBy(f)
  <2> HIDE DEF f
  <2> QED BY <1>4 DEF SizedBy
<1>6. SizedBy(Sized)
  <2> HIDE DEF f
  <2> QED BY <1>5 DEF SizedBy, Sized, Takes
<1> DEFINE g == Sized
           S == {k \in 0..n : g[k] = at(k)}
<1>7. g = [k \in 0..n |-> IF k = 0 THEN 0 ELSE Takes(g[k - 1], k)]
  BY <1>6 DEF SizedBy
<1> HIDE DEF g
<1>8. 0 \in S
  BY <1>1, <1>2, <1>7
<1>9. ASSUME NEW k \in 0..n, k \in S, k < n PROVE k + 1 \in S
  <2>1. k + 1 \in 1..n /\ k + 1 \in 0..n /\ k + 1 # 0 /\ (k + 1) - 1 = k
    BY <1>1, <1>9
  <2>2. g[k + 1] = Takes(g[k], k + 1)
    BY <1>7, <2>1
  <2>3. at(k + 1) = Takes(at(k), k + 1)
    BY <1>3, <2>1
  <2> QED BY <1>9, <2>1, <2>2, <2>3
<1> HIDE DEF S
<1>10. 0..n \subseteq S
  BY <1>1, <1>8, <1>9, NatInduct
<1>11. g[n] = at(n)
  BY <1>1, <1>10 DEF S
<1> QED BY <1>11, HeadsAre DEF g, at

\* Where the reader looks for the records.
RecordBy(f) ==
    f = [k \in 1..TheEnd.count |->
           IF k = 1 THEN TheEnd.offset
           ELSE f[k - 1] + CentralLen + NameLen(out[f[k - 1] + 1].what.name)]

LEMMA RecordIs ==
    ASSUME Selected, ClosedInv, Len(files) < CountWrap
    PROVE  /\ TheEnd.count = Len(files)
           /\ TheEnd.offset = Len(Body(Len(files)))
           /\ TheEnd.length = Len(FlattenSeq(Heads))
           /\ \A k \in 1..Len(files) :
                /\ Record[k] = Len(Body(Len(files))) + Place(k) /\ Place(k) \in Nat
                /\ out[Record[k] + 1] = [at |-> 1, what |-> Listed(k)]
<1> DEFINE n == Len(files)
           b == Len(Body(n))
           d == Len(FlattenSeq(Heads))
           at(k) == b + Place(k)
           f == [k \in 1..n |-> at(k)]
<1>1. n \in Nat
  BY WholesAre
<1>2. TheEnd.count = n /\ TheEnd.offset = b /\ TheEnd.length = d
  <2>1. n % CountWrap = n
    BY <1>1, ArchiveAssumption
  <2> QED BY <2>1, EndIs DEF Closing
<1>3. b \in Nat /\ d \in Nat /\ \A x \in 1..d : out[b + x] = FlattenSeq(Heads)[x]
  BY OutIs
<1>4. ASSUME NEW k \in 1..n
      PROVE  /\ Place(k) \in Nat /\ at(k) \in Nat
             /\ out[at(k) + 1] = [at |-> 1, what |-> Listed(k)]
             /\ NameLen(out[at(k) + 1].what.name) = Long(k)
             /\ at(k + 1) = at(k) + CentralLen + Long(k)
  <2>1. /\ Place(k) \in Nat
        /\ Place(k + 1) = Place(k) + CentralLen + Long(k)
        /\ Place(k) + CentralLen + Long(k) <= d
        /\ FlattenSeq(Heads)[Place(k) + 1] = [at |-> 1, what |-> Listed(k)]
    BY HeadsAre
  <2>2. Long(k) \in Nat /\ CentralLen = 2
    BY LongIs DEF CentralLen
  <2> HIDE DEF b, d
  <2>3. Place(k) + 1 \in 1..d /\ at(k) + 1 = b + (Place(k) + 1)
    <3> DEFINE y == Place(k)
               l == Long(k)
               p == at(k)
    <3>1. y \in Nat /\ l \in Nat /\ b \in Nat /\ d \in Nat /\ y + CentralLen + l <= d
          /\ CentralLen = 2 /\ p = b + y
      BY <1>3, <2>1, <2>2
    <3> HIDE DEF y, l, p, at
    <3>2. y + 1 \in 1..d /\ p + 1 = b + (y + 1)
      BY <3>1
    <3> QED BY <3>2 DEF y, p
  <2>4. out[at(k) + 1] = [at |-> 1, what |-> Listed(k)]
    <3> DEFINE x == Place(k) + 1
    <3>1. out[at(k) + 1] = out[b + x]
      BY <2>3
    <3>2. FlattenSeq(Heads)[x] = [at |-> 1, what |-> Listed(k)]
      BY <2>1
    <3>3. x \in 1..d
      BY <2>3
    <3> HIDE DEF x, at
    <3>4. out[b + x] = FlattenSeq(Heads)[x]
      BY <1>3, <3>3
    <3> QED BY <3>1, <3>2, <3>4
  <2>5. NameLen(out[at(k) + 1].what.name) = Long(k)
    BY <2>4 DEF Listed, Long
  <2>6. at(k) = b + Place(k) /\ at(k + 1) = b + Place(k + 1)
    OBVIOUS
  <2>7. at(k) \in Nat /\ at(k + 1) = at(k) + CentralLen + Long(k)
    <3> DEFINE y == Place(k)
               z == Place(k + 1)
               l == Long(k)
               p == at(k)
               q == at(k + 1)
    <3>1. b \in Nat /\ y \in Nat /\ l \in Nat /\ CentralLen \in Nat
      BY <1>3, <2>1, <2>2
    <3>2. z = y + CentralLen + l
      BY <2>1
    <3>3. p = b + y /\ q = b + z
      BY <2>6
    <3> HIDE DEF y, z, l, p, q, at
    <3>4. p \in Nat /\ q = p + CentralLen + l
      BY <3>1, <3>2, <3>3
    <3> QED BY <3>4 DEF l, p, q
  <2> QED BY <2>1, <2>4, <2>5, <2>7
<1>5. at(1) = b
  <2>1. Place(1) = 0
    BY HeadsAre
  <2> HIDE DEF b
  <2> QED BY <1>3, <2>1
<1> HIDE DEF at, b, d
<1> DEFINE next(p) == p + CentralLen + NameLen(out[p + 1].what.name)
<1>6. ASSUME NEW k \in 1..n, k # 1 PROVE k - 1 \in 1..n /\ at(k) = next(at(k - 1))
  <2>1. k - 1 \in 1..n /\ (k - 1) + 1 = k
    BY <1>1, <1>6
  <2> QED BY <1>4, <2>1
<1> HIDE DEF next
<1>7. RecordBy(f)
  <2>1. ASSUME NEW k \in 1..n PROVE f[k] = IF k = 1 THEN b ELSE next(f[k - 1])
    <3>1. CASE k = 1
      BY <1>5, <3>1
    <3>2. CASE k # 1
      BY <1>6, <3>2
    <3> QED BY <3>1, <3>2
  <2>2. f = [k \in 1..n |-> f[k]]
    OBVIOUS
  <2> HIDE DEF f
  <2>3. f = [k \in 1..n |-> IF k = 1 THEN b ELSE next(f[k - 1])]
    BY <2>1, <2>2
  <2> QED BY <1>2, <2>3 DEF RecordBy, next
<1>8. RecordBy(Record)
  <2> HIDE DEF f
  <2> QED BY <1>7 DEF RecordBy, Record
<1> DEFINE g == Record
           S == {k \in 0..n : k \in 1..n => g[k] = at(k)}
<1>9. g = [k \in 1..n |-> IF k = 1 THEN b ELSE next(g[k - 1])]
  BY <1>2, <1>8 DEF RecordBy, next
<1> HIDE DEF g
<1>10. 0 \in S
  BY <1>1
<1>11. ASSUME NEW k \in 0..n, k \in S, k < n PROVE k + 1 \in S
  <2>1. k + 1 \in 1..n /\ k + 1 \in 0..n /\ (k + 1) - 1 = k
    BY <1>1, <1>11
  <2>2. g[k + 1] = IF k + 1 = 1 THEN b ELSE next(g[k])
    BY <1>9, <2>1
  <2>3. CASE k = 0
    BY <1>5, <2>1, <2>2, <2>3
  <2>4. CASE k # 0
    <3>1. k \in 1..n /\ k + 1 # 1
      BY <1>1, <2>4
    <3>2. g[k] = at(k) /\ at(k + 1) = next(at(k))
      BY <1>6, <1>11, <2>1, <3>1
    <3> QED BY <2>1, <2>2, <3>1, <3>2
  <2> QED BY <2>3, <2>4
<1> HIDE DEF S
<1>12. 0..n \subseteq S
  BY <1>1, <1>10, <1>11, NatInduct
<1>13. \A k \in 1..n : g[k] = at(k)
  BY <1>1, <1>12 DEF S
<1>14. \A k \in 1..n : g[k] = b + Place(k)
  BY <1>13 DEF at
<1>15. \A k \in 1..n : out[g[k] + 1] = [at |-> 1, what |-> Listed(k)]
  BY <1>4, <1>13
<1> QED BY <1>2, <1>4, <1>14, <1>15 DEF g, b, d

\* The reader gives up on an archive of too many files, and on no other.
LEMMA ReadableIs ==
    ASSUME Selected, ClosedInv, Len(files) < CountWrap
    PROVE  Unreadable <=> Len(files) > MaxEntries
<1> DEFINE n == Len(files)
           b == Len(Body(n))
           d == Len(FlattenSeq(Heads))
<1>1. n \in Nat /\ n >= 2 /\ MaxEntries \in Nat /\ CountWrap \in Nat /\ n < CountWrap
      /\ MaxEntries + 1 < CountWrap
  BY ArchiveAssumption DEF Selected
<1>2. TheEnd.count = n /\ TheEnd.offset = b /\ TheEnd.length = d /\ EndsFound # {}
  BY RecordIs, EndIs
<1>3. b \in Nat /\ d \in Nat /\ Len(out) = b + d + EndLen
  BY OutIs
<1>4. b + d <= Len(out)
  <2> HIDE DEF b, d
  <2> QED BY <1>3 DEF EndLen
<1>5. ASSUME NEW k \in 1..n
      PROVE  Record[k] + CentralLen <= b + d /\ Is(Record[k], "central")
  <2>1. /\ Record[k] = b + Place(k) /\ Place(k) \in Nat
        /\ out[Record[k] + 1] = [at |-> 1, what |-> Listed(k)]
    BY RecordIs
  <2>2. Place(k) + CentralLen + Long(k) <= d
    BY HeadsAre
  <2>3. Long(k) \in Nat /\ CentralLen \in Nat
    BY LongIs DEF CentralLen
  <2>4. Is(Record[k], "central")
    BY <2>1 DEF Is, Listed
  <2> HIDE DEF b, d
  <2> DEFINE y == Place(k)
             l == Long(k)
             r == Record[k]
  <2>5. r = b + y /\ y \in Nat /\ l \in Nat /\ CentralLen \in Nat /\ y + CentralLen + l <= d
        /\ b \in Nat /\ d \in Nat
    BY <1>3, <2>1, <2>2, <2>3
  <2> HIDE DEF y, l, r
  <2>6. r + CentralLen <= b + d
    BY <2>5
  <2> QED BY <2>4, <2>6 DEF r
<1>6. \A k \in 1..n : /\ ~(Record[k] + CentralLen > b + d)
                      /\ Is(Record[k], "central")
  <2>1. ASSUME NEW k \in 1..n PROVE ~(Record[k] + CentralLen > b + d)
    <3> DEFINE r == Record[k]
    <3>1. r + CentralLen <= b + d /\ r \in Nat /\ b + d \in Nat
      <4>1. Record[k] = b + Place(k) /\ Place(k) \in Nat
        BY RecordIs
      <4>2. r \in Nat
        BY <1>3, <4>1
      <4> QED BY <1>3, <1>5, <4>2
    <3> HIDE DEF r, b, d
    <3>2. ~(r + CentralLen > b + d)
      BY <3>1 DEF CentralLen
    <3> QED BY <3>2 DEF r
  <2> QED BY <1>5, <2>1
<1>7. n # 0
  BY <1>1
<1>8. CASE n > MaxEntries
  BY <1>2, <1>8 DEF Unreadable
<1>9. CASE ~(n > MaxEntries)
  <2>1. n # CountWrap - 1
    BY <1>1, <1>9
  <2>2. ~(b + d > Len(out))
    BY <1>3, <1>4
  <2> HIDE DEF n, b, d
  <2>3. ~Unreadable
    BY <1>2, <1>6, <1>7, <1>9, <2>1, <2>2 DEF Unreadable
  <2> QED BY <1>9, <2>3 DEF n
<1> QED BY <1>8, <1>9

\* What is cut out for the i-th file is what it held when it was chosen.
LEMMA CutIs ==
    ASSUME Selected, ClosedInv, NEW i \in 1..Len(files)
    PROVE  LET e == Listed(i)
           IN  Is(e.offset, "local") /\ Extracted(e) = Contents(i, files[i].size)
<1> DEFINE n == Len(files)
           b == Len(Body(n))
           o == Len(Body(i - 1))
           z == files[i].size
           l == Long(i)
           c == Contents(i, z)
           e == Listed(i)
<1>1. e.offset = o /\ e.size = z
  BY DEF Listed
<1>2. /\ o \in Nat /\ b \in Nat
      /\ o + LocalLen + l + z <= b
      /\ Body(n)[o + 1] = [at |-> 1, what |-> [kind |-> "local", nameLen |-> l]]
      /\ \A x \in 1..z : Body(n)[o + LocalLen + l + x] = c[x]
  BY EntryAt
<1>3. /\ out \in Seq(Byte) /\ Len(out) \in Nat /\ b <= Len(out)
      /\ \A x \in 1..b : out[x] = Body(n)[x]
  <2>1. /\ out \in Seq(Byte) /\ Len(out) = b + Len(FlattenSeq(Heads)) + EndLen
        /\ Len(FlattenSeq(Heads)) \in Nat
        /\ \A x \in 1..b : out[x] = Body(n)[x]
    BY OutIs
  <2> HIDE DEF b
  <2>2. Len(out) \in Nat /\ b <= Len(out)
    BY <1>2, <2>1 DEF EndLen
  <2> QED BY <2>1, <2>2
<1>4. l \in Nat /\ z \in Nat /\ i \in Nat
  BY LongIs
<1>5. c \in Seq(Byte) /\ Len(c) = z
  BY <1>4, ContentsIs
<1> HIDE DEF n, b, o, z, l, c, e
<1> DEFINE p == o + LocalLen + l
<1>6. p \in Nat /\ p + z <= b /\ o + 1 \in 1..b
  BY <1>2, <1>4 DEF LocalLen
<1>7. out[o + 1] = [at |-> 1, what |-> [kind |-> "local", nameLen |-> l]]
  BY <1>2, <1>3, <1>6
<1>8. Is(e.offset, "local")
  BY <1>1, <1>7 DEF Is
<1>9. \A x \in 1..z : out[p + x] = c[x]
  <2>1. \A x \in 1..z : p + x \in 1..b
    BY <1>2, <1>4, <1>6
  <2> QED BY <1>2, <1>3, <2>1
<1>10. Extracted(e) = SubSeq(out, p + 1, p + z)
  <2>1. out[e.offset + 1].what.nameLen = l
    <3>1. out[o + 1].what = [kind |-> "local", nameLen |-> l]
      BY <1>7
    <3> QED BY <1>1, <3>1
  <2>2. Extracted(e) = Slice(e.offset + LocalLen + out[e.offset + 1].what.nameLen, e.size)
    BY DEF Extracted
  <2>3. Extracted(e) = Slice(p, z)
    BY <1>1, <2>1, <2>2
  <2> QED BY <2>3 DEF Slice
<1> HIDE DEF p
<1> DEFINE s == SubSeq(out, p + 1, p + z)
<1>11. /\ s \in Seq(Byte) /\ Len(s) = z
       /\ \A x \in 1..z : s[x] = out[p + x]
  <2>1. p + 1 \in 1..Len(out) + 1 /\ p + z \in p + 1 - 1..Len(out)
    BY <1>2, <1>3, <1>4, <1>6
  <2> QED BY <1>3, <1>4, <1>6, <2>1, SubSeqProperties
<1> HIDE DEF s
<1>12. s = c
  BY <1>5, <1>9, <1>11, SeqEqual
<1> QED BY <1>8, <1>10, <1>12 DEF e, s, c, z

LEMMA WholeInv == ArchiveInv => ArchiveWhole
<1> SUFFICES ASSUME ArchiveInv, stream = "closed" PROVE ArchiveWhole
  BY DEF ArchiveWhole
<1>1. Selected /\ ClosedInv
  BY DEF ArchiveInv
<1> DEFINE n == Len(files)
<1>2. n \in Nat /\ DOMAIN files = 1..n /\ MaxEntries \in Nat /\ CountWrap \in Nat
      /\ MaxEntries < CountWrap
  BY <1>1, ArchiveAssumption DEF Selected
<1>3. Len(out) = ZipSize
  <2>1. Len(out) = Len(Body(n)) + Len(FlattenSeq(Heads)) + EndLen
    BY <1>1, OutIs
  <2>2. Sized[n] = Len(Body(n)) + Len(FlattenSeq(Heads))
    BY <1>1, SizedIs
  <2> QED BY <2>1, <2>2 DEF ZipSize
<1>4. n < CountWrap => (Unreadable <=> n > MaxEntries)
  BY <1>1, ReadableIs
<1>5. ASSUME n <= MaxEntries
      PROVE  /\ Len(ZipIndex) = n
             /\ \A i \in DOMAIN files :
                  /\ ZipIndex[i].name = UniqueName(i)
                  /\ Is(ZipIndex[i].offset, "local")
                  /\ Extracted(ZipIndex[i]) = Contents(i, files[i].size)
  <2>1. n < CountWrap
    BY <1>2, <1>5
  <2>2. /\ TheEnd.count = n
        /\ \A k \in 1..n : out[Record[k] + 1] = [at |-> 1, what |-> Listed(k)]
    BY <1>1, <2>1, RecordIs
  <2>3. ZipIndex = [k \in 1..n |-> out[Record[k] + 1].what]
    BY <2>2 DEF ZipIndex
  <2>4. Len(ZipIndex) = n
    <3> DEFINE S == {out[Record[k] + 1].what : k \in 1..n}
    <3>1. ZipIndex \in [1..n -> S]
      BY <2>3
    <3> HIDE DEF S, n
    <3> QED BY <1>2, <3>1, MappingIsASeq
  <2>5. ASSUME NEW i \in 1..n
        PROVE  /\ ZipIndex[i].name = UniqueName(i)
               /\ Is(ZipIndex[i].offset, "local")
               /\ Extracted(ZipIndex[i]) = Contents(i, files[i].size)
    <3>1. ZipIndex[i] = Listed(i)
      <4> DEFINE r == [at |-> 1, what |-> Listed(i)]
      <4>1. out[Record[i] + 1] = r /\ r.what = Listed(i)
        BY <2>2
      <4> HIDE DEF r
      <4>2. ZipIndex[i] = out[Record[i] + 1].what
        BY <2>3
      <4> QED BY <4>1, <4>2
    <3>2. Is(Listed(i).offset, "local") /\ Extracted(Listed(i)) = Contents(i, files[i].size)
      BY <1>1, CutIs
    <3>3. Listed(i).name = UniqueName(i)
      BY DEF Listed
    <3> QED BY <3>1, <3>2, <3>3
  <2> QED BY <1>2, <2>4, <2>5
<1> QED BY <1>3, <1>4, <1>5 DEF ArchiveWhole

\* A finished archive has the length declared before a byte was read, lists
\* every file, and gives each back as it was read, whatever a file holds and
\* whenever one of them is written to: hence as it was chosen, unless it was
\* written anew in the same length (zipSize, zipStream, readZipIndex,
\* extractEntry).
THEOREM ArchivesAreWhole == Spec => []ArchiveWhole
<1> QED BY ArchiveInit, ArchiveStep, WholeInv, PTL DEF Spec

=============================================================================
